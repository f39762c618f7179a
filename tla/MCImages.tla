------------------------------ MODULE MCImages ------------------------------
(***************************************************************************)
(* Small images for TLC.  A descriptor has the type, the volume size and   *)
(* the application data, of a few cells.  The configurations say how many, *)
(* how many fragments there are and of how many characters each; one       *)
(* sector is system area, and one at the end is skipped.                   *)
(***************************************************************************)
EXTENDS Certificate, TLC

MCCell == Any

\* A descriptor sector of the type, for a volume of n sectors.
Descriptor(type, n) ==
  [i \in 1 .. SECTOR_SIZE |->
     IF i = 1 THEN <<"type", type>>
     ELSE IF i = SIZE_OFFSET + 1 THEN <<"size", n>>
     ELSE IF i \in (APPDATA_OFFSET + 1) .. (APPDATA_OFFSET + APPDATA_SIZE) THEN Space
     ELSE <<"reserved">>]

\* An image whose descriptors have the types, that states a volume of n
\* sectors and has length cells.  Its content differs from cell to cell.
MCImage(types, n, length) ==
  [i \in 1 .. length |->
     LET k == (i - 1) \div SECTOR_SIZE - NUM_SYSTEM_SECTORS
     IN  IF k \in 0 .. (Len(types) - 1)
         THEN Descriptor(types[k + 1], n)[((i - 1) % SECTOR_SIZE) + 1]
         ELSE <<"data", i>>]

\* An image of n sectors, as mkisofs leaves it.
Blank(n) == MCImage(<<"PRIMARY", "SET_TERMINATOR">>, n, n * SECTOR_SIZE)

\* On a device without faults, and on one that has some (see Implant).
Medium(image, unreadable) ==
  [image |-> image, unreadable |-> unreadable, faults |-> {}]

FaultyMedium(image, unreadable, faults) ==
  [Medium(image, unreadable) EXCEPT !.faults = faults]

\* A certificate without fragments.
WithoutFragments(n) ==
  WriteAt(Blank(n), AppDataStart(Blank(n)),
          << <<"FRAGMENT COUNT", 0>>,
             <<"ISO SHA256SUM", HashSum(Blank(n), HashedSize(Blank(n)), "SHA256")>>,
             <<"SKIPSECTORS", SKIPSECTORS>> >>)
=============================================================================
