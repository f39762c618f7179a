----------------------------- MODULE MCImplant -----------------------------
(***************************************************************************)
(* Instances of Implant.                                                   *)
(***************************************************************************)
EXTENDS Implant, MCImages

MCRequests == [alg : Algorithms, forceit : BOOLEAN, supported : {0, 1}]

\* Volumes of all sizes, from less than is skipped to one of wide fragments,
\* blank, implanted by either tool, or with other application data; without
\* a primary descriptor, and of size 0; readable in part; and cut.
Volumes ==
  {Medium(Blank(n), {}) : n \in {3, 4, 5, 7, 10}}
    \cup {Medium(Implanted(Blank(7), alg, 0), {}) : alg \in Algorithms}
    \cup {Medium(MCImage(<<"PRIMARY">>, n, 27), {}) : n \in {0, 1}}
    \cup {Medium(Damaged(Blank(5), at), {}) : at \in {11, 17}}
    \cup {Medium(MCImage(<<"SET_TERMINATOR", "PRIMARY">>, 4, 36), {})}
    \cup {Medium(Blank(7), {at}) : at \in {9, 11, 30}}
    \cup {Medium(Implanted(Blank(7), "MD5", 0), {36}), Medium(SubSeq(Blank(7), 1, 40), {}),
          Medium(SubSeq(Blank(5), 1, 11), {}), Medium(Damaged(Blank(4), 15), {13})}

\* All of them on devices whose writes fail or stop early; small ones, blank
\* and in use, also on a device that returns less than was asked for.
MCMedia ==
  {[m EXCEPT !.faults = f] : m \in Volumes, f \in SUBSET {"short write", "write error"}}
    \cup {FaultyMedium(Blank(3), {}, {"short read", "write error"}),
          FaultyMedium(Damaged(Blank(3), 15), {}, {"short read"})}

\* They are as the theorems about Implant require.
ASSUME MediaAreWellPlaced == \A m \in MCMedia : WellPlaced(m.image)

\* A boot record precedes the primary descriptor, and the volume ends after
\* the place where the code takes the descriptor to be.
MCBigBootMedia == {Medium(MCImage(<<"BOOT_RECORD", "PRIMARY", "SET_TERMINATOR">>, 11, 99), {})}
=============================================================================
