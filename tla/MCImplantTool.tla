---------------------------- MODULE MCImplantTool ----------------------------
(***************************************************************************)
(* Instances of ImplantTool.                                               *)
(***************************************************************************)
EXTENDS ImplantTool, MCImages

MCImageName == <<"text", "image">>

\* Every kind of argument that either parser tells from the others.
Arguments ==
  {MCImageName, <<"text", "">>, <<"long", "force">>, <<"long", "supported-iso">>,
   <<"long", "help">>, <<"long", "">>, <<"long", "bad">>, <<"short", <<>>>>,
   <<"short", <<"f">>>>, <<"short", <<"S">>>>, <<"short", <<"f", "S">>>>}

MCRequests == [alg : Algorithms, forceit : BOOLEAN, supported : {0, 1}]

MCCommandLines == UNION {[1 .. n -> Arguments] : n \in 0 .. 3}

\* A small volume, blank and implanted, on a device that may fail to write,
\* and one that ends where its application data should begin.
CutImage == SubSeq(Blank(3), 1, AppDataStart(Blank(3)))

MCMedia ==
  {FaultyMedium(Blank(3), {}, {"write error"}), Medium(Implanted(Blank(3), "MD5", 0), {}),
   Medium(CutImage, {})}

\* The theorems about the tools hold for these media.
ASSUME MediaAreRegular ==
  /\ DevicesAreWhole
  /\ \A m \in Media : WellPlaced(m.image)
=============================================================================
