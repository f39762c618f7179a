----------------------------- MODULE MCCheckTool -----------------------------
(***************************************************************************)
(* Instances of CheckTool.                                                 *)
(***************************************************************************)
EXTENDS CheckTool, MCImages

\* A command line with the options.
Ask(set) ==
  [o \in {"bad", "help", "md5sumonly", "verbose", "gauge"} |-> o \in set]

MCOptions ==
  {Ask(set) : set \in {{"bad"}, {"help"}, {"md5sumonly"}, {"gauge"}, {"verbose"}}}

Image == Implanted(Blank(7), "SHA256", 0)

\* Where the medium may be damaged: before, in and after the descriptor, at
\* both sides of fragment ends, at the end of the volume and in the sector
\* that is skipped.
DamagedAt == {0, 8, 11, 15, 16, 23, 24, 31, 32, 39, 40, 47, 48}

\* Volumes whose fragments are at least as wide as a read: undamaged and
\* damaged, cut, with cells that cannot be read, without fragment sums, without
\* a certificate; and two that are as short as what is skipped, or shorter.
MCMedia ==
  {Medium(Implanted(Blank(n), alg, 1), {}) : n \in {5, 7}, alg \in Algorithms}
    \cup {Medium(Damaged(Image, at), {}) : at \in DamagedAt}
    \cup {Medium(Image, {20}), Medium(Image, {41}), Medium(SubSeq(Image, 1, 37), {}),
          Medium(WithoutFragments(5), {}), Medium(Blank(5), {})}
    \cup {Medium(Implanted(MCImage(<<"PRIMARY">>, n, 24), "MD5", 0), {}) : n \in {0, 1}}

\* They are media that the theorems of MediaCheckProofs and CheckToolProofs
\* are about.
ASSUME CertificatesAreRegular ==
  /\ FRAGMENT_SUM_SIZE \div FRAGMENT_COUNT <= 16
  /\ \A m \in Media :
       HasVolumeInfo(m.image, m.unreadable) =>
         /\ StandardCertificate(m.image)
         /\ SumsAreWhole(m.image, m.unreadable)
         /\ SumsAgree(m.image, m.unreadable)
         /\ VolumeInfo(m.image).skipsectors \in Nat
=============================================================================
