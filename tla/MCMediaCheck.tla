---------------------------- MODULE MCMediaCheck ----------------------------
(***************************************************************************)
(* Instances of MediaCheck.                                                *)
(***************************************************************************)
EXTENDS MediaCheck, MCImages

Image == Implanted(Blank(7), "MD5", 0)

\* Implanted before there were fragment sums.
Legacy ==
  WriteAt(Blank(7), AppDataStart(Blank(7)),
          << <<"ISO MD5SUM", HashSum(Blank(7), HashedSize(Blank(7)), "MD5")>>, <<"SKIPSECTORS", SKIPSECTORS>> >>)

NoFragments == WithoutFragments(7)

\* Media on which any read pattern is explored: volumes of seven sectors with
\* fragment sums, without, and with sums that were never stored; short ones
\* whole, cut in the last sector, and damaged there; and one without a
\* certificate.
MCReadMedia ==
  {Medium(Image, {}), Medium(NoFragments, {30, 31}), Medium(SubSeq(Legacy, 1, 40), {}),
   Medium(Blank(4), {}), Medium(WithoutFragments(4), {}), Medium(SubSeq(WithoutFragments(4), 1, 25), {20, 23}),
   Medium(Damaged(WithoutFragments(4), 22), {})}

\* A volume of four sectors has fragments shorter than a read.
MCSmallMedia == {Medium(Implanted(Blank(4), "MD5", 0), {})}
=============================================================================
