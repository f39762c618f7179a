---------------------------- MODULE MCPyBinding ----------------------------
(***************************************************************************)
(* Instances of PyBinding.                                                 *)
(***************************************************************************)
EXTENDS PyBinding, MCImages

Image == Implanted(Blank(5), "MD5", 1)

\* What the callback is told of and may abort: checks of undamaged volumes,
\* with each algorithm, of volumes damaged in different fragments or in the
\* sector that is skipped, and of some that cannot be read to the end.  The
\* others end before the callback is called.
MCMedia ==
  {Medium(Implanted(Blank(n), alg, 1), {}) : n \in {5, 7}, alg \in Algorithms}
    \cup {Medium(Damaged(Image, at), {}) : at \in {0, 16, 24, 32}}
    \cup {Medium(Image, {26}), Medium(SubSeq(Image, 1, 28), {}),
          Medium(WithoutFragments(5), {}), Medium(Blank(5), {}),
          Medium(MCImage(<<"BOOT_RECORD", "SET_TERMINATOR">>, 4, 32), {})}
=============================================================================
