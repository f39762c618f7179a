---------------------------- MODULE MCHashContext ----------------------------
(***************************************************************************)
(* Instances of HashContext.  The messages consist of the two bytes that   *)
(* the padding consists of.                                                *)
(***************************************************************************)
EXTENDS HashContext

MCByte == {Pad80, Zero}
=============================================================================
