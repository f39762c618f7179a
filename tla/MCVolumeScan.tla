---------------------------- MODULE MCVolumeScan ----------------------------
(***************************************************************************)
(* The instance of VolumeScan whose search does not end.  Those whose does *)
(* are in MCParsePvd.                                                      *)
(***************************************************************************)
EXTENDS VolumeScan, MCImages

\* A file that is no image: it ends in the system area.
MCNoImage == {Medium([i \in 1 .. 7 |-> <<"data", i>>], {})}
=============================================================================
