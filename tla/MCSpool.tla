------------------------------- MODULE MCSpool -------------------------------
(***************************************************************************)
(* Instances of Spool for TLC.                                             *)
(***************************************************************************)
EXTENDS Spool, TLC

CONSTANTS r1, r2, r3

\* Any two reports fit in three bytes, all three do not.
Sizes == (r1 :> 1 @@ r2 :> 2 @@ r3 :> 1)
=============================================================================
