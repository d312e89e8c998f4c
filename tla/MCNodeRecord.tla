---------------------------- MODULE MCNodeRecord ----------------------------
(* A small workspace for TLC. *)
EXTENDS NodeRecord, TLC

CONSTANTS n1, n2, b1, b2, c1, c2

MCNames == (b1 :> "old" @@ b2 :> "old")
MCRenamed == (b1 :> "old" @@ b2 :> "new")
=============================================================================
