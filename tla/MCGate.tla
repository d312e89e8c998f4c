------------------------------ MODULE MCGate ------------------------------
(***************************************************************************)
(* The readiness gate for TLC: a network that parks before its handover    *)
(* and one handed over, the last node staying on the pre-fork build; all   *)
(* of it launched, or none of it running any more.                         *)
(***************************************************************************)
EXTENDS Gate

Fork(h, pre, r, over) == [at |-> h, preFork |-> pre, restart |-> r, handedOver |-> over]

MCForks == { Fork(2, {Count}, "no", "no"), Fork(2, {Count}, "no", "yes") }

MCStarts == { [n \in 1..Count |-> p] : p \in {"booting", "none"} }
===========================================================================
