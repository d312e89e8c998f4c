------------------------- MODULE ReadinessContract -------------------------
(***************************************************************************)
(* What the readiness gate promises the run that calls it, with nothing    *)
(* said about how it looks at the network.  While it works it may restart  *)
(* a node, each at most MaxRestarts times; it ends once; and it ends "ok"  *)
(* only when it holds evidence of every node in every aspect, gathered     *)
(* since it last disturbed one.  `fit' is the network's business: it may   *)
(* change at every step, so the evidence is of different moments.          *)
(*                                                                         *)
(* Gate.tla implements it.                                                 *)
(***************************************************************************)
EXTENDS Naturals

CONSTANTS Nodes, Aspects, MaxRestarts

VARIABLES
    fit,        \* the nodes and the aspects in which each is fit, now
    shown,      \* the nodes and aspects the gate has evidence of
    spent,      \* how often the gate has restarted each node
    outcome     \* "none" while it works; "ok", "terminate" or "error" after

Pairs == Nodes \X Aspects

vars == <<fit, shown, spent, outcome>>

Init ==
    /\ fit \in SUBSET Pairs
    /\ shown = {}
    /\ spent = [n \in Nodes |-> 0]
    /\ outcome = "none"

\* The network moves by itself.
Network ==
    /\ fit' \in SUBSET Pairs
    /\ UNCHANGED <<shown, spent, outcome>>

\* Evidence is of what is so at that moment.
See ==
    /\ outcome = "none"
    /\ shown \subseteq shown' /\ shown' \ shown \subseteq fit
    /\ UNCHANGED <<fit, spent, outcome>>

\* A round that starts again starts from no evidence.
Forget ==
    /\ outcome = "none"
    /\ shown' = {}
    /\ UNCHANGED <<fit, spent, outcome>>

\* Restarting a node needs the evidence dropped first.
Restart(n) ==
    /\ outcome = "none"
    /\ shown = {}
    /\ spent[n] < MaxRestarts
    /\ spent' = [spent EXCEPT ![n] = @ + 1]
    /\ fit' \in SUBSET Pairs
    /\ UNCHANGED <<shown, outcome>>

Finish ==
    /\ outcome = "none"
    /\ outcome' \in {"ok", "terminate", "error"}
    /\ outcome' = "ok" => shown = Pairs
    /\ shown' = IF outcome' = "ok" THEN shown ELSE {}
    /\ UNCHANGED <<fit, spent>>

Next == Network \/ See \/ Forget \/ (\E n \in Nodes : Restart(n)) \/ Finish

Spec == Init /\ [][Next]_vars
=============================================================================
