--------------------------- MODULE MCStateMachine ---------------------------
(***************************************************************************)
(* Small machines.  The tree has two roots and a branch two levels deep, so *)
(* that moves turn around at no ancestor, at a parent and at the state's   *)
(* own parent.                                                             *)
(***************************************************************************)
EXTENDS StateMachine, TLC

CONSTANTS top, stage, one, two, failed, go, oops

Tree == stage :> top @@ one :> stage @@ two :> stage @@ top :> NoState
        @@ failed :> NoState

SmallTree == top :> NoState @@ one :> top @@ failed :> NoState

\* The stages take "go" and the failed state takes "oops"; "oops" is left
\* unhandled by the rest.
TreeAccepts == [s \in State |-> IF s = failed THEN {oops} ELSE {go}]
TreeEmits == [s \in State |-> {go}]
NoneIgnored == [s \in State |-> {}]
AllIgnored == [s \in State |-> Msg]
=============================================================================
