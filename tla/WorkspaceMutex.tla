--------------------------- MODULE WorkspaceMutex ---------------------------
(***************************************************************************)
(* What a workspace lock promises: at most one run holds the workspace, a  *)
(* run takes it only when nobody holds it, and only the holder gives it up *)
(* (by releasing it or by dying).  session/lock.go is shown to implement   *)
(* this in WorkspaceLock.                                                  *)
(***************************************************************************)
CONSTANTS Proc,   \* processes that may run a command on the workspace
          NoProc  \* nobody

VARIABLE holder   \* who holds the workspace

Init == holder = NoProc

\* A run takes a free workspace.
Take(p) == /\ holder = NoProc
           /\ holder' = p

\* The holder releases the workspace, or dies.
GiveUp(p) == /\ holder = p
             /\ holder' = NoProc

Next == \E p \in Proc : Take(p) \/ GiveUp(p)

Spec == Init /\ [][Next]_holder
=============================================================================
