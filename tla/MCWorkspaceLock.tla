--------------------------- MODULE MCWorkspaceLock ---------------------------
(* Three processes: two share a host, the third has the pid of one of them on *)
(* another host.                                                              *)
EXTENDS WorkspaceLock, TLC

CONSTANTS a1, a2, b1

MCHostOf == a1 :> "A" @@ a2 :> "A" @@ b1 :> "B"
MCPidOf == a1 :> 1 @@ a2 :> 2 @@ b1 :> 1
=============================================================================
