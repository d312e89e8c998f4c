----------------------------- MODULE MCWebJobs -----------------------------
(***************************************************************************)
(* Two workspaces that want the same disk.  The first has a plan that      *)
(* cleans up and signs with an account key, and one that monitors its      *)
(* network; the second has a plan that keeps its nodes.                    *)
(***************************************************************************)
EXTENDS WebJobs, TLC

CONSTANTS tidy, watch, other, w1, w2, disk, bin, log, ann, ssh, acct

Spaces == [p \in PlanId |-> IF p = other THEN w2 ELSE w1]
ClaimsBin == [p \in PlanId |-> CASE p = tidy -> {disk} [] p = watch -> {log}
                                [] OTHER -> {disk, bin}]
ClaimsDisk == [p \in PlanId |-> IF p = watch THEN {log} ELSE {disk}]
Owners == [p \in PlanId |-> ann]
Logins == [p \in PlanId |-> IF p = watch THEN {ssh} ELSE {}]
Keys == [p \in PlanId |-> IF p = tidy THEN {acct} ELSE {}]
None == [p \in PlanId |-> {}]
Retentions == [p \in PlanId |-> IF p = tidy THEN "cleanup" ELSE "retain"]

Alike == Permutations(Request) \cup Permutations(Key)
=============================================================================
