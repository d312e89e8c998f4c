------------------------------ MODULE WebJobs ------------------------------
(***************************************************************************)
(* The control service's jobs: internal/app/web_jobs.go, its execution,    *)
(* resource holds and reconciliation.  Requests, one executor per job,     *)
(* cancellations, revocations and reconciliations interleave wherever the  *)
(* code is outside s.mu; every action that holds s.mu is one step.         *)
(*                                                                         *)
(* commit writes the snapshot and then swaps the memory, so the two never  *)
(* differ and one copy stands for both; a failed write changes neither.    *)
(* Jobs are numbered in the order of their acceptance, which is the order  *)
(* the audit records.                                                      *)
(***************************************************************************)
EXTENDS Naturals, FiniteSets

CONSTANTS PlanId, NoPlan, \* the plans that may be made, and none
          Space,         \* workspaces
          Resource,      \* control directories, data paths and ports of a host
          Executable,    \* among them: the binaries that may be launched on it
          Actor,         \* accounts
          Credential,    \* private credentials
          Key, NoKey,    \* idempotency keys, and none
          Request,       \* concurrent Start calls
          PlanSpace, PlanClaims, PlanActor, PlanRetention,
          PlanCredentials,  \* a plan's CredentialBindings: how its machines are reached
          PlanAccounts,     \* its AccountBindings: the keys its test cases sign with
          Monitors,      \* the network.monitor plans: they read logs until cancelled
          Faults,        \* which of "write", "crash", "cancel", "revoke", "drift",
                         \* "expire" happen
          MaxJobs        \* bound: jobs accepted

\* Two plans of a workspace need not claim anything in common: a monitor claims a
\* directory of its own, and retains (prepareMonitor).
ASSUME PlanAssumption ==
  /\ PlanSpace \in [PlanId -> Space]
  /\ PlanClaims \in [PlanId -> SUBSET Resource]
  /\ PlanActor \in [PlanId -> Actor]
  /\ PlanCredentials \in [PlanId -> SUBSET Credential]
  /\ PlanAccounts \in [PlanId -> SUBSET Credential]
  /\ PlanRetention \in [PlanId -> {"retain", "cleanup"}]
  /\ Monitors \subseteq PlanId /\ \A p \in Monitors : PlanRetention[p] = "retain"

ASSUME JobAssumption ==
  /\ Executable \subseteq Resource
  /\ MaxJobs \in Nat
  /\ NoPlan \notin PlanId /\ NoKey \notin Key
  /\ Actor \cap Credential = {}

JobId == 1..MaxJobs
Holder == Actor \cup Credential
Terminal == {"succeeded", "failed", "cancelled", "interrupted"}
Revocations == {"account_revoked", "credential_revoked"}

VARIABLES planned,     \* state.Plans
          expired,     \* the plans whose ExpiresAt has passed
          accepted,    \* how many jobs there are
          plan, key, state, retention, disposition, unresolved, reason,  \* state.Jobs
          pc,          \* where the job's executor is; "dropped" and "refused": it has
                       \* returned without an end of the job
          ctx,         \* the executor's context: "live" or "cancelled"
          cleanupCtx,  \* the cleanup's context
          cancels,     \* which cancel function s.cancels holds for the job
          outcome, open, err,  \* the executor's result and error
          request,     \* the Start calls under way
          check,       \* what a Reconcile under way has seen
          valid,       \* the accounts and credentials that are not revoked
          revoking,    \* where the revocation of each is
          nodes        \* what the network of each workspace occupies, by its record

job == <<plan, key, retention>>
verdict == <<state, disposition, unresolved>>
exec == <<pc, ctx, cleanupCtx, cancels, outcome, open, err>>
plans == <<planned, expired>>
access == <<valid, revoking>>
vars == <<planned, expired, accepted, plan, key, state, retention, disposition,
          unresolved, reason, pc, ctx, cleanupCtx, cancels, outcome, open, err,
          request, check, valid, revoking, nodes>>

Idle == [at |-> "idle", plan |-> NoPlan, key |-> NoKey]

Init ==
  /\ planned = {} /\ expired = {} /\ accepted = 0
  /\ plan = [j \in JobId |-> NoPlan] /\ key = [j \in JobId |-> NoKey]
  /\ state = [j \in JobId |-> "none"] /\ retention = [j \in JobId |-> "retain"]
  /\ disposition = [j \in JobId |-> "unknown"] /\ unresolved = [j \in JobId |-> "no"]
  /\ reason = [j \in JobId |-> "none"]
  /\ pc = [j \in JobId |-> "none"]
  /\ ctx = [j \in JobId |-> "live"] /\ cleanupCtx = [j \in JobId |-> "live"]
  /\ cancels = [j \in JobId |-> "none"]
  /\ outcome = [j \in JobId |-> "none"] /\ open = [j \in JobId |-> "no"]
  /\ err = [j \in JobId |-> "no"]
  /\ request = [r \in Request |-> Idle]
  /\ check = [j \in JobId |-> "none"]
  /\ valid = Holder /\ revoking = [h \in Holder |-> "no"]
  /\ nodes = [w \in Space |-> {}]

Accepted == 1..accepted
Active(j) == j \in Accepted /\ state[j] \notin Terminal
SpaceOf(j) == PlanSpace[plan[j]]
Claims(j) == PlanClaims[plan[j]]
allowed(j) == PlanActor[plan[j]] \in valid

\* What a plan needs: its actor, the logins of its machines, the keys it signs with.
Bound(p) == {PlanActor[p]} \cup PlanCredentials[p] \cup PlanAccounts[p]

TypeOK ==
  /\ planned \subseteq PlanId /\ expired \subseteq PlanId /\ accepted \in 0..MaxJobs
  /\ plan \in [JobId -> PlanId \cup {NoPlan}] /\ key \in [JobId -> Key \cup {NoKey}]
  /\ \A j \in JobId : j \in Accepted <=> plan[j] \in PlanId
  /\ state \in [JobId -> {"none", "accepted", "running", "cancelling"} \cup Terminal]
  /\ retention \in [JobId -> {"retain", "cleanup"}]
  /\ disposition \in [JobId -> {"unknown", "retained", "cleaned", "cleanup_failed"}]
  /\ unresolved \in [JobId -> {"yes", "no"}]
  /\ reason \in [JobId -> {"none", "user"} \cup Revocations]
  /\ pc \in [JobId -> {"none", "check", "refuse", "begin", "launch", "executing",
                       "working", "decide", "clean", "cleaning", "finish",
                       "dropped", "refused"}]
  /\ ctx \in [JobId -> {"live", "cancelled"}]
  /\ cleanupCtx \in [JobId -> {"live", "cancelled"}]
  /\ cancels \in [JobId -> {"none", "job", "cleanup"}]
  /\ outcome \in [JobId -> {"none", "unknown", "retained", "cleaned", "cleanup_failed"}]
  /\ open \in [JobId -> {"yes", "no"}] /\ err \in [JobId -> {"yes", "no"}]
  /\ request \in [Request -> [at : {"idle", "inspect", "accept"},
                              plan : PlanId \cup {NoPlan}, key : Key \cup {NoKey}]]
  /\ check \in [JobId -> {"none", "absent", "present", "unverified"}]
  /\ valid \subseteq Holder
  /\ revoking \in [Holder -> {"no", "announced", "recorded", "done"}]
  /\ nodes \in [Space -> SUBSET Resource]

-----------------------------------------------------------------------------
(* Resource holds. *)

verifiedWebCleanup(j) ==
  /\ state[j] \in Terminal
  /\ disposition[j] = "cleaned"
  /\ unresolved[j] = "no"

\* A mutant: any cleanup of the workspace counts, not only a later one.
claimCleanedEver(j, r) ==
  \E k \in Accepted :
    /\ k # j /\ SpaceOf(k) = SpaceOf(j)
    /\ verifiedWebCleanup(k)
    /\ r \in Claims(k)

\* A later job of the same workspace cleaned what this one claimed.
claimCleaned(j, r) ==
  \E k \in Accepted :
    /\ k > j /\ SpaceOf(k) = SpaceOf(j)
    /\ verifiedWebCleanup(k)
    /\ r \in Claims(k)

\* A job under way holds its claims against everybody.  A finished one holds them
\* against other workspaces until a cleanup: its paths and ports until a later one
\* covers them, and the binaries its network's record still names as launched.
Holds(j, w, r) ==
  IF state[j] \notin Terminal
  THEN r \in Claims(j)
  ELSE /\ SpaceOf(j) # w /\ ~verifiedWebCleanup(j)
       /\ IF r \in Executable
          THEN Claims(j) \cap Executable # {} /\ r \in nodes[SpaceOf(j)]
          ELSE r \in Claims(j) /\ ~claimCleaned(j, r)

resourceConflicts(w, C) == {j \in Accepted : \E r \in C : Holds(j, w, r)}

-----------------------------------------------------------------------------
(* Plan, Replan, Start. *)

\* Plan, and Replan of a finished job: the engine prepares, then the plan is kept.
Plan(p) ==
  /\ p \notin planned /\ Bound(p) \subseteq valid
  /\ planned' = planned \cup {p}
  /\ UNCHANGED <<expired, accepted, job, verdict, reason, exec, request, check, access, nodes>>

\* Fifteen minutes pass.
Expire(p) ==
  /\ "expire" \in Faults /\ p \in planned \ expired
  /\ expired' = expired \cup {p}
  /\ UNCHANGED <<planned, accepted, job, verdict, reason, exec, request, check, access, nodes>>

\* A key belongs to its actor.
KeyUsed(p, k) ==
  \E j \in Accepted : key[j] = k /\ PlanActor[plan[j]] = PlanActor[p]

\* No replay, no conflict, and the plan is there and fresh.
acceptanceLocked(p, k) == ~KeyUsed(p, k) /\ p \in planned \ expired

\* The first look under the lock.  A replay or a refusal returns at once and
\* changes nothing.
Start(r, p, k) ==
  /\ request[r] = Idle
  /\ PlanActor[p] \in valid
  /\ acceptanceLocked(p, k)
  /\ request' = [request EXCEPT ![r] = [at |-> "inspect", plan |-> p, key |-> k]]
  /\ UNCHANGED <<plans, accepted, job, verdict, reason, exec, check, access, nodes>>

\* The targets are inspected without the lock; then the actor is checked again.
Inspect(r) ==
  /\ request[r].at = "inspect"
  /\ \/ /\ Bound(request[r].plan) \subseteq valid
        /\ request' = [request EXCEPT ![r].at = "accept"]
     \/ /\ "drift" \in Faults \/ ~(Bound(request[r].plan) \subseteq valid)
        /\ request' = [request EXCEPT ![r] = Idle]
  /\ UNCHANGED <<plans, accepted, job, verdict, reason, exec, check, access, nodes>>

\* Start gives up: a replay, a stale plan, resources in use, or a failed write.
StartReturns(r) ==
  LET p == request[r].plan IN
  /\ request[r].at = "accept"
  /\ \/ ~acceptanceLocked(p, request[r].key)
     \/ resourceConflicts(PlanSpace[p], PlanClaims[p]) # {}
     \/ "write" \in Faults
  /\ request' = [request EXCEPT ![r] = Idle]
  /\ UNCHANGED <<plans, accepted, job, verdict, reason, exec, check, access, nodes>>

\* The job is recorded with its key, and its executor starts.
NewJob(r) ==
  LET p == request[r].plan  j == accepted + 1 IN
  /\ accepted' = j
  /\ plan' = [plan EXCEPT ![j] = p]
  /\ key' = [key EXCEPT ![j] = request[r].key]
  /\ state' = [state EXCEPT ![j] = "accepted"]
  /\ retention' = [retention EXCEPT ![j] = PlanRetention[p]]
  /\ pc' = [pc EXCEPT ![j] = "check"]
  /\ cancels' = [cancels EXCEPT ![j] = "job"]
  /\ request' = [request EXCEPT ![r] = Idle]
  /\ UNCHANGED <<plans, disposition, unresolved, reason, ctx, cleanupCtx, outcome, open,
                 err, check, access, nodes>>

\* A mutant: only the first look asks for the key.
AcceptWithoutAsking(r) ==
  /\ request[r].at = "accept" /\ accepted < MaxJobs
  /\ request[r].plan \in planned \ expired
  /\ resourceConflicts(PlanSpace[request[r].plan], PlanClaims[request[r].plan]) = {}
  /\ NewJob(r)

\* A mutant: the exclusions are not asked for again.
AcceptUnchecked(r) ==
  /\ request[r].at = "accept" /\ accepted < MaxJobs
  /\ acceptanceLocked(request[r].plan, request[r].key)
  /\ NewJob(r)

\* The second look under the lock, the exclusions and the acceptance.
Accept(r) ==
  /\ request[r].at = "accept" /\ accepted < MaxJobs
  /\ acceptanceLocked(request[r].plan, request[r].key)
  /\ resourceConflicts(PlanSpace[request[r].plan], PlanClaims[request[r].plan]) = {}
  /\ NewJob(r)

-----------------------------------------------------------------------------
(* The executor of a job. *)

\* Where executor j goes next.
Goto(j, next) == pc' = [pc EXCEPT ![j] = next]

\* Executor j returns, and what it knew is gone.
Gone(j, at) ==
  /\ Goto(j, at)
  /\ outcome' = [outcome EXCEPT ![j] = "none"]
  /\ open' = [open EXCEPT ![j] = "no"]
  /\ err' = [err EXCEPT ![j] = "no"]
  /\ ctx' = [ctx EXCEPT ![j] = "live"]
  /\ cleanupCtx' = [cleanupCtx EXCEPT ![j] = "live"]

\* A commit of executor j fails: it returns, and the job stays as it is recorded.
GiveUp(j) ==
  /\ "write" \in Faults
  /\ pc[j] \in {"refuse", "begin", "finish"}
  /\ Gone(j, "dropped")
  /\ UNCHANGED <<plans, accepted, job, verdict, reason, cancels, request, check, access, nodes>>

\* revalidate looks at a plan again: its actor and, unless it is a monitor, the
\* machines its logins reach.  It does not look at the keys of its test cases.
Revalidated(p) ==
  PlanActor[p] \in valid /\ (p \in Monitors \/ PlanCredentials[p] \subseteq valid)

\* The plan is looked at again, unless the job is cancelled already.
Check(j) ==
  /\ pc[j] = "check"
  /\ \/ /\ ctx[j] = "cancelled" \/ Revalidated(plan[j])
        /\ Goto(j, "begin")
     \/ /\ ctx[j] = "live"
        /\ \/ "drift" \in Faults /\ plan[j] \notin Monitors
           \/ ~Revalidated(plan[j])
        /\ Goto(j, "refuse")
  /\ UNCHANGED <<plans, accepted, job, verdict, reason, ctx, cleanupCtx, cancels, outcome,
                 open, err, request, check, access, nodes>>

\* The cancel function of the job is called and forgotten; nobody is left to see it.
Forget(j) == cancels' = [cancels EXCEPT ![j] = "none"]

\* An accepted job ends as failed.  One that was cancelled meanwhile is left alone,
\* and its executor ends all the same.
refuseBeforeRunning(j) ==
  /\ pc[j] = "refuse"
  /\ IF state[j] = "accepted"
     THEN /\ state' = [state EXCEPT ![j] = "failed"]
          /\ disposition' = [disposition EXCEPT ![j] = "retained"]
     ELSE UNCHANGED <<state, disposition>>
  /\ Forget(j) /\ Gone(j, IF state[j] = "accepted" THEN "none" ELSE "refused")
  /\ UNCHANGED <<plans, accepted, job, unresolved, reason, request, check, access, nodes>>

\* A mutant: a job that is being cancelled is not taken any further.
BeginAccepted(j) ==
  /\ pc[j] = "begin"
  /\ state' = [state EXCEPT ![j] = IF @ = "accepted" THEN "running" ELSE @]
  /\ Goto(j, IF state[j] = "accepted" THEN "launch" ELSE "none")
  /\ UNCHANGED <<plans, accepted, job, disposition, unresolved, reason, ctx, cleanupCtx,
                 cancels, outcome, open, err, request, check, access, nodes>>

\* The job is recorded as running, unless it is being cancelled.
Begin(j) ==
  /\ pc[j] = "begin"
  /\ state' = [state EXCEPT ![j] = IF @ = "accepted" THEN "running" ELSE @]
  /\ Goto(j, "launch")
  /\ UNCHANGED <<plans, accepted, job, disposition, unresolved, reason, ctx, cleanupCtx,
                 cancels, outcome, open, err, request, check, access, nodes>>

\* A cancelled job, or one whose actor lost access, does no work.  (A job recorded
\* as cancelling has a cancelled context: cancelLocked does both.)
Launch(j) ==
  /\ pc[j] = "launch"
  /\ IF ctx[j] = "cancelled" \/ ~allowed(j)
     THEN err' = [err EXCEPT ![j] = "yes"] /\ Goto(j, "decide")
     ELSE Goto(j, "executing") /\ UNCHANGED err
  /\ UNCHANGED <<plans, accepted, job, verdict, reason, ctx, cleanupCtx, cancels, outcome,
                 open, request, check, access, nodes>>

\* Execute looks at the plan once more, reaches the machines with its logins (a monitor
\* too) and reads the keys of its test cases; without any of them it only returns.
Engage(j) ==
  /\ pc[j] = "executing" /\ Bound(plan[j]) \subseteq valid
  /\ Goto(j, "working")
  /\ UNCHANGED <<plans, accepted, job, verdict, reason, ctx, cleanupCtx, cancels, outcome,
                 open, err, request, check, access, nodes>>

\* The engine places a node somewhere in the job's claims, or removes one.  A monitor
\* changes nothing.
Work(j, r) ==
  /\ pc[j] = "working" /\ r \in Claims(j) /\ plan[j] \notin Monitors
  /\ \/ nodes' = [nodes EXCEPT ![SpaceOf(j)] = @ \cup {r}]
     \/ nodes' = [nodes EXCEPT ![SpaceOf(j)] = @ \ {r}]
  /\ UNCHANGED <<plans, accepted, job, verdict, reason, exec, request, check, access>>

\* Execute returns: done, or failed before or after it touched a target.  A monitor
\* ends with an error, its context's or a collection's.  What Execute reports as
\* unresolved counts only beside "cleaned", which it never says.
Executed(j, e, d) ==
  /\ pc[j] \in {"executing", "working"}
  /\ e = "no" => pc[j] = "working" /\ plan[j] \notin Monitors
  /\ pc[j] = "working" /\ plan[j] \in Monitors => d = "retained"
  /\ err' = [err EXCEPT ![j] = e]
  /\ outcome' = [outcome EXCEPT ![j] = d]
  /\ Goto(j, "decide")
  /\ UNCHANGED <<plans, accepted, job, verdict, reason, ctx, cleanupCtx, cancels, open,
                 request, check, access, nodes>>

\* A mutant: the cancel function of the cleanup is not registered.
DecideUnregistered(j) ==
  /\ pc[j] = "decide"
  /\ Goto(j, IF retention[j] = "cleanup" /\ reason[j] \in {"none", "user"}
             THEN "clean" ELSE "finish")
  /\ UNCHANGED <<plans, accepted, job, verdict, reason, ctx, cleanupCtx, cancels, outcome,
                 open, err, request, check, access, nodes>>

\* Clean only when that was asked for and nothing was revoked; from here on a
\* cancellation is for the cleanup.
Decide(j) ==
  /\ pc[j] = "decide"
  /\ IF retention[j] = "cleanup" /\ reason[j] \in {"none", "user"}
     THEN /\ ctx' = [ctx EXCEPT ![j] = "cancelled"]
          /\ cancels' = [cancels EXCEPT ![j] = "cleanup"]
          /\ Goto(j, "clean")
     ELSE Goto(j, "finish") /\ UNCHANGED <<ctx, cancels>>
  /\ UNCHANGED <<plans, accepted, job, verdict, reason, cleanupCtx, outcome, open, err,
                 request, check, access, nodes>>

\* Cleanup returned an error.
CleanupFails(j) ==
  /\ outcome' = [outcome EXCEPT ![j] = "cleanup_failed"]
  /\ err' = [err EXCEPT ![j] = "yes"]
  /\ Goto(j, "finish")

\* Cleanup is called, by an actor who still has access; a cancelled one fails at once.
Clean(j) ==
  /\ pc[j] = "clean"
  /\ IF ~allowed(j)
     THEN Goto(j, "finish") /\ UNCHANGED <<outcome, err>>
     ELSE IF cleanupCtx[j] = "cancelled"
          THEN CleanupFails(j)
          ELSE Goto(j, "cleaning") /\ UNCHANGED <<outcome, err>>
  /\ UNCHANGED <<plans, accepted, job, verdict, reason, ctx, cleanupCtx, cancels, open,
                 request, check, access, nodes>>

\* Cleanup returns with an error, or without one and then names what it left of the
\* workspace's network.
Cleaned(j, left) ==
  /\ pc[j] = "cleaning" /\ left \subseteq nodes[SpaceOf(j)]
  /\ nodes' = [nodes EXCEPT ![SpaceOf(j)] = left]
  /\ \/ /\ outcome' = [outcome EXCEPT ![j] = "cleaned"]
        /\ open' = [open EXCEPT ![j] = IF left = {} THEN "no" ELSE "yes"]
        /\ Goto(j, "finish") /\ UNCHANGED err
     \/ CleanupFails(j) /\ UNCHANGED open
  /\ UNCHANGED <<plans, accepted, job, verdict, reason, ctx, cleanupCtx, cancels, request,
                 check, access>>

\* The state a job ends in: cancelled once it was cancelled, unless its cleanup failed.
Ending(j) ==
  IF reason[j] # "none"
  THEN IF outcome[j] = "cleanup_failed" THEN "failed" ELSE "cancelled"
  ELSE IF err[j] = "yes" THEN "failed" ELSE "succeeded"

\* What it says of its nodes: revocation keeps them, silence is "unknown".
Left(j) ==
  IF outcome[j] # "none" THEN outcome[j]
  ELSE IF reason[j] \in Revocations THEN "retained" ELSE "unknown"

Finish(j) ==
  /\ pc[j] = "finish"
  /\ state' = [state EXCEPT ![j] = Ending(j)]
  /\ disposition' = [disposition EXCEPT ![j] = Left(j)]
  /\ unresolved' = [unresolved EXCEPT ![j] = IF @ = "yes" THEN "yes" ELSE open[j]]
  /\ Forget(j) /\ Gone(j, "none")
  /\ UNCHANGED <<plans, accepted, job, reason, request, check, access, nodes>>

-----------------------------------------------------------------------------
(* Cancellation and revocation. *)

\* cancelLocked on every job of J: an ordinary cancellation never downgrades an
\* earlier revocation, and a revocation keeps the nodes.
cancelLocked(J, why) ==
  /\ state' = [j \in JobId |-> IF j \in J THEN "cancelling" ELSE state[j]]
  /\ reason' = [j \in JobId |-> IF j \in J /\ (reason[j] = "none" \/ why # "user")
                                THEN why ELSE reason[j]]
  /\ retention' = [j \in JobId |-> IF j \in J /\ why # "user" THEN "retain" ELSE retention[j]]
  /\ ctx' = [j \in JobId |-> IF j \in J /\ cancels[j] = "job" THEN "cancelled" ELSE ctx[j]]
  /\ cleanupCtx' = [j \in JobId |-> IF j \in J /\ cancels[j] = "cleanup" THEN "cancelled"
                                    ELSE cleanupCtx[j]]

\* A mutant: a finished job is cancelled too.
CancelAnyway(j) ==
  /\ "cancel" \in Faults /\ j \in Accepted
  /\ cancelLocked({j}, "user")
  /\ UNCHANGED <<plans, accepted, plan, key, disposition, unresolved, pc, cancels, outcome,
                 open, err, request, check, access, nodes>>

\* The initiator or an administrator cancels; a finished job is only returned.
Cancel(j) ==
  /\ "cancel" \in Faults /\ Active(j)
  /\ cancelLocked({j}, "user")
  /\ UNCHANGED <<plans, accepted, plan, key, disposition, unresolved, pc, cancels, outcome,
                 open, err, request, check, access, nodes>>

\* The jobs a revocation of h cancels.
RevokedJobs(h) ==
  {j \in JobId : Active(j) /\ h \in Bound(plan[j])}

\* revoke: all of them, or, when a write fails, the ones it had come to.
revoke(h, from, to) ==
  /\ "revoke" \in Faults /\ revoking[h] = from
  /\ \E J \in SUBSET RevokedJobs(h) :
       /\ cancelLocked(J, IF h \in Actor THEN "account_revoked" ELSE "credential_revoked")
       /\ \/ J = RevokedJobs(h) /\ revoking' = [revoking EXCEPT ![h] = to]
          \/ J # RevokedJobs(h) /\ "write" \in Faults /\ UNCHANGED revoking
  /\ UNCHANGED <<plans, accepted, plan, key, disposition, unresolved, pc, cancels, outcome,
                 open, err, request, check, valid, nodes>>

\* A mutant: the jobs are not looked at again.
RevokeOnce(h) ==
  /\ "revoke" \in Faults /\ revoking[h] = "recorded"
  /\ revoking' = [revoking EXCEPT ![h] = "done"]
  /\ UNCHANGED <<plans, accepted, job, verdict, reason, exec, request, check, valid, nodes>>

\* An account's jobs are revoked, then the account, then its jobs once more; a
\* credential is revoked before the jobs that use it.
RevokeFirst(a) == a \in Actor /\ revoke(a, "no", "announced")
RevokeAgain(h) == revoke(h, "recorded", "done")

\* The account or the credential itself is revoked.
RecordRevocation(h) ==
  /\ "revoke" \in Faults
  /\ revoking[h] = IF h \in Actor THEN "announced" ELSE "no"
  /\ valid' = valid \ {h}
  /\ revoking' = [revoking EXCEPT ![h] = "recorded"]
  /\ UNCHANGED <<plans, accepted, job, verdict, reason, exec, request, check, nodes>>

-----------------------------------------------------------------------------
(* Reconciliation and restart. *)

webJobNeedsCheck(j) ==
  /\ j \in Accepted /\ state[j] \in Terminal
  /\ state[j] = "interrupted" \/ disposition[j] = "unknown"

\* Reconcile looks at the machines of the workspace, without the lock.
Look(j, seen) ==
  /\ webJobNeedsCheck(j) /\ check[j] = "none"
  /\ seen = "absent" => nodes[SpaceOf(j)] = {}
  /\ seen = "present" => nodes[SpaceOf(j)] # {}
  /\ check' = [check EXCEPT ![j] = seen]
  /\ UNCHANGED <<plans, accepted, job, verdict, reason, exec, request, access, nodes>>

\* It records what it saw, whatever happened since; or the write fails.
Reconcile(j) ==
  /\ check[j] # "none"
  /\ \/ /\ disposition' = [disposition EXCEPT ![j] =
             CASE check[j] = "absent" -> "cleaned"
               [] check[j] = "present" -> "retained"
               [] check[j] = "unverified" -> "unknown"]
        /\ unresolved' = [unresolved EXCEPT ![j] = IF check[j] = "unverified" THEN @ ELSE "no"]
     \/ "write" \in Faults /\ UNCHANGED <<disposition, unresolved>>
  /\ check' = [check EXCEPT ![j] = "none"]
  /\ UNCHANGED <<plans, accepted, job, state, reason, exec, request, access, nodes>>

\* The service dies and OpenWebJobs finds jobs that were under way.
Restart ==
  /\ "crash" \in Faults
  /\ \E j \in JobId : Active(j)
  /\ state' = [j \in JobId |-> IF Active(j) THEN "interrupted" ELSE state[j]]
  /\ disposition' = [j \in JobId |-> IF Active(j) THEN "unknown" ELSE disposition[j]]
  /\ unresolved' = [j \in JobId |-> IF Active(j) THEN "yes" ELSE unresolved[j]]
  /\ pc' = [j \in JobId |-> "none"]
  /\ outcome' = [j \in JobId |-> "none"]
  /\ open' = [j \in JobId |-> "no"]
  /\ err' = [j \in JobId |-> "no"]
  /\ ctx' = [j \in JobId |-> "live"]
  /\ cleanupCtx' = [j \in JobId |-> "live"]
  /\ cancels' = [j \in JobId |-> "none"]
  /\ request' = [r \in Request |-> Idle]
  /\ check' = [j \in JobId |-> "none"]
  /\ revoking' = [h \in Holder |-> IF revoking[h] = "announced" THEN "no" ELSE revoking[h]]
  /\ UNCHANGED <<plans, accepted, job, reason, valid, nodes>>

-----------------------------------------------------------------------------

\* The steps of one executor, the engine's included.
Executor(j) ==
  \/ Check(j) \/ refuseBeforeRunning(j) \/ Begin(j) \/ Launch(j) \/ Engage(j)
  \/ \E e \in {"yes", "no"}, d \in {"none", "retained", "unknown"} :
       Executed(j, e, d)
  \/ Decide(j) \/ Clean(j)
  \/ \E left \in SUBSET Resource : Cleaned(j, left)
  \/ Finish(j)

Next ==
  \/ \E p \in PlanId : Plan(p) \/ Expire(p)
  \/ \E r \in Request :
       \/ \E p \in PlanId, k \in Key : Start(r, p, k)
       \/ Inspect(r) \/ StartReturns(r) \/ Accept(r)
  \/ \E j \in JobId :
       \/ Executor(j) \/ GiveUp(j) \/ Cancel(j) \/ Reconcile(j)
       \/ \E r \in Resource : Work(j, r)
       \/ \E seen \in {"absent", "present", "unverified"} : Look(j, seen)
  \/ \E h \in Holder : RevokeFirst(h) \/ RecordRevocation(h) \/ RevokeAgain(h)
  \/ Restart

Spec == Init /\ [][Next]_vars

\* The job is in a call of the engine that nobody has cancelled.  Such a call need not
\* return: a monitor collects until its context ends, a test case may wait for ever.
Engaged(j) == pc[j] \in {"check", "executing", "working"} /\ ctx[j] = "live"

\* The executors go on.  The engine's calls return once their context is cancelled, and
\* a cleanup, whose context has a deadline, returns.
FairSpec == Spec /\ \A j \in JobId : WF_vars(~Engaged(j) /\ Executor(j))

-----------------------------------------------------------------------------
(* Properties. *)

\* Two jobs that are not finished never claim the same resource, although their
\* targets are inspected outside the lock.
ClaimsAreExclusive ==
  \A i, j \in JobId : Active(i) /\ Active(j) /\ i # j => Claims(i) \cap Claims(j) = {}

\* No job is let onto a resource where another workspace has nodes: a finished,
\* failed or interrupted job holds its claims until a cleanup, or a look at the
\* machines, has shown that nothing is left ("verified cleanup is required for
\* release").
NoForeignNodes ==
  \A j \in JobId : Active(j) =>
    \A w \in Space \ {SpaceOf(j)} : nodes[w] \cap Claims(j) = {}

\* An actor's key starts one job only, whatever is retried and whenever the
\* service restarts.
OneJobPerKey ==
  \A i, j \in JobId :
    /\ i \in Accepted /\ j \in Accepted /\ key[i] = key[j]
    /\ PlanActor[plan[i]] = PlanActor[plan[j]]
    => i = j

\* A cancellation reaches the work: nothing executes with a live context once the
\* job is being cancelled, and nothing is cleaned with one after a revocation.
CancelReachesTheWork ==
  \A j \in JobId :
    /\ pc[j] \in {"executing", "working"} /\ state[j] = "cancelling"
       => ctx[j] = "cancelled"
    /\ pc[j] \in {"clean", "cleaning"} /\ reason[j] \in Revocations
       => cleanupCtx[j] = "cancelled"

\* When the revocation of an account, of a login or of an account key has returned, no
\* job that needs it is at work on the machines with a live context, not even one
\* accepted in between or later ("The second revocation catches a job started in
\* between").  A monitor, or a job that only signs with the key, may pass the check
\* before it runs; it stops when Execute reaches for what was revoked.
RevokedWorkStops ==
  \A j \in JobId, h \in Holder :
    pc[j] = "working" /\ revoking[h] = "done" /\ h \in Bound(plan[j])
    => ctx[j] = "cancelled"

\* A job that was cancelled is never recorded as succeeded, and a finished job
\* stays as it ended: executor, cancellation and restart race for the last word.
EndIsFinal ==
  [][\A j \in JobId :
       /\ state[j] \in Terminal => state'[j] = state[j]
       /\ state'[j] = "succeeded" => reason'[j] = "none"]_vars

\* A job that never ends is in a call of the engine that nobody cancels, or lost its
\* executor in one of two ways: a commit failed ("Keep the durable claim held"), or it
\* was cancelled between its failing check and refuseBeforeRunning.  A job that has
\* been cancelled, by a user or by a revocation, otherwise ends.
JobsEnd ==
  \A j \in JobId :
    <>[]Active(j) => <>[](Engaged(j) \/ pc[j] \in {"dropped", "refused"})

\* refuseBeforeRunning "ends an accepted job as failed": a job whose second check
\* fails comes to an end.
RefusedJobsEnd == \A j \in JobId : pc[j] = "refuse" ~> state[j] \in Terminal
=============================================================================
