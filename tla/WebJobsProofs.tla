--------------------------- MODULE WebJobsProofs ---------------------------
(***************************************************************************)
(* For any plans, workspaces, resources, accounts, credentials, keys,      *)
(* concurrent requests and faults, and any number of jobs: unfinished jobs *)
(* claim nothing in common, no job is let onto another workspace's nodes,  *)
(* a key starts one job, cancellations and revocations reach the work, and *)
(* a finished job stays as it ended.                                       *)
(***************************************************************************)
EXTENDS WebJobs, TLAPS

\* Where an executor may be.
Place == {"none", "check", "refuse", "begin", "launch", "executing", "working",
          "decide", "clean", "cleaning", "finish", "dropped", "refused"}

\* Where an executor is before the engine has answered.
Early == {"check", "refuse", "begin", "launch", "executing", "working"}

\* The job needs the account, the login or the account key.
Needs(j, h) == h \in Bound(plan[j])

\* A job's record and its executor fit together.
Fits(j) ==
  /\ j \in Accepted <=> state[j] # "none"
  /\ pc[j] # "none" => state[j] \in {"accepted", "running", "cancelling"}
  /\ check[j] # "none" => state[j] \in Terminal
  /\ outcome[j] # "none" => pc[j] \in {"decide", "clean", "cleaning", "finish"}
  /\ state[j] = "succeeded" => reason[j] = "none"

\* The context a cancellation cancels is the one the executor goes by.
Reached(j) ==
  /\ pc[j] \in Early =>
       /\ cancels[j] = "job"
       /\ state[j] = "cancelling" => ctx[j] = "cancelled"
  /\ pc[j] \in {"clean", "cleaning"} =>
       /\ cancels[j] = "cleanup"
       /\ reason[j] \in Revocations => cleanupCtx[j] = "cancelled"

\* At work, a job that needs h does not outlive the revocation of h.
Stopped(j) ==
  \A h \in Holder :
    pc[j] = "working" /\ revoking[h] = "done" /\ Needs(j, h) => ctx[j] = "cancelled"

Barred == \A h \in Holder : revoking[h] \in {"recorded", "done"} => h \notin valid

JobOK(j) == Fits(j) /\ Reached(j) /\ Stopped(j)

Core == TypeOK /\ Barred /\ \A j \in JobId : JobOK(j)

\* An unfinished job is the last one that claims what it claims.
InOrder ==
  \A i, j \in JobId :
    Active(j) /\ i \in Accepted /\ Claims(i) \cap Claims(j) # {} => i <= j

\* The job's word that nothing is left releases what it claimed: it has been recorded,
\* or a look or a cleanup has found it and is about to record it.
Spent(k) ==
  \/ verifiedWebCleanup(k) \/ check[k] = "absent"
  \/ outcome[k] = "cleaned" /\ open[k] = "no"

\* Job j of the workspace claims r, and nothing since has released it.
Keeps(j, w, r) ==
  /\ SpaceOf(j) = w /\ r \in Claims(j)
  /\ \A k \in Accepted : k >= j /\ SpaceOf(k) = w /\ r \in Claims(k) => ~Spent(k)

\* Every node there is stands on something a job of its workspace keeps.
Placed == \A w \in Space : \A r \in nodes[w] : \E j \in Accepted : Keeps(j, w, r)

JobsInv ==
  Core /\ OneJobPerKey /\ ClaimsAreExclusive /\ InOrder /\ Placed /\ NoForeignNodes

-----------------------------------------------------------------------------
(* Every step keeps Core. *)

LEMMA CoreAtFirst == Init => Core
<1> SUFFICES ASSUME Init  PROVE Core
  OBVIOUS
<1>1. TypeOK
  BY PlanAssumption, JobAssumption DEF Init, TypeOK, Idle, Accepted, JobId, Holder, Terminal, Revocations
<1>2. Barred
  BY DEF Init, Barred
<1>3. ASSUME NEW j \in JobId  PROVE JobOK(j)
  <2>1. j \notin Accepted
    BY JobAssumption DEF Init, JobId, Accepted
  <2>. QED  BY <2>1 DEF Init, JobOK, Fits, Reached, Stopped, Early, Terminal
<1>. QED  BY <1>1, <1>2, <1>3 DEF Core

\* A step that leaves the jobs, their executors and the revocations alone.
LEMMA Quiet ==
  ASSUME Core, TypeOK',
         UNCHANGED <<accepted, plan, state, reason, pc, ctx, cleanupCtx, cancels, outcome,
                     valid, revoking>>,
         \A j \in JobId : check'[j] \in {"none", check[j]} \/ state[j] \in Terminal
  PROVE  Core'
<1>1. Barred'
  BY DEF Core, Barred
<1>2. ASSUME NEW j \in JobId  PROVE JobOK(j)'
  <2>1. JobOK(j)
    BY DEF Core
  <2>. QED  BY <2>1 DEF JobOK, Fits, Reached, Stopped, Accepted, Needs
<1>. QED  BY <1>1, <1>2 DEF Core

LEMMA PlanKeeps == ASSUME Core, NEW p \in PlanId, Plan(p) \/ Expire(p)  PROVE Core'
<1>1. UNCHANGED <<accepted, job, verdict, reason, exec, request, check, access, nodes>>
  BY DEF Plan, Expire
<1>2. TypeOK'
  BY <1>1 DEF Core, TypeOK, Plan, Expire, plans, job, verdict, exec, access, Accepted
<1>. QED  BY <1>1, <1>2, Quiet DEF plans, job, verdict, exec, access

LEMMA RequestKeeps ==
  ASSUME Core, NEW r \in Request,
         \/ \E p \in PlanId, k \in Key : Start(r, p, k)
         \/ Inspect(r) \/ StartReturns(r)
  PROVE  Core'
<1>1. UNCHANGED <<plans, accepted, job, verdict, reason, exec, check, access, nodes>>
  BY DEF Start, Inspect, StartReturns
<1>2. request' \in [Request -> [at : {"idle", "inspect", "accept"},
                                plan : PlanId \cup {NoPlan}, key : Key \cup {NoKey}]]
  BY DEF Start, Inspect, StartReturns, Core, TypeOK, Idle
<1>3. TypeOK'
  BY <1>1, <1>2 DEF Core, TypeOK, plans, job, verdict, exec, access, Accepted
<1>. QED  BY <1>1, <1>3, Quiet DEF plans, job, verdict, exec, access

LEMMA AcceptKeeps == ASSUME Core, NEW r \in Request, Accept(r)  PROVE Core'
<1> DEFINE n == accepted + 1
           p == request[r].plan
<1>0. /\ n \in JobId /\ p \in PlanId /\ NewJob(r)
      /\ TypeOK /\ Barred /\ \A j \in JobId : JobOK(j)
  BY JobAssumption DEF Core, Accept, acceptanceLocked, TypeOK, JobId
<1>1. /\ UNCHANGED <<plans, disposition, unresolved, reason, ctx, cleanupCtx, outcome, open,
                     err, check, access, nodes>>
      /\ accepted' = n
      /\ plan' = [plan EXCEPT ![n] = p]
      /\ key' = [key EXCEPT ![n] = request[r].key]
      /\ state' = [state EXCEPT ![n] = "accepted"]
      /\ retention' = [retention EXCEPT ![n] = PlanRetention[p]]
      /\ pc' = [pc EXCEPT ![n] = "check"]
      /\ cancels' = [cancels EXCEPT ![n] = "job"]
      /\ request' = [request EXCEPT ![r] = Idle]
  BY <1>0 DEF NewJob
<1>2. TypeOK'
  <2>1. \A j \in JobId : (j \in Accepted)' <=> plan'[j] \in PlanId
    BY <1>0, <1>1, JobAssumption DEF TypeOK, Accepted, JobId
  <2>2. accepted' \in 0..MaxJobs
    BY <1>0, <1>1, JobAssumption DEF JobId
  <2>3. request' \in [Request -> [at : {"idle", "inspect", "accept"},
                                plan : PlanId \cup {NoPlan}, key : Key \cup {NoKey}]]
    BY <1>0, <1>1 DEF TypeOK, Idle
  <2>4. key' \in [JobId -> Key \cup {NoKey}] /\ plan' \in [JobId -> PlanId \cup {NoPlan}]
        /\ retention' \in [JobId -> {"retain", "cleanup"}]
    BY <1>0, <1>1, PlanAssumption DEF TypeOK
  <2>. QED  BY <1>0, <1>1, <2>1, <2>2, <2>3, <2>4 DEF TypeOK, plans, access
<1>3. ASSUME NEW j \in JobId  PROVE JobOK(j)'
  <2>0. JobOK(j)
    BY <1>0
  <2>1. CASE j = n
    <3>1. n \notin Accepted
      BY <1>0 DEF Accepted, TypeOK
    <3>2. outcome[j] = "none" /\ check[j] = "none"
      BY <2>0, <2>1, <3>1 DEF JobOK, Fits, Terminal
    <3>3. /\ (j \in Accepted)' /\ state'[j] = "accepted" /\ pc'[j] = "check"
          /\ cancels'[j] = "job" /\ outcome'[j] = "none" /\ check'[j] = "none"
      BY <1>0, <1>1, <2>1, <3>2, JobAssumption DEF TypeOK, Accepted, JobId
    <3>. QED  BY <3>3 DEF JobOK, Fits, Reached, Stopped, Early
  <2>2. CASE j # n
    <3>1. /\ (j \in Accepted)' <=> j \in Accepted
          /\ plan'[j] = plan[j] /\ state'[j] = state[j] /\ pc'[j] = pc[j]
          /\ cancels'[j] = cancels[j]
      BY <1>0, <1>1, <2>2 DEF TypeOK, Accepted, JobId
    <3>. QED  BY <1>1, <2>0, <3>1 DEF JobOK, Fits, Reached, Stopped, Needs, access
  <2>. QED  BY <2>1, <2>2
<1>. QED  BY <1>0, <1>1, <1>2, <1>3 DEF Core, Barred, access

-----------------------------------------------------------------------------
(* The executors. *)

\* A step of one executor leaves the other jobs alone.
LEMMA OneJob ==
  ASSUME Core, TypeOK', NEW j \in JobId, JobOK(j)',
         UNCHANGED <<accepted, plan, reason, check, valid, revoking>>,
         \A k \in JobId \ {j} :
           /\ state'[k] = state[k] /\ pc'[k] = pc[k] /\ outcome'[k] = outcome[k]
           /\ ctx'[k] = ctx[k] /\ cleanupCtx'[k] = cleanupCtx[k] /\ cancels'[k] = cancels[k]
  PROVE  Core'
<1>1. Barred'
  BY DEF Core, Barred
<1>2. ASSUME NEW k \in JobId  PROVE JobOK(k)'
  <2>0. JobOK(k)
    BY DEF Core
  <2>1. CASE k = j
    BY <2>1
  <2>2. CASE k # j
    BY <2>0, <2>2 DEF JobOK, Fits, Reached, Stopped, Accepted, Needs
  <2>. QED  BY <2>1, <2>2
<1>. QED  BY <1>1, <1>2 DEF Core

\* A job with an executor is one that was accepted, for a plan.
LEMMA UnderWay ==
  ASSUME Core, NEW j \in JobId, pc[j] # "none"
  PROVE  /\ Active(j) /\ plan[j] \in PlanId
         /\ SpaceOf(j) \in Space /\ Claims(j) \subseteq Resource
<1>1. Active(j)
  BY DEF Core, JobOK, Fits, Active, Terminal
<1>2. plan[j] \in PlanId
  BY <1>1 DEF Core, TypeOK, Active
<1>. QED  BY <1>1, <1>2, PlanAssumption DEF SpaceOf, Claims

\* An executor that has returned cannot be wrong any more.
LEMMA GoneIsOK ==
  ASSUME Core, NEW j \in JobId, NEW at \in {"none", "dropped", "refused"}, Gone(j, at),
         pc[j] # "none", UNCHANGED <<accepted, check, reason>>,
         at = "none" \/ state'[j] = state[j],
         state'[j] # "none", state'[j] = "succeeded" => reason[j] = "none"
  PROVE  JobOK(j)'
<1>1. /\ j \in Accepted /\ check[j] = "none"
      /\ state[j] \in {"accepted", "running", "cancelling"}
  BY DEF Core, JobOK, Fits, Terminal
<1>2. pc'[j] = at /\ outcome'[j] = "none"
  BY DEF Core, TypeOK, Gone, Goto
<1>. QED  BY <1>1, <1>2 DEF JobOK, Fits, Reached, Stopped, Early, Accepted

LEMMA GoneIsTyped ==
  ASSUME TypeOK, NEW j \in JobId, NEW at \in {"none", "dropped", "refused"}, Gone(j, at)
  PROVE  /\ pc' \in [JobId -> Place]
         /\ ctx' \in [JobId -> {"live", "cancelled"}]
         /\ cleanupCtx' \in [JobId -> {"live", "cancelled"}]
         /\ outcome' \in [JobId -> {"none", "unknown", "retained", "cleaned", "cleanup_failed"}]
         /\ open' \in [JobId -> {"yes", "no"}] /\ err' \in [JobId -> {"yes", "no"}]
         /\ \A k \in JobId \ {j} : /\ pc'[k] = pc[k] /\ outcome'[k] = outcome[k]
                                   /\ ctx'[k] = ctx[k] /\ cleanupCtx'[k] = cleanupCtx[k]
BY DEF TypeOK, Gone, Goto, Place

LEMMA GiveUpKeeps == ASSUME Core, NEW j \in JobId, GiveUp(j)  PROVE Core'
<1>1. /\ TypeOK /\ JobOK(j) /\ Gone(j, "dropped") /\ pc[j] # "none"
      /\ UNCHANGED <<plans, accepted, job, verdict, reason, cancels, request, check, access,
                     nodes>>
  BY DEF Core, GiveUp
<1>2. TypeOK'
  BY <1>1, GoneIsTyped DEF TypeOK, Place, plans, job, verdict, access, Accepted
<1>3. JobOK(j)'
  BY <1>1, GoneIsOK DEF JobOK, Fits, verdict
<1>. QED  BY <1>1, <1>2, <1>3, GoneIsTyped, OneJob DEF job, verdict, access

LEMMA RefuseKeeps == ASSUME Core, NEW j \in JobId, refuseBeforeRunning(j)  PROVE Core'
<1>0. PICK at \in {"none", "refused"} :
        Gone(j, at) /\ (at = "none" \/ state'[j] = state[j])
  BY DEF refuseBeforeRunning
<1>1. /\ TypeOK /\ JobOK(j) /\ pc[j] = "refuse"
      /\ UNCHANGED <<plans, accepted, job, unresolved, reason, request, check, access, nodes>>
      /\ cancels' = [cancels EXCEPT ![j] = "none"]
  BY DEF Core, refuseBeforeRunning, Forget
<1>2. /\ state' \in [JobId -> {"none", "accepted", "running", "cancelling"} \cup Terminal]
      /\ disposition' \in [JobId -> {"unknown", "retained", "cleaned", "cleanup_failed"}]
      /\ \A k \in JobId \ {j} : state'[k] = state[k]
      /\ state'[j] \in {state[j], "failed"}
  BY <1>1 DEF refuseBeforeRunning, TypeOK, Terminal
<1>3. TypeOK'
  <2>1. /\ pc' \in [JobId -> Place]
        /\ ctx' \in [JobId -> {"live", "cancelled"}]
        /\ cleanupCtx' \in [JobId -> {"live", "cancelled"}]
        /\ outcome' \in [JobId -> {"none", "unknown", "retained", "cleaned", "cleanup_failed"}]
        /\ open' \in [JobId -> {"yes", "no"}] /\ err' \in [JobId -> {"yes", "no"}]
    BY <1>0, <1>1, GoneIsTyped
  <2>2. cancels' \in [JobId -> {"none", "job", "cleanup"}]
    BY <1>1 DEF TypeOK
  <2>. QED  BY <1>1, <1>2, <2>1, <2>2 DEF TypeOK, Place, plans, job, access, Accepted
<1>4. JobOK(j)'
  BY <1>0, <1>1, <1>2, GoneIsOK DEF JobOK, Fits
<1>5. \A k \in JobId \ {j} : cancels'[k] = cancels[k]
  BY <1>1 DEF TypeOK
<1>. QED  BY <1>0, <1>1, <1>2, <1>3, <1>4, <1>5, GoneIsTyped, OneJob DEF job, access

LEMMA FinishKeeps == ASSUME Core, NEW j \in JobId, Finish(j)  PROVE Core'
<1>1. /\ TypeOK /\ JobOK(j) /\ Gone(j, "none") /\ pc[j] = "finish"
      /\ UNCHANGED <<plans, accepted, job, reason, request, check, access, nodes>>
      /\ cancels' = [cancels EXCEPT ![j] = "none"]
      /\ state' = [state EXCEPT ![j] = Ending(j)]
  BY DEF Core, Finish, Forget
<1>2. Ending(j) \in Terminal /\ (Ending(j) = "succeeded" => reason[j] = "none")
  BY DEF Ending, Terminal
<1>3. /\ state' \in [JobId -> {"none", "accepted", "running", "cancelling"} \cup Terminal]
      /\ \A k \in JobId \ {j} : state'[k] = state[k] /\ cancels'[k] = cancels[k]
      /\ state'[j] = Ending(j)
  BY <1>1, <1>2 DEF TypeOK
<1>4. /\ disposition' \in [JobId -> {"unknown", "retained", "cleaned", "cleanup_failed"}]
      /\ unresolved' \in [JobId -> {"yes", "no"}]
  BY <1>1 DEF Finish, Left, TypeOK
<1>5. TypeOK'
  BY <1>1, <1>3, <1>4, GoneIsTyped DEF TypeOK, Place, plans, job, access, Accepted
<1>6. JobOK(j)'
  BY <1>1, <1>2, <1>3, GoneIsOK DEF Terminal
<1>. QED  BY <1>1, <1>3, <1>5, <1>6, GoneIsTyped, OneJob DEF job, access

LEMMA CheckKeeps == ASSUME Core, NEW j \in JobId, Check(j)  PROVE Core'
<1>0. /\ TypeOK /\ Barred /\ JobOK(j) /\ pc \in [JobId -> Place]
  BY DEF Core, TypeOK, Place
<1>00. /\ pc[j] = "check" /\ \E w \in {"begin", "refuse"} : pc' = [pc EXCEPT ![j] = w]
       /\ UNCHANGED <<plans, accepted, job, verdict, reason, ctx, cleanupCtx, cancels, outcome,
                      open, err, request, check, access, nodes>>
  BY DEF Check, Goto
<1>1. /\ TypeOK /\ Barred /\ JobOK(j) /\ pc[j] = "check"
      /\ UNCHANGED <<plans, accepted, job, verdict, reason, ctx, cleanupCtx, cancels, outcome,
                     open, err, request, check, access, nodes>>
      /\ \A k \in JobId \ {j} : pc'[k] = pc[k]
      /\ pc' \in [JobId -> Place]
  BY <1>0, <1>00 DEF Place
<1>2. pc'[j] \in {"refuse", "begin"}
  BY <1>0, <1>00
<1>3. TypeOK'
  BY <1>1 DEF TypeOK, Place, plans, job, verdict, access, Accepted
<1>4. (Fits(j) /\ Reached(j))'
  BY <1>1, <1>2 DEF JobOK, Fits, Reached, Early, Accepted, job, verdict
<1>5. Stopped(j)'
  BY <1>2 DEF Stopped
<1>. QED  BY <1>1, <1>3, <1>4, <1>5, OneJob DEF JobOK, job, verdict, access

LEMMA BeginKeeps == ASSUME Core, NEW j \in JobId, Begin(j)  PROVE Core'
<1>1. /\ TypeOK /\ JobOK(j) /\ pc[j] = "begin"
      /\ UNCHANGED <<plans, accepted, job, disposition, unresolved, reason, ctx, cleanupCtx,
                     cancels, outcome, open, err, request, check, access, nodes>>
      /\ \A k \in JobId \ {j} : pc'[k] = pc[k] /\ state'[k] = state[k]
      /\ pc'[j] = "launch" /\ state'[j] = IF state[j] = "accepted" THEN "running" ELSE state[j]
      /\ pc' \in [JobId -> Place]
      /\ state' \in [JobId -> {"none", "accepted", "running", "cancelling"} \cup Terminal]
  BY DEF Core, Begin, Goto, TypeOK, Place
<1>3. TypeOK'
  BY <1>1 DEF TypeOK, Place, plans, job, access, Accepted
<1>4. JobOK(j)'
  BY <1>1 DEF JobOK, Fits, Reached, Stopped, Needs, Early, Accepted, Terminal, job, access
<1>. QED  BY <1>1, <1>3, <1>4, OneJob DEF job, access

LEMMA LaunchKeeps == ASSUME Core, NEW j \in JobId, Launch(j)  PROVE Core'
<1>1. /\ TypeOK /\ JobOK(j) /\ pc[j] = "launch"
      /\ UNCHANGED <<plans, accepted, job, verdict, reason, ctx, cleanupCtx, cancels, outcome,
                     open, request, check, access, nodes>>
      /\ \A k \in JobId \ {j} : pc'[k] = pc[k]
      /\ pc'[j] \in {"decide", "executing"}
      /\ pc' \in [JobId -> Place]
      /\ err' \in [JobId -> {"yes", "no"}]
  BY DEF Core, Launch, Goto, TypeOK, Place
<1>3. TypeOK'
  BY <1>1 DEF TypeOK, Place, plans, job, verdict, access, Accepted
<1>4. JobOK(j)'
  BY <1>1 DEF JobOK, Fits, Reached, Stopped, Needs, Early, Accepted, job, verdict, access
<1>. QED  BY <1>1, <1>3, <1>4, OneJob DEF job, verdict, access

\* What is engaged with is valid, so no revocation of it has been recorded.
LEMMA EngageKeeps == ASSUME Core, NEW j \in JobId, Engage(j)  PROVE Core'
<1>1. /\ TypeOK /\ Barred /\ JobOK(j) /\ pc[j] = "executing" /\ Bound(plan[j]) \subseteq valid
      /\ UNCHANGED <<plans, accepted, job, verdict, reason, ctx, cleanupCtx, cancels, outcome,
                     open, err, request, check, access, nodes>>
      /\ \A k \in JobId \ {j} : pc'[k] = pc[k]
      /\ pc'[j] = "working" /\ pc' \in [JobId -> Place]
  BY DEF Core, Engage, Goto, TypeOK, Place
<1>2. TypeOK'
  BY <1>1 DEF TypeOK, Place, plans, job, verdict, access, Accepted
<1>3. (Fits(j) /\ Reached(j))'
  BY <1>1 DEF JobOK, Fits, Reached, Early, Accepted, job, verdict
<1>4. Stopped(j)'
  BY <1>1 DEF Stopped, Barred, Needs, access, job
<1>. QED  BY <1>1, <1>2, <1>3, <1>4, OneJob DEF JobOK, job, verdict, access

LEMMA ExecutedKeeps ==
  ASSUME Core, NEW j \in JobId, NEW e \in {"yes", "no"},
         NEW d \in {"none", "retained", "unknown"}, Executed(j, e, d)
  PROVE  Core'
<1>1. /\ TypeOK /\ JobOK(j) /\ pc[j] \in {"executing", "working"}
      /\ UNCHANGED <<plans, accepted, job, verdict, reason, ctx, cleanupCtx, cancels, open,
                     request, check, access, nodes>>
      /\ \A k \in JobId \ {j} : pc'[k] = pc[k] /\ outcome'[k] = outcome[k]
      /\ pc'[j] = "decide" /\ pc' \in [JobId -> Place]
      /\ err' \in [JobId -> {"yes", "no"}]
      /\ outcome' \in [JobId -> {"none", "unknown", "retained", "cleaned", "cleanup_failed"}]
  BY DEF Core, Executed, Goto, TypeOK, Place
<1>3. TypeOK'
  BY <1>1 DEF TypeOK, Place, plans, job, verdict, access, Accepted
<1>4. JobOK(j)'
  BY <1>1 DEF JobOK, Fits, Reached, Stopped, Early, Accepted, job, verdict
<1>. QED  BY <1>1, <1>3, <1>4, OneJob DEF job, verdict, access

LEMMA DecideKeeps == ASSUME Core, NEW j \in JobId, Decide(j)  PROVE Core'
<1>1. /\ TypeOK /\ JobOK(j) /\ pc[j] = "decide"
      /\ UNCHANGED <<plans, accepted, job, verdict, reason, cleanupCtx, outcome, open, err,
                     request, check, access, nodes>>
      /\ \A k \in JobId \ {j} : /\ pc'[k] = pc[k] /\ ctx'[k] = ctx[k]
                                /\ cancels'[k] = cancels[k]
      /\ pc' \in [JobId -> Place]
      /\ ctx' \in [JobId -> {"live", "cancelled"}]
      /\ cancels' \in [JobId -> {"none", "job", "cleanup"}]
  <2>1. TypeOK /\ JobOK(j) /\ pc[j] = "decide"
    BY DEF Core, Decide
  <2>2. CASE Goto(j, "finish") /\ UNCHANGED <<ctx, cancels>>
    BY <2>1, <2>2 DEF Decide, Goto, TypeOK, Place
  <2>3. CASE /\ ctx' = [ctx EXCEPT ![j] = "cancelled"]
             /\ cancels' = [cancels EXCEPT ![j] = "cleanup"] /\ Goto(j, "clean")
    BY <2>1, <2>3 DEF Decide, Goto, TypeOK, Place
  <2>. QED  BY <2>2, <2>3 DEF Decide
<1>2. \/ pc'[j] = "finish"
      \/ pc'[j] = "clean" /\ cancels'[j] = "cleanup" /\ reason[j] \in {"none", "user"}
  BY <1>1 DEF Decide, Goto, TypeOK
<1>3. TypeOK'
  BY <1>1 DEF TypeOK, Place, plans, job, verdict, access, Accepted
<1>4. JobOK(j)'
  BY <1>1, <1>2 DEF JobOK, Fits, Reached, Stopped, Early, Revocations, Accepted, job, verdict
<1>. QED  BY <1>1, <1>3, <1>4, OneJob DEF job, verdict, access

LEMMA CleanKeeps == ASSUME Core, NEW j \in JobId, Clean(j)  PROVE Core'
<1>1. /\ TypeOK /\ JobOK(j) /\ pc[j] = "clean"
      /\ UNCHANGED <<plans, accepted, job, verdict, reason, ctx, cleanupCtx, cancels, open,
                     request, check, access, nodes>>
      /\ \A k \in JobId \ {j} : pc'[k] = pc[k] /\ outcome'[k] = outcome[k]
      /\ pc'[j] \in {"finish", "cleaning"} /\ pc' \in [JobId -> Place]
      /\ err' \in [JobId -> {"yes", "no"}]
      /\ outcome' \in [JobId -> {"none", "unknown", "retained", "cleaned", "cleanup_failed"}]
  <2>1. TypeOK /\ JobOK(j) /\ pc[j] = "clean"
    BY DEF Core, Clean
  <2>2. CASE Goto(j, "finish") /\ UNCHANGED <<outcome, err>>
    BY <2>1, <2>2 DEF Clean, Goto, TypeOK, Place
  <2>3. CASE CleanupFails(j)
    BY <2>1, <2>3 DEF Clean, CleanupFails, Goto, TypeOK, Place
  <2>4. CASE Goto(j, "cleaning") /\ UNCHANGED <<outcome, err>>
    BY <2>1, <2>4 DEF Clean, Goto, TypeOK, Place
  <2>. QED  BY <2>2, <2>3, <2>4 DEF Clean
<1>3. TypeOK'
  BY <1>1 DEF TypeOK, Place, plans, job, verdict, access, Accepted
<1>4. JobOK(j)'
  BY <1>1 DEF JobOK, Fits, Reached, Stopped, Early, Accepted, job, verdict
<1>. QED  BY <1>1, <1>3, <1>4, OneJob DEF job, verdict, access

LEMMA CleanedKeeps ==
  ASSUME Core, NEW j \in JobId, NEW left \in SUBSET Resource, Cleaned(j, left)
  PROVE  Core'
<1>1. /\ TypeOK /\ JobOK(j) /\ pc[j] = "cleaning"
      /\ UNCHANGED <<plans, accepted, job, verdict, reason, ctx, cleanupCtx, cancels, request,
                     check, access>>
      /\ \A k \in JobId \ {j} : pc'[k] = pc[k] /\ outcome'[k] = outcome[k]
      /\ pc'[j] = "finish" /\ pc' \in [JobId -> Place]
      /\ err' \in [JobId -> {"yes", "no"}] /\ open' \in [JobId -> {"yes", "no"}]
      /\ outcome' \in [JobId -> {"none", "unknown", "retained", "cleaned", "cleanup_failed"}]
  <2>1. TypeOK /\ JobOK(j) /\ pc[j] = "cleaning"
    BY DEF Core, Cleaned
  <2>2. CASE /\ outcome' = [outcome EXCEPT ![j] = "cleaned"]
             /\ open' = [open EXCEPT ![j] = IF left = {} THEN "no" ELSE "yes"]
             /\ Goto(j, "finish") /\ UNCHANGED err
    BY <2>1, <2>2 DEF Cleaned, Goto, TypeOK, Place
  <2>3. CASE CleanupFails(j) /\ UNCHANGED open
    BY <2>1, <2>3 DEF Cleaned, CleanupFails, Goto, TypeOK, Place
  <2>. QED  BY <2>2, <2>3 DEF Cleaned
<1>2. nodes' \in [Space -> SUBSET Resource]
  BY UnderWay DEF Core, TypeOK, Cleaned
<1>3. TypeOK'
  BY <1>1, <1>2 DEF TypeOK, Place, plans, job, verdict, access, Accepted
<1>4. JobOK(j)'
  BY <1>1 DEF JobOK, Fits, Reached, Stopped, Early, Accepted, job, verdict
<1>. QED  BY <1>1, <1>3, <1>4, OneJob DEF job, verdict, access

LEMMA WorkKeeps == ASSUME Core, NEW j \in JobId, NEW r \in Resource, Work(j, r)  PROVE Core'
<1>1. UNCHANGED <<plans, accepted, job, verdict, reason, exec, request, check, access>>
  BY DEF Work
<1>2. nodes' \in [Space -> SUBSET Resource]
  <2>1. nodes[SpaceOf(j)] \in SUBSET Resource /\ nodes \in [Space -> SUBSET Resource]
    BY UnderWay DEF Core, TypeOK, Work
  <2>2. PICK S \in SUBSET Resource : nodes' = [nodes EXCEPT ![SpaceOf(j)] = S]
    BY <2>1 DEF Work
  <2>. QED  BY <2>1, <2>2
<1>3. TypeOK'
  BY <1>1, <1>2 DEF Core, TypeOK, plans, job, verdict, exec, access, Accepted
<1>. QED  BY <1>1, <1>3, Quiet DEF job, verdict, exec, access

-----------------------------------------------------------------------------
(* Cancellation, revocation, reconciliation and restart. *)

\* Cancelling unfinished jobs keeps every job in order.
LEMMA CancelsAreOK ==
  ASSUME Core, NEW J, NEW why \in {"user"} \cup Revocations,
         \A j \in J : Active(j), cancelLocked(J, why),
         UNCHANGED <<accepted, plan, pc, cancels, outcome, check, valid>>,
         \A j \in JobId, h \in Holder :
           revoking'[h] = "done" /\ Needs(j, h) /\ Active(j) => revoking[h] = "done" \/ j \in J
  PROVE  \A j \in JobId : JobOK(j)'
<1> SUFFICES ASSUME NEW j \in JobId  PROVE JobOK(j)'
  OBVIOUS
<1>1. /\ state'[j] = IF j \in J THEN "cancelling" ELSE state[j]
      /\ reason'[j] = IF j \in J /\ (reason[j] = "none" \/ why # "user") THEN why ELSE reason[j]
      /\ ctx'[j] = IF j \in J /\ cancels[j] = "job" THEN "cancelled" ELSE ctx[j]
      /\ cleanupCtx'[j] = IF j \in J /\ cancels[j] = "cleanup" THEN "cancelled" ELSE cleanupCtx[j]
  BY DEF cancelLocked
<1>2. TypeOK /\ JobOK(j)
  BY DEF Core
<1>3. j \in J => j \in Accepted /\ state[j] \notin Terminal /\ state[j] # "none"
  BY <1>2 DEF Active, JobOK, Fits
<1>4. Fits(j)'
  BY <1>1, <1>2, <1>3 DEF JobOK, Fits, Accepted, Terminal
<1>5. Reached(j)'
  BY <1>1, <1>2 DEF JobOK, Reached, Early
<1>6. Stopped(j)'
  <2> SUFFICES ASSUME NEW h \in Holder, pc[j] = "working",
                      revoking'[h] = "done", Needs(j, h)
               PROVE  ctx'[j] = "cancelled"
    BY DEF Stopped, Needs
  <2>1. Active(j)
    BY <1>2 DEF JobOK, Fits, Active, Terminal
  <2>2. CASE revoking[h] = "done"
    BY <1>1, <1>2, <2>2 DEF JobOK, Stopped, TypeOK
  <2>3. CASE j \in J
    BY <1>1, <1>2, <2>3 DEF JobOK, Reached, Early
  <2>. QED  BY <2>1, <2>2, <2>3
<1>. QED  BY <1>4, <1>5, <1>6 DEF JobOK

LEMMA CancelsAreTyped ==
  ASSUME TypeOK, NEW J, NEW why \in {"user"} \cup Revocations, cancelLocked(J, why)
  PROVE  /\ state' \in [JobId -> {"none", "accepted", "running", "cancelling"} \cup Terminal]
         /\ reason' \in [JobId -> {"none", "user"} \cup Revocations]
         /\ retention' \in [JobId -> {"retain", "cleanup"}]
         /\ ctx' \in [JobId -> {"live", "cancelled"}]
         /\ cleanupCtx' \in [JobId -> {"live", "cancelled"}]
BY DEF TypeOK, cancelLocked

LEMMA CancelKeeps == ASSUME Core, NEW j \in JobId, Cancel(j)  PROVE Core'
<1>1. /\ TypeOK /\ Barred /\ Active(j) /\ cancelLocked({j}, "user")
      /\ UNCHANGED <<plans, accepted, plan, key, disposition, unresolved, pc, cancels, outcome,
                     open, err, request, check, access, nodes>>
  BY DEF Core, Cancel
<1>2. TypeOK'
  BY <1>1, CancelsAreTyped DEF TypeOK, plans, access, Accepted
<1>3. \A i \in JobId : JobOK(i)'
  BY <1>1, CancelsAreOK DEF access
<1>. QED  BY <1>1, <1>2, <1>3 DEF Core, Barred, access

LEMMA RevokeKeeps ==
  ASSUME Core, NEW h \in Holder, NEW from, NEW to \in {"announced", "done"},
         revoke(h, from, to), to = "done" => from = "recorded"
  PROVE  Core'
<1> DEFINE why == IF h \in Actor THEN "account_revoked" ELSE "credential_revoked"
<1>1. /\ TypeOK /\ Barred /\ revoking[h] = from
      /\ UNCHANGED <<plans, accepted, plan, key, disposition, unresolved, pc, cancels, outcome,
                     open, err, request, check, valid, nodes>>
  BY DEF Core, revoke
<1>2. PICK J \in SUBSET RevokedJobs(h) :
        /\ cancelLocked(J, why)
        /\ \/ J = RevokedJobs(h) /\ revoking' = [revoking EXCEPT ![h] = to]
           \/ UNCHANGED revoking
  BY DEF revoke
<1>3. revoking' \in [Holder -> {"no", "announced", "recorded", "done"}]
  BY <1>1, <1>2 DEF TypeOK
<1>4. why \in {"user"} \cup Revocations /\ \A j \in J : Active(j)
  BY <1>2 DEF Revocations, RevokedJobs
<1>5. TypeOK'
  BY <1>1, <1>2, <1>3, <1>4, CancelsAreTyped DEF TypeOK, plans, Accepted
<1>6. \A j \in JobId, g \in Holder :
        revoking'[g] = "done" /\ Needs(j, g) /\ Active(j) => revoking[g] = "done" \/ j \in J
  BY <1>1, <1>2 DEF TypeOK, Needs, RevokedJobs
<1>7. \A j \in JobId : JobOK(j)'
  BY <1>1, <1>2, <1>4, <1>6, CancelsAreOK
<1>8. Barred'
  BY <1>1, <1>2 DEF Barred, TypeOK
<1>. QED  BY <1>5, <1>7, <1>8 DEF Core

LEMMA RecordKeeps == ASSUME Core, NEW h \in Holder, RecordRevocation(h)  PROVE Core'
<1>1. /\ TypeOK /\ Barred /\ valid' = valid \ {h} /\ revoking[h] \in {"announced", "no"}
      /\ revoking' = [revoking EXCEPT ![h] = "recorded"]
      /\ UNCHANGED <<plans, accepted, job, verdict, reason, exec, request, check, nodes>>
  BY DEF Core, RecordRevocation
<1>2. revoking' \in [Holder -> {"no", "announced", "recorded", "done"}]
      /\ \A g \in Holder : revoking'[g] = IF g = h THEN "recorded" ELSE revoking[g]
  BY <1>1 DEF TypeOK
<1>3. TypeOK'
  BY <1>1, <1>2 DEF TypeOK, plans, job, verdict, exec, Accepted
<1>4. Barred'
  BY <1>1, <1>2 DEF Barred
<1>5. ASSUME NEW j \in JobId  PROVE JobOK(j)'
  <2>1. JobOK(j)
    BY DEF Core
  <2>. QED  BY <1>1, <1>2, <2>1 DEF JobOK, Fits, Reached, Stopped, Needs, Accepted, job, verdict, exec
<1>. QED  BY <1>3, <1>4, <1>5 DEF Core

LEMMA LookKeeps ==
  ASSUME Core, NEW j \in JobId, NEW seen \in {"absent", "present", "unverified"}, Look(j, seen)
  PROVE  Core'
<1>1. /\ TypeOK /\ state[j] \in Terminal /\ check' = [check EXCEPT ![j] = seen]
      /\ UNCHANGED <<plans, accepted, job, verdict, reason, exec, request, access, nodes>>
  BY DEF Core, Look, webJobNeedsCheck
<1>2. TypeOK'
  BY <1>1 DEF TypeOK, plans, job, verdict, exec, access, Accepted
<1>3. \A k \in JobId : check'[k] \in {"none", check[k]} \/ state[k] \in Terminal
  BY <1>1 DEF TypeOK
<1>. QED  BY <1>1, <1>2, <1>3, Quiet DEF job, verdict, exec, access

LEMMA ReconcileKeeps == ASSUME Core, NEW j \in JobId, Reconcile(j)  PROVE Core'
<1>1. /\ TypeOK /\ check[j] # "none" /\ check' = [check EXCEPT ![j] = "none"]
      /\ UNCHANGED <<plans, accepted, job, state, reason, exec, request, access, nodes>>
  BY DEF Core, Reconcile
<1>2. /\ disposition' \in [JobId -> {"unknown", "retained", "cleaned", "cleanup_failed"}]
      /\ unresolved' \in [JobId -> {"yes", "no"}]
  <2>1. check[j] \in {"absent", "present", "unverified"}
    BY <1>1 DEF TypeOK
  <2>. QED  BY <1>1, <2>1 DEF Reconcile, TypeOK
<1>3. TypeOK'
  BY <1>1, <1>2 DEF TypeOK, plans, job, exec, access, Accepted
<1>4. \A k \in JobId : check'[k] \in {"none", check[k]}
  BY <1>1 DEF TypeOK
<1>. QED  BY <1>1, <1>3, <1>4, Quiet DEF job, exec, access

LEMMA RestartKeeps == ASSUME Core, Restart  PROVE Core'
<1>1. /\ TypeOK /\ Barred
      /\ UNCHANGED <<plans, accepted, job, reason, valid, nodes>>
  BY DEF Core, Restart
<1>2. TypeOK'
  BY <1>1 DEF Restart, TypeOK, Idle, Terminal, plans, job, Accepted
<1>3. Barred'
  BY <1>1 DEF Restart, Barred, TypeOK
<1>4. ASSUME NEW j \in JobId  PROVE JobOK(j)'
  <2>0. JobOK(j)
    BY DEF Core
  <2>1. /\ pc'[j] = "none" /\ outcome'[j] = "none" /\ check'[j] = "none"
        /\ state'[j] = IF Active(j) THEN "interrupted" ELSE state[j]
    BY DEF Restart
  <2>. QED  BY <1>1, <2>0, <2>1 DEF JobOK, Fits, Reached, Stopped, Early, Accepted, Active, Terminal
<1>. QED  BY <1>2, <1>3, <1>4 DEF Core

LEMMA StepKeeps == ASSUME Core, [Next]_vars  PROVE Core'
<1>1. CASE UNCHANGED vars
  BY <1>1 DEF vars, Core, TypeOK, Barred, JobOK, Fits, Reached, Stopped, Needs, Accepted
<1>2. ASSUME NEW j \in JobId, Executor(j)  PROVE Core'
  BY <1>2, CheckKeeps, RefuseKeeps, BeginKeeps, LaunchKeeps, EngageKeeps, ExecutedKeeps, DecideKeeps,
     CleanKeeps, CleanedKeeps, FinishKeeps DEF Executor
<1>3. ASSUME NEW h \in Holder, RevokeFirst(h) \/ RevokeAgain(h)  PROVE Core'
  BY <1>3, RevokeKeeps DEF RevokeFirst, RevokeAgain
<1>. QED
  BY <1>1, <1>2, <1>3, PlanKeeps, RequestKeeps, AcceptKeeps, GiveUpKeeps, CancelKeeps,
     ReconcileKeeps, WorkKeeps, LookKeeps, RecordKeeps, RestartKeeps DEF Next

-----------------------------------------------------------------------------
(* What a step does to the jobs there are. *)

\* Only an acceptance adds a job; what the others are for never changes.
LEMMA Steady ==
  ASSUME [Next]_vars, \A r \in Request : ~Accept(r)
  PROVE  UNCHANGED <<accepted, plan, key>>
<1>1. CASE UNCHANGED vars
  BY <1>1 DEF vars
<1>2. ASSUME NEW j \in JobId, Executor(j)  PROVE UNCHANGED <<accepted, plan, key>>
  BY <1>2 DEF Executor, Check, refuseBeforeRunning, Begin, Launch, Engage, Executed, Decide, Clean,
     Cleaned, Finish, job
<1>3. ASSUME NEW h \in Holder, RevokeFirst(h) \/ RecordRevocation(h) \/ RevokeAgain(h)
      PROVE  UNCHANGED <<accepted, plan, key>>
  BY <1>3 DEF RevokeFirst, RevokeAgain, revoke, RecordRevocation, job
<1>4. ASSUME NEW r \in Request,
             \/ \E p \in PlanId, k \in Key : Start(r, p, k)
             \/ Inspect(r) \/ StartReturns(r)
      PROVE  UNCHANGED <<accepted, plan, key>>
  BY <1>4 DEF Start, Inspect, StartReturns, job
<1>5. ASSUME NEW j \in JobId,
             \/ GiveUp(j) \/ Cancel(j) \/ Reconcile(j)
             \/ \E r \in Resource : Work(j, r)
             \/ \E seen \in {"absent", "present", "unverified"} : Look(j, seen)
      PROVE  UNCHANGED <<accepted, plan, key>>
  BY <1>5 DEF GiveUp, Cancel, Reconcile, Work, Look, job
<1>6. CASE (\E p \in PlanId : Plan(p) \/ Expire(p)) \/ Restart
  BY <1>6 DEF Plan, Expire, Restart, job
<1>. QED  BY <1>1, <1>2, <1>3, <1>4, <1>5, <1>6 DEF Next

\* A finished job stays as it ended.
LEMMA Ends ==
  ASSUME Core, [Next]_vars, NEW j \in JobId, state[j] \in Terminal
  PROVE  state'[j] = state[j]
<1>0. TypeOK /\ JobOK(j) /\ pc[j] = "none" /\ ~Active(j)
  BY DEF Core, JobOK, Fits, Active, Terminal
<1>1. CASE UNCHANGED vars
  BY <1>1 DEF vars
<1>2. ASSUME NEW i \in JobId, Executor(i)  PROVE state'[j] = state[j]
  <2>1. pc[i] # "none"
    BY <1>2 DEF Executor, Check, refuseBeforeRunning, Begin, Launch, Engage, Executed, Decide, Clean,
       Cleaned, Finish
  <2>2. CASE refuseBeforeRunning(i) \/ Begin(i) \/ Finish(i)
    BY <1>0, <2>1, <2>2 DEF refuseBeforeRunning, Begin, Finish, TypeOK
  <2>3. CASE ~(refuseBeforeRunning(i) \/ Begin(i) \/ Finish(i))
    BY <1>2, <2>3 DEF Executor, Check, Launch, Engage, Executed, Decide, Clean, Cleaned, verdict
  <2>. QED  BY <2>2, <2>3
<1>3. ASSUME NEW h \in Holder, RevokeFirst(h) \/ RecordRevocation(h) \/ RevokeAgain(h)
      PROVE  state'[j] = state[j]
  BY <1>0, <1>3 DEF RevokeFirst, RevokeAgain, revoke, RecordRevocation, RevokedJobs,
     cancelLocked, verdict
<1>4. ASSUME NEW r \in Request,
             \/ \E p \in PlanId, k \in Key : Start(r, p, k)
             \/ Inspect(r) \/ StartReturns(r)
      PROVE  state'[j] = state[j]
  BY <1>4 DEF Start, Inspect, StartReturns, verdict
<1>5. ASSUME NEW i \in JobId,
             \/ GiveUp(i) \/ Cancel(i) \/ Reconcile(i)
             \/ \E r \in Resource : Work(i, r)
             \/ \E seen \in {"absent", "present", "unverified"} : Look(i, seen)
      PROVE  state'[j] = state[j]
  BY <1>0, <1>5 DEF GiveUp, Cancel, cancelLocked, Reconcile, Work, Look, verdict
<1>6. CASE (\E p \in PlanId : Plan(p) \/ Expire(p)) \/ Restart
  BY <1>0, <1>6 DEF Plan, Expire, Restart, verdict
<1>7. ASSUME NEW r \in Request, Accept(r)  PROVE state'[j] = state[j]
  <2>1. accepted + 1 \notin Accepted
    BY <1>0 DEF Accepted, TypeOK
  <2>2. j # accepted + 1
    BY <1>0, <2>1 DEF JobOK, Fits, Terminal
  <2>. QED  BY <1>0, <1>7, <2>2 DEF Accept, NewJob, TypeOK
<1>. QED  BY <1>1, <1>2, <1>3, <1>4, <1>5, <1>6, <1>7 DEF Next

\* Unless one is accepted no job becomes active.
LEMMA Wanes ==
  ASSUME Core, [Next]_vars, UNCHANGED accepted, NEW j \in JobId, Active(j)'
  PROVE  Active(j)
BY Ends DEF Active, Accepted

\* The job that is accepted, and the jobs it was accepted beside.
LEMMA Newcomer ==
  ASSUME Core, NEW r \in Request, Accept(r)
  PROVE  LET n == accepted + 1  p == request[r].plan IN
         /\ n \in JobId /\ n \notin Accepted /\ p \in PlanId
         /\ Accepted' = Accepted \cup {n} /\ Accepted \subseteq JobId
         /\ plan'[n] = p /\ key'[n] = request[r].key /\ state'[n] = "accepted"
         /\ \A j \in Accepted : j < n
         /\ \A j \in JobId \ {n} : /\ plan'[j] = plan[j] /\ key'[j] = key[j]
                                   /\ state'[j] = state[j]
         /\ \A j \in JobId \ {n} : Active(j)' <=> Active(j)
<1> DEFINE n == accepted + 1
           p == request[r].plan
<1>0. /\ n \in JobId /\ p \in PlanId /\ NewJob(r) /\ TypeOK
  BY JobAssumption DEF Core, Accept, acceptanceLocked, TypeOK, JobId
<1>1. /\ accepted' = n /\ accepted \in Nat
      /\ plan' = [plan EXCEPT ![n] = p]
      /\ key' = [key EXCEPT ![n] = request[r].key]
      /\ state' = [state EXCEPT ![n] = "accepted"]
  BY <1>0, JobAssumption DEF NewJob, TypeOK
<1>2. /\ n \notin Accepted /\ Accepted' = Accepted \cup {n} /\ Accepted \subseteq JobId
      /\ \A j \in Accepted : j < n
  <2>1. n \in Nat /\ accepted \in Nat
    BY <1>1
  <2>2. 1..n = (1..accepted) \cup {n}
    BY <2>1
  <2>3. MaxJobs \in Nat /\ n <= MaxJobs
    BY <1>0, JobAssumption DEF JobId
  <2>4. Accepted \subseteq JobId
    BY <2>1, <2>3 DEF Accepted, JobId
  <2>. QED  BY <1>1, <2>1, <2>2, <2>4 DEF Accepted
<1>3. /\ plan'[n] = p /\ key'[n] = request[r].key /\ state'[n] = "accepted"
      /\ \A j \in JobId \ {n} : /\ plan'[j] = plan[j] /\ key'[j] = key[j]
                                /\ state'[j] = state[j]
  BY <1>0, <1>1 DEF TypeOK
<1>4. \A j \in JobId \ {n} : Active(j)' <=> Active(j)
  BY <1>2, <1>3 DEF Active
<1>. QED  BY <1>0, <1>2, <1>3, <1>4

-----------------------------------------------------------------------------
(* Keys and claims. *)

LEMMA KeysKeep ==
  ASSUME Core, OneJobPerKey, [Next]_vars
  PROVE  OneJobPerKey'
<1>1. ASSUME NEW r \in Request, Accept(r)  PROVE OneJobPerKey'
  <2> DEFINE n == accepted + 1
             p == request[r].plan
  <2>1. \A j \in Accepted : ~(key[j] = request[r].key /\ PlanActor[plan[j]] = PlanActor[p])
    BY <1>1 DEF Accept, acceptanceLocked, KeyUsed
  <2>2. SUFFICES ASSUME NEW i \in JobId, NEW j \in JobId, i \in Accepted', j \in Accepted',
                        key'[i] = key'[j], PlanActor[plan'[i]] = PlanActor[plan'[j]]
                 PROVE  i = j
    BY DEF OneJobPerKey
  <2>3. CASE i # n /\ j # n
    BY <1>1, <2>2, <2>3, Newcomer DEF OneJobPerKey
  <2>4. CASE i = n \/ j = n
    BY <1>1, <2>1, <2>2, <2>4, Newcomer
  <2>. QED  BY <2>3, <2>4
<1>2. CASE \A r \in Request : ~Accept(r)
  BY <1>2, Steady DEF OneJobPerKey, Accepted
<1>. QED  BY <1>1, <1>2

\* The one that is accepted claims nothing an unfinished job does.
LEMMA NewcomerIsAlone ==
  ASSUME Core, NEW r \in Request, Accept(r), NEW j \in JobId, Active(j)
  PROVE  Claims(j) \cap PlanClaims[request[r].plan] = {}
BY DEF Accept, resourceConflicts, Holds, Active

LEMMA ClaimsKeep ==
  ASSUME Core, ClaimsAreExclusive, InOrder, [Next]_vars
  PROVE  ClaimsAreExclusive' /\ InOrder'
<1>1. ASSUME NEW r \in Request, Accept(r)  PROVE ClaimsAreExclusive' /\ InOrder'
  <2>p. PICK n \in JobId, p \in PlanId : n = accepted + 1 /\ p = request[r].plan
    BY <1>1, Newcomer
  <2>0. n \in JobId /\ Accepted' = Accepted \cup {n} /\ (\A j \in Accepted : j < n)
        /\ \A j \in JobId \ {n} : plan'[j] = plan[j] /\ (Active(j)' <=> Active(j))
    BY <1>1, <2>p, Newcomer
  <2>1. /\ Claims(n)' = PlanClaims[p] /\ SpaceOf(n)' = PlanSpace[p]
        /\ \A j \in JobId \ {n} : Claims(j)' = Claims(j) /\ SpaceOf(j)' = SpaceOf(j)
    BY <1>1, <2>p, Newcomer DEF Claims, SpaceOf
  <2>2. \A j \in JobId : Active(j) => Claims(j) \cap PlanClaims[p] = {}
    BY <1>1, <2>p, NewcomerIsAlone
  <2>3. ClaimsAreExclusive'
    BY <2>0, <2>1, <2>2 DEF ClaimsAreExclusive
  <2>4. InOrder'
    <3> SUFFICES ASSUME NEW i \in JobId, NEW j \in JobId, Active(j)', i \in Accepted',
                        Claims(i)' \cap Claims(j)' # {}
                 PROVE  i <= j
      BY DEF InOrder
    <3>0. i \in Nat /\ j \in Nat
      BY DEF JobId
    <3>1. CASE i # n /\ j # n
      BY <2>0, <2>1, <3>1 DEF InOrder
    <3>2. CASE i = n /\ j # n
      BY <2>0, <2>1, <2>2, <3>2
    <3>3. CASE j = n
      BY <2>0, <3>0, <3>3
    <3>. QED  BY <3>1, <3>2, <3>3
  <2>. QED  BY <2>3, <2>4
<1>2. CASE \A r \in Request : ~Accept(r)
  <2>1. UNCHANGED <<accepted, plan>>
    BY <1>2, Steady
  <2>2. \A j \in JobId : Active(j)' => Active(j)
    BY <2>1, Wanes
  <2>. QED  BY <2>1, <2>2 DEF ClaimsAreExclusive, InOrder, Claims, SpaceOf, Accepted
<1>. QED  BY <1>1, <1>2

-----------------------------------------------------------------------------
(* Nodes. *)

\* Nothing is released but what was just seen to be empty.
LEMMA Releases ==
  ASSUME Core, [Next]_vars, \A r \in Request : ~Accept(r),
         NEW k \in JobId, Spent(k)', ~Spent(k)
  PROVE  nodes'[SpaceOf(k)] = {}
<1>0. TypeOK /\ JobOK(k)
  BY DEF Core
<1> USE DEF Spent, verifiedWebCleanup
<1>1. CASE UNCHANGED <<state, disposition, unresolved, check, outcome, open>>
  BY <1>1
<1>2. ASSUME NEW j \in JobId, Executor(j)  PROVE nodes'[SpaceOf(k)] = {}
  <2>1. CASE Check(j) \/ Launch(j) \/ Engage(j) \/ Decide(j)
    BY <1>1, <2>1 DEF Check, Launch, Engage, Decide, verdict
  <2>2. CASE Begin(j)
    BY <1>0, <2>2 DEF Begin, TypeOK, Terminal
  <2>3. CASE Clean(j) \/ \E e \in {"yes", "no"}, d \in {"none", "retained", "unknown"} : Executed(j, e, d)
    BY <1>0, <2>3 DEF Clean, CleanupFails, Executed, TypeOK, verdict
  <2>4. CASE refuseBeforeRunning(j)
    BY <1>0, <2>4 DEF refuseBeforeRunning, Gone, TypeOK
  <2>5. CASE Finish(j)
    <3>1. k # j => Spent(k)' = Spent(k)
      BY <1>0, <2>5 DEF Finish, Gone, TypeOK
    <3>2. CASE k = j
      <4>1. check[k] = "none" /\ check' = check
        BY <1>0, <2>5, <3>2 DEF Finish, JobOK, Fits, Terminal
      <4>2. outcome'[k] = "none"
        BY <1>0, <2>5, <3>2 DEF Finish, Gone, TypeOK
      <4>3. disposition'[k] = "cleaned" /\ unresolved'[k] = "no"
        BY <4>1, <4>2
      <4>4. open[k] = "no" /\ outcome[k] = "cleaned"
        BY <1>0, <2>5, <3>2, <4>3 DEF Finish, Left, TypeOK
      <4>. QED  BY <4>4
    <3>. QED  BY <3>1, <3>2
  <2>6. ASSUME NEW left \in SUBSET Resource, Cleaned(j, left)  PROVE nodes'[SpaceOf(k)] = {}
    <3>1. k = j
      BY <1>0, <2>6 DEF Cleaned, CleanupFails, TypeOK, verdict
    <3>2. left = {}
      BY <1>0, <2>6, <3>1 DEF Cleaned, CleanupFails, TypeOK, verdict
    <3>3. SpaceOf(k) \in Space
      BY <2>6, <3>1, UnderWay DEF Cleaned
    <3>. QED  BY <1>0, <2>6, <3>1, <3>2, <3>3 DEF Cleaned, TypeOK
  <2>. QED  BY <1>2, <2>1, <2>2, <2>3, <2>4, <2>5, <2>6 DEF Executor
<1>3. ASSUME NEW h \in Holder, RevokeFirst(h) \/ RecordRevocation(h) \/ RevokeAgain(h)
      PROVE  nodes'[SpaceOf(k)] = {}
  BY <1>0, <1>3 DEF RevokeFirst, RevokeAgain, revoke, RecordRevocation, RevokedJobs, Active,
     cancelLocked, verdict, exec, Terminal
<1>4. ASSUME NEW r \in Request,
             \/ \E p \in PlanId, q \in Key : Start(r, p, q)
             \/ Inspect(r) \/ StartReturns(r)
      PROVE  nodes'[SpaceOf(k)] = {}
  BY <1>1, <1>4 DEF Start, Inspect, StartReturns, verdict, exec
<1>5. ASSUME NEW j \in JobId, GiveUp(j) \/ Cancel(j) \/ \E r \in Resource : Work(j, r)
      PROVE  nodes'[SpaceOf(k)] = {}
  BY <1>0, <1>5 DEF GiveUp, Gone, Cancel, cancelLocked, Active, Work, verdict, exec, TypeOK,
     Terminal
<1>6. ASSUME NEW j \in JobId, NEW seen \in {"absent", "present", "unverified"}, Look(j, seen)
      PROVE  nodes'[SpaceOf(k)] = {}
  BY <1>0, <1>6 DEF Look, verdict, exec, TypeOK
<1>7. ASSUME NEW j \in JobId, Reconcile(j)  PROVE nodes'[SpaceOf(k)] = {}
  <2>1. check[j] \in {"absent", "present", "unverified"}
    BY <1>7, <1>0 DEF Reconcile, TypeOK
  <2>. QED  BY <1>0, <1>7, <2>1 DEF Reconcile, exec, TypeOK
<1>8. CASE Restart
  BY <1>0, <1>8 DEF Restart
<1>9. CASE (\E p \in PlanId : Plan(p) \/ Expire(p)) \/ UNCHANGED vars
  BY <1>1, <1>9 DEF Plan, Expire, verdict, exec, vars
<1>. QED  BY <1>2, <1>3, <1>4, <1>5, <1>6, <1>7, <1>8, <1>9 DEF Next

\* A node that was not there is where a job under way put it.
LEMMA Arrives ==
  ASSUME Core, [Next]_vars, NEW w \in Space, NEW r \in nodes'[w], r \notin nodes[w]
  PROVE  \E j \in JobId : /\ Active(j) /\ SpaceOf(j) = w /\ r \in Claims(j)
                          /\ pc[j] = "working" /\ UNCHANGED exec /\ UNCHANGED check
<1>0. TypeOK
  BY DEF Core
<1>1. nodes' # nodes
  OBVIOUS
<1>2. ASSUME NEW j \in JobId, NEW s \in Resource, Work(j, s)
      PROVE  Active(j) /\ SpaceOf(j) = w /\ r \in Claims(j) /\ pc[j] = "working"
             /\ UNCHANGED exec /\ UNCHANGED check
  BY <1>0, <1>2, UnderWay DEF Work, TypeOK
<1>3. ASSUME NEW j \in JobId, Executor(j)  PROVE FALSE
  <2>1. \E left \in SUBSET Resource : Cleaned(j, left)
    BY <1>1, <1>3 DEF Executor, Check, refuseBeforeRunning, Begin, Launch, Engage, Executed, Decide,
       Clean, Finish
  <2>. QED  BY <1>0, <2>1 DEF Cleaned, TypeOK
<1>4. ASSUME NEW j \in JobId,
             \/ GiveUp(j) \/ Cancel(j) \/ Reconcile(j)
             \/ \E seen \in {"absent", "present", "unverified"} : Look(j, seen)
      PROVE  FALSE
  BY <1>1, <1>4 DEF GiveUp, Cancel, Reconcile, Look
<1>5. ASSUME NEW q \in Request,
             \/ \E p \in PlanId, k \in Key : Start(q, p, k)
             \/ Inspect(q) \/ StartReturns(q) \/ Accept(q)
      PROVE  FALSE
  BY <1>1, <1>5 DEF Start, Inspect, StartReturns, Accept, NewJob
<1>6. ASSUME NEW h \in Holder, RevokeFirst(h) \/ RecordRevocation(h) \/ RevokeAgain(h)
      PROVE  FALSE
  BY <1>1, <1>6 DEF RevokeFirst, RevokeAgain, revoke, RecordRevocation
<1>7. ~(\/ \E p \in PlanId : Plan(p) \/ Expire(p)
        \/ Restart \/ UNCHANGED vars)
  BY <1>1 DEF Plan, Expire, Restart, vars
<1>. QED  BY <1>2, <1>3, <1>4, <1>5, <1>6, <1>7 DEF Next

\* A job under way has released nothing.
LEMMA Unspent ==
  ASSUME Core, NEW j \in JobId, state[j] \notin Terminal,
         pc[j] \notin {"decide", "clean", "cleaning", "finish"}
  PROVE  ~Spent(j)
BY DEF Core, JobOK, Fits, Spent, verifiedWebCleanup

LEMMA PlacedKeeps ==
  ASSUME Core, InOrder, Placed, [Next]_vars
  PROVE  Placed'
<1>0. TypeOK /\ Accepted \subseteq JobId
  BY JobAssumption DEF Core, TypeOK, Accepted, JobId
<1>1. ASSUME NEW q \in Request, Accept(q)  PROVE Placed'
  <2>0. PICK n \in JobId : n = accepted + 1
    BY <1>1, Newcomer
  <2>1. nodes' = nodes /\ \A j \in Accepted : plan'[j] = plan[j]
    BY <1>0, <1>1, Newcomer DEF Accept, NewJob
  <2>2. ASSUME NEW k \in Accepted', Spent(k)'  PROVE k \in Accepted /\ Spent(k)
    <3>0. UNCHANGED <<disposition, unresolved, check, outcome, open>>
      BY <1>1 DEF Accept, NewJob
    <3>1. k # n
      <4>1. JobOK(n) /\ state[n] = "none" /\ state'[n] = "accepted"
        BY <1>0, <1>1, <2>0, Newcomer DEF Core, JobOK, Fits
      <4>. QED  BY <2>2, <3>0, <4>1 DEF JobOK, Fits, Spent, verifiedWebCleanup, Terminal
    <3>2. k \in Accepted /\ state'[k] = state[k]
      BY <1>0, <1>1, <2>0, <3>1, Newcomer
    <3>. QED  BY <2>2, <3>0, <3>2 DEF Spent, verifiedWebCleanup
  <2>3. SUFFICES ASSUME NEW w \in Space, NEW r \in nodes[w]
                 PROVE  \E j \in Accepted' : Keeps(j, w, r)'
    BY <2>1 DEF Placed
  <2>4. PICK j \in Accepted : Keeps(j, w, r)
    BY DEF Placed
  <2>5. j \in Accepted'
    BY <1>1, Newcomer
  <2>6. Keeps(j, w, r)'
    BY <2>1, <2>2, <2>4 DEF Keeps, SpaceOf, Claims
  <2>. QED  BY <2>5, <2>6
<1>2. CASE \A q \in Request : ~Accept(q)
  <2>1. UNCHANGED <<accepted, plan>>
    BY <1>2, Steady
  <2>2. SUFFICES ASSUME NEW w \in Space, NEW r \in nodes'[w]
                 PROVE  \E j \in Accepted : Keeps(j, w, r)'
    BY <2>1 DEF Placed, Accepted
  <2>3. ASSUME NEW k \in Accepted, SpaceOf(k) = w, ~Spent(k)  PROVE ~Spent(k)'
    BY <1>0, <1>2, <2>3, Releases
  <2>4. CASE r \in nodes[w]
    <3>1. PICK j \in Accepted : Keeps(j, w, r)
      BY <2>4 DEF Placed
    <3>. QED  BY <2>1, <2>3, <3>1 DEF Keeps, SpaceOf, Claims, Accepted
  <2>5. CASE r \notin nodes[w]
    <3>1. PICK j \in JobId : /\ Active(j) /\ SpaceOf(j) = w /\ r \in Claims(j)
                             /\ pc[j] = "working"
      BY <2>5, Arrives
    <3>2. j \in Accepted /\ ~Spent(j)
      BY <3>1, Unspent DEF Active
    <3>3. \A k \in Accepted : k >= j /\ r \in Claims(k) => k = j
      BY <1>0, <3>1 DEF InOrder, JobId
    <3>4. ~Spent(j)'
      BY <2>3, <3>1, <3>2
    <3>. QED  BY <2>1, <3>1, <3>2, <3>3, <3>4 DEF Keeps, SpaceOf, Claims, Accepted
  <2>. QED  BY <2>4, <2>5
<1>. QED  BY <1>1, <1>2

LEMMA ForeignKeeps ==
  ASSUME Core, ClaimsAreExclusive, Placed, NoForeignNodes, [Next]_vars
  PROVE  NoForeignNodes'
<1>0. TypeOK /\ Accepted \subseteq JobId
  BY JobAssumption DEF Core, TypeOK, Accepted, JobId
<1> SUFFICES ASSUME NEW j \in JobId, Active(j)', NEW w \in Space, w # SpaceOf(j)',
                    NEW r \in nodes'[w], r \in Claims(j)'
             PROVE  FALSE
  BY DEF NoForeignNodes
<1>1. CASE Active(j) /\ plan'[j] = plan[j]
  <2>1. w # SpaceOf(j) /\ r \in Claims(j)
    BY <1>1 DEF SpaceOf, Claims
  <2>2. CASE r \in nodes[w]
    BY <1>1, <2>1, <2>2 DEF NoForeignNodes
  <2>3. CASE r \notin nodes[w]
    <3>1. PICK i \in JobId : Active(i) /\ SpaceOf(i) = w /\ r \in Claims(i)
      BY <2>3, Arrives
    <3>. QED  BY <1>1, <2>1, <3>1 DEF ClaimsAreExclusive
  <2>. QED  BY <2>2, <2>3
<1>2. ASSUME NEW q \in Request, Accept(q), j = accepted + 1  PROVE FALSE
  <2> DEFINE p == request[q].plan
  <2>1. nodes' = nodes /\ PlanSpace[p] # w /\ r \in PlanClaims[p]
    BY <1>2, Newcomer DEF Accept, NewJob, SpaceOf, Claims
  <2>2. PICK i \in Accepted : Keeps(i, w, r)
    BY <2>1 DEF Placed
  <2>3. i \in Nat
    BY <1>0 DEF JobId
  <2>4. ~Spent(i) /\ SpaceOf(i) = w /\ r \in Claims(i) /\ ~claimCleaned(i, r)
    <3>1. \A k \in Accepted : k \in Nat
      BY <1>0 DEF JobId
    <3>2. SpaceOf(i) = w /\ r \in Claims(i)
          /\ \A k \in Accepted : k >= i /\ SpaceOf(k) = w /\ r \in Claims(k) => ~Spent(k)
      BY <2>2 DEF Keeps
    <3>3. \A k \in Accepted : verifiedWebCleanup(k) => Spent(k)
      BY DEF Spent
    <3>4. \A k \in Accepted : (k > i => k >= i) /\ i >= i
      BY <2>3, <3>1
    <3>5. ~Spent(i)
      BY <3>2, <3>4
    <3>6. ~claimCleaned(i, r)
      BY <3>2, <3>3, <3>4, Zenon DEF claimCleaned
    <3>. QED  BY <3>2, <3>5, <3>6
  <2>5. Holds(i, PlanSpace[p], r)
    BY <2>1, <2>4 DEF Holds, Spent
  <2>. QED  BY <1>2, <2>1, <2>5 DEF Accept, resourceConflicts
<1>3. ASSUME NEW q \in Request, Accept(q), j # accepted + 1  PROVE FALSE
  BY <1>1, <1>3, Newcomer
<1>4. CASE \A q \in Request : ~Accept(q)
  BY <1>1, <1>4, Steady, Wanes
<1>. QED  BY <1>2, <1>3, <1>4

-----------------------------------------------------------------------------
(* The theorems. *)

LEMMA InvAtFirst == Init => JobsInv
<1> SUFFICES ASSUME Init  PROVE JobsInv
  OBVIOUS
<1>1. Core
  BY CoreAtFirst
<1>2. Accepted = {}
  BY DEF Init, Accepted
<1>3. Placed
  BY DEF Init, Placed
<1>. QED  BY <1>1, <1>2, <1>3 DEF JobsInv, OneJobPerKey, ClaimsAreExclusive, InOrder,
          NoForeignNodes, Active

LEMMA JobsInvariant == Spec => []JobsInv
<1>1. JobsInv /\ [Next]_vars => JobsInv'
  BY StepKeeps, KeysKeep, ClaimsKeep, PlacedKeeps, ForeignKeeps DEF JobsInv
<1>. QED  BY InvAtFirst, <1>1, PTL DEF Spec

\* web_jobs.go: the records of the jobs, the executors, the requests, the resource holds
\* and the revocations keep to their types, and a job has a plan once it is accepted.
THEOREM JobsTyped == Spec => []TypeOK
<1>1. JobsInv => TypeOK
  BY DEF JobsInv, Core
<1>. QED  BY <1>1, JobsInvariant, PTL

\* WebJobs.Start: two unfinished jobs never claim the same resource, although the targets
\* are inspected outside the lock.
THEOREM ClaimsStayExclusive == Spec => []ClaimsAreExclusive
<1>1. JobsInv => ClaimsAreExclusive
  BY DEF JobsInv
<1>. QED  BY <1>1, JobsInvariant, PTL

\* resourceConflicts: no job is let onto a resource where another workspace has nodes,
\* whatever cleanups, looks and crashes came before.
THEOREM NodesStayTheirOwn == Spec => []NoForeignNodes
<1>1. JobsInv => NoForeignNodes
  BY DEF JobsInv
<1>. QED  BY <1>1, JobsInvariant, PTL

\* acceptanceLocked: an actor's key starts one job only.
THEOREM KeysStartOneJob == Spec => []OneJobPerKey
<1>1. JobsInv => OneJobPerKey
  BY DEF JobsInv
<1>. QED  BY <1>1, JobsInvariant, PTL

\* cancelLocked and run: nothing executes with a live context once its job is being
\* cancelled, and nothing is cleaned with one after a revocation.
THEOREM CancelsReachTheWork == Spec => []CancelReachesTheWork
<1>1. JobsInv => CancelReachesTheWork
  BY DEF JobsInv, Core, JobOK, Reached, Early, CancelReachesTheWork
<1>. QED  BY <1>1, JobsInvariant, PTL

\* RevokeAccount and RevokeCredential: once they have returned, no job that needs what was
\* revoked works with a live context.
THEOREM RevocationsStopTheWork == Spec => []RevokedWorkStops
<1>1. JobsInv => RevokedWorkStops
  BY DEF JobsInv, Core, JobOK, Stopped, Needs, RevokedWorkStops
<1>. QED  BY <1>1, JobsInvariant, PTL

\* finish, cancelLocked and OpenWebJobs: a finished job stays as it ended, and one that was
\* cancelled is never recorded as succeeded.
THEOREM EndsAreFinal == Spec => EndIsFinal
<1>1. JobsInv /\ JobsInv' /\ [Next]_vars
      => [\A j \in JobId : /\ state[j] \in Terminal => state'[j] = state[j]
                           /\ state'[j] = "succeeded" => reason'[j] = "none"]_vars
  BY Ends DEF JobsInv, Core, JobOK, Fits
<1>. QED  BY <1>1, JobsInvariant, PTL DEF Spec, EndIsFinal
=============================================================================
