------------------------------ MODULE JobFeed ------------------------------
(***************************************************************************)
(* How a page follows the jobs of a dashboard: the feed of committed       *)
(* changes (internal/app/web_job_observation.go), the event stream over    *)
(* it (internal/dashboard/snapshot.go) and the page's reducer              *)
(* (web/src/job-stream.svelte.js, job-observation.mjs).                    *)
(*                                                                         *)
(* A page reads a snapshot and subscribes from its cursor: a feed instance *)
(* and the number of committed changes.  The feed keeps the last Buffer    *)
(* changes for replay and gives every subscriber a channel of Buffer; a    *)
(* change that finds the channel full is dropped.  Jobs are revisions.     *)
(***************************************************************************)
EXTENDS Integers, Sequences, FiniteSets, SequencesExt

CONSTANTS Job, NoJob,
          Client, NoClient,
          Scope,           \* the jobs each client asked to see
          Slot, NoSlot,    \* the subscriptions the feed allows at a time
          Buffer,          \* webJobObservationBuffer
          Wire,            \* bound: what a connection holds between its two ends
          MaxVersion,      \* bound: changes committed
          Faults,          \* which of "restart", "break", "expire", "refresh" happen
          MaxFaults        \* bound: how many

ASSUME FeedAssumption ==
  /\ NoJob \notin Job /\ NoClient \notin Client /\ NoSlot \notin Slot
  /\ Scope \in [Client -> SUBSET Job]
  /\ Buffer \in Nat \ {0} /\ Wire \in Nat \ {0}
  /\ MaxVersion \in Nat /\ MaxFaults \in Nat

VARIABLES audit,    \* state.Audit: one entry per commit, here with the jobs it left
          inst,     \* the feed's instance
          journal,  \* its last changes
          sub,      \* its subscribers: whose each slot is, and its channel
          wire,     \* what was written to each client's stream
          phase,    \* what the page is doing
          view,     \* what it shows: an instance, a version and the jobs
          snap,     \* the snapshot the server is taking for it
          stream,   \* the subscription behind its stream
          faults

vars == <<audit, inst, journal, sub, wire, phase, view, snap, stream, faults>>
server == <<audit, inst, journal>>

NoJobs == [j \in Job |-> 0]
version == Len(audit)

\* The jobs as change v left them.
At(v) == IF v = 0 THEN NoJobs ELSE audit[v]
jobs == At(version)

\* What a client may see of them.
Scoped(c, js) == [j \in Job |-> IF j \in Scope[c] THEN js[j] ELSE 0]

Event(type, v, j, r) == [type |-> type, inst |-> inst, ver |-> v, job |-> j, rev |-> r]

Free == [client |-> NoClient, chan |-> <<>>]
NoView == [inst |-> 0, ver |-> 0, jobs |-> NoJobs]
NoSnap == [try |-> 0, ver |-> -1, jobs |-> NoJobs]

Init ==
  /\ audit = <<>> /\ inst = 1 /\ journal = <<>>
  /\ sub = [s \in Slot |-> Free]
  /\ wire = [c \in Client |-> <<>>]
  /\ phase = [c \in Client |-> "snapshot"]
  /\ view = [c \in Client |-> NoView]
  /\ snap = [c \in Client |-> NoSnap]
  /\ stream = [c \in Client |-> NoSlot]
  /\ faults = 0

Revision == 0..MaxVersion + MaxFaults
Events == [type : {"job_changed", "version_changed", "resync_required", "observation"},
           inst : 1..MaxFaults + 1, ver : Revision, job : Job \cup {NoJob}, rev : Revision]

TypeOK ==
  /\ audit \in Seq([Job -> Revision]) /\ version \in Revision
  /\ inst \in 1..MaxFaults + 1 /\ journal \in Seq(Events)
  /\ sub \in [Slot -> [client : Client \cup {NoClient}, chan : Seq(Events)]]
  /\ wire \in [Client -> Seq(Events)]
  /\ phase \in [Client -> {"snapshot", "connect", "live", "wait"}]
  /\ view \in [Client -> [inst : 0..MaxFaults + 1, ver : Revision, jobs : [Job -> Revision]]]
  /\ snap \in [Client -> [try : 0..3, ver : Revision \cup {-1}, jobs : [Job -> Revision]]]
  /\ stream \in [Client -> Slot \cup {NoSlot}]
  /\ faults \in 0..MaxFaults

Fault(kind) == kind \in Faults /\ faults < MaxFaults /\ faults' = faults + 1

-----------------------------------------------------------------------------
(* The feed. *)

\* A mutant: one change too many is kept.
keepsOneMore(es) == SubSeq(es, IF Len(es) > Buffer + 1 THEN Len(es) - Buffer ELSE 1, Len(es))

\* The last Buffer changes.
trimmed(es) == SubSeq(es, IF Len(es) > Buffer THEN Len(es) - Buffer + 1 ELSE 1, Len(es))

\* The change goes to the journal and to every channel with room for it.
recordJobChange(e) ==
  /\ journal' = trimmed(Append(journal, e))
  /\ sub' = [s \in Slot |->
               IF sub[s].client # NoClient /\ Len(sub[s].chan) < Buffer
               THEN [sub[s] EXCEPT !.chan = Append(@, e)] ELSE sub[s]]

\* A change of job j, or (NoJob) of a plan, is on disk.
commit(j) ==
  LET new == [k \in Job |-> IF k = j THEN jobs[k] + 1 ELSE jobs[k]] IN
  /\ version < MaxVersion
  /\ audit' = Append(audit, new)
  /\ recordJobChange(IF j \in Job THEN Event("job_changed", version + 1, j, new[j])
                     ELSE Event("version_changed", version + 1, NoJob, 0))
  /\ UNCHANGED <<inst, wire, phase, view, snap, stream, faults>>

\* The jobs of I did not finish before the server ended: interrupted, in one commit
\* that names none of them.
Interrupts(I) ==
  IF I = {}
  THEN audit' = audit /\ journal' = <<>>
  ELSE /\ audit' = Append(audit, [k \in Job |-> IF k \in I THEN jobs[k] + 1 ELSE jobs[k]])
       /\ journal' = <<[Event("version_changed", version + 1, NoJob, 0) EXCEPT !.inst = inst + 1]>>

\* The subscriptions are gone and the snapshots that were being taken fail.
Disconnects ==
  /\ sub' = [s \in Slot |-> Free]
  /\ phase' = [c \in Client |-> IF phase[c] = "snapshot" THEN "wait" ELSE phase[c]]
  /\ snap' = [c \in Client |-> NoSnap]

\* A mutant: the change was shown before it was on disk, and is lost.
OpenLosesLast(I) ==
  /\ Fault("restart")
  /\ inst' = inst + 1
  /\ audit' = IF audit = <<>> THEN audit ELSE Front(audit)
  /\ journal' = <<>>
  /\ Disconnects
  /\ UNCHANGED <<wire, view, stream>>

\* The server ends, and another one opens what it committed.
OpenWebJobs(I) ==
  /\ Fault("restart")
  /\ inst' = inst + 1
  /\ Interrupts(I)
  /\ Disconnects
  /\ UNCHANGED <<wire, view, stream>>

\* Why a cursor cannot be replayed from; the instance is compared before the version.
mustResync(cursor) ==
  \/ cursor.inst # inst
  \/ cursor.ver > version
  \/ cursor.ver < version /\ (journal = <<>> \/ cursor.ver + 1 < journal[1].ver)

\* Where the changes past version v begin in the journal.  It is in the order of the
\* versions, so the ones with a greater version, which the code picks, are its end.
firstAfter(v) ==
  CHOOSE k \in 1..Len(journal) + 1 : \A i \in DOMAIN journal : i < k <=> journal[i].ver <= v

\* What a new channel holds.
replay(cursor) ==
  IF mustResync(cursor)
  THEN <<Event("resync_required", version, NoJob, 0)>>
  ELSE SubSeq(journal, firstAfter(cursor.ver), Len(journal))

-----------------------------------------------------------------------------
(* The stream's handler. *)

Serves(s, c) == sub[s].client = c /\ stream[c] = s /\ phase[c] = "live"

\* A change is written to the stream; one of a job out of scope only counts.
Forward(s, c) ==
  LET e == Head(sub[s].chan)
      shown == IF e.job \in Job \ Scope[c]
               THEN [e EXCEPT !.type = "version_changed", !.job = NoJob, !.rev = 0] ELSE e
  IN /\ Serves(s, c) /\ sub[s].chan # <<>> /\ Len(wire[c]) < Wire
     /\ wire' = [wire EXCEPT ![c] = Append(@, shown)]
     /\ sub' = [sub EXCEPT ![s].chan = Tail(@)]
     /\ UNCHANGED <<server, phase, view, snap, stream, faults>>

\* Once a second: the committed version, whatever the channel still holds.
Heartbeat(s, c) ==
  /\ Serves(s, c) /\ Len(wire[c]) < Wire
  /\ wire' = [wire EXCEPT ![c] = Append(@, Event("observation", version, NoJob, 0))]
  /\ UNCHANGED <<server, sub, phase, view, snap, stream, faults>>

\* The handler of a stream nobody reads any more returns.
unsubscribe(s) ==
  /\ sub[s].client # NoClient /\ ~Serves(s, sub[s].client)
  /\ sub' = [sub EXCEPT ![s] = Free]
  /\ UNCHANGED <<server, wire, phase, view, snap, stream, faults>>

\* The session behind a stream is no longer authorized.
Unauthorized(s) ==
  /\ Fault("expire")
  /\ sub[s].client # NoClient
  /\ sub' = [sub EXCEPT ![s] = Free]
  /\ UNCHANGED <<server, wire, phase, view, snap, stream>>

-----------------------------------------------------------------------------
(* The page. *)

Goto(c, where) == phase' = [phase EXCEPT ![c] = where]

\* Its stream is closed.
disconnect(c) ==
  /\ stream' = [stream EXCEPT ![c] = NoSlot]
  /\ wire' = [wire EXCEPT ![c] = <<>>]

\* It closes the stream and asks for a snapshot, in place of any it waits for.
restore(c) ==
  /\ disconnect(c)
  /\ snap' = [snap EXCEPT ![c] = NoSnap]
  /\ Goto(c, "snapshot")

\* It closes the stream and tries again later.
retryLater(c) ==
  /\ disconnect(c)
  /\ snap' = [snap EXCEPT ![c] = NoSnap]
  /\ Goto(c, "wait")

\* The server reads the jobs under its lock, and then the networks without it.
SnapshotReads(c) ==
  /\ phase[c] = "snapshot" /\ snap[c].ver = -1
  /\ snap' = [snap EXCEPT ![c] = [try |-> @.try + 1, ver |-> version, jobs |-> Scoped(c, jobs)]]
  /\ UNCHANGED <<server, sub, wire, phase, view, stream, faults>>

\* A snapshot behind what the page shows, of the same instance, is not taken.
snapshotState(cur, new) == IF cur.inst = new.inst /\ cur.ver > new.ver THEN cur ELSE new

\* How often the server reads for one snapshot.
Attempts == 3

\* A change was committed meanwhile: it reads again, Attempts times in all.  Otherwise
\* the page has its snapshot and connects.
SnapshotReturns(c) ==
  /\ phase[c] = "snapshot" /\ snap[c].ver >= 0
  /\ IF snap[c].ver = version
     THEN /\ view' = [view EXCEPT ![c] =
               snapshotState(@, [inst |-> inst, ver |-> snap[c].ver, jobs |-> snap[c].jobs])]
          /\ snap' = [snap EXCEPT ![c] = NoSnap]
          /\ Goto(c, "connect")
          /\ UNCHANGED <<wire, stream>>
     ELSE /\ UNCHANGED view
          /\ IF snap[c].try < Attempts
             THEN snap' = [snap EXCEPT ![c].ver = -1] /\ UNCHANGED <<phase, wire, stream>>
             ELSE retryLater(c)
  /\ UNCHANGED <<server, sub, faults>>

\* The stream opens from the cursor of what the page shows, or is refused.
SubscribeChanges(c) ==
  /\ phase[c] = "connect"
  /\ \/ /\ \A s \in Slot : sub[s].client # NoClient
        /\ retryLater(c)
        /\ UNCHANGED sub
     \/ \E s \in Slot :
          /\ sub[s].client = NoClient
          /\ sub' = [sub EXCEPT ![s] = [client |-> c, chan |-> replay(view[c])]]
          /\ stream' = [stream EXCEPT ![c] = s]
          /\ Goto(c, "live")
          /\ UNCHANGED <<wire, snap>>
  /\ UNCHANGED <<server, view, faults>>

\* A mutant: a change past the next one is applied as well.
NeedsSnapshotOnlyIfTold(v, e) ==
  \/ e.inst # v.inst \/ e.type = "resync_required"
  \/ e.type = "observation" /\ e.ver > v.ver

\* A mutant: a heartbeat says nothing about what was missed.
NeedsSnapshotNotByHeartbeat(v, e) ==
  \/ e.inst # v.inst \/ e.type = "resync_required"
  \/ e.type # "observation" /\ e.ver > v.ver + 1

\* The page cannot go on from what it shows.
NeedsSnapshot(v, e) ==
  \/ e.inst # v.inst \/ e.type = "resync_required"
  \/ e.type = "observation" /\ e.ver > v.ver
  \/ e.type # "observation" /\ e.ver > v.ver + 1

Applied(v, e) ==
  IF e.type = "observation" \/ e.ver <= v.ver THEN v
  ELSE [v EXCEPT !.ver = e.ver,
                 !.jobs = [j \in Job |-> IF j = e.job THEN e.rev ELSE @[j]]]

applyJobChange(c) ==
  LET e == Head(wire[c]) IN
  /\ phase[c] = "live" /\ wire[c] # <<>>
  /\ IF NeedsSnapshot(view[c], e)
     THEN restore(c) /\ UNCHANGED view
     ELSE /\ view' = [view EXCEPT ![c] = Applied(@, e)]
          /\ wire' = [wire EXCEPT ![c] = Tail(@)]
          /\ UNCHANGED <<phase, snap, stream>>
  /\ UNCHANGED <<server, sub, faults>>

\* The server closed the stream, or is gone.
onerror(c) ==
  /\ phase[c] = "live" /\ sub[stream[c]].client # c
  /\ retryLater(c)
  /\ UNCHANGED <<server, sub, view, faults>>

\* The connection fails, or the snapshot does.
Break(c) ==
  /\ Fault("break")
  /\ phase[c] \in {"snapshot", "connect", "live"}
  /\ retryLater(c)
  /\ UNCHANGED <<server, sub, view>>

Retry(c) ==
  /\ phase[c] = "wait"
  /\ restore(c)
  /\ UNCHANGED <<server, sub, view, faults>>

\* The user asks for it, whatever the page is doing.
refresh(c) ==
  /\ Fault("refresh")
  /\ restore(c)
  /\ UNCHANGED <<server, sub, view>>

-----------------------------------------------------------------------------

Stream(c) ==
  \/ \E s \in Slot : Forward(s, c) \/ Heartbeat(s, c)
  \/ SnapshotReads(c) \/ SnapshotReturns(c) \/ SubscribeChanges(c)
  \/ applyJobChange(c) \/ onerror(c) \/ Retry(c)

Next ==
  \/ \E j \in Job \cup {NoJob} : commit(j)
  \/ \E I \in SUBSET Job : OpenWebJobs(I)
  \/ \E s \in Slot : unsubscribe(s) \/ Unauthorized(s)
  \/ \E c \in Client : Stream(c) \/ Break(c) \/ refresh(c)

Spec == Init /\ [][Next]_vars

\* Handlers and requests run, the ticker fires and a page's callbacks and timers are
\* called; nothing says that anything is committed, fails or is refreshed.
Fairness ==
  /\ \A s \in Slot : WF_vars(unsubscribe(s))
  /\ \A c \in Client :
       /\ \A s \in Slot : WF_vars(Heartbeat(s, c))
       /\ WF_vars(SnapshotReads(c)) /\ WF_vars(SnapshotReturns(c))
       /\ WF_vars(SubscribeChanges(c)) /\ WF_vars(applyJobChange(c))
       /\ WF_vars(onerror(c)) /\ WF_vars(Retry(c))

FairSpec == Spec /\ Fairness

-----------------------------------------------------------------------------
(* Properties. *)

\* What a page shows is what the server had committed at the version the page is at,
\* in full: replays, dropped changes, snapshots taken during commits, several
\* subscriptions of one page and restarts never mix two versions.
ViewIsCommitted ==
  \A c \in Client :
    view[c].inst > 0 =>
      /\ view[c].ver <= version
      /\ view[c].jobs = Scoped(c, At(view[c].ver))

\* A page never goes back to an older version, a server restart included.
NeverBack == [][\A c \in Client : view'[c].ver >= view[c].ver]_vars

\* A subscription's channel takes the whole replay: SubscribeChanges sends it with
\* the lock held and nobody reading, and would otherwise stop every job.
ReplayFits == \A s \in Slot : Len(sub[s].chan) <= Buffer

\* When no more changes are committed every page comes to show the last one, changes
\* that were dropped on the way included, and stays there.
CatchesUp == <>[](\A c \in Client : view[c].inst = inst /\ view[c].ver = version)
=============================================================================
