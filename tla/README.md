# chainbench: TLA+ models, checks and proofs

chainbench composes networks of geth-family nodes on local and remote machines,
keeps a record of what it launched, drives single nodes, runs declarative tests
against the network, and offers all of this through a command line, an MCP
server and a Web dashboard. This directory models the parts of it whose
correctness depends on the order of things: several commands on one workspace,
a command killed halfway, a composition resumed, nodes that move while a gate
looks at them, a fork crossed node by node, a service that restarts, a page that
missed a change.

Each module is translated from the source. `PROJECT.json` maps every definition
to the lines it stands for and lists the runs, the mutants that show each
property can fail, the hazards and the theorems.

    tlc -workers 2 -config WorkspaceLock_all.cfg MCWorkspaceLock
    tlapm ChainSetupProofs.tla

## 1. Inventory

### The system's parts

| part | state it keeps | operations | what is hard |
|---|---|---|---|
| workspace lock, set lock (`core/session/lock.go`, `chainsetup/setlock.go`) | a lock file with host and pid, a flock'ed guard beside it, the `Held` values of a process | `AcquireLock`, `Release`, `AcquireSetLock` (polls) | processes race and die at any instruction; pids are reused; holds nest |
| state machine (`core/statemachine`) | current state, active marks, pending destination, two queues, pending misuse | `Start`, `Send`, `Post`; states call `TransitionTo`, `SendSelf` | states answer their own messages, misuse the machine and fail halfway through a move |
| node record (`chainsetup`, `core/process/ledger.go`) | `process.json` (the run ledger) and `chain-record.json` (the composition), one copy of each per running command, and the processes of the machine | start, stop, restart, swap of one node; launch, stop, rm, reconcile of all; saves outside the lock | files read before the lock is held; two files that are not written together; kills between launch and save |
| control service jobs (`app/web_job*.go`, `web_resource_holds.go`) | plans, jobs, idempotency keys, audit; one goroutine and one cancel function per running job | `Plan`, `Start`, `execute`, `Cancel`, `RevokeActor`, `RevokeCredential`, `Reconcile`, `OpenWebJobs` | lock released around slow calls; cancellation and revocation race acceptance, cleanup and restart |
| job feed and page (`web_job_observation.go`, `dashboard/snapshot.go`, `web/src/job-stream.svelte.js`, `job-observation.mjs`) | journal, subscriptions with bounded channels; on the page a cursor and the jobs shown | commit, subscribe with replay, snapshot, event stream, heartbeat, reconnect | dropped changes, expired cursors, restarts, snapshots torn by commits |
| composition manager and stages (`chainsetup/manager*.go`, `stage_*.go`, `reuse.go`, `core/preflight`) | a state machine, the recorded path and the step map, the files, data directories and processes of the machines | compose in nine stages, reuse, compare, single steps, resume, stop, rm, restart | a stage that fails or is killed halfway; path against step map; what is kept of an earlier network |
| composition steps and verbs (`chainsetup/steps_*.go`, `verb/`) | workspace files | keys, genesis, config, placement, deploy, init | order of the steps, what each one needs |
| crossing a fork (`stage_crossfork.go`, `steps_crossfork.go`, `core/hardfork`) | roles, builds and command lines in the record, configs and processes on the machines | stand, wait for the moment, hand over node by node, confirm | the lock is free between the moments; the chain moves on; retries of a half done handover |
| test run machine (`testengine/runmachine.go`, `engine_impl.go`, `app/runmatrix.go`) | a state machine, the run's first failure, whether a network is up, the session's records | the stages of a run, the cases, the batch over presets | failure in any stage must still collect and tear down; lost writes; interrupts |
| readiness gate (`nodemonitor`, `testengine/nodegate.go`, `core/health`) | restarts per node, remaining wait, the reading of one round | observe, classify, restart, wait | three budgets at once; a reading is spread over time |
| inventory, ports, placement (`resource`, `steps_place.go`, `observe_discover.go`) | no table of its own: each workspace's record of its nodes | adopt, take, assign, place under the set's lock | shared sets, pins, exhaustion, records read while they are saved |
| lifecycle status, session records | derived from the record; the session's files | mark, save | lost writes |
| collector, health, rpc, remote, process drivers, inspector | probes and tails of running nodes | I/O | out of reach of a model: they take what the machine answers |
| dsl, interpreter, test vocabulary, accounts, keyring, genesis, nodeconfig, consensus families, chain plugins | documents and keys | parse, render, sign, call a chain | sequential |
| dashboard server and auth, monitor, history, assets, MCP, CLI | read models and routes | HTTP, stdio | thin over the parts above |

### How they interact

Every command opens a workspace (`Open` reads both files), takes the workspace
lock, does its work, saves both files and releases. The composition manager and
the test run are states added to one `statemachine.Machine` each; their stages
call the node operations, which launch and signal processes and write them into
the ledger. The dashboard does not link the engines: a job runs the command
line through `webcli`, and reads back what it recorded. Every change of a job
goes through `WebJobs.commit`, which appends to the audit and to the feed; pages
follow the feed.

### What makes each part correct

- lock: two runs never hold a workspace together; a holder is visible; a dead
  run's lock is taken over; calls return.
- machine: marks, tree and position agree; moves nest; a Send that succeeds
  leaves nothing pending; a Send returns.
- node record: every node that runs is named by the ledger; no execution of a
  node is given the revision of another; a launch is never refused after the
  fact; a stop that succeeds leaves nothing running that it could find.
- composition: a network that is reported ready serves what was asked for; a
  refused reuse touches nothing; a data directory is never taken from under a live
  node that is recorded; a failed launch is rolled back exactly.
- crossing: nobody of the post-fork build seals too early, no node runs with the
  command line of another build, a crossing that was walked moved everybody.
- gate: "ok" rests on a look at every node's height, peers and sync since the
  last restart, each true when it was taken; a network that was handed over passes
  only across its fork, restarts are capped, it ends.
- test run: what was brought up is taken down or reported, evidence first; every
  case has one verdict that all files agree on; imports come from passed cases.
- placement: no two nodes on a machine share a port; a layout is refused for want
  of room only when there is none.
- jobs: resources are never shared, one job per key, a cancellation or a
  revocation reaches the work, a job that nothing holds up ends and stays as it ended.
- feed: a page shows one committed version in full, never goes back, catches up.

`PROJECT.json` lists under "hazards" what can go wrong with each, at its line.

## 2. Modules

| module | models | composed with |
|---|---|---|
| `WorkspaceMutex` | abstract: what a workspace lock promises | implemented by `WorkspaceLock` |
| `WorkspaceLock` | `lock.go`, `setlock.go` | `INSTANCE WorkspaceMutex` with `holder` as the refinement mapping |
| `StateMachine` | `core/statemachine` with arbitrary states | |
| `NodeRecord` | the commands over ledger, record and machine | takes the lock as `WorkspaceMutex` promises it |
| `ReadinessContract` | abstract: what the gate promises a run | implemented by `Gate` |
| `Gate` | `nodemonitor`, `nodegate.go`, `health.go` | `INSTANCE ReadinessContract` with what each node is fit in, and was seen to be, as the refinement mapping |
| `Composition` | the manager, its stages, reuse, comparison and resume over the machines | takes the lock as `WorkspaceMutex` promises it |
| `CrossFork` | the crossing of a fork and the node operations between its moments | as above |
| `Placement` | pools, ports, inventory and the place step of several workspaces | takes the set lock as `WorkspaceLock` implements it |
| `TestRun` | run machine, engine, interpreter's verdict, session, batch | takes the gate as `ReadinessContract` has it: it answers |
| `WebJobs` | the jobs of the control service | |
| `JobFeed` | the feed of their commits and the page | takes a commit to be any change `WebJobs` makes |
| `MC*` | small instances | |
| `ChainSetupProofs` | theorems on `WorkspaceLock` and `Composition` | |
| `NetworkProofs` | theorems on `Placement` and `Gate` | |
| `StateMachineProofs`, `NodeRecordProofs`, `CrossForkProofs`, `TestRunProofs`, `WebJobsProofs`, `JobFeedProofs` | theorems on the module each is named after | |

### WorkspaceLock

`file` is the lock file: absent, torn (truncated and not yet written) or full
with host and pid. `guard` is the flock on the sidecar; the kernel drops it when
its process dies. `pc` is where a process is inside `AcquireLock` or `Release`,
`seen` what `readLock` returned to it, `held` its stack of `Held` values (an own
one or a nested one). The actions are the steps between two system calls:
`Acquire`, `guardLock`, `ReadUnderGuard`, then one of `Nest`, `Refuse`,
`Truncate` + `WriteLock` or `WriteFails`; `Poll` is one round of
`AcquireSetLock`; `Release` and `RemoveFile` are the two halves of
`Held.Release`. `Spawn` and `Die` are the operating system: any process dies at
any step, and a slot that is spawned again is a new process with an old pid.
flock is taken to reach every process that sees the file.

### StateMachine

What a state does is open: its `Process`, `Enter` and `Exit` may name a
destination, send to itself, misuse the machine (two destinations, a transition
from the wrong place) or fail. What the machine makes of it is the code: the
offer of a message along the path to the root, the check of misuse before the
move, `OnUnhandled` and its one failure message, `performTransition` with its
turning point found by the active marks, the drain of the self queue before the
inbox, the bound on dispatches of one Send. `asked` is history: the last destination
the machine accepted, in this Send or an earlier one that failed. A move is one step per `Enter` and
`Exit`, so it can fail at each. `broken` remembers that one did: the code gives
no promise about the marks after that, and neither do the properties.

### NodeRecord

`ledger` and `record` are the two files; `mled` and `mrec` a command's copies;
`running` the processes of the machine, with the node whose data they serve, the
build they run, and who has yet to write them down. A command goes through
`Open` (reads both files, before the lock), the lock, its work, one step per
process it starts or signals, the two writes of `Save` and the release; a fault
"crash" kills it between any two of them, "tear" lets it die inside the write of
the ledger too (which empties the file and then fills it), "write" makes a save fail, "stop" makes a process survive its
signal, "die" ends a node by itself, "blind" keeps processes from the sweep of a
stop: no inspector, no binary for a node, a command line that cannot be read; the
stop then goes on without a word. A build has a binary name, and the sweep looks for
the names of the builds the record has now. Each process has a fate (`by`): written
down, lost with its command, overwritten by a command that had read the ledger
before, or in a file left torn; `stale` and `missed` are the histories this takes. `note` is a save without the lock
(`Manager.recordPath`, `markFailed`). Not actions yet: `ResetNode`, `Init`, the
hardfork swap. Pids are never reused.

### Gate and its contract

A round of the gate is several looks: the record's pids, or the ones the caller had
when the record cannot be read (`given`); two samples of the primary's height; then
three questions to each node in turn, its height, its peers and whether it syncs
(`askHeight`, `askPeers`, `askSyncing`); and the comparison of hashes. A node that
fails to answer one of them keeps what it said before. Between any two of these
nodes come up, settle, grow, crash, hang, split or are stopped by another command,
and the deadline or the caller's cancellation may arrive (`ctx`). The network stands
still once the gate has returned, since nobody looks at it any more. `Classify` is the
decision table with the fork's rules: a pre-fork node that was handed over is
retired, a network parked before its fork waits one block short, and successors must
have executed the fork block. Then one restart after the other, or a wait, with the
three budgets. A forkGate is read once and does not change.

A node is fit in three aspects, one for each question, and the questions are asked at
different times: a node that syncs with peers and is then alone can be read as
serving although it never was. `ReadinessContract` therefore promises no more than
the code can: it knows which node is fit in which aspect, of which of these the gate
has evidence, and the restarts spent; "ok" takes evidence of every aspect of every
node, each seen while it was so, and none from before a restart.

### Composition

The machines hold one genesis file, config file, data directory and process per
node, each marked with the request it was made for, or half made. The record has
the step map, the path, the request and the pids. Each stage is an action that
takes the nodes in order and may fail after any part of its work (then the part
is saved) or be killed (then the machines keep it and the record does not). The
launch goes phase by phase, with the actions between them and the roll back.
`reconciling` is reuse-if-matching; `comparing` and its three ways on are the
comparison; `Resume` starts from the recorded path; `RunStep` is one step by
hand. One command runs at a time, as the lock sees to. What the checks before init
and launch know of a process the record lost is a probe of its ports, and `heard` is
what the probe finds: a driver without one passes every port, and `Hides` lets a
node not be heard, and be heard again, at any time. `asked` is history: which
networks were ever asked for in this workspace, brought up fresh or otherwise;
`found` is the machines as the command found them, but for nodes that died since.

### CrossFork

A network is one of two shapes: in a handover the successors sync on the
post-fork build and become producers at the block before the fork; in a restart
every node changes its build before the fork. The crossing has four moments
(`ForkStanding`, `ForkMoment` with `awaitForkBoundary`, the handover,
`ConfirmCrossing`), each with the lock, a copy of the record and a save of its
own. In the handover each successor is stopped (`StopSuccessor`), moved,
configured, armed and launched (`LaunchSuccessor`). Between the moments an
operator stops and starts nodes; at any point the command is killed, a node
dies, a write, a launch, a stop or a call fails. The chain grows as producers
that are up seal; the head a node answers may lag. `proc` remembers what command
line and config a process was started with, which is what the properties compare.

### Placement

The grid of a pool and the ports a slot steps to are functions (`Ports`, the
bands of a family); `Assign` is the two passes of the inventory, pins first.
Each workspace's allocator takes the set's lock, looks at every other workspace
in turn, adopts what they recorded (`slotOf`: the first entry that goes by the
recorded name or address, and the p2p port), assigns, saves and releases, or dies
anywhere. A request draws on the whole set or on one entry of it. A workspace may
lie outside the default root, where `Discover` does not look (`Rooted`), and the
lock an allocator takes is named after the path it has for the set (`LockName`);
sets may hold a machine twice, which is refused only when a request draws on both
entries. `Rewrite` is another command saving its workspace in place while an
allocator looks, `Rm` a removal. All networks use one server set, which is not
edited meanwhile.

### TestRun

The states of the run machine, each with how far its `Enter` has come and the
message it sent itself; the engine's loop over the cases, with pre-actions,
statements and verdict; the session's records in memory, each case's
`status.json` and the summary. Every operation that can fail may fail, up to
`MaxFaults`, and an interrupt may come anywhere. `Mute` is a node that goes on taking
calls and does not answer them any more; `CallsUnbounded` says where the run makes
calls that nothing ends, since the RPC client has no timeout of its own and only
some callers give it a deadline. An environment that could not be built stays
registered, and later cases find it. A batch runs the suite once per
preset, each in its own workspace.

### WebJobs

Every step under `s.mu` is one action; the calls outside it (`Inspect`, the
engine's `Execute` and `Cleanup`, a reconciliation's look at the machines) are
the gaps in which everything else happens. `pc` is where a job's executor is,
`ctx` and `cleanupCtx` its contexts, `cancels` which cancel function is
registered. `nodes` is what each workspace occupies on the machines. Jobs are
numbered in the order of acceptance, which is the order the audit records and
the holds compare. `Check` is the look at the plan before the work: of a monitor's
plan it looks at nothing but the target, and it never looks at the account keys of a
test plan again. `Engage` is where `Execute` reaches for the logins and keys it
needs, and stops if one was revoked; a job is at work ("working") from there on. A
monitor claims a log directory of its own and collects until it is cancelled. An
executor that could not commit, or that refused a job cancelled meanwhile, leaves
the job without one ("dropped", "refused"). The faults are a failed write, a crash of the service, a
cancellation, a revocation, targets that drift between two inspections and a
plan that expires.

### JobFeed

`audit` has one entry per commit with the jobs it left, so that what a page shows
can be compared with what was committed. Subscriptions are slots with a channel
of `Buffer` (the code's buffer of the channel and of the journal is one
constant, and so it is here). The page is the reducer and its stream: it asks
for a snapshot, subscribes from the snapshot's cursor, applies changes that
follow on, and starts again on a gap, an error, a resync or a heartbeat ahead of
it. A page that reconnects leaves its old subscription behind until the server
notices. Faults are restarts (which interrupt any set of jobs in one unnamed
change), lost connections, expired sessions and a user's refresh.

## 3. Runs

| run | shows | size |
|---|---|---|
| `lock` | mutual exclusion, visibility of the holder, refinement of `WorkspaceMutex`; every call returns | 3 processes on 2 hosts (two share a host), one of them polling; holds nested 2 deep, 2 acquires each, 4 processes started in all: 139 287 states |
| `machine` | marks, nesting, where a Send that succeeds leaves the machine; every Send returns | two roots and a branch two deep; 2 Sends of up to 2 dispatches, queues of 1, every fault: 655 668 states |
| `record_alone` | revisions, entered launches, named nodes, complete stops | 1 command at a time on 2 nodes, 2 builds with different binaries, 3 launches, every fault: 5.7 million states |
| `composition` | a ready network serves the request, a refusal touches nothing, data stays under live nodes, exact roll back | 2 nodes in 2 phases, 4 requests (fresh, partial with another config, reuse, reuse of another chain), 3 commands, 2 faults: 3 million states |
| `crossfork` | nobody seals early, command lines fit builds, a walked crossing moved everybody | both shapes, 3 nodes of which 2 are successors, fork at block 2, 4 commands, 3 faults: 470 677 states |
| `gate` | an "ok" network has crossed, the gate implements its contract and ends | 2 nodes, a fork before and after its handover, all launched or none running, one restart each, one wait, one disturbance, heights to 2: 2.1 million states |
| `placement` | who can share a port at all, assignment is complete | 3 workspaces, one of them outside the root and with its own lock, 4 pools, 6 requests, 3 places and a concurrent save: 414 478 states |
| `testrun` | torn down or said, evidence first, one verdict each, imports from passed cases; the batch ends or waits for a node that does not answer | 5 suites of 2 or 3 cases, 2 presets, 3 faults: 629 322 states |
| `jobs_holds` | no job is let onto another workspace's nodes | 3 jobs of 2 workspaces that share a disk, 3 plans, one of them a monitor that claims nothing of it, restarts: 2 million states |
| `jobs_races` | exclusive claims, one job per key, cancellations reach the work, ends are final | 2 concurrent Starts, 2 keys, 2 jobs, every fault: 1.35 million states |
| `jobs_end` | revocations stop the work; a job that does not end is in a call nobody cancels, or lost its executor | a job that cleans up and signs with a key, or a monitor that needs a login; every fault: 77 688 states |
| `feed` | one committed version on the page, never back, replay fits, the page catches up | 2 jobs of which the page sees one, 2 subscriptions, buffers of 2, 4 versions, one fault of any kind: 722 380 states |

### Bounds, and why they are enough

- Lock: a race needs a holder, a taker and somebody who was refused or
  overtaken, hence three processes; two share a host and one does not, because
  pids are judged by host. A fourth spawn brings a dead holder's pid back. The
  theorems hold for any number.
- Machine: moves turn around at no common ancestor, at a parent, at the state
  itself and at an active ancestor in the tree chosen; two Sends show what one
  leaves for the next; with two dispatches a Send drains a message and still
  succeeds, and with a third it would be the limit that ends it. The theorems hold
  for every tree and every limit.
- Node record: 3 launches of 2 nodes allow a swap killed at every step followed
  by a stop and a new launch; a history of 2 lets a revision be archived and
  the next one follow. The run has one command at a time;
  `NodeRecord_together.cfg` checks the same four properties with 2 commands at
  once and torn ledgers. The theorems hold for every number of nodes and commands.
- Composition: what can be kept wrongly needs a network composed, a second
  request and a third command that meets what the second left; two nodes in two
  phases let a launch, a stage or a stop end between them; a fault may be a
  failure, and the second one the death of what follows it. The theorems hold for
  any nodes, requests, phases, commands and faults.
- Crossing: two successors so that a handover can stop between them, one node
  that stays on the pre-fork build so that there is an observer; the chain ends
  one block after the fork. Three faults are a failed handover, a kill of the
  retry and something that ends by itself. The theorems hold for any number.
- Gate: a second node is what an earlier look can be stale about; heights reach
  the fork; one restart, one wait and one disturbance exhaust every budget in
  every order. A fork crossed by restarting every node is left to the theorems,
  which hold for any forks and any number of nodes.
- Placement: two allocators race for the set, and a third that they do not see and
  that takes another lock does as it likes beside them; the pools have two servers,
  one machine under two names, bands that meet at the third slot, and a band at the
  last port. With any one of the exceptions of `NoPortShared` taken out of the
  formula TLC finds the shared port in the same run (for a workspace outside the
  root with one lock for all, and for two locks with every workspace found). The
  theorems hold for any networks, sets and layouts.
- Test run: two cases share or do not share an environment, import, publish
  twice, do not apply or do not parse; three faults are a failed stage, a lost
  write and a failed tear down; the second preset follows what the first left.
  The theorems hold for any suites and presets.
- Jobs: a hold is released by a *later* cleanup of the same workspace while
  another workspace asks, hence three jobs, of which one may be a monitor, whose
  claims meet nobody's; races are between two. How a job ends is a matter of that
  job alone, and the run that asks has every fault.
  The theorems hold for any number of jobs, plans and requests.
- Feed: with buffers of 2 and 4 versions a change is dropped in the middle and
  at the end, a cursor expires, and a replay fills the channel. The theorems hold
  for any number of pages, jobs and versions.
- Symmetry is used in the two safety runs of `WebJobs` (keys and requests are
  interchangeable) and in `placement` (two of the workspaces are), none of which checks
  a liveness property.

Deadlock is not checked where the bounds end the behaviour (lock, machine, jobs,
composition, crossing, placement).

### Fairness

- `lock`: weak fairness of each process's steps inside a call. A process that is
  not killed is scheduled, and flock is granted once nobody has it. Nobody is
  obliged to call, to release or to live.
- `machine`: weak fairness of the steps inside a Send, which is one goroutine
  that waits for nobody.
- `gate`: weak fairness of the gate's own steps: its calls return. Nothing is
  assumed of the nodes, of the deadline that would end it or of the operator.
- `testrun`: weak fairness of the stages, the cases and the batch, except while a
  node does not answer a call that has no deadline (`Unanswered`): `rpc.Dial` uses
  the default HTTP client, a case has a deadline only if it declares one, and the
  evidence of a failed run is gathered without one. The probes before a case, stops
  and launches have timeouts of their own, and the gate ends. Nobody interrupts.
  `RunEnds` says that a batch which does not end is in such a call for ever.
- `jobs_end`: weak fairness of each executor, except while it is in a call of the
  engine whose context nobody has cancelled (`Engaged`): a monitor collects until
  then, and a test may wait for ever. A call whose context is cancelled returns, as
  does a cleanup, which has a deadline. Nobody is obliged to cancel or to start.
  `JobsEnd` says that a job which does not end is in such a call, or has lost its
  executor in one of the two ways the code has for that.
- `feed`: weak fairness of requests, handlers, the ticker, and the page's
  callbacks and timers. The forwarding of a change is *not* assumed fair: the
  heartbeat alone must bring the page up to date.

## 4. Where the code and what it says of itself differ

Each configuration below is kept beside the runs and can be run by hand with the
module it names (`tlc -config X_y.cfg MCX`; `CrossFork` has no MC module). TLC
refutes its one property, and the counterexample is what the sentence says.

- `Composition_drift.cfg`, `DriftIsRedone`: reuse-if-matching is to stop a node
  that must be redone (`reuse.go:162`), but the allocation has cleared the command
  line by which a node is recognised as one's own, and the stop is refused.
- `Composition_compared.cfg`, `ComparedIsWanted`: the comparison reads the last
  request, which may have failed before it was composed, and keeps a network that
  serves another one (`preflight.go:112`).
- `CrossFork_late.cfg`, `CrossedOnTheNewBuild`: a restart that is refused because
  the chain passed the fork on the old build reports "already crossed" when it is
  asked again (`steps_crossfork.go:421`, "which is why this is checked rather
  than assumed").
- `CrossFork_down.cfg`, `CrossedMeansUp`: the last successor's launch fails after
  its role was recorded; asked again, the crossing is reported as done with that
  node down (`stage_crossfork.go:192`, "the successors produce").
- `CrossFork_config.cfg`, `ConfigFitsBuild`: a crossing killed after it wrote a
  config leaves the old build's record beside it, and a start by hand runs the old
  build on the new config.
- `StateMachine_clean.cfg`, `NextSendStartsClean`: a Send that fails on a misuse
  leaves the destination of the refused message pending, so the next message
  performs it or is refused for it; `takeOpErr` says the next Send starts clean.
- `WebJobs_refused.cfg`, `RefusedJobsEnd`: a job cancelled between its failed
  second check and `refuseBeforeRunning` stays `cancelling`, without an executor,
  and keeps its resources until the service restarts. In `jobs_end`, `JobsEnd` names
  this exception.
- `NodeRecord_overwritten.cfg`, `NothingIsOverwritten`: a command reads the ledger
  before it holds the lock and writes its copy afterwards, over a launch another
  command recorded meanwhile.
- `NodeRecord_torn.cfg`, `NothingIsOverwritten`: the ledger is written in place; a
  kill inside the write leaves a file no later command can open. `LiveNodesAreNamed`
  names these two as exceptions, with the launches that died with their command.
- `NodeRecord_disowned.cfg`, `OwnLaunchIsRecognised`: a swap killed between the
  two writes of `Save` leaves the new pid beside the old launch, and the
  workspace refuses to stop its own node.
- `NodeRecord_renamed.cfg`, `StopLeavesNothing`: after a swap onto a binary of
  another name, killed before its save, `Stop` does not look for the process and
  succeeds; it also succeeds when a machine cannot be asked (`steps_orphan.go:106`).
  In `record_alone`, `StopStopsAll` names both exceptions.
- `Gate_crashed.cfg`, `CrashedIsRestartable`: a crashed process, its pid recorded
  and its RPC down, "classifies RESTARTABLE all the same" (`nodegate.go:24`); the
  table takes a recorded pid for a live one and waits for the node instead.
- `TestRun_parallel.cfg`, `OneNetworkAtATime`: a composition that fails with nodes
  up leaves the run without a way to take them down, and the next preset begins
  beside them (`runmatrix.go:65`, "each suite finishes and stops before the next
  begins").
- `TestRun_verdicts.cfg`, `VerdictStands`: when the report of a finished run cannot
  be built, every case's recorded verdict is replaced by "blocked"
  (`engine_impl.go:268`, "does not invalidate the run").
- `Placement_rewritten.cfg`, `NeverShared`: a workspace that is being saved does
  not parse, is passed over, and its slots are handed out again
  (`observe_discover.go:93`). In `placement`, `NoPortShared` names this exception,
  and with it a workspace outside the default root, a set that two networks name
  differently, and a machine that the set has under two names.
- `WorkspaceLock_torn.cfg`, `UnreadableIsNotLive`: `Composition.Lock` reads
  without the guard and can meet the truncated file of a live run that is taking
  the lock; it reports a leftover (`lock.go:180`).

Met while reading and not checked by any configuration:

- a lock of another host is always refused (`lock.go:85` says a foreign-but-dead
  one is taken over); a node whose launch was killed before the save has no recorded pid, and `Rm`
  removes its data under it;
- a resume after `chain stop` in the middle of a composition does nothing, or
  launches nodes that are half composed; `chain restart` on a half composed
  workspace records the network as ready, as does a start with nothing running;
- a resume trusts the recorded path before the step map (`manager.go:305`,
  `ResumeStep`), and three things put it beside the truth: a comparison, or a
  reconciliation that dies, overwrites the position a killed init left, and the
  resume launches over a half made data directory (`record.go:186`, `FirstUndone`
  believes steps marked done by the earlier walk); a step run by hand for another
  request lets the resume finish one network on the files of two; and a reuse adopts
  an orphan that was launched from an older genesis;
- a failed prerequisite step is admitted (`steps_compose.go`), and a comparison
  that says rebuild stops the network before the reconciliation can refuse;
- `Workspace.Hardfork` that fails at a later node returns before `recordSwap`, so
  the nodes it relaunched are not recorded; `confirmBeforeFork` accepts a node
  that does not answer;
- a run that only failed to tear down has no `FailedAt`; an interrupted run
  neither collects nor tears down; cases blocked before their spec have no
  evidence; a run that attaches read-only still lets the gate restart nodes, and
  a failing `NetworkStatus` disables the gate without a word;
- `detectProducing` samples the lowest node only; `Inventory.Release` and `Take`
  are not used by `rm`.

## 5. Proofs

All theorems hold for every value of the constants that satisfies the named
ASSUMEs (disjointness of model values, types of the parameters, bounds in Nat,
and for the machine that the tree has no cycle). TLC evaluates each ASSUME in
the runs.

**`ChainSetupProofs`, the lock**: `TypeCorrect`, `Exclusion`, `HolderSeen`, `Refinement`.
Mutual exclusion is not inductive: a taker is between its read and its write when
the interesting things happen. `LockInv` adds that processes which are alive
together on a host have different pids; that only living processes are inside a
call or hold anything; that whoever is between the read and the write has the
guard and what it saw is still true (`GuardInv`, `TakerIsAlone`); that the file
names the holder (`FileNamesHolder`); that who nests is named by the file; and
that every hold but the outermost is a nested one and only the outermost removes the file (`OutermostReleases`).
`LockInvariant` shows it inductive, one step per action and conjunct; exclusion
follows because the file names one process, and the refinement because a take
happens only in `WriteLock`, where nobody else can hold.

**`ChainSetupProofs`, the composition**: `CompositionTypeCorrect`,
`ReadyServesTheRequest`, `RefusalIsHarmless`, `DataStays`, `RollbackExact`, for any
nodes, requests, launch phases, commands and faults. None of the four properties is
inductive: each speaks of the end of a walk, and what it needs was laid down stages
earlier, by this command or by one that was killed.
`DataStays` needs that a process the record is right about has a pid in it, so that
init passes it by (`KnownAreRecorded`), and that a removal comes to the data with no
pid left (`RemovesNone`). `RollbackExact`
needs `KnownAreRecorded` too, and that while a launch is under way every process is such a one,
and the nodes that had a pid when it was planned keep it and run what they ran or
nothing (`LaunchInv`).
`RefusalIsHarmless` needs that up to the reconciliation files and data directories
are as the command found them and every process is the one it found, or died by
itself (`RefusalInv`). `ReadyServesTheRequest` is the long one. `UpInv` says of a chain up,
stage by stage, what it has made: which steps are done, that the files and data
directories of the stages behind it are of its request (`Progress`, `Built`), or
that the node is one it keeps. A resume begins in the middle, of a walk that is no
longer there; `OneNet` says, of a workspace that was only ever brought up as one
network, that every file, every record and every process anywhere is of that
network or absent, and that the recorded path is never ahead of what the machines
have (`Reached`, `Composed`, `Inited`), through any number of crashes.
That second half was found by the attempt to prove it. `ServesTheRequest` used to be
claimed of every resume and TLC found no counterexample within the bounds of the run;
the invariant would not close, and larger instances then showed the ways around it
that section 4 lists. The property now names the workspaces whose resumes it speaks
of, and counts a node that was adopted as kept, not as launched; a resume also
excepts a node that a probe ever missed, since an init can have taken its data from
under it. The theorem shows that nothing else has to be assumed.

**`StateMachineProofs`**: `TypeCorrect`, `MarksAgree`, `MovesNest`,
`MovesKeepAncestors`, `ReturnsAtRest`. During a move the marks are a path that climbs to a root,
the states still to be entered are the rest of the destination's lineage below
the turning point, and what is common to both lineages stays marked. `Lineage` is
a set defined without recursion, as the smallest set closed under parents, and the
lemmas on it are proved from that. `ReturnsAtRest` needs that from the move on no
destination is pending and that the drain begins without a misuse (`Cleared`), and
that the last destination accepted is the one pending, the one the move goes to, or
where the machine is, over any number of Sends that fail.

**`NodeRecordProofs`**: `TypeCorrect`, `RevisionsAreIncreasing`, `LaunchesEntered`,
`LiveNodesNamed`, `StopsAll`. The revisions need that an archive is numbered
without a gap (0, 1, 2, ... and the current one next) in every ledger on disk and
in every command's hands, so that the next revision is above them all whatever
copy is written over which. The launches need that from `Open` to its last launch
a command's two copies agree on which nodes are up, although the two files need
not (`InStep`). All five hold for any number of commands, any faults and any names
of the binaries. `LiveNodesNamed` needs that the two copies of a command name the
same *pid* for every node (`Paired`), that a ledger is in pieces only while it is
being written or after a kill inside the write, and that every live process that was
written down is in the ledger and, unless another command wrote the ledger since, in
the copy its command will write, while the process a swap took down is gone (`Held`):
what a step drops from the ledger is what it has just stopped, found dead, or never
read. `StopsAll` needs that a command at its sweep has no pid of the table left, so
that whatever serves the table's directories is looked for, under the names of the
binaries the record has.

**`NetworkProofs`, the placement**: `PlacementTypeCorrect`, `AssignmentComplete`,
`PortsAreNotShared`, for any sets of servers, port plans, layouts, families and
networks. `AssignServes` is about `Assign` itself: a set of naturals has a j-th
element for every j up to its size (`NthExists`, from the least element of those
that have j below them), so a pin finds the free slot of its rank, two requests for
one server have different ranks, and what the pins leave is enough for the rest.
`NoWayToServe` is the converse: any other way to place the layout would be an
injection into the free slots, and into those of each server. `PortsAreNotShared`
has no hypothesis: its exceptions are in the property, pair by pair.
The invariant, `PortInv`, is that every
recorded node has the ports of a slot of the set, in a plan that was validated
(`Sits`); that an allocator has adopted the slots of every record it has read, of a
network that is no stranger to it, which nobody can have changed since but to give
slots back (`Looked`); and that what it is about to save clashes with no such record
(`ToSave`). A node on a machine that is one entry of the set is found again by the
name or address it was recorded under (`ClashIsSeen`).
Two nodes of different families have validated different plans: `SmallerSpan` says that
the smaller takes no port the larger would not, so one of the two validations covers
both (`PortsApart`).

**`NetworkProofs`, the gate**: `TypeCorrect`, `PassesCrossed`, `GateKeepsItsContract`. The network
moves under the gate, so nothing seen need still be true when it answers.
`GateInv` says what does survive: how far a round has asked at each place, which
node and which of its three questions, with the evidence of one round dropped before the next and before a restart (`Asked`);
that an answer is of the past and a chain only grows (`NotAhead`); and what is
left of the reading when the gate has returned (`Grounds`). The refinement maps an
answer to `See`, the end of a round to `Forget`, and every move of the network to
`Network`.

**`CrossForkProofs`**: `TypeCorrect`, `NobodyIsEarly`, `ArgvFits`, `WalkedIsMoved`.
None of the three properties is inductive: they speak of processes, and those come
from the record, from a crossing's copy of it, and from crossings that were killed.
`ForkInv` says of all of these that a recorded command line is of the recorded
build (`Fitting`); that short of the boundary the handover has not begun and
nothing of it is anywhere (`InTime`); that a process the record does not know was
moved by a killed crossing, so a node that cannot be launched over it is moved
already (`Straying`); that in the middle of a handover everybody who is not to do
any more is done (`Handing`); and that after it nobody goes back and no crossing
begins anew (`Settled`).

**`TestRunProofs`**: `RunTyped`, `TornDown`, `EvidenceBeforeTeardown`, `OneVerdict`,
`ImportsFromPassed`, for any suites, presets and faults. `RunInv` has two halves. Of
the machine: the state, how far its `Enter` has come and the message it sent go
together (`Walks`), and a run that can take its network down has a session to put
evidence in, and gathers before it tears down (`Holds`). Of the cases: each has one
record, in order, with a verdict unless it is the open one, and its file agrees
unless a write was lost (`Recorded`); a case that is let through has what it imports
and has not been published yet (`Supplied`); and what is published is exactly what
cases that passed export (`Sourced`, `Listed`, `PublishedOnce`). `Settled` carries
the verdicts from the last case to the end of the run.

**`WebJobsProofs`**: `JobsTyped`, `ClaimsStayExclusive`, `NodesStayTheirOwn`,
`KeysStartOneJob`, `CancelsReachTheWork`, `RevocationsStopTheWork`, `EndsAreFinal`,
for any plans, requests, credentials and number of jobs. A cancellation reaches the
work because the cancel function that is registered is always the one of the context
the executor goes by (`Reached`), a revocation because it is recorded before the jobs
are walked, and a job that reaches for what it needs afterwards finds it (`Stopped`,
`Barred`), whether or not its check looked.
That no job is let onto foreign nodes is the hard one: `resourceConflicts` looks at
jobs, not at machines. The invariant is that every node stands on a resource which
some job of its workspace claimed and nothing since has released (`Placed`); a
release is the word of a later job, with a claim in common, that nothing is left, so it
also takes that an unfinished job is the last that claims what it claims (`InOrder`;
two jobs of a workspace need not meet, as a monitor and a test do not), and that a job is on its way
to say so only when it has seen it (`Spent`).

**`JobFeedProofs`**: `FeedTyped`, `ViewsAreCommitted`, `ReplaysFit`, `NeverGoesBack`,
`ReplayIsWhole`, for any jobs, pages, scopes, buffer and faults. A page applies a
change to what it shows, so what it shows is right only if every change that can
still reach it tells all its version did to the jobs the page may see. `Telling` says
so of every event in the journal, in a channel and on the wire, or else that nobody
will take it, since each page of its instance is past it already; the journal has
the last versions without a gap (`Journalled`); a snapshot that is under way has
what its version left (`Snapped`); and no page is ahead of the server (`Behind`).
`ReplayIsWhole` is about `replay` itself: every change after the cursor, once and in
order, up to the last.

Only model-checked: liveness (`CallsReturn`, `SendReturns`, `JobsEnd`, `CatchesUp`,
`GateEnds`, `RunEnds`), which the prover does not reach. Every safety and action
property that a run checks is stated by a theorem.

## 6. Not modelled

Parts with status `not_modelled` in `PROJECT.json`, with the reason: I/O,
documents, cryptography, parsing, rendering and routing are out of reach or have
no behaviour over time to check. They are most of the repository's lines (the
test language and its vocabulary, the chain plugins, the read models and pages of
the dashboard, the command line and the MCP server), which is why the models
stand for a small share of the lines and for most of what can go wrong in time.

Within what is modelled, left out are:

- the log ring of the machine, the phases and messages of a job, the content of
  node records beyond pid, launch and placement, remote targets as distinct from
  local ones, and time (an expiry or a timeout may happen whenever it could);
- reuse of pids outside `WorkspaceLock`;
- `ResetNode`, and the swap of a build by the hardfork command (`PlanSwap`,
  `Execute`, `SwapNode` in a crossing);
- in `Composition`: one node per machine; what keys, genesis and config hold, abstracted to the request they were
  made for; errors of the reconciliation before a command, and of saves whose
  failure the code ignores;
- in `CrossFork`: opening and locking are one step, an operator's command is one
  step, any producer that is up can seal, and the manager's saves of its path are
  left to the `note` of `NodeRecord`;
- in `TestRun`: the vocabulary a statement calls, which may pass or fail; in
  `Gate`: participation, which is arithmetic on headers; in `Placement`: networks
  of two different server sets on one machine, and a set edited between two
  placements, for which no property is claimed;
- in `WorkspaceLock`: a file system on which flock does not reach a process of
  another host (`lock.go:133` promises it between processes of one host).

## 7. Plan

Done: lock, machine, node record, jobs, feed, gate, composition, placement, test
run and crossing, with the proofs above. Left, in order:

1. `ResetNode` and the hardfork swap in `NodeRecord`, and pids that are reused; the
   lock as `WorkspaceLock` instead of its abstraction.
2. A resume that may follow anything: the model has what it takes to check a repaired
   `ResumeStep` against the stronger form of `ServesTheRequest`.
