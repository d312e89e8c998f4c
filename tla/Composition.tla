---------------------------- MODULE Composition -----------------------------
(***************************************************************************)
(* The composition manager of internal/chainsetup: the nine stages that    *)
(* build and launch a network, the operations on it, the comparison that   *)
(* decides whether a composed network can be kept, the reconciliation of   *)
(* reuse-if-matching, and the resume of a run that died.                   *)
(*                                                                         *)
(* One command runs at a time: a composition holds the workspace's lock    *)
(* for its whole run (WorkspaceMutex).  A command works on the record      *)
(* (chain-record.json and the process ledger, saved together) and on the   *)
(* machines, one node on each: their genesis and config files, the data    *)
(* directories and the processes.  It can die between any two steps, and   *)
(* inside a stage, whose effects on the machines then stay while its save  *)
(* of the record is lost; a stage can fail after any part of its work, and *)
(* then saves the part it did.                                             *)
(***************************************************************************)
EXTENDS Naturals, Sequences, FiniteSets

CONSTANTS N,            \* nodes are 1..N, and a step takes them in that order
          Genesis, Config, \* what a request can ask the two files to hold
          None, Partial,
          Requests,     \* the requests that commands bring
          Phases,       \* the launch order: the nodes of each phase
          Actions,      \* the phases that declare actions
          Ops,          \* which commands are given
          Faults,       \* which of "crash", "fail", "die", "stop", "hide" happen
          MaxCommands, MaxFaults \* bounds

Node == 1..N

Request == [genesis : Genesis, config : Config, stage : {"deploy", "init", "start"},
            mode : {"fresh", "reuse"}]

ASSUME CompositionAssumption ==
  /\ N \in Nat /\ N > 0
  /\ None \notin Genesis \cup Config /\ Partial \notin Genesis /\ None # Partial
  /\ None \notin Request
  /\ Requests \subseteq Request
  /\ Phases \in Seq(SUBSET Node) /\ Actions \subseteq Nat
  /\ MaxCommands \in Nat /\ MaxFaults \in Nat

Stage == {"new", "place", "keys", "genesis", "config", "build", "deploy", "init", "start"}

\* The order of the stages; "ready" is where the last one leaves the machine.
stageOrder ==
  [new |-> "place", place |-> "keys", keys |-> "genesis", genesis |-> "config",
   config |-> "build", build |-> "deploy", deploy |-> "init", init |-> "start",
   start |-> "ready"]

composeNeeds ==
  [new |-> {}, place |-> {"new"}, keys |-> {"new"}, genesis |-> {"place"},
   config |-> {"place", "keys"}, build |-> {"place", "keys"},
   deploy |-> {"place", "genesis", "config"}, init |-> {"deploy"}, start |-> {"init"}]

\* Where the record says the machine is: a stage, a place it rests, or work that
\* belongs to no stage.
Path == Stage \cup {"idle", "stoppedAtStep", "ready", "stopped", "removed"}
              \cup {"compare", "reconcile", "stop", "rm", "restart"}

VARIABLES
  record,   \* chain-record.json and process.json
  gfile, cfile, datadir, proc, \* the machines
  heard,    \* whether a probe of a node's ports finds it held: "yes", "no", or "again"
  at,       \* where the running command is, "off" when there is none
  cmd,      \* the command: "up", "compare", "resume", "step" or an operation
  want,     \* the request it works on
  snap,     \* what a reuse-if-matching run found before it began
  was,      \* the nodes with a recorded pid when the launch was planned
  phase,    \* the phase of the launch
  failing,  \* the stage that failed
  todo,     \* the nodes the comparison named
  result,   \* how the last command ended
  asked,    \* what was ever asked of this workspace, resumes aside (history)
  found,    \* the machines when the command began, but for nodes that died (history)
  before,   \* the processes when the launch was planned (history)
  cmds, faults \* counters of the bounds

machines == <<gfile, cfile, datadir, proc>>
walk == <<cmd, want, snap, todo, cmds, asked, found>>
launch == <<was, phase, before>>
compositionVars ==
  <<record, gfile, cfile, datadir, proc, at, cmd, want, snap, was, phase, failing, todo,
    result, asked, found, before, cmds, faults, heard>>

NoSnap == [nodes |-> {}, genesis |-> None, config |-> [n \in Node |-> None], pids |-> {},
           alive |-> {}]

NoRecord ==
  [steps |-> [s \in Stage |-> "none"], path |-> "idle", request |-> None, nodes |-> {},
   argv |-> {}, genesis |-> "no", inG |-> None, inC |-> [n \in Node |-> None], pids |-> {}]

\* The machines, for the properties that compare two moments.
Machines == [gfile |-> gfile, cfile |-> cfile, datadir |-> datadir, proc |-> proc]

CompositionInit ==
  /\ record = NoRecord
  /\ gfile = [n \in Node |-> None] /\ cfile = [n \in Node |-> None]
  /\ datadir = [n \in Node |-> None] /\ proc = [n \in Node |-> None]
  /\ at = "off" /\ cmd = "none" /\ want = None /\ snap = NoSnap
  /\ was = {} /\ phase = 1 /\ failing = "new" /\ result = "none"
  /\ todo = {} /\ asked = {} /\ before = [n \in Node |-> None] /\ found = Machines
  /\ cmds = 0 /\ faults = 0 /\ heard = [n \in Node |-> "yes"]

-----------------------------------------------------------------------------
(* The machines, as the steps see them. *)

\* A process serves the genesis its data directory holds and the config it read;
\* known is "yes" when the ledger's pid for the node is this process.
Process == [genesis : Genesis \cup {Partial}, config : Config, known : {"yes", "no"}]

Live == {n \in Node : proc[n] # None}
Orphans == {n \in Live : proc[n].known = "no"}
Alive == {n \in record.pids : n \in Live \ Orphans}

\* stopOwned signals a recorded pid only when it can tell the launch by its argv: a
\* node whose argv was cleared is refused, whether its process lives or not.
Owned(n) == n \in record.argv

\* After S is stopped: the recorded process is gone, an unrecorded one stays.
Stopped(S) == [n \in Node |-> IF n \in S \ Orphans THEN None ELSE proc[n]]

\* Launching n: over a node's own orphan the new process finds the ports held and
\* exits, and without its config it exits too; a missing data directory is created.
Launched(S, known) ==
  [n \in Node |->
     IF n \in S /\ proc[n] = None /\ cfile[n] # None
     THEN [genesis |-> IF datadir[n] = None THEN Partial ELSE datadir[n],
           config |-> cfile[n], known |-> known]
     ELSE proc[n]]

Touched(S) == [n \in Node |-> IF n \in S /\ datadir[n] = None THEN Partial ELSE datadir[n]]

\* No port of a node without a recorded pid is found held.  A machine whose driver
\* cannot probe reports none, and neither does a process that does not listen.
Vacant(S) == \A n \in S \ record.pids : n \in Live => heard[n] = "no"

-----------------------------------------------------------------------------
(* How a step ends. *)

Fault(f) == /\ f \in Faults /\ faults < MaxFaults /\ faults' = faults + 1
            /\ UNCHANGED heard
NoFault == UNCHANGED <<faults, heard>>

\* The command is over.
Off(r) ==
  /\ at' = "off" /\ result' = r
  /\ snap' = NoSnap /\ was' = {} /\ phase' = 1 /\ failing' = "new"
  /\ todo' = {} /\ before' = [n \in Node |-> None]
  /\ UNCHANGED <<cmd, want, cmds, asked, found>>

Goes(where) == at' = where /\ UNCHANGED <<walk, launch, failing, result>>

\* recordPath, on the way into a state.
Entered(s) == [record EXCEPT !.path = s]

reusing == want.mode = "reuse" /\ want.stage = "start"

\* A mutant: the reconciliation waits until there is something to compare with.
afterConfig(s) == IF s = "config" /\ reusing THEN "reconcile" ELSE stageOrder[s]

after(s) ==
  CASE cmd = "step" -> "stoppedAtStep"
    [] cmd # "step" /\ s = want.stage /\ s # "start" -> "stoppedAtStep"
    [] cmd # "step" /\ s = "keys" /\ reusing -> "reconcile"
    [] OTHER -> stageOrder[s]

\* The stage saved what it did (r) and reports; or it saved the part it did and
\* failed, which fail() still has to write down; or the process died in it, and what
\* it would have saved is lost.
Reports(s, r) == record' = [r EXCEPT !.steps[s] = "done"] /\ Goes(after(s)) /\ NoFault
Fails(s, r) ==
  /\ record' = r /\ at' = "failed" /\ failing' = s
  /\ UNCHANGED <<walk, launch, result>>
Dies(s) == record' = Entered(s) /\ Fault("crash") /\ Off("crashed")

\* require and stepIsDue ask whether the steps a step needs have an entry.  A step
\* that failed has one.
Due(s) == \A need \in composeNeeds[s] : record.steps[need] # "none"

Refuses(s) == Fails(s, Entered(s)) /\ NoFault /\ UNCHANGED machines

\* fail(): the failed stage is written into the record, and the machine ends.
MarkFailed ==
  /\ at = "failed"
  /\ record' = [record EXCEPT !.steps[failing] = "failed"]
  /\ Off("failed") /\ NoFault /\ UNCHANGED machines

-----------------------------------------------------------------------------
(* The stages. *)

openingWorkspace ==
  /\ at = "new"
  /\ \/ Reports("new", [Entered("new") EXCEPT !.request = want])
     \/ Fault("fail") /\ Fails("new", Entered("new"))
     \/ Dies("new")
  /\ UNCHANGED machines

\* Allocate lays the node table out anew: no node of it has an argv.  The pids come
\* back from the ledger, by label.
Allocated == [Entered("place") EXCEPT !.nodes = Node, !.argv = {}]

buildingNodeTable ==
  /\ at = "place"
  /\ \/ Reports("place", Allocated)
     \/ Fault("fail") /\ Fails("place", Entered("place"))
     \/ Dies("place")
  /\ UNCHANGED machines

ensuringKeys ==
  /\ at = "keys"
  /\ \/ Reports("keys", Entered("keys"))
     \/ Fault("fail") /\ Fails("keys", Entered("keys"))
     \/ Dies("keys")
  /\ UNCHANGED machines

\* The genesis is written on one machine after the other; each write is entered
\* under the one path it has on all of them, and the path itself after the last.
buildingGenesis ==
  /\ at = "genesis" /\ Due("genesis")
  /\ \E k \in 0..N :
       LET wrote == [Entered("genesis") EXCEPT
                       !.inG = IF k > 0 THEN want.genesis ELSE @,
                       !.genesis = IF k = N THEN "yes" ELSE @]
       IN /\ gfile' = [n \in Node |-> IF n \in 1..k THEN want.genesis ELSE gfile[n]]
          /\ \/ k = N /\ Reports("genesis", wrote)
             \/ Fault("fail") /\ Fails("genesis", wrote)
             \/ Dies("genesis")
  /\ UNCHANGED <<cfile, datadir, proc>>

\* Node by node: the hash is entered, the file written, and read back.
buildingNodeConfig ==
  /\ at = "config" /\ Due("config")
  /\ \E k \in 0..N, half \in 0..1 :
       LET wrote == 1..k
           entered == (1..k + half) \cap Node
           saved == [Entered("config") EXCEPT
                       !.inC = [n \in Node |-> IF n \in entered THEN want.config ELSE @[n]]]
       IN /\ cfile' = [n \in Node |-> IF n \in wrote THEN want.config ELSE cfile[n]]
          /\ \/ k = N /\ half = 0 /\ Reports("config", saved)
             \/ Fault("fail") /\ Fails("config", saved)
             \/ half = 0 /\ Dies("config")
  /\ UNCHANGED <<gfile, datadir, proc>>

buildingNodeCommand ==
  /\ at = "build" /\ Due("build")
  /\ \E k \in 0..N :
       LET armed == [Entered("build") EXCEPT !.argv = @ \cup 1..k]
       IN \/ k = N /\ Reports("build", armed)
          \/ Fault("fail") /\ Fails("build", armed)
          \/ k = 0 /\ Dies("build")
  /\ UNCHANGED machines

\* Provision: every machine holds the genesis and its nodes' configs, and they are
\* the files this workspace wrote.
InputsOurs ==
  /\ record.genesis = "yes"
  /\ \A n \in Node : /\ gfile[n] # None /\ gfile[n] = record.inG
                     /\ cfile[n] # None /\ record.inC[n] \in {None, cfile[n]}

deployingInputs ==
  /\ at = "deploy" /\ Due("deploy") /\ InputsOurs
  /\ \/ Reports("deploy", Entered("deploy"))
     \/ Fault("fail") /\ Fails("deploy", Entered("deploy"))
     \/ Dies("deploy")
  /\ UNCHANGED machines

InitAllowed == Due("init") /\ record.nodes # {} /\ record.genesis = "yes" /\ Vacant(Node)

\* Each node without a recorded pid: remove its data directory, read the genesis
\* back, initialise.  The one it ends at is left as it was, gone, or half made.
initializingDatadirs ==
  /\ at = "init" /\ InitAllowed
  /\ \E k \in 0..N :
       LET made == (1..k) \ record.pids
           readable == \A n \in made : gfile[n] # None
           rest == [n \in Node |-> IF n \in made THEN gfile[n] ELSE datadir[n]]
       IN /\ readable
          /\ \/ k = N /\ datadir' = rest /\ Reports("init", Entered("init"))
             \/ /\ k < N /\ k + 1 \notin record.pids
                /\ \E left \in {datadir[k + 1], None, Partial} :
                     datadir' = [rest EXCEPT ![k + 1] = left]
                /\ \/ /\ IF gfile[k + 1] = None THEN NoFault ELSE Fault("fail")
                      /\ Fails("init", Entered("init"))
                   \/ Dies("init")
  /\ UNCHANGED <<gfile, cfile, proc>>

\* LaunchPlan: no process of the binary that the ledger does not know, and the files
\* of every node without a recorded pid are there.
LaunchAllowed ==
  /\ Due("start") /\ record.nodes # {} /\ Orphans = {}
  /\ \A n \in Node \ record.pids :
       record.genesis = "yes" /\ gfile[n] # None /\ datadir[n] # None /\ cfile[n] # None

launching ==
  /\ at = "start" /\ LaunchAllowed
  /\ \/ /\ record' = Entered("start") /\ NoFault
        /\ at' = IF Phases = <<>> THEN "recording" ELSE "phase"
        /\ was' = record.pids /\ phase' = 1 /\ before' = proc
        /\ UNCHANGED <<walk, failing, result>>
     \/ Fault("fail") /\ Fails("start", Entered("start"))
     \/ Dies("start")
  /\ UNCHANGED machines

\* A launch that fails stops what it started before it is written down as failed.
RollsBack(r) == record' = r /\ Goes("rollback")

\* What is left of a launch: the next phase, or the wrap-up.
NextPhase == IF phase < Len(Phases) THEN "phase" ELSE "recording"

\* The nodes of the phase without a recorded pid, in order: each is launched, its
\* argv made if it has none, and its pid entered.  After k nodes it may fail; a port
\* that someone outside took since the plan is a failure of k = 0.
launchingPhase ==
  /\ at = "phase"
  /\ \E k \in 0..N :
       LET due == Phases[phase] \ record.pids
           S == due \cap 1..k
           started == [Entered("start") EXCEPT !.argv = @ \cup S, !.pids = @ \cup S]
       IN \/ /\ k = N
             /\ record' = started
             /\ proc' = Launched(S, "yes") /\ datadir' = Touched(S)
             /\ at' = IF phase \in Actions THEN "actions" ELSE NextPhase
             /\ phase' = IF phase \in Actions THEN phase ELSE phase + 1
             /\ NoFault /\ UNCHANGED <<walk, was, before, failing, result, gfile, cfile>>
          \/ /\ Fault("fail") /\ RollsBack(started)
             /\ proc' = Launched(S, "yes") /\ datadir' = Touched(S)
             /\ UNCHANGED <<gfile, cfile>>
          \/ /\ Dies("start")
             /\ proc' = Launched(S, "no") /\ datadir' = Touched(S)
             /\ UNCHANGED <<gfile, cfile>>

runningPhaseActions ==
  /\ at = "actions"
  /\ \/ /\ record' = Entered("start") /\ at' = NextPhase /\ phase' = phase + 1 /\ NoFault
        /\ UNCHANGED <<walk, was, before, failing, result>>
     \/ Fault("fail") /\ RollsBack(Entered("start"))
     \/ Dies("start")
  /\ UNCHANGED machines

\* FinishLaunch marks the step before the one call of it that can fail.
recordingRun ==
  /\ at = "recording"
  /\ \/ Reports("start", Entered("start"))
     \/ Fault("fail") /\ RollsBack([Entered("start") EXCEPT !.steps["start"] = "done"])
     \/ Dies("start")
  /\ UNCHANGED machines

\* A mutant: the roll back takes the whole network down.
toRollBackAll == record.pids

toRollBack == record.pids \ was

\* A mutant: the pid of a node that would not go down is dropped as well.
rollingBackForgets ==
  /\ at = "rollback"
  /\ \E S \in SUBSET toRollBack :
       /\ proc' = Stopped(S)
       /\ \/ /\ IF S = toRollBack THEN NoFault ELSE Fault("stop")
             /\ Fails("start", [record EXCEPT !.pids = @ \ toRollBack])
          \/ record' = record /\ Fault("crash") /\ Off("crashed")
  /\ UNCHANGED <<gfile, cfile, datadir>>

\* RollBackLaunch: the nodes go down together, each or not.
rollingBack ==
  /\ at = "rollback"
  /\ \E S \in SUBSET toRollBack :
       /\ proc' = Stopped(S)
       /\ \/ /\ IF S = toRollBack THEN NoFault ELSE Fault("stop")
             /\ Fails("start", [record EXCEPT !.pids = @ \ S])
          \/ record' = record /\ Fault("crash") /\ Off("crashed")
  /\ UNCHANGED <<gfile, cfile, datadir>>

\* The guards a stage's Enter turns into a failure.
StageRefuses ==
  \/ at \in {"genesis", "config", "build"} /\ ~Due(at) /\ Refuses(at)
  \/ at = "deploy" /\ ~(Due(at) /\ InputsOurs) /\ Refuses(at)
  \/ at = "init" /\ ~InitAllowed /\ Refuses(at)
  \/ at = "start" /\ ~LaunchAllowed /\ Refuses(at)

\* composedState and readyState record where the composition stopped; a resume goes
\* on to the nodes that are armed and not running.
Rests ==
  /\ at \in {"stoppedAtStep", "ready"}
  /\ record' = Entered(at) /\ NoFault /\ UNCHANGED machines
  /\ IF cmd = "resume" /\ want.stage = "start" THEN Goes("missing") ELSE Off("ok")

-----------------------------------------------------------------------------
(* reuse-if-matching: what is running, against what this run would write. *)

\* SnapshotForReuse, before the stages lay the node table out again.
Snapshot(r) ==
  IF r.nodes = {} THEN NoSnap
  ELSE [nodes |-> r.nodes, genesis |-> IF r.genesis = "yes" THEN r.inG ELSE None,
        config |-> r.inC, pids |-> r.pids, alive |-> {n \in r.pids : n \in Live \ Orphans}]

\* mergeRunning: a node the workspace had no record of, running out of its data
\* directory under the config the file holds now.
Found == {n \in Node \ snap.nodes : n \in Live /\ cfile[n] # None}
Foreign == {n \in Found : cfile[n] # want.config}

GenesisMoved == snap.genesis # None /\ snap.genesis # want.genesis

Refused == Foreign # {} \/ GenesisMoved

\* planReuse: the nodes to leave running.
Reused ==
  Found \cup {n \in snap.nodes : n \in snap.pids /\ snap.config[n] = want.config
                                 /\ n \in snap.alive}

\* The others are stopped and their pids dropped.  The table was laid out again
\* before this, so a recorded one cannot be told by its argv and is refused.
reconciling ==
  /\ at = "reconcile"
  /\ LET redo == Node \ Reused
         stuck == {n \in redo \cap record.pids : ~Owned(n)}
         kept == [Entered("reconcile") EXCEPT !.pids = @ \cup Found]
     IN \/ /\ Refused /\ record' = Entered("reconcile") /\ Off("refused")
           /\ NoFault /\ UNCHANGED machines
        \/ /\ ~Refused /\ stuck = {} /\ NoFault
           /\ record' = [kept EXCEPT !.pids = @ \ redo] /\ Goes("genesis")
           /\ proc' = [n \in Node |-> IF n \in Found THEN [proc[n] EXCEPT !.known = "yes"]
                                      ELSE Stopped(redo \cap record.pids)[n]]
           /\ UNCHANGED <<gfile, cfile, datadir>>
        \/ /\ ~Refused /\ stuck # {} /\ Fails("genesis", Entered("reconcile"))
           /\ NoFault /\ UNCHANGED machines
        \/ Fault("fail") /\ Fails("genesis", Entered("reconcile")) /\ UNCHANGED machines
        \/ Dies("reconcile") /\ UNCHANGED machines

-----------------------------------------------------------------------------
(* The comparison: is what is composed the network this request wants? *)

\* preflight.Compare, on paper: what the record says was asked for, and whether the
\* composition was ever started.  A workspace with no recorded request skips the
\* first.
SameOnPaper ==
  /\ record.request = None \/ record.request.genesis = want.genesis
  /\ record.steps["start"] = "done"

\* preflight.Check: the paper, then a live probe of every node.
Verdict ==
  CASE record.nodes = {} -> "compose"
    [] record.nodes # {} /\ ~SameOnPaper -> "rebuild-all"
    [] record.nodes # {} /\ SameOnPaper /\ Alive = Node -> "reuse"
    [] record.nodes # {} /\ SameOnPaper /\ Alive = {} -> "relaunch"
    [] OTHER -> "rebuild-nodes"

\* A failure of this part is not written down as a failed step.
Leaves(r) == record' = r /\ Off("failed")

comparing ==
  /\ at = "compare"
  /\ record' = Entered("compare") /\ NoFault /\ UNCHANGED machines
  /\ at' = CASE Verdict = "reuse" -> "ready"
             [] Verdict = "rebuild-nodes" -> "restarting"
             [] Verdict = "rebuild-all" -> "stopping"
             [] Verdict = "compose" -> "new"
             [] OTHER -> "start"
  /\ todo' = IF Verdict = "rebuild-nodes" THEN Node \ Alive ELSE {}
  /\ UNCHANGED <<cmd, want, snap, cmds, asked, found, launch, failing, result>>

\* Workspace.Stop: every recorded node, together; then, when all of them are down,
\* the ones the record cannot name.
Stops(S, O) ==
  /\ S \subseteq {n \in record.pids : Owned(n)}
  /\ O \subseteq Orphans /\ (O # {} => S = record.pids)
  /\ proc' = [n \in Node |-> IF n \in O THEN None ELSE Stopped(S)[n]]
  /\ UNCHANGED <<gfile, cfile, datadir>>

AllStopped(S, O) == S = record.pids /\ O = Orphans

\* A stop that leaves a node up: the node cannot be told from another, or it would
\* not go down.
Stuck(S) == IF S = {n \in record.pids : Owned(n)} /\ S # record.pids THEN NoFault ELSE Fault("stop")

stoppingToRebuild ==
  /\ at = "stopping"
  /\ \E S \in SUBSET record.pids, O \in SUBSET Orphans :
       /\ Stops(S, O)
       /\ \/ /\ AllStopped(S, O) /\ NoFault /\ Goes("new")
             /\ record' = [Entered("compare") EXCEPT !.pids = {}]
          \/ /\ ~AllStopped(S, O) /\ Stuck(S)
             /\ Leaves([Entered("compare") EXCEPT !.pids = @ \ S])
          \/ Dies("compare")

\* Restart: StopNode, then StartNode with the recorded argv.
Restarts(n, known) ==
  /\ proc' = IF n \in record.pids \ Orphans
             THEN [proc EXCEPT ![n] =
                     IF cfile[n] = None THEN None
                     ELSE [genesis |-> IF datadir[n] = None THEN Partial ELSE datadir[n],
                           config |-> cfile[n], known |-> known]]
             ELSE Launched({n}, known)
  /\ datadir' = Touched({n})
  /\ UNCHANGED <<gfile, cfile>>

\* What a restart of n that does not finish leaves: nothing signalled, or n down.
Bounced(n) == n \in record.pids \cap record.argv
Stays(n) == Fault("fail") /\ proc' = Stopped({n}) /\ UNCHANGED <<gfile, cfile, datadir>>

\* The nodes the comparison named, in order, each in a session of its own.
restartingNodes ==
  /\ at = "restarting"
  /\ \/ /\ todo = {} /\ record' = Entered("compare") /\ Goes("ready") /\ NoFault
        /\ UNCHANGED machines
     \/ \E n \in todo :
          /\ \A m \in todo : n <= m
          /\ \/ /\ Owned(n) /\ Restarts(n, "yes") /\ NoFault
                /\ record' = [Entered("compare") EXCEPT !.pids = @ \cup {n}]
                /\ at' = "restarting" /\ todo' = todo \ {n}
                /\ UNCHANGED <<cmd, want, snap, cmds, asked, found, launch, failing, result>>
             \/ ~Owned(n) /\ Leaves(Entered("compare")) /\ NoFault /\ UNCHANGED machines
             \/ Bounced(n) /\ Stays(n) /\ Leaves([Entered("compare") EXCEPT !.pids = @ \ {n}])
             \/ Owned(n) /\ Restarts(n, "no") /\ Dies("compare")

-----------------------------------------------------------------------------
(* The commands. *)

Begins(c, w, where) ==
  /\ at = "off" /\ cmds < MaxCommands
  /\ cmds' = cmds + 1 /\ cmd' = c /\ want' = w /\ at' = where /\ result' = "none"
  /\ found' = Machines /\ UNCHANGED <<launch, todo, failing>>

SnapFor(r, w) ==
  snap' = IF w.mode = "reuse" /\ w.stage = "start" THEN Snapshot(r) ELSE NoSnap

\* A network brought up fresh is asked for by name; the rest is something else.
Asks(w) ==
  asked' = asked \cup {IF w.mode = "fresh" THEN <<"fresh", w.genesis, w.config>> ELSE <<"else">>}
AsksElse == asked' = asked \cup {<<"else">>}

\* chain up, and the walk a test run asks for.
Up ==
  \E w \in Requests :
    /\ \/ "up" \in Ops /\ Begins("up", w, "new") /\ Asks(w)
       \/ "compare" \in Ops /\ Begins("compare", w, "compare") /\ AsksElse
    /\ SnapFor(record, w) /\ NoFault
    /\ UNCHANGED <<record, machines>>

\* One composition step by name, on a workspace that has got that far.
RunStep ==
  /\ "step" \in Ops
  /\ \E w \in Requests, s \in Stage :
       /\ Due(s)
       /\ Begins("step", [w EXCEPT !.mode = "fresh"], s) /\ AsksElse
  /\ NoFault /\ UNCHANGED <<record, machines, snap>>

\* FirstUndone respects the stage the request stops at.
Rungs(stage) ==
  CASE stage = "deploy" -> Stage \ {"init", "start"}
    [] stage = "init" -> Stage \ {"start"}
    [] OTHER -> Stage

\* UpStepNames, the order the step map is read in.
upStep == [new |-> 0, place |-> 1, keys |-> 2, genesis |-> 3, config |-> 4, build |-> 5,
           deploy |-> 6, init |-> 7, start |-> 8]

Earlier(s) == {t \in Stage : upStep[t] < upStep[s]}

FirstUndone ==
  LET undone == {s \in Rungs(record.request.stage) : record.steps[s] # "done"}
  IN IF undone = {} THEN "none" ELSE CHOOSE s \in undone : Earlier(s) \cap undone = {}

\* A mutant: where the record says the machine was is not looked at.
ResumeAtUndone == FirstUndone

ResumeStep ==
  CASE record.path \in {"ready", "stopped", "removed"} -> "none"
    [] record.path \in Stage -> record.path
    [] OTHER -> FirstUndone

\* Reconcile: a recorded pid that is gone is dropped, and a process launched with the
\* command line the record holds for a node without a pid is adopted.
Adoptable == {n \in Orphans : n \in record.nodes \cap record.argv /\ n \notin record.pids}
Reconciled == [record EXCEPT !.pids = IF record.nodes = {} THEN @ ELSE Alive \cup Adoptable]

\* chain resume: make the pids true, and begin again where the run was.
Resume ==
  /\ "resume" \in Ops /\ record.request # None
  /\ LET first == ResumeStep
     IN /\ Begins("resume", record.request,
                  IF first # "none" THEN first
                  ELSE IF record.request.stage = "start" THEN "missing" ELSE "done")
        /\ record' = Reconciled
        /\ proc' = [n \in Node |-> IF n \in Adoptable THEN [proc[n] EXCEPT !.known = "yes"]
                                   ELSE proc[n]]
        /\ IF first = "none" THEN snap' = NoSnap ELSE SnapFor(Reconciled, record.request)
  /\ NoFault /\ UNCHANGED <<gfile, cfile, datadir, asked>>

\* startMissing: the nodes that are armed and not running, in order.
startMissing ==
  /\ at = "missing"
  /\ \E k \in 0..N :
       LET S == ((record.nodes \cap record.argv) \ record.pids) \cap 1..k
           started == [record EXCEPT !.pids = @ \cup S]
       IN /\ datadir' = Touched(S)
          /\ \/ k = N /\ record' = started /\ NoFault /\ Off("ok") /\ proc' = Launched(S, "yes")
             \/ /\ record' = started /\ Fault("fail") /\ Off("failed")
                /\ proc' = Launched(S, "yes")
             \/ record' = record /\ Fault("crash") /\ Off("crashed") /\ proc' = Launched(S, "no")
  /\ UNCHANGED <<gfile, cfile>>

NothingMissing ==
  /\ at = "done" /\ Off("ok") /\ NoFault /\ UNCHANGED <<record, machines>>

\* An operation that the verb table refuses changes nothing.
Operates(op) ==
  /\ op \in Ops /\ Begins(op, want, op) /\ AsksElse
  /\ NoFault /\ UNCHANGED <<record, machines, snap>>

Operate == Operates("stop") \/ (record.pids = {} /\ Operates("rm")) \/ Operates("restart")

stopping ==
  /\ at = "stop"
  /\ \E S \in SUBSET record.pids, O \in SUBSET Orphans :
       /\ Stops(S, IF record.nodes = {} THEN {} ELSE O)
       /\ \/ /\ S = record.pids /\ (record.nodes = {} \/ O = Orphans) /\ NoFault /\ Off("ok")
             /\ record' = [Entered("stopped") EXCEPT !.pids = {}]
          \/ /\ ~AllStopped(S, O) /\ record.nodes # {} /\ Stuck(S)
             /\ Leaves([Entered("stop") EXCEPT !.pids = @ \ S])
          \/ Dies("stop")

\* Rm: each node's data directory and config, and its machine's genesis, in order.
removing ==
  /\ at = "rm"
  /\ \E k \in 0..N :
       LET gone == record.nodes \cap 1..k
           cleared(f) == [n \in Node |-> IF n \in gone THEN None ELSE f[n]]
       IN /\ gfile' = cleared(gfile) /\ cfile' = cleared(cfile) /\ datadir' = cleared(datadir)
          /\ \/ /\ k = N /\ NoFault /\ Off("ok")
                /\ record' = [Entered("removed") EXCEPT !.nodes = {}, !.argv = {}, !.genesis = "no"]
             \/ Fault("fail") /\ Leaves(Entered("rm"))
             \/ Dies("rm")
  /\ UNCHANGED proc

restarting ==
  /\ at = "restart"
  /\ \E n \in Node :
       \/ /\ n \in record.nodes /\ Owned(n) /\ Restarts(n, "yes") /\ NoFault /\ Off("ok")
          /\ record' = [Entered("ready") EXCEPT !.pids = @ \cup {n}]
       \/ /\ ~(n \in record.nodes /\ Owned(n)) /\ Leaves(Entered("restart")) /\ NoFault
          /\ UNCHANGED machines
       \/ Bounced(n) /\ Stays(n) /\ Leaves([Entered("restart") EXCEPT !.pids = @ \ {n}])
       \/ n \in record.nodes /\ Owned(n) /\ Restarts(n, "no") /\ Dies("restart")

-----------------------------------------------------------------------------
(* The process of the command dies between two steps; a node dies. *)

Crash ==
  /\ at # "off" /\ Fault("crash") /\ Off("crashed") /\ UNCHANGED <<record, machines>>

NodeDies ==
  /\ Fault("die")
  /\ \E n \in Live : /\ proc' = [proc EXCEPT ![n] = None]
                     /\ found' = [found EXCEPT !.proc[n] = None]
  /\ UNCHANGED <<record, gfile, cfile, datadir, at, cmd, want, snap, todo, cmds, asked,
                 launch, failing, result>>

\* A node is not heard on its ports any more, or is again.
Hides ==
  /\ "hide" \in Faults /\ faults < MaxFaults /\ faults' = faults + 1
  /\ \E n \in Node : heard' = [heard EXCEPT ![n] = IF @ = "no" THEN "again" ELSE "no"]
  /\ UNCHANGED <<record, machines, at, walk, launch, failing, result>>

Stages ==
  \/ openingWorkspace \/ buildingNodeTable \/ ensuringKeys \/ buildingGenesis
  \/ buildingNodeConfig \/ buildingNodeCommand \/ deployingInputs \/ initializingDatadirs
  \/ launching \/ launchingPhase \/ runningPhaseActions \/ recordingRun \/ rollingBack
  \/ StageRefuses \/ Rests \/ MarkFailed

CompositionNext ==
  \/ Up \/ RunStep \/ Resume \/ Operate
  \/ Stages \/ reconciling
  \/ comparing \/ stoppingToRebuild \/ restartingNodes
  \/ startMissing \/ NothingMissing \/ stopping \/ removing \/ restarting
  \/ Crash \/ NodeDies \/ Hides

CompositionSpec == CompositionInit /\ [][CompositionNext]_compositionVars

-----------------------------------------------------------------------------
(* What must hold. *)

CompositionTypeOK ==
  /\ record \in [steps : [Stage -> {"none", "done", "failed"}], path : Path,
                 request : Request \cup {None}, nodes : {{}, Node}, argv : SUBSET Node,
                 genesis : {"yes", "no"}, inG : Genesis \cup {None},
                 inC : [Node -> Config \cup {None}], pids : SUBSET Node]
  /\ gfile \in [Node -> Genesis \cup {None}] /\ cfile \in [Node -> Config \cup {None}]
  /\ datadir \in [Node -> Genesis \cup {None, Partial}]
  /\ proc \in [Node -> Process \cup {None}]
  /\ at \in Stage \cup {"off", "failed", "rollback", "phase", "actions", "recording",
                        "stoppedAtStep", "ready", "reconcile", "compare", "stopping",
                        "restarting", "missing", "done", "stop", "rm", "restart"}
  /\ want \in Request \cup {None} /\ failing \in Stage
  /\ was \subseteq Node /\ todo \subseteq Node /\ phase \in 1..Len(Phases) + 1
  /\ heard \in [Node -> {"yes", "no", "again"}]

\* No command takes the data directory from under a process that is up: not from one
\* the record names, through whatever roll backs, failed stops, resumes and removals;
\* and from one it lost only by a removal, which does not look for it, or where the
\* probe before init finds no port held (Workspace.Init, checkVacant, Rm).
DataStaysUnderTheLive ==
  [][\A n \in Live :
       datadir[n] # None /\ datadir'[n] # datadir[n]
       => n \in Orphans /\ (at = "rm" \/ heard[n] = "no")]_compositionVars

\* A launch that fails leaves the machines running what ran before it: every node it
\* started is down again, unless its stop failed, and none that was up before it is
\* touched (failLaunch, RollBackLaunch).
RollbackIsExact ==
  [][at = "rollback" /\ at' = "failed" =>
       \A n \in Node :
         /\ before[n] # None => proc'[n] = proc[n]
         /\ proc'[n] # None => before[n] = proc'[n] \/ faults' # faults]_compositionVars

\* The process that ran on n when the command began, adopted meanwhile or not.
Kept(n) == found.proc[n] # None /\ proc[n] = [found.proc[n] EXCEPT !.known = proc[n].known]

\* A composition that reports the network ready has every step of it done, and every
\* node it launched serves the genesis and the config that were asked for: nothing
\* half built was launched over.  For a resume, in a workspace that was only ever
\* brought up, fresh, as this one network: the comparison, the reconciliation and a
\* step run by hand each overwrite the position a dead run left, and a resume after
\* one of them believes the steps an older run had done; and but for a node that a
\* probe ever missed, whose data an init can have taken from under it.
ServesTheRequest ==
  /\ at = "off" /\ result = "ok" /\ record.path = "ready"
  /\ \/ cmd = "up"
     \/ cmd = "resume" /\ asked = {<<"fresh", want.genesis, want.config>>}
  => /\ \A s \in Stage : record.steps[s] = "done"
     /\ \A n \in record.pids :
          \/ proc[n] = None \/ Kept(n) \/ n \in Orphans
          \/ cmd = "resume" /\ heard[n] # "yes"
          \/ proc[n].genesis = want.genesis /\ proc[n].config = want.config

\* A refused reuse leaves the network as it was: no file is written, and no process is
\* started, stopped or adopted by a chain up that ends in a refusal; the processes are
\* the ones it found, but for those that died by themselves (reconciling before
\* buildingGenesis).
RefusalTouchesNothing ==
  result = "refused" /\ cmd = "up" /\ at = "off" =>
    /\ gfile = found.gfile /\ cfile = found.cfile /\ datadir = found.datadir
    /\ proc = found.proc

\* A run that reuses what matches redoes the rest: with the genesis it already has,
\* and nothing going wrong, chain up brings the network up (reuse.go:162, "a node
\* that must be redone and is still up is stopped here so init can re-initialize its
\* datadir").  The code refuses to signal it, since the argv it is told by is gone.
DriftIsRedone == cmd = "up" /\ faults = 0 => result # "failed"

\* A network the comparison keeps, or relaunches, is the one wanted
\* (preflight.go:112, "the composed network is the one wanted and none of it runs").
\* The code compares with the last request, which may never have been composed.
ComparedIsWanted ==
  at = "off" /\ result = "ok" /\ cmd = "compare" /\ want.stage = "start" =>
    \A n \in Live : proc[n].genesis = want.genesis
=============================================================================
