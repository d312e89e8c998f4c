----------------------------- MODULE NodeRecord -----------------------------
(***************************************************************************)
(* What a workspace remembers of the nodes it launched:                    *)
(* internal/chainsetup (workspace.go, workspace_open.go, node_ops.go,      *)
(* steps_lifecycle.go, steps_orphan.go, phases.go, record.go) over         *)
(* internal/core/process/ledger.go.                                        *)
(*                                                                         *)
(* Two files hold the memory: process.json, the run ledger, and            *)
(* chain-record.json, the composition state.  A command opens both, takes  *)
(* the workspace's lock, works on its own copy, writes both and releases.  *)
(* The lock is the one WorkspaceMutex specifies: a holder that died is     *)
(* taken over.  Pids are never reused.                                     *)
(***************************************************************************)
EXTENDS Integers, Sequences, FiniteSets, FiniteSetsExt

CONSTANTS Node,
          Build, NoBuild, Default, \* a binary with its argv; none; the network's
          Name,                    \* the binary of each build, as a process listing shows it
          Command, NoCommand,      \* the commands that may run at a time
          Ops,                     \* which operations they are asked for
          Faults,                  \* which of "crash", "die", "write", "stop", "tear", "blind" happen
          MaxPid,                  \* bound: processes launched
          MaxHistory               \* bound: executions archived under a label

Fates == {"ledger", "lost", "overwritten", "torn"}

ASSUME RecordAssumption ==
  /\ Node # {}
  /\ Default \in Build /\ NoBuild \notin Build
  /\ DOMAIN Name = Build
  /\ NoCommand \notin Command /\ Command \cap Fates = {}
  /\ Ops \subseteq {"note", "stopnode", "startnode", "restart", "swap", "stop", "plan", "rm",
                   "reconcile"}
  /\ MaxPid \in Nat /\ MaxHistory \in Nat

Pid == 1..MaxPid
Absent == [pid |-> 0, rev |-> 0]

VARIABLES record, ledger,  \* the two files
          lock,            \* the command that holds the workspace
          pc, op, target, build, \* where each command is, and what it was asked
          mrec, mled,      \* its copies of the files
          todo, was,       \* the nodes it has yet to see; the ones that ran before it
          failed,          \* whether its step failed
          running, next,   \* the machine: its live processes by pid, and the next pid
          missed,          \* history: what its sweep could not be told of
          stale            \* history: the commands whose ledger another one wrote since

mem == <<mrec, mled>>
work == <<target, build, was, missed, stale>>
machine == <<running, next>>
vars == <<record, ledger, lock, pc, op, target, build, mrec, mled, todo, was, failed,
          running, next, missed, stale>>

alive == DOMAIN running

Records == [placed : SUBSET Node, pid : [Node -> 0..MaxPid], args : [Node -> Build \cup {NoBuild}]]
Entries == [pid : 0..MaxPid, rev : Nat]
Ledgers == [whole : {"yes", "no"}, procs : [Node -> Entries], history : [Node -> Seq(Nat)]]

\* A process: the node whose data directory it serves, the build it runs, and who
\* still has to write it down (by: a command), or what became of that: "ledger", once
\* one did; "lost", when the one that launched it ended first; "overwritten", when a
\* command wrote a ledger it had read before the process was in it; "torn", when one
\* was killed inside the write.
Processes == [node : Node, build : Build, by : Command \cup Fates]

NoPids == [n \in Node |-> 0]
NewLedger == [whole |-> "yes", procs |-> [n \in Node |-> Absent], history |-> [n \in Node |-> <<>>]]

Blank == [placed |-> {}, pid |-> NoPids, args |-> [n \in Node |-> NoBuild]]
AnyNode == CHOOSE n \in Node : TRUE

\* A network that is placed and not started, armed or not.
Init ==
  /\ record \in {[placed |-> Node, pid |-> NoPids, args |-> [n \in Node |-> b]] :
                   b \in {NoBuild, Default}}
  /\ ledger = NewLedger
  /\ lock = NoCommand
  /\ pc = [c \in Command |-> "idle"] /\ op = [c \in Command |-> "none"]
  /\ target = [c \in Command |-> AnyNode] /\ build = [c \in Command |-> Default]
  /\ mrec = [c \in Command |-> Blank] /\ mled = [c \in Command |-> NewLedger]
  /\ todo = [c \in Command |-> {}] /\ was = [c \in Command |-> {}]
  /\ failed = [c \in Command |-> "no"]
  /\ running = [p \in {} |-> 0] /\ next = 1
  /\ missed = [c \in Command |-> {}] /\ stale = {}

TypeOK ==
  /\ record \in Records /\ ledger \in Ledgers
  /\ lock \in Command \cup {NoCommand}
  /\ pc \in [Command -> {"idle", "record", "ledger", "acquire", "work", "start", "launch",
                         "sweep", "save", "write", "manifest"}]
  /\ op \in [Command -> {"none", "note", "stopnode", "startnode", "restart", "swap", "stop",
                         "plan", "phase", "rollback", "rm", "reconcile"}]
  /\ target \in [Command -> Node] /\ build \in [Command -> Build]
  /\ mrec \in [Command -> Records] /\ mled \in [Command -> Ledgers]
  /\ todo \in [Command -> SUBSET Node] /\ was \in [Command -> SUBSET Node]
  /\ failed \in [Command -> {"yes", "no"}]
  /\ next \in 1..MaxPid + 1
  /\ alive \subseteq 1..next - 1 /\ \A p \in alive : running[p] \in Processes
  /\ missed \in [Command -> SUBSET Pid] /\ stale \subseteq Command

-----------------------------------------------------------------------------
(* The ledger. *)

Has(l, n) == l.procs[n].pid > 0
Recorded(l) == {l.procs[n].pid : n \in {m \in Node : Has(l, m)}}

nextArchivedRevision(l, n) ==
  Max({-1} \cup {l.history[n][i] : i \in DOMAIN l.history[n]}) + 1

Entry(l, n, p) == [pid |-> p, rev |-> nextArchivedRevision(l, n)]

\* A label that is still recorded is refused: the ledger stays as it is.
Record(l, n, p) == IF Has(l, n) THEN l ELSE [l EXCEPT !.procs[n] = Entry(l, n, p)]

Archive(l, n) ==
  IF Has(l, n)
  THEN [l EXCEPT !.history[n] = Append(@, l.procs[n].rev)]
  ELSE l

ClearAll(l, S) ==
  [l EXCEPT !.procs = [n \in Node |-> IF n \in S THEN Absent ELSE l.procs[n]]]

Clear(l, n) == ClearAll(l, {n})

\* A mutant: the entry of the stopped process stays.
RetireNothing(l, n) == l

Retire(l, n) == Clear(Archive(l, n), n)

\* A mutant: the new entry does not look at what was archived.
SupersedeAsNew(l, n, p) == [Archive(l, n) EXCEPT !.procs[n] = [pid |-> p, rev |-> 0]]

Supersede(l, n, p) == [Archive(l, n) EXCEPT !.procs[n] = Entry(Archive(l, n), n, p)]

-----------------------------------------------------------------------------
(* Opening, locking, saving: InWorkspace. *)

Goto(c, where) == pc' = [pc EXCEPT ![c] = where]

\* The command returns, or is killed: its lock is free or stale, and its copies are gone.
Returns(c) ==
  /\ Goto(c, "idle") /\ op' = [op EXCEPT ![c] = "none"]
  /\ lock' = IF lock = c THEN NoCommand ELSE lock
  /\ target' = [target EXCEPT ![c] = AnyNode] /\ build' = [build EXCEPT ![c] = Default]
  /\ mrec' = [mrec EXCEPT ![c] = Blank] /\ mled' = [mled EXCEPT ![c] = NewLedger]
  /\ todo' = [todo EXCEPT ![c] = {}] /\ was' = [was EXCEPT ![c] = {}]
  /\ failed' = [failed EXCEPT ![c] = "no"]
  /\ missed' = [missed EXCEPT ![c] = {}] /\ stale' = stale \ {c}

\* A command begins, on a node and with a build where it takes them: the
\* composition state is read.
Open(c, o, n, b) ==
  /\ pc[c] = "idle" /\ o \in Ops
  /\ o \in {"stopnode", "startnode", "restart", "swap"} \/ n = AnyNode
  /\ o = "swap" \/ b = Default
  /\ o \in {"stopnode", "restart", "swap"} => Len(ledger.history[n]) < MaxHistory
  /\ op' = [op EXCEPT ![c] = o]
  /\ target' = [target EXCEPT ![c] = n] /\ build' = [build EXCEPT ![c] = b]
  /\ mrec' = [mrec EXCEPT ![c] = record]
  /\ Goto(c, "ledger")
  /\ UNCHANGED <<record, ledger, lock, mled, todo, was, failed, machine, missed, stale>>

\* The command opens the workspace once more, for its next part.
Reopen(c) ==
  /\ pc[c] = "record"
  /\ mrec' = [mrec EXCEPT ![c] = record]
  /\ Goto(c, "ledger")
  /\ UNCHANGED <<record, ledger, lock, op, work, mled, todo, failed, machine>>

\* What a command does after a part of it: a start goes on with its launches, and a
\* launch that failed with its roll back.
Following(c, f) ==
  CASE op[c] = "plan" /\ f = "no" -> "phase"
    [] op[c] = "phase" /\ f = "yes" -> "rollback"
    [] OTHER -> "none"

\* The part is over, or refused (f says whether it failed): a lock it holds is released.
Finish(c, f) ==
  IF Following(c, f) = "none"
  THEN Returns(c)
  ELSE /\ lock' = IF lock = c THEN NoCommand ELSE lock
       /\ op' = [op EXCEPT ![c] = Following(c, f)] /\ Goto(c, "record")
       /\ todo' = [todo EXCEPT ![c] = {}] /\ failed' = [failed EXCEPT ![c] = "no"]
       /\ UNCHANGED <<work, mem>>

\* The nodes the state names a pid for and the ledger does not know.
Unseeded(r, l) == {n \in r.placed : r.pid[n] > 0 /\ ~Has(l, n)}

Seeded(r, l) ==
  [l EXCEPT !.procs = [n \in Node |->
     IF n \in Unseeded(r, l) THEN Entry(l, n, r.pid[n]) ELSE l.procs[n]]]

Synced(r, l) ==
  [r EXCEPT !.pid = [n \in Node |->
     IF n \in r.placed /\ Has(l, n) THEN l.procs[n].pid ELSE r.pid[n]]]

\* The ledger is read: its pids are the ones that count, and a pid only the state
\* names is entered.  A ledger that cannot be parsed is an error.
OpenLedger(c) ==
  /\ pc[c] = "ledger"
  /\ IF ledger.whole = "no"
     THEN Finish(c, "yes")
     ELSE /\ mled' = [mled EXCEPT ![c] = Seeded(mrec[c], ledger)]
          /\ mrec' = [mrec EXCEPT ![c] = Synced(mrec[c], ledger)]
          /\ stale' = stale \ {c}
          /\ Goto(c, IF op[c] = "note" THEN "save" ELSE "acquire")
          /\ UNCHANGED <<lock, op, target, build, was, missed, todo, failed>>
  /\ UNCHANGED <<record, ledger, machine>>

\* The lock, or the refusal that names its holder.
Acquire(c) ==
  /\ pc[c] = "acquire"
  /\ IF lock = NoCommand
     THEN lock' = c /\ Goto(c, "work") /\ UNCHANGED <<op, work, mem, todo, failed>>
     ELSE Finish(c, "yes")
  /\ UNCHANGED <<record, ledger, machine>>

\* os.WriteFile empties the file before it fills it.
SaveLedgerBegins(c) ==
  /\ pc[c] = "save"
  /\ ledger' = [ledger EXCEPT !.whole = "no"]
  /\ Goto(c, "write")
  /\ UNCHANGED <<record, lock, op, work, mem, todo, failed, machine>>

SaveLedger(c) ==
  /\ pc[c] = "write"
  /\ ledger' = mled[c]
  /\ running' = [p \in alive |->
       IF running[p].by = c \/ p \in Recorded(mled[c])
       THEN [running[p] EXCEPT !.by = "ledger"]
       ELSE IF c \in stale /\ running[p].by = "ledger"
       THEN [running[p] EXCEPT !.by = "overwritten"] ELSE running[p]]
  /\ stale' = stale \cup {d \in Command \ {c} : pc[d] \notin {"idle", "record", "ledger"}}
  /\ Goto(c, "manifest")
  /\ UNCHANGED <<record, lock, op, target, build, was, missed, mem, todo, failed, next>>

\* The composition state is replaced as a whole, and the lock is released.
SaveState(c) ==
  /\ pc[c] = "manifest"
  /\ record' = mrec[c]
  /\ Finish(c, failed[c])
  /\ UNCHANGED <<ledger, machine>>

\* What the command launched and did not write down stays up.
Forsakes(c) ==
  running' = [p \in alive |-> IF running[p].by = c THEN [running[p] EXCEPT !.by = "lost"]
                              ELSE running[p]]

\* And the file it was writing is left empty.
Tears(c) ==
  running' = [p \in alive |->
    CASE running[p].by = c -> [running[p] EXCEPT !.by = "lost"]
      [] running[p].by = "ledger" -> [running[p] EXCEPT !.by = "torn"]
      [] OTHER -> running[p]]

\* One of the two writes fails: "processes this step started may not be recorded".
SaveFails(c) ==
  /\ "write" \in Faults /\ pc[c] \in {"save", "manifest"}
  /\ Forsakes(c)
  /\ Finish(c, "yes")
  /\ UNCHANGED <<record, ledger, next>>

-----------------------------------------------------------------------------
(* The machine. *)

Busy(n) == \E p \in alive : running[p].node = n

Kills(S) == running' = [p \in alive \ S |-> running[p]]

\* What a process listing shows of a process.
Shows(p, n, b) == running[p].node = n /\ running[p].build = b

\* The driver starts build b as node n.  A node does not come up over a data
\* directory in use: it ends at once.
Launch(c, n, b) ==
  /\ next \in Pid
  /\ next' = next + 1
  /\ running' = IF Busy(n) THEN running
                ELSE [p \in alive \cup {next} |->
                        IF p = next THEN [node |-> n, build |-> b, by |-> c] ELSE running[p]]

\* The process of a node ends by itself.
NodeDies(p) ==
  /\ "die" \in Faults /\ p \in alive
  /\ Kills({p})
  /\ UNCHANGED <<record, ledger, lock, pc, op, work, mem, todo, failed, next>>

\* The pid is the launch the record describes.
OwnedRunning(c, n) ==
  mrec[c].pid[n] \in alive /\ Shows(mrec[c].pid[n], n, mrec[c].args[n])

\* The nodes of S whose pid is alive and something else, or that have no launch to
\* compare it with: they are refused, not signalled.
Mismatched(c, S) ==
  {n \in S : \/ mrec[c].pid[n] \in alive /\ ~OwnedRunning(c, n)
             \/ mrec[c].args[n] = NoBuild}

\* stopOwned on every node of S, of which those of E answer with an error.  A driver
\* that cannot read a process table is trusted with the pid ("blind").
stopOwned(c, S, E) ==
  /\ E \subseteq S
  /\ Mismatched(c, S) \subseteq E \/ "blind" \in Faults
  /\ E \subseteq Mismatched(c, S) \/ "stop" \in Faults
  /\ Kills({mrec[c].pid[n] : n \in S \ E})

-----------------------------------------------------------------------------
(* The operations, on the command's copy and under the lock. *)

\* The step returns an error; what it did so far is saved all the same.
Fail(c) == failed' = [failed EXCEPT ![c] = "yes"] /\ Goto(c, "save")
Done(c) == Goto(c, "save") /\ UNCHANGED failed

\* The state without the pids of S.
Without(r, S) == [r EXCEPT !.pid = [n \in Node |-> IF n \in S THEN 0 ELSE r.pid[n]]]

Forgets(c, S) == mrec' = [mrec EXCEPT ![c] = Without(@, S)]

StopNode(c) ==
  LET n == target[c] IN
  /\ pc[c] = "work" /\ op[c] \in {"stopnode", "restart"}
  /\ \/ /\ n \notin mrec[c].placed
        /\ Fail(c) /\ UNCHANGED <<mem, running>>
     \/ /\ n \in mrec[c].placed /\ mrec[c].pid[n] = 0
        /\ Goto(c, IF op[c] = "restart" THEN "start" ELSE "save")
        /\ UNCHANGED <<mem, running, failed>>
     \/ /\ n \in mrec[c].placed /\ mrec[c].pid[n] > 0
        /\ \/ stopOwned(c, {n}, {n}) /\ Fail(c) /\ UNCHANGED mem
           \/ /\ stopOwned(c, {n}, {})
              /\ mled' = [mled EXCEPT ![c] = Retire(@, n)]
              /\ Forgets(c, {n})
              /\ Goto(c, IF op[c] = "restart" THEN "start" ELSE "save")
              /\ UNCHANGED failed
  /\ UNCHANGED <<record, ledger, lock, op, work, todo, next>>

\* LaunchAndRecord, and the view that follows it.
LaunchAndRecord(c, n, b) ==
  /\ Launch(c, n, b)
  /\ mled' = [mled EXCEPT ![c] = Record(@, n, next)]
  /\ mrec' = [mrec EXCEPT ![c].pid[n] = IF Has(mled[c], n) THEN @ ELSE next,
                          ![c].args[n] = b]

StartNode(c) ==
  LET n == target[c] IN
  /\ \/ pc[c] = "work" /\ op[c] = "startnode"
     \/ pc[c] = "start" /\ op[c] = "restart"
  /\ \/ Fail(c) /\ UNCHANGED <<mem, machine>>   \* not allowed, or the driver fails
     \/ /\ n \in mrec[c].placed /\ mrec[c].pid[n] = 0 /\ mrec[c].args[n] # NoBuild
        /\ LaunchAndRecord(c, n, mrec[c].args[n])
        /\ IF Has(mled[c], n) THEN Fail(c) ELSE Done(c)
  /\ UNCHANGED <<record, ledger, lock, op, work, todo>>

\* The old process goes down; the entry stays until another one supersedes it.
SwapStops(c) ==
  LET n == target[c] IN
  /\ pc[c] = "work" /\ op[c] = "swap"
  /\ \/ /\ n \notin mrec[c].placed \/ mrec[c].args[n] = NoBuild
        /\ Fail(c) /\ UNCHANGED <<mrec, running>>
     \/ /\ n \in mrec[c].placed /\ mrec[c].args[n] # NoBuild
        /\ \/ mrec[c].pid[n] > 0 /\ stopOwned(c, {n}, {n}) /\ Fail(c) /\ UNCHANGED mrec
           \/ /\ IF mrec[c].pid[n] > 0 THEN stopOwned(c, {n}, {}) ELSE UNCHANGED running
              /\ mrec' = [mrec EXCEPT ![c].pid[n] = 0, ![c].args[n] = build[c]]
              /\ Goto(c, "launch") /\ UNCHANGED failed
  /\ UNCHANGED <<record, ledger, lock, op, work, mled, todo, next>>

\* The new one comes up, or the old entry is archived.
SwapLaunches(c) ==
  LET n == target[c] IN
  /\ pc[c] = "launch" /\ op[c] = "swap"
  /\ \/ /\ mled' = [mled EXCEPT ![c] = Retire(@, n)]
        /\ Fail(c) /\ UNCHANGED <<mrec, machine>>
     \/ /\ Launch(c, n, build[c])
        /\ mled' = [mled EXCEPT ![c] = Supersede(@, n, next)]
        /\ mrec' = [mrec EXCEPT ![c].pid[n] = next]
        /\ Done(c)
  /\ UNCHANGED <<record, ledger, lock, op, work, todo>>

\* The nodes an operation is to stop, by the record.
Running(c) == {n \in mrec[c].placed : mrec[c].pid[n] > 0}

\* A mutant: the entry of a node that would not go down is cleared as well.
stopNodesForgets(c, S) ==
  \E E \in SUBSET S :
    /\ stopOwned(c, S, E)
    /\ mled' = [mled EXCEPT ![c] = ClearAll(@, S)]
    /\ Forgets(c, S)
    /\ IF E # {} THEN Fail(c)
       ELSE Goto(c, IF op[c] = "stop" THEN "sweep" ELSE "save") /\ UNCHANGED failed

\* Every running node is attempted; the pid of each one that went down is cleared.
stopNodes(c, S) ==
  \E E \in SUBSET S :
    /\ stopOwned(c, S, E)
    /\ mled' = [mled EXCEPT ![c] = ClearAll(@, S \ E)]
    /\ Forgets(c, S \ E)
    /\ IF E # {} THEN Fail(c)
       ELSE Goto(c, IF op[c] = "stop" THEN "sweep" ELSE "save") /\ UNCHANGED failed

Stop(c) ==
  /\ pc[c] = "work" /\ op[c] = "stop"
  /\ stopNodes(c, Running(c))
  /\ UNCHANGED <<record, ledger, lock, op, work, todo, next>>

RollBackLaunch(c) ==
  /\ pc[c] = "work" /\ op[c] = "rollback"
  /\ stopNodes(c, Running(c) \ was[c])
  /\ UNCHANGED <<record, ledger, lock, op, work, todo, next>>

\* A node without an argv gets one as it is launched.
Armed(c, n) == IF mrec[c].args[n] = NoBuild THEN Default ELSE mrec[c].args[n]

\* The base names of the binaries the table's nodes run.
binaryNamesOn(c) ==
  {Name[Armed(c, n)] : n \in mrec[c].placed}

\* A mutant: the ones that run the recorded command line, as for an adoption.
OfTheRecordedLaunch(c) ==
  {p \in alive : \E n \in mrec[c].placed : Shows(p, n, mrec[c].args[n])}

\* The processes out of the table's data directories that the record has no pid for, as
\* a machine that answers every question names them.
unrecordedNodes(c) ==
  {p \in alive : /\ Name[running[p].build] \in binaryNamesOn(c)
                 /\ running[p].node \in mrec[c].placed
                 /\ p \notin {mrec[c].pid[n] : n \in Running(c)}}

\* The processes of U are not found, without an error: the network's binary does not
\* resolve, the driver of the machine cannot list processes or read an argv, or the
\* argv of one cannot be read.
StopUnrecorded(c) ==
  /\ pc[c] = "sweep"
  /\ \E U \in SUBSET unrecordedNodes(c) :
       /\ U = {} \/ "blind" \in Faults
       /\ missed' = [missed EXCEPT ![c] = U]
       /\ \/ Kills(unrecordedNodes(c) \ U) /\ Done(c)
          \/ /\ "stop" \in Faults
             /\ \E S \in SUBSET (unrecordedNodes(c) \ U) : Kills(S)
             /\ Fail(c)
  /\ UNCHANGED <<record, ledger, lock, op, target, build, was, stale, mem, todo, next>>

\* The launch goes on when nothing of the network's binary is seen to run that the
\* ledger does not know, and no other check fails; the nodes that run by then are
\* remembered.
LaunchPlan(c) ==
  /\ pc[c] = "work" /\ op[c] = "plan"
  /\ \/ Fail(c) /\ UNCHANGED was
     \/ /\ mrec[c].placed # {}
        /\ \/ \A p \in alive : Name[running[p].build] = Name[Default] => p \in Recorded(mled[c])
           \/ "blind" \in Faults
        /\ Done(c) /\ was' = [was EXCEPT ![c] = Running(c)]
  /\ UNCHANGED <<record, ledger, lock, op, target, build, missed, stale, mem, todo, machine>>

\* checkVacant, then one launch after the other, in the order of the table (here: in
\* any).  The phases of a bring-up are one: each takes the nodes that are not up.
startPhase(c) ==
  /\ pc[c] = "work" /\ op[c] = "phase"
  /\ \/ Fail(c) /\ UNCHANGED todo
     \/ /\ (\A n \in mrec[c].placed \ Running(c) : ~Busy(n)) \/ "blind" \in Faults
        /\ todo' = [todo EXCEPT ![c] = mrec[c].placed \ Running(c)]
        /\ Goto(c, "launch") /\ UNCHANGED failed
  /\ UNCHANGED <<record, ledger, lock, op, work, mem, machine>>

LaunchNext(c) ==
  /\ pc[c] = "launch" /\ op[c] = "phase"
  /\ \/ /\ todo[c] = {}      \* what comes after the launches succeeds or not
        /\ Done(c) \/ Fail(c)
        /\ UNCHANGED <<mem, todo, machine>>
     \/ \E n \in todo[c] :   \* it fails before the node is armed, or after
          /\ mrec' \in {mrec, [mrec EXCEPT ![c].args[n] = Armed(c, n)]}
          /\ Fail(c)
          /\ UNCHANGED <<mled, todo, machine>>
     \/ \E n \in todo[c] :
          /\ LaunchAndRecord(c, n, Armed(c, n))
          /\ todo' = [todo EXCEPT ![c] = @ \ {n}]
          /\ IF Has(mled[c], n) THEN Fail(c) ELSE UNCHANGED <<pc, failed>>
  /\ UNCHANGED <<record, ledger, lock, op, work>>

\* The table is emptied, once no node has a recorded pid.
Rm(c) ==
  /\ pc[c] = "work" /\ op[c] = "rm"
  /\ \/ Fail(c) /\ UNCHANGED mrec     \* refused, or a path cannot be removed
     \/ /\ Running(c) = {}
        /\ mrec' = [mrec EXCEPT ![c] = Blank]
        /\ Done(c)
  /\ UNCHANGED <<record, ledger, lock, op, work, mled, todo, machine>>

\* A process nobody recorded whose command line is the one node n would be
\* launched with, on the network's binary.
orphanOf(c, n) ==
  {p \in alive \ Recorded(mled[c]) :
     /\ mrec[c].args[n] # NoBuild /\ Name[mrec[c].args[n]] = Name[Default]
     /\ Shows(p, n, mrec[c].args[n])}

ReconcileBegins(c) ==
  /\ pc[c] = "work" /\ op[c] = "reconcile"
  /\ todo' = [todo EXCEPT ![c] = mrec[c].placed]
  /\ Goto(c, "start")
  /\ UNCHANGED <<record, ledger, lock, op, work, mem, failed, machine>>

\* A pid that is gone is cleared; a node that runs unrecorded is adopted; one whose
\* machine cannot be asked stays as recorded.
ReconcileNode(c, n) ==
  /\ pc[c] = "start" /\ op[c] = "reconcile" /\ n \in todo[c]
  /\ todo' = [todo EXCEPT ![c] = @ \ {n}]
  /\ \/ /\ mrec[c].pid[n] > 0 /\ mrec[c].pid[n] \notin alive
        /\ mled' = [mled EXCEPT ![c] = Clear(@, n)] /\ Forgets(c, {n})
     \/ /\ mrec[c].pid[n] = 0
        /\ \E p \in orphanOf(c, n) :
             /\ mled' = [mled EXCEPT ![c] = Record(@, n, p)]
             /\ mrec' = [mrec EXCEPT ![c].pid[n] = p]
     \/ /\ \/ IF mrec[c].pid[n] > 0 THEN mrec[c].pid[n] \in alive ELSE orphanOf(c, n) = {}
           \/ "blind" \in Faults
        /\ UNCHANGED mem
  /\ UNCHANGED <<record, ledger, lock, pc, op, work, failed, machine>>

\* Every node was seen, or the machine of the next one answers with an error.
ReconcileEnds(c) ==
  /\ pc[c] = "start" /\ op[c] = "reconcile"
  /\ \/ todo[c] = {} /\ Done(c)
     \/ todo[c] # {} /\ "blind" \in Faults /\ Fail(c)
  /\ UNCHANGED <<record, ledger, lock, op, work, mem, todo, machine>>

\* The command is killed; the next one takes its lock over.  Inside the write of the
\* ledger it is killed only where "tear" is among the faults.
Crash(c) ==
  /\ "crash" \in Faults /\ pc[c] # "idle"
  /\ pc[c] = "write" => "tear" \in Faults
  /\ IF pc[c] = "write" /\ ledger.whole = "no" THEN Tears(c) ELSE Forsakes(c)
  /\ Returns(c)
  /\ UNCHANGED <<record, ledger, next>>

-----------------------------------------------------------------------------

Step(c) ==
  \/ Reopen(c) \/ OpenLedger(c) \/ Acquire(c)
  \/ SaveLedgerBegins(c) \/ SaveLedger(c) \/ SaveState(c) \/ SaveFails(c)
  \/ StopNode(c) \/ StartNode(c) \/ SwapStops(c) \/ SwapLaunches(c)
  \/ Stop(c) \/ StopUnrecorded(c)
  \/ LaunchPlan(c) \/ startPhase(c) \/ LaunchNext(c) \/ RollBackLaunch(c)
  \/ Rm(c)
  \/ ReconcileBegins(c) \/ (\E n \in Node : ReconcileNode(c, n)) \/ ReconcileEnds(c)
  \/ Crash(c)

Next ==
  \/ \E c \in Command :
       \/ \E o \in Ops, n \in Node, b \in Build : Open(c, o, n, b)
       \/ Step(c)
  \/ \E p \in Pid : NodeDies(p)

Spec == Init /\ [][Next]_vars

-----------------------------------------------------------------------------
(* Properties. *)

\* Every ledger, on disk and in the hands of a command.
EachLedger(P(_)) == P(ledger) /\ \A c \in Command : P(mled[c])

\* The archived executions of a node have one revision each, and the current one is
\* above them all: none of Record, Supersede, Retire, Clear and the seeding in Open,
\* by whatever commands in whatever order, gives a revision twice.
RevisionsIncrease ==
  LET Increasing(l) ==
        \A n \in Node :
          LET h == l.history[n] IN
          /\ \A i, j \in DOMAIN h : i < j => h[i] < h[j]
          /\ Has(l, n) => \A i \in DOMAIN h : h[i] < l.procs[n].rev
  IN EachLedger(Increasing)

\* A launch is never refused by the ledger after the fact: the pids of the record
\* and of the ledger agree whenever a node is launched, so no process is started
\* that Record then declines to enter.
LaunchesAreEntered ==
  \A c \in Command :
    /\ pc[c] = "launch" /\ op[c] = "phase"
         => \A n \in todo[c] : ~Has(mled[c], n)
    /\ /\ \/ pc[c] = "work" /\ op[c] = "startnode"
          \/ pc[c] = "start" /\ op[c] = "restart"
       /\ target[c] \in mrec[c].placed
       => (Has(mled[c], target[c]) <=> mrec[c].pid[target[c]] > 0)

\* "A later invocation (a stop, a health check, a pre-launch check) reaches the same
\* processes an earlier one started": every live node is in the ledger, or in the hands
\* of a command that will write it down, but for the ones whose command ended before it
\* wrote them ("lost"), that a command which had read the ledger before them wrote away
\* ("overwritten"), or that were in a file left half written ("torn").  No stop, swap,
\* roll back, adoption or failing save loses any other.
LiveNodesAreNamed ==
  \A p \in alive :
    running[p].by = "ledger"
    => /\ p \in Recorded(ledger)
       /\ ledger.whole = "yes" \/ \E c \in Command : pc[c] = "write"

\* "stop this composition" means every node of it, "and a node whose pid never
\* reached the record is still one of them": when Stop returns without an error, what
\* is left of the table's nodes is what the machine did not tell it of, or runs a
\* binary no node of the table is launched with any more.
StopStopsAll ==
  [][\A c \in Command :
       pc[c] = "sweep" /\ pc'[c] = "save" /\ failed'[c] = "no"
       => \A p \in DOMAIN running' :
            running[p].node \in mrec[c].placed
            => p \in missed'[c] \/ Name[running[p].build] \notin binaryNamesOn(c)]_vars

\* The same with no exception, which a swap onto a binary of another name and a machine
\* that cannot be asked refute.
StopLeavesNothing ==
  [][\A c \in Command :
       pc[c] = "sweep" /\ pc'[c] = "save" /\ failed'[c] = "no"
       => \A p \in DOMAIN running' : running[p].node \notin mrec[c].placed]_vars

\* No live process that was written down is lost to a concurrent command or a torn
\* write, which both refute.
NothingIsOverwritten ==
  \A p \in alive : running[p].by \notin {"overwritten", "torn"}

\* What the workspace launched and recorded it recognises as its own: stopOwned
\* refuses a pid "reused by something else", never its own launch.
OwnLaunchIsRecognised ==
  \A c \in Command : pc[c] = "work" => Mismatched(c, Running(c)) = {}
=============================================================================
