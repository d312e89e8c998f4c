------------------------------ MODULE CrossFork ------------------------------
(***************************************************************************)
(* Crossing the fork a network is composed to cross: stage_crossfork.go    *)
(* and steps_crossfork.go of internal/chainsetup, with the node operations *)
(* (node_ops.go, phases.go) an operator runs between its moments.          *)
(*                                                                         *)
(* The crossing reads where the network stands, brings it to the moment,   *)
(* hands production over node by node and confirms.  Each of the four is   *)
(* an InWorkspace of its own: it works on a copy of the record under the   *)
(* lock and saves it at the end, also when it failed.  Between them the    *)
(* lock is free.  A handover moves the nodes that run the post-fork build  *)
(* from syncing to producing at the block before the fork; a restart moves *)
(* every node from the pre-fork build to the post-fork one, before the     *)
(* chain gets to the fork.                                                 *)
(***************************************************************************)
EXTENDS Integers

CONSTANTS N,            \* the nodes are 1..N, in the order of the table
          Shapes,       \* which of "handover" and "restart" the network may be
          Successors,   \* the nodes on the post-fork build, in a handover
          At,           \* the fork block
          Lag,          \* how far the head a node answers may be behind the chain's
          Faults,       \* which of "kill", "die", "refuse", "stop", "config", "launch",
                        \* "check", "rpc" happen
          Ops,          \* which of "stop", "start", "startall" an operator runs
          MaxFaults, MaxHead, MaxCommands   \* bounds

ASSUME ForkAssumption ==
  /\ N \in Nat \ {0} /\ Successors \subseteq 1..N /\ Successors # {}
  /\ Shapes \subseteq {"handover", "restart"} /\ Ops \subseteq {"stop", "start", "startall"}
  /\ At \in Nat \ {0} /\ Lag \in Nat
  /\ MaxFaults \in Nat /\ MaxHead \in Nat /\ MaxCommands \in Nat

Node == 1..N
Role == {"bp", "en"}
Build == {"pre", "post"}

\* What a command line, or a config file, was rendered for.
Rendering == [role : Role, bin : Build]
NoArgs == [role |-> "none", bin |-> "none"]
Down == [args |-> NoArgs, conf |-> NoArgs, bin |-> "none"]

\* A process: the binary it runs, the command line it was given, and the config file
\* it read.
Processes == [args : Rendering, conf : Rendering, bin : Build]

\* A node in the record.  Its pid is that of the process serving the node ("live"),
\* of one that ended ("gone"), or there is none.
Records == [role : Role, bin : Build, args : Rendering \cup {NoArgs},
            pid : {"none", "live", "gone"}]

VARIABLES shape,     \* what the network is composed to cross
          rec, step, \* the record: its nodes, and the outcome of the crossing step
          pc, mem,   \* where the crossing is, and its copy of the nodes
          todo,      \* the successors it has yet to hand over to
          conf,      \* the config files
          proc,      \* the process that serves each node
          head,      \* the chain's head
          sealer,    \* the build that sealed the fork block
          said,      \* what the last crossing told its caller
          faults, commands

cross == <<pc, mem, todo>>
chain == <<head, sealer>>
vars == <<shape, rec, step, pc, mem, todo, conf, proc, head, sealer, said, faults, commands>>

Rendered(ns) == [role |-> ns.role, bin |-> ns.bin]

\* As composed: in a handover the successors sync beside the producers of the pre-fork
\* build, before a restart everybody is on that build; everybody is up.
Composed(s) ==
  [n \in Node |->
     LET r == IF s = "handover" /\ n \in Successors THEN [role |-> "en", bin |-> "post"]
              ELSE [role |-> "bp", bin |-> "pre"]
     IN [role |-> r.role, bin |-> r.bin, args |-> r, pid |-> "live"]]

Init ==
  /\ shape \in Shapes
  /\ rec = Composed(shape) /\ step = "none"
  /\ pc = "idle" /\ mem = rec /\ todo = {}
  /\ conf = [n \in Node |-> Rendered(rec[n])]
  /\ proc = [n \in Node |-> [args |-> rec[n].args, conf |-> conf[n], bin |-> rec[n].bin]]
  /\ head = 0 /\ sealer = "none"
  /\ said = "nothing" /\ faults = 0 /\ commands = 0

TypeOK ==
  /\ shape \in Shapes
  /\ rec \in [Node -> Records] /\ mem \in [Node -> Records]
  /\ step \in {"none", "walked", "already", "failed"}
  /\ pc \in {"idle", "standing", "moment", "await", "handover", "stop", "launch", "confirm",
            "report"}
  /\ todo \subseteq Node
  /\ conf \in [Node -> Rendering]
  /\ proc \in [Node -> Processes \cup {Down}]
  /\ head \in 0..MaxHead /\ sealer \in Build \cup {"none"}
  /\ said \in {"nothing", "crossed", "failed"}
  /\ faults \in 0..MaxFaults /\ commands \in 0..MaxCommands

Fault(f) == f \in Faults /\ faults < MaxFaults /\ faults' = faults + 1

-----------------------------------------------------------------------------
(* The machine and the chain (external). *)

Up(n) == proc[n] # Down

Ended(r, S) ==
  [n \in Node |-> IF n \in S /\ r[n].pid = "live" THEN [r[n] EXCEPT !.pid = "gone"] ELSE r[n]]

Kills(S) ==
  /\ proc' = [n \in Node |-> IF n \in S THEN Down ELSE proc[n]]
  /\ rec' = Ended(rec, S)

\* The driver starts node n of the table r.  A node does not come up over a data
\* directory in use: it ends at once, and its pid with it.
Process(r, n) == [args |-> r[n].args, conf |-> conf'[n], bin |-> r[n].bin]
PidOf(n) == IF Up(n) THEN "gone" ELSE "live"

NodeDies(n) ==
  /\ Up(n) /\ Fault("die")
  /\ Kills({n}) /\ mem' = Ended(mem, {n})
  /\ UNCHANGED <<shape, step, pc, todo, conf, chain, said, commands>>

\* A producer seals the next block.  In a handover the pre-fork build refuses the fork
\* block, and the post-fork build has no validators before it.
Seal(n) ==
  /\ Up(n) /\ proc[n].args.role = "bp" /\ head < MaxHead
  /\ shape = "handover" => (proc[n].bin = "post" <=> head + 1 >= At)
  /\ head' = head + 1
  /\ sealer' = IF head' = At THEN proc[n].bin ELSE sealer
  /\ UNCHANGED <<shape, rec, step, cross, conf, proc, said, faults, commands>>

\* What the node may answer when it is asked for its head; nothing when it is down.
Heads(n) == IF Up(n) THEN {h \in 0..head : head - h <= Lag} ELSE {}

\* It answers no head: it is down, or the call fails.
NoHead(n) == IF Up(n) THEN Fault("rpc") ELSE UNCHANGED faults

-----------------------------------------------------------------------------
(* What the record says of the fork. *)

forkSuccessors(r) == {n \in Node : shape = "restart" \/ r[n].bin = "post"}

alreadyCrossed(r) == \A n \in forkSuccessors(r) :
  IF shape = "restart" THEN r[n].bin = "post" ELSE r[n].role = "bp"

\* The nodes on the pre-fork side that have a pid; the first one of the table is read.
forkObservers(r) == {n \in Node : (shape = "restart" \/ r[n].bin # "post") /\ r[n].pid # "none"}

\* The first node of S in the table, if there is one.
First(S) == {n \in S : \A m \in S : n <= m}
forkObserver(r) == First(forkObservers(r))

-----------------------------------------------------------------------------
(* The crossing. *)

\* The operation fails: the step is marked so, and the caller is told.
Fails ==
  /\ pc' = "idle" /\ todo' = {} /\ step' = "failed" /\ said' = "failed"

\* A moment that has changed nothing fails: its workspace is not to be had (another
\* command holds it, a file cannot be read), or what a condition names is so.
Refused == Fails /\ UNCHANGED <<shape, rec, mem, conf, proc, chain, commands>>

Begin ==
  /\ pc = "idle" /\ commands < MaxCommands
  /\ commands' = commands + 1
  /\ pc' = "standing" /\ said' = "nothing"
  /\ UNCHANGED <<shape, rec, step, mem, todo, conf, proc, chain, faults>>

WorkspaceRefused ==
  /\ pc \in {"standing", "moment", "handover", "confirm", "report"}
  /\ Fault("refuse")
  /\ Refused

\* crossingFork.Enter: is there a crossing left to do?  A network that is across goes
\* straight to the end.
ForkStanding ==
  /\ pc = "standing"
  /\ pc' = IF alreadyCrossed(rec) THEN "report" ELSE "moment"
  /\ UNCHANGED <<shape, rec, step, mem, todo, conf, proc, chain, said, faults, commands>>

\* The end of a crossing: the step is recorded, and the caller is told.
Ends(how) ==
  /\ pc' = "idle" /\ step' = how /\ said' = "crossed"
  /\ UNCHANGED <<shape, rec, mem, todo, conf, proc, chain, commands>>

ReportAlreadyCrossed ==
  /\ pc = "report"
  /\ Ends("already") /\ UNCHANGED faults

\* forkMoment: a handover waits with the lock held, a restart looks once.
ForkMoment ==
  /\ pc = "moment"
  /\ \/ /\ forkObservers(rec) = {}
        /\ Refused /\ UNCHANGED faults
     \/ /\ forkObservers(rec) # {} /\ shape = "handover"
        /\ pc' = "await"
        /\ UNCHANGED <<shape, rec, step, mem, todo, conf, proc, chain, said, faults, commands>>
     \/ /\ forkObservers(rec) # {} /\ shape = "restart"
        /\ \E n \in forkObserver(rec) :
             \/ \E h \in Heads(n) :
                  /\ UNCHANGED faults
                  /\ IF h >= At THEN Refused
                     ELSE /\ pc' = "handover"
                          /\ UNCHANGED <<shape, rec, step, mem, todo, conf, proc, chain, said,
                                         commands>>
             \/ NoHead(n) /\ Refused

\* A mutant: the block is the one before the last.
awaitForkBoundaryEarly ==
  /\ pc = "await"
  /\ \E n \in forkObserver(rec) : \E h \in Heads(n) : h >= At - 2
  /\ pc' = "handover"
  /\ UNCHANGED <<shape, rec, step, mem, todo, conf, proc, chain, said, faults, commands>>

\* One reading at the boundary ends the wait.  The readings before it change nothing.
awaitForkBoundary ==
  /\ pc = "await"
  /\ \E n \in forkObserver(rec) : \E h \in Heads(n) : h >= At - 1
  /\ pc' = "handover"
  /\ UNCHANGED <<shape, rec, step, mem, todo, conf, proc, chain, said, faults, commands>>

\* The deadline passes, whatever the last reading was.
AwaitTimesOut ==
  /\ pc = "await"
  /\ Refused /\ UNCHANGED faults

HandOverBegins ==
  /\ pc = "handover"
  /\ mem' = rec
  /\ todo' = forkSuccessors(rec)
  /\ pc' = "stop"
  /\ UNCHANGED <<shape, rec, step, conf, proc, chain, said, faults, commands>>

\* The moment is over and its copy is saved.
Saved(r) == rec' = r

\* The moment fails; what it did so far is saved.
HandOverFails(r) == Fails /\ Saved(r) /\ mem' = r

\* A mutant: an error of the stop is not looked at.
StopSuccessorSomehow ==
  /\ pc = "stop"
  /\ \E n \in First(todo) :
       /\ \/ mem[n].pid = "live" /\ Fault("stop") /\ UNCHANGED <<proc, rec>>
          \/ mem[n].pid = "live" /\ Kills({n}) /\ UNCHANGED faults
          \/ mem[n].pid # "live" /\ UNCHANGED <<proc, rec, faults>>
       /\ mem' = [mem EXCEPT ![n].pid = "none"]
       /\ pc' = "launch"
       /\ UNCHANGED <<shape, step, todo, conf, chain, said, commands>>

\* The successor goes down: its own launch, or nothing when its pid is gone already.
StopSuccessor ==
  /\ pc = "stop"
  /\ \E n \in First(todo) :
       \/ /\ mem[n].pid = "live" /\ Fault("stop")
          /\ HandOverFails(mem)
          /\ UNCHANGED <<shape, conf, proc, chain, commands>>
       \/ /\ IF mem[n].pid = "live" THEN Kills({n}) ELSE UNCHANGED <<proc, rec>>
          /\ mem' = [mem EXCEPT ![n].pid = "none"]
          /\ pc' = "launch"
          /\ UNCHANGED <<shape, step, todo, conf, chain, said, faults, commands>>

\* A mutant: the recorded command line stays, for the launch to use.
movedWithItsArgs(ns) ==
  IF shape = "restart" THEN [ns EXCEPT !.bin = "post"] ELSE [ns EXCEPT !.role = "bp"]

\* What crossing changes of a node: the build it runs, or the work it does.  Its command
\* line is cleared, for the relaunch to read what changed.
moved(ns) ==
  IF shape = "restart" THEN [ns EXCEPT !.bin = "post", !.args = NoArgs]
  ELSE [ns EXCEPT !.role = "bp", !.args = NoArgs]

\* The command line is rendered anew.
armed(ns) == IF ns.args = NoArgs THEN [ns EXCEPT !.args = Rendered(ns)] ELSE ns

\* The config of node n, as the table r has it, is written.
Configured(r, n) == [conf EXCEPT ![n] = Rendered(r[n])]

\* The successor is moved in the record, its config and its command line are rendered,
\* and it comes up.
LaunchAs(n, across, ready) ==
  \/ /\ Fault("config")   \* before the file is written, or after
     /\ conf' \in {conf, Configured(across, n)}
     /\ HandOverFails(across)
     /\ UNCHANGED <<shape, proc, chain, commands>>
  \/ /\ Fault("launch")
     /\ conf' = Configured(across, n)
     /\ HandOverFails(ready)
     /\ UNCHANGED <<shape, proc, chain, commands>>
  \/ /\ conf' = Configured(across, n)
     /\ mem' = [ready EXCEPT ![n].pid = PidOf(n)]
     /\ proc' = IF Up(n) THEN proc ELSE [proc EXCEPT ![n] = Process(ready, n)]
     /\ todo' = todo \ {n} /\ pc' = "stop"
     /\ UNCHANGED <<shape, rec, step, chain, said, faults, commands>>

LaunchSuccessor ==
  /\ pc = "launch"
  /\ \E n \in First(todo) :
       LaunchAs(n, [mem EXCEPT ![n] = moved(@)], [mem EXCEPT ![n] = armed(moved(@))])

\* Every successor was relaunched: the command lines are checked against each other.
HandOverEnds ==
  /\ pc = "stop" /\ todo = {}
  /\ \/ Fault("check") /\ HandOverFails(mem)
     \/ Saved(mem) /\ pc' = "confirm" /\ UNCHANGED <<step, mem, todo, said, faults>>
  /\ UNCHANGED <<shape, conf, proc, chain, commands>>

Walked == Ends("walked")

\* confirmBeforeFork, for a restart: the chain is still short of the fork, or the node
\* asked does not answer yet.
ConfirmCrossing ==
  /\ pc = "confirm"
  /\ \/ shape = "handover" /\ Walked /\ UNCHANGED faults
     \/ /\ shape = "restart" /\ forkObservers(rec) = {}
        /\ Refused /\ UNCHANGED faults
     \/ /\ shape = "restart" /\ forkObservers(rec) # {}
        /\ \E n \in forkObserver(rec) :
             \/ \E h \in Heads(n) :
                  (IF h >= At THEN Refused ELSE Walked) /\ UNCHANGED faults
             \/ NoHead(n) /\ Walked

\* The command is killed: its copy is gone, what it did to the machines is not (a config
\* file it was about to write may be there).
Killed ==
  /\ pc # "idle" /\ Fault("kill")
  /\ pc' = "idle" /\ todo' = {}
  /\ \/ conf' = conf
     \/ /\ pc = "launch"
        /\ \E n \in First(todo) : conf' = [conf EXCEPT ![n] = Rendered(moved(mem[n]))]
  /\ UNCHANGED <<shape, rec, step, mem, proc, chain, said, commands>>

Crossing ==
  \/ WorkspaceRefused \/ ForkStanding \/ ForkMoment \/ awaitForkBoundary \/ AwaitTimesOut
  \/ HandOverBegins \/ StopSuccessor \/ LaunchSuccessor \/ HandOverEnds \/ ConfirmCrossing
  \/ ReportAlreadyCrossed

-----------------------------------------------------------------------------
(* An operator's commands, each in its turn: while a moment has the lock they are     *)
(* refused.                                                                            *)

Unlocked == pc \in {"idle", "standing", "moment", "handover", "confirm", "report"}

Operator(o) ==
  /\ o \in Ops
  /\ Unlocked /\ commands < MaxCommands /\ commands' = commands + 1
  /\ UNCHANGED <<shape, step, pc, mem, todo, conf, chain, said, faults>>

StopNode(n) ==
  /\ Operator("stop") /\ rec[n].pid # "none"
  /\ proc' = IF rec[n].pid = "live" THEN [proc EXCEPT ![n] = Down] ELSE proc
  /\ rec' = [rec EXCEPT ![n].pid = "none"]

\* A node with no command line is refused: it has never been started.
StartNode(n) ==
  /\ Operator("start") /\ rec[n].pid = "none" /\ rec[n].args # NoArgs
  /\ proc' = IF Up(n) THEN proc ELSE [proc EXCEPT ![n] = Process(rec, n)]
  /\ rec' = [rec EXCEPT ![n].pid = PidOf(n)]

\* `chain start`: every node that has no pid is armed if need be and launched, unless
\* one of their data directories is in use.
Start ==
  LET S == {n \in Node : rec[n].pid = "none"} IN
  /\ Operator("startall") /\ S # {} /\ \A n \in S : ~Up(n)
  /\ rec' = [n \in Node |-> IF n \in S THEN [armed(rec[n]) EXCEPT !.pid = "live"] ELSE rec[n]]
  /\ proc' = [n \in Node |-> IF n \in S THEN Process(rec', n) ELSE proc[n]]

Next ==
  \/ Begin \/ Crossing \/ Killed
  \/ \E n \in Node : NodeDies(n) \/ Seal(n) \/ StopNode(n) \/ StartNode(n)
  \/ Start

Spec == Init /\ [][Next]_vars

-----------------------------------------------------------------------------
(* Properties. *)

\* "Before the fork its consensus has no validator set": no node of the post-fork build
\* is up to seal in a handover before the chain stands at the block before the fork,
\* whatever was killed, failed, retried or started by hand.
NobodySealsEarly ==
  shape = "handover"
  => \A n \in Node : Up(n) /\ proc[n].bin = "post" /\ proc[n].args.role = "bp"
                     => head >= At - 1

\* "A node configured for one build and launched on another is the failure this path
\* exists to prevent": no process has a command line rendered for another build.
ArgvFitsBuild == \A n \in Node : Up(n) => proc[n].args.bin = proc[n].bin

\* A crossing that was walked to its end has moved everybody it moves: from then on no
\* successor is up that does not produce, and after a restart nobody is up on the
\* pre-fork build.
WalkedMeansMoved ==
  step = "walked"
  => \A n \in forkSuccessors(rec) :
       Up(n) => IF shape = "restart" THEN proc[n].bin = "post" ELSE proc[n].args.role = "bp"

-----------------------------------------------------------------------------
(* What the code says of itself and does not keep. *)

\* "Two ways in, and they reach one state because they are one fact: the successors
\* produce": when a crossing says the fork is crossed, no successor is down.
CrossedMeansUp ==
  [][said' = "crossed" /\ said # "crossed" => \A n \in forkSuccessors(rec) : Up(n)]_vars

\* "It can still look fine afterwards, which is why this is checked rather than
\* assumed": when a restart says the fork is crossed, the pre-fork build did not seal it.
CrossedOnTheNewBuild ==
  [][said' = "crossed" /\ shape = "restart" => sealer # "pre"]_vars

\* A node never reads a config file that was rendered for another build.
ConfigFitsBuild == \A n \in Node : Up(n) => proc[n].conf.bin = proc[n].bin
=============================================================================
