-------------------------- MODULE CrossForkProofs --------------------------
(***************************************************************************)
(* For any number of nodes, any successors, any fork height, any lag of a  *)
(* node's answers and any faults: nobody of the post-fork build is up to   *)
(* seal too early, no process has the command line of another build, and a *)
(* crossing that was walked has moved everybody.                           *)
(***************************************************************************)
EXTENDS CrossFork, TLAPS

\* A node of the record, and the process of a node, that the crossing is done with.
MovedNode(ns) ==
    IF shape = "restart" THEN ns.bin = "post"
    ELSE ns.role = "bp" /\ (ns.args = NoArgs \/ ns.args.role = "bp")

MovedProcess(n) ==
    Up(n) => IF shape = "restart" THEN proc[n].bin = "post" ELSE proc[n].args.role = "bp"

\* Crossing moves this node.
Follows(ns) == shape = "restart" \/ ns.bin = "post"

\* A recorded command line is of the recorded build.
Fit(ns) == ns.args # NoArgs => ns.args.bin = ns.bin

\* A post-fork node neither produces nor would when launched as it is recorded.
Tame(ns) == ns.bin = "post" => ns.role # "bp" /\ ns.args.role # "bp"

Fitting ==
    \A n \in Node : /\ Fit(rec[n]) /\ Fit(mem[n])
                    /\ Up(n) => proc[n].args.bin = proc[n].bin

\* Short of the boundary the handover has not begun, and nothing of it is anywhere.
InTime ==
    shape = "handover" /\ head < At - 1
    => /\ pc \notin {"handover", "stop", "launch"}
       /\ \A n \in Node : /\ Tame(rec[n]) /\ Tame(mem[n])
                          /\ proc[n].bin = "post" => proc[n].args.role # "bp"

\* A process the record does not know is one a killed crossing moved and launched.
Straying ==
    \A n \in Node : \/ MovedProcess(n)
                    \/ /\ rec[n].pid = "live"
                       /\ pc \in {"stop", "launch"} => mem[n].pid = "live"

\* In the middle of a handover: who is not to do any more is done.
Handing ==
    /\ pc = "launch" => \A n \in First(todo) : mem[n].pid = "none"
    /\ pc \in {"stop", "launch"}
       => \A n \in Node : Follows(mem[n]) /\ n \notin todo
                          => MovedNode(mem[n]) /\ MovedProcess(n)

\* After it: everybody is, and no crossing begins anew.
Settled ==
    /\ pc = "confirm" \/ step = "walked"
       => \A n \in Node : Follows(rec[n]) => MovedNode(rec[n]) /\ MovedProcess(n)
    /\ step = "walked" => pc \in {"idle", "standing", "report", "confirm"}

ForkInv == TypeOK /\ Fitting /\ InTime /\ Straying /\ Handing /\ Settled

-----------------------------------------------------------------------------
(* Facts about the pieces. *)

LEMMA Numbers == /\ At \in Nat /\ Lag \in Nat /\ MaxHead \in Nat
                 /\ MaxFaults \in Nat /\ MaxCommands \in Nat
                 /\ Node \subseteq Int
BY ForkAssumption DEF Node

LEMMA FirstIsIn == ASSUME NEW S  PROVE First(S) \subseteq S
BY DEF First

\* What the move and the rendering make of a node.
LEMMA MovedIs ==
  ASSUME NEW ns \in Records
  PROVE  /\ moved(ns) \in Records /\ Fit(moved(ns)) /\ MovedNode(moved(ns))
         /\ moved(ns).pid = ns.pid /\ moved(ns).args = NoArgs
         /\ Rendered(moved(ns)) \in Rendering
         /\ shape = "handover" => moved(ns).bin = ns.bin
<1>1. moved(ns) \in Records
  BY DEF moved, Records, Rendering, Role, Build
<1>2. Rendered(moved(ns)) \in Rendering
  BY <1>1 DEF Records, Rendered, Rendering
<1>3. moved(ns).args = NoArgs /\ moved(ns).pid = ns.pid
  BY DEF moved, Records
<1>4. Fit(moved(ns))
  BY <1>3 DEF Fit
<1>5. MovedNode(moved(ns)) /\ (shape = "handover" => moved(ns).bin = ns.bin)
  BY DEF moved, Records, MovedNode
<1>. QED  BY <1>1, <1>2, <1>3, <1>4, <1>5

LEMMA ArmedIs ==
  ASSUME NEW ns \in Records
  PROVE  /\ armed(ns) \in Records /\ armed(ns).args \in Rendering
         /\ armed(ns).bin = ns.bin /\ armed(ns).role = ns.role /\ armed(ns).pid = ns.pid
         /\ Fit(ns) => Fit(armed(ns))
         /\ ns.args = NoArgs => armed(ns).args = Rendered(ns)
         /\ ns.args # NoArgs => armed(ns).args = ns.args
<1>1. CASE ns.args = NoArgs
  <2>1. armed(ns) = [ns EXCEPT !.args = Rendered(ns)]
    BY <1>1 DEF armed
  <2>2. Rendered(ns) \in Rendering /\ Rendered(ns).bin = ns.bin
    BY DEF Records, Rendered, Rendering
  <2>. QED  BY <1>1, <2>1, <2>2 DEF Records, Fit
<1>2. CASE ns.args # NoArgs
  BY <1>2 DEF armed, Records
<1>. QED  BY <1>1, <1>2

\* A process of a rendered node is one of the machine, and never the absent one.
LEMMA ProcessIs ==
  ASSUME NEW r, NEW n \in Node, r[n] \in Records, r[n].args \in Rendering,
         conf' \in [Node -> Rendering]
  PROVE  /\ Process(r, n) \in Processes /\ Process(r, n) # Down
         /\ Process(r, n).args = r[n].args /\ Process(r, n).bin = r[n].bin
<1>1. Process(r, n) \in Processes
  BY DEF Process, Processes, Records
<1>2. Down \notin Processes
  BY DEF Down, Processes, Build
<1>. QED  BY <1>1, <1>2 DEF Process

\* The nodes whose processes ended.
LEMMA EndedIs ==
  ASSUME NEW r \in [Node -> Records], NEW S
  PROVE  /\ Ended(r, S) \in [Node -> Records]
         /\ \A n \in Node : /\ Ended(r, S)[n].bin = r[n].bin
                            /\ Ended(r, S)[n].role = r[n].role
                            /\ Ended(r, S)[n].args = r[n].args
                            /\ n \notin S => Ended(r, S)[n].pid = r[n].pid
                            /\ r[n].pid # "live" => Ended(r, S)[n].pid = r[n].pid
<1>1. \A n \in Node : r[n] \in Records
  OBVIOUS
<1>2. \A n \in Node : Ended(r, S)[n] = IF n \in S /\ r[n].pid = "live"
                                       THEN [r[n] EXCEPT !.pid = "gone"] ELSE r[n]
  BY DEF Ended
<1>3. \A n \in Node : Ended(r, S)[n] \in Records
  BY <1>1, <1>2 DEF Records
<1>4. Ended(r, S) = [n \in Node |-> Ended(r, S)[n]]
  BY DEF Ended
<1>. QED  BY <1>1, <1>2, <1>3, <1>4 DEF Records

-----------------------------------------------------------------------------
(* Every step keeps ForkInv. *)

LEMMA StartsThere == Init => ForkInv
<1> SUFFICES ASSUME Init  PROVE ForkInv
  OBVIOUS
<1> USE Numbers
<1>1. \A n \in Node : /\ rec[n] \in Records /\ rec[n].args \in Rendering
                      /\ rec[n].args = Rendered(rec[n]) /\ rec[n].pid = "live"
                      /\ shape = "handover" => Tame(rec[n])
  <2> TAKE n \in Node
  <2> DEFINE r == IF shape = "handover" /\ n \in Successors THEN [role |-> "en", bin |-> "post"]
                  ELSE [role |-> "bp", bin |-> "pre"]
  <2>1. rec[n] = [role |-> r.role, bin |-> r.bin, args |-> r, pid |-> "live"]
    BY DEF Init, Composed
  <2>2. r \in Rendering /\ r = [role |-> r.role, bin |-> r.bin]
    BY DEF Rendering, Role, Build
  <2>3. shape = "handover" /\ r.bin = "post" => r.role # "bp"
    OBVIOUS
  <2> HIDE DEF r
  <2>. QED  BY <2>1, <2>2, <2>3 DEF Records, Rendering, Rendered, Tame
<1>2. rec \in [Node -> Records]
  BY <1>1 DEF Init, Composed
<1>3. conf \in [Node -> Rendering] /\ \A n \in Node : conf[n] = rec[n].args
  BY <1>1 DEF Init
<1>4. \A n \in Node : /\ proc[n] \in Processes
                      /\ proc[n].args = rec[n].args /\ proc[n].bin = rec[n].bin
  BY <1>1, <1>3 DEF Init, Processes, Records
<1>5. TypeOK
  BY <1>2, <1>3, <1>4 DEF Init, TypeOK
<1>6. mem = rec /\ pc = "idle" /\ step = "none"
  BY DEF Init
<1>7. Fitting
  <2>1. \A n \in Node : rec[n].args.bin = rec[n].bin
    <3> TAKE n \in Node
    <3>1. Rendered(rec[n]).bin = rec[n].bin
      BY DEF Rendered
    <3>. QED  BY <1>1, <3>1
  <2>. QED  BY <1>4, <1>6, <2>1 DEF Fitting, Fit
<1>8. InTime
  BY <1>1, <1>4, <1>6 DEF InTime, Tame
<1>9. Straying /\ Handing /\ Settled
  BY <1>1, <1>6 DEF Straying, Handing, Settled
<1>. QED  BY <1>5, <1>7, <1>8, <1>9 DEF ForkInv

\* A step that leaves the record, its copy, the machines and the chain alone.
LEMMA Quiet ==
  ASSUME ForkInv, UNCHANGED <<shape, rec, mem, conf, proc, head, sealer>>,
         pc' \in {"idle", "standing", "moment", "await", "handover", "confirm", "report"},
         step' \in {"none", "walked", "already", "failed"},
         said' \in {"nothing", "crossed", "failed"},
         todo' \subseteq Node, faults' \in 0..MaxFaults, commands' \in 0..MaxCommands,
         shape = "handover" /\ head < At - 1 => pc' # "handover",
         pc' = "confirm" \/ step' = "walked" => pc = "confirm" \/ step = "walked",
         step' = "walked" => pc' \in {"idle", "standing", "report", "confirm"}
  PROVE  ForkInv'
<1>1. TypeOK'
  BY DEF ForkInv, TypeOK
<1>2. \A n \in Node : Up(n)' = Up(n) /\ MovedProcess(n)' = MovedProcess(n)
  BY DEF Up, MovedProcess
<1>3. Fitting'
  BY <1>2 DEF ForkInv, Fitting, Fit
<1>4. InTime'
  BY DEF ForkInv, InTime, Tame
<1>5. Straying' /\ Handing'
  BY <1>2 DEF ForkInv, Straying, Handing
<1>6. Settled'
  BY <1>2 DEF ForkInv, Settled, Follows, MovedNode
<1>. QED  BY <1>1, <1>3, <1>4, <1>5, <1>6 DEF ForkInv

\* A fault that is counted stays within its bound.
LEMMA FaultIsCounted ==
  ASSUME ForkInv, NEW f, Fault(f)  PROVE faults' \in 0..MaxFaults
BY Numbers DEF ForkInv, TypeOK, Fault

LEMMA NoHeadIsCounted ==
  ASSUME ForkInv, NEW n, NoHead(n)  PROVE faults' \in 0..MaxFaults
<1>1. CASE Up(n)
  BY <1>1, FaultIsCounted DEF NoHead
<1>2. CASE ~Up(n)
  BY <1>2 DEF NoHead, ForkInv, TypeOK
<1>. QED  BY <1>1, <1>2

\* The steps of a crossing that look, wait, refuse or report.
LEMMA RefusedKeeps ==
  ASSUME ForkInv, Refused, faults' \in 0..MaxFaults
  PROVE  ForkInv'
<1>1. commands' \in 0..MaxCommands /\ todo' \subseteq Node
  BY DEF Refused, Fails, ForkInv, TypeOK
<1>. QED  BY <1>1, Quiet DEF Refused, Fails, chain

LEMMA EndsKeeps ==
  ASSUME ForkInv, NEW how \in {"walked", "already"}, Ends(how), faults' \in 0..MaxFaults,
         how = "walked" => pc = "confirm"
  PROVE  ForkInv'
<1>1. commands' \in 0..MaxCommands /\ todo' \subseteq Node
  BY DEF Ends, ForkInv, TypeOK
<1>. QED  BY <1>1, Quiet DEF Ends, chain

LEMMA LooksKeep ==
  ASSUME ForkInv,
         \/ Begin \/ WorkspaceRefused \/ ForkStanding \/ ReportAlreadyCrossed \/ ForkMoment
         \/ awaitForkBoundary \/ AwaitTimesOut \/ ConfirmCrossing
  PROVE  ForkInv'
<1>0. TypeOK /\ faults \in 0..MaxFaults /\ commands \in 0..MaxCommands /\ todo \subseteq Node
  BY DEF ForkInv, TypeOK
<1>1. CASE Begin
  <2>1. commands' \in 0..MaxCommands
    BY <1>0, <1>1, Numbers DEF Begin
  <2>2. step = "walked" => step' = "walked"
    BY <1>1 DEF Begin
  <2>. QED  BY <1>0, <1>1, <2>1, Quiet DEF Begin, chain, TypeOK
<1>2. CASE WorkspaceRefused
  BY <1>2, FaultIsCounted, RefusedKeeps DEF WorkspaceRefused
<1>3. CASE ForkStanding
  <2>1. step = "walked" => alreadyCrossed(rec)
    BY DEF ForkInv, Settled, alreadyCrossed, forkSuccessors, Follows, MovedNode
  <2>2. step' = step /\ pc' \in {"report", "moment"} /\ (step = "walked" => pc' = "report")
    BY <1>3, <2>1 DEF ForkStanding
  <2>3. UNCHANGED <<shape, rec, mem, todo, conf, proc, head, sealer, said, faults, commands>>
    BY <1>3 DEF ForkStanding, chain
  <2>. QED  BY <1>0, <2>2, <2>3, Quiet DEF TypeOK
<1>4. CASE ReportAlreadyCrossed
  BY <1>0, <1>4, EndsKeeps DEF ReportAlreadyCrossed
<1>5. CASE ForkMoment
  <2>1. CASE Refused
    <3>1. faults' \in 0..MaxFaults
      BY <1>0, <1>5, NoHeadIsCounted DEF ForkMoment
    <3>. QED  BY <2>1, <3>1, RefusedKeeps
  <2>2. CASE ~Refused
    <3>1. /\ pc = "moment" /\ pc' \in {"await", "handover"}
          /\ shape = "handover" => pc' = "await"
          /\ UNCHANGED <<shape, rec, step, mem, todo, conf, proc, head, sealer, said, faults,
                         commands>>
      BY <1>5, <2>2 DEF ForkMoment, chain
    <3>2. step # "walked"
      BY <3>1 DEF ForkInv, Settled
    <3>. QED  BY <1>0, <3>1, <3>2, Quiet DEF TypeOK
  <2>. QED  BY <2>1, <2>2
<1>6. CASE awaitForkBoundary
  <2>1. /\ pc = "await" /\ pc' = "handover"
        /\ UNCHANGED <<shape, rec, step, mem, todo, conf, proc, head, sealer, said, faults,
                       commands>>
    BY <1>6 DEF awaitForkBoundary, chain
  <2>2. PICK n : \E h \in Heads(n) : h >= At - 1
    BY <1>6 DEF awaitForkBoundary
  <2>3. head >= At - 1
    BY <1>0, <2>2, Numbers DEF Heads, TypeOK
  <2>4. step # "walked"
    BY <2>1 DEF ForkInv, Settled
  <2>5. ~(head < At - 1)
    BY <1>0, <2>3, Numbers DEF TypeOK
  <2>. QED  BY <1>0, <2>1, <2>4, <2>5, Quiet DEF TypeOK
<1>7. CASE AwaitTimesOut
  BY <1>0, <1>7, RefusedKeeps DEF AwaitTimesOut
<1>8. CASE ConfirmCrossing
  <2>1. faults' \in 0..MaxFaults
    BY <1>0, <1>8, NoHeadIsCounted DEF ConfirmCrossing
  <2>2. pc = "confirm" /\ (Refused \/ Ends("walked"))
    BY <1>8 DEF ConfirmCrossing, Walked
  <2>. QED  BY <2>1, <2>2, RefusedKeeps, EndsKeeps
<1>. QED  BY <1>1, <1>2, <1>3, <1>4, <1>5, <1>6, <1>7, <1>8

-----------------------------------------------------------------------------
(* The handover. *)

LEMMA HandOverBeginsKeeps ==
  ASSUME ForkInv, HandOverBegins
  PROVE  ForkInv'
<1> USE DEF HandOverBegins, chain
<1>0. TypeOK
  BY DEF ForkInv
<1>1. TypeOK'
  BY <1>0 DEF TypeOK, forkSuccessors
<1>2. \A n \in Node : Up(n)' = Up(n) /\ MovedProcess(n)' = MovedProcess(n)
  BY DEF Up, MovedProcess
<1>3. Fitting'
  BY <1>2 DEF ForkInv, Fitting, Fit
<1>4. InTime'
  BY DEF ForkInv, InTime, Tame
<1>5. Straying'
  BY <1>2 DEF ForkInv, Straying
<1>6. Handing'
  BY DEF Handing, Follows, forkSuccessors
<1>7. Settled'
  BY DEF ForkInv, Settled
<1>. QED  BY <1>1, <1>3, <1>4, <1>5, <1>6, <1>7 DEF ForkInv

\* The moment fails and saves the copy r, which differs from the one it has in nodes that
\* were moved and not launched.
LEMMA HandOverFailsKeeps ==
  ASSUME ForkInv, pc \in {"stop", "launch"},
         NEW r \in [Node -> Records], HandOverFails(r),
         \A n \in Node : Fit(r[n]) /\ r[n].pid = mem[n].pid,
         UNCHANGED <<shape, proc, head, sealer, commands>>,
         conf' \in [Node -> Rendering], faults' \in 0..MaxFaults
  PROVE  ForkInv'
<1> USE DEF HandOverFails, Fails, Saved
<1>0. TypeOK
  BY DEF ForkInv
<1>1. TypeOK'
  BY <1>0 DEF TypeOK
<1>2. \A n \in Node : Up(n)' = Up(n) /\ MovedProcess(n)' = MovedProcess(n)
  BY DEF Up, MovedProcess
<1>3. Fitting'
  BY <1>2 DEF ForkInv, Fitting, Fit
<1>4. InTime'
  BY DEF ForkInv, InTime
<1>5. Straying'
  BY <1>2 DEF ForkInv, Straying
<1>6. Handing' /\ Settled'
  BY DEF Handing, Settled
<1>. QED  BY <1>1, <1>3, <1>4, <1>5, <1>6 DEF ForkInv

\* Processes of S end; the record, and the copy where it matters, know that they did.
LEMMA KillsIs ==
  ASSUME ForkInv, NEW S, Kills(S), UNCHANGED shape
  PROVE  /\ rec' \in [Node -> Records] /\ proc' \in [Node -> Processes \cup {Down}]
         /\ \A n \in Node : /\ n \in S => proc'[n] = Down
                            /\ n \notin S => proc'[n] = proc[n] /\ rec'[n].pid = rec[n].pid
                            /\ MovedProcess(n) => MovedProcess(n)'
                            /\ n \in S => MovedProcess(n)'
                            /\ rec'[n].bin = rec[n].bin /\ rec'[n].role = rec[n].role
                            /\ rec'[n].args = rec[n].args
<1>1. rec' = Ended(rec, S) /\ rec \in [Node -> Records]
  BY DEF Kills, ForkInv, TypeOK
<1>2. /\ proc' \in [Node -> Processes \cup {Down}]
      /\ \A n \in Node : proc'[n] = IF n \in S THEN Down ELSE proc[n]
  BY DEF Kills, ForkInv, TypeOK
<1>3. \A n \in Node : /\ MovedProcess(n) => MovedProcess(n)'
                      /\ n \in S => MovedProcess(n)'
  BY <1>2 DEF MovedProcess, Up
<1>. QED  BY <1>1, <1>2, <1>3, EndedIs

LEMMA NodeDiesKeeps ==
  ASSUME ForkInv, NEW n \in Node, NodeDies(n)
  PROVE  ForkInv'
<1>0. TypeOK /\ UNCHANGED <<shape, step, pc, todo, conf, head, sealer, said, commands>>
  BY DEF ForkInv, NodeDies, chain
<1>1. Kills({n}) /\ mem' = Ended(mem, {n}) /\ mem \in [Node -> Records] /\ Fault("die")
  BY <1>0 DEF TypeOK, NodeDies
<1>2. mem' \in [Node -> Records] /\ faults' \in 0..MaxFaults
  BY <1>1, EndedIs, FaultIsCounted
<1>3. TypeOK'
  BY <1>0, <1>1, <1>2, KillsIs DEF TypeOK
<1>4. \A m \in Node : /\ mem'[m].bin = mem[m].bin /\ mem'[m].role = mem[m].role
                      /\ mem'[m].args = mem[m].args
                      /\ m # n => mem'[m].pid = mem[m].pid
                      /\ mem[m].pid # "live" => mem'[m].pid = mem[m].pid
  BY <1>1, EndedIs
<1>5. \A m \in Node : /\ proc'[m] \in {Down, proc[m]}
                      /\ MovedProcess(m) => MovedProcess(m)'
                      /\ m # n => rec'[m].pid = rec[m].pid
                      /\ rec'[m].bin = rec[m].bin /\ rec'[m].role = rec[m].role
                      /\ rec'[m].args = rec[m].args
  BY <1>0, <1>1, KillsIs
<1>6. Fitting'
  <2>1. \A m \in Node : Fit(rec[m])' /\ Fit(mem[m])'
    BY <1>4, <1>5 DEF ForkInv, Fitting, Fit
  <2>2. \A m \in Node : Up(m)' => proc'[m].args.bin = proc'[m].bin
    BY <1>5 DEF ForkInv, Fitting, Up
  <2>. QED  BY <2>1, <2>2 DEF Fitting
<1>7. InTime'
  <2>1. \A m \in Node : /\ Tame(rec[m]) => Tame(rec[m])'
                        /\ Tame(mem[m]) => Tame(mem[m])'
    BY <1>4, <1>5 DEF Tame
  <2>2. Down.bin # "post"
    BY DEF Down
  <2>. QED  BY <1>0, <1>5, <2>1, <2>2 DEF ForkInv, InTime
<1>8. Straying'
  BY <1>0, <1>1, <1>4, <1>5, KillsIs DEF ForkInv, Straying
<1>9. Handing'
  <2>1. First(todo)' = First(todo) /\ First(todo) \subseteq Node
    BY <1>0, FirstIsIn DEF First, TypeOK
  <2>2. pc' = "launch" => \A m \in First(todo)' : mem'[m].pid = "none"
    BY <1>0, <1>4, <2>1 DEF ForkInv, Handing
  <2>3. ASSUME NEW m \in Node, pc \in {"stop", "launch"}, Follows(mem[m])', m \notin todo
        PROVE  MovedNode(mem[m])' /\ MovedProcess(m)'
    BY <1>0, <1>4, <1>5, <2>3 DEF ForkInv, Handing, Follows, MovedNode
  <2>. QED  BY <1>0, <2>2, <2>3 DEF Handing
<1>10. Settled'
  BY <1>0, <1>5 DEF ForkInv, Settled, Follows, MovedNode
<1>. QED  BY <1>3, <1>6, <1>7, <1>8, <1>9, <1>10 DEF ForkInv

LEMMA StopSuccessorKeeps ==
  ASSUME ForkInv, StopSuccessor
  PROVE  ForkInv'
<1> USE DEF StopSuccessor, chain
<1>0. TypeOK /\ pc = "stop" /\ mem \in [Node -> Records]
  BY DEF ForkInv, TypeOK
<1>1. PICK n \in First(todo) :
        \/ /\ mem[n].pid = "live" /\ Fault("stop")
           /\ HandOverFails(mem)
           /\ UNCHANGED <<shape, conf, proc, head, sealer, commands>>
        \/ /\ IF mem[n].pid = "live" THEN Kills({n}) ELSE UNCHANGED <<proc, rec>>
           /\ mem' = [mem EXCEPT ![n].pid = "none"]
           /\ pc' = "launch"
           /\ UNCHANGED <<shape, step, todo, conf, head, sealer, said, faults, commands>>
  OBVIOUS
<1>2. n \in todo /\ n \in Node
  BY <1>0, FirstIsIn DEF TypeOK
<1>3. CASE HandOverFails(mem) /\ Fault("stop") /\ UNCHANGED <<shape, conf, proc, head, sealer, commands>>
  <2>1. \A m \in Node : Fit(mem[m])
    BY DEF ForkInv, Fitting
  <2>2. conf' \in [Node -> Rendering] /\ faults' \in 0..MaxFaults
    BY <1>0, <1>3, FaultIsCounted DEF TypeOK
  <2>. QED  BY <1>0, <1>3, <2>1, <2>2, HandOverFailsKeeps
<1>4. CASE /\ IF mem[n].pid = "live" THEN Kills({n}) ELSE UNCHANGED <<proc, rec>>
           /\ mem' = [mem EXCEPT ![n].pid = "none"]
           /\ pc' = "launch"
           /\ UNCHANGED <<shape, step, todo, conf, head, sealer, said, faults, commands>>
  <2>1. /\ mem' \in [Node -> Records] /\ mem'[n].pid = "none"
        /\ \A m \in Node : /\ mem'[m].bin = mem[m].bin /\ mem'[m].role = mem[m].role
                           /\ mem'[m].args = mem[m].args
                           /\ m # n => mem'[m].pid = mem[m].pid
    BY <1>0, <1>2, <1>4 DEF Records
  <2>2. MovedProcess(n)'
    <3>1. CASE mem[n].pid = "live"
      BY <1>2, <1>4, <3>1, KillsIs
    <3>2. CASE mem[n].pid # "live"
      <4>1. MovedProcess(n)
        BY <1>0, <1>2, <3>2 DEF ForkInv, Straying
      <4>. QED  BY <1>4, <3>2, <4>1 DEF MovedProcess, Up
    <3>. QED  BY <3>1, <3>2
  <2>3. /\ rec' \in [Node -> Records] /\ proc' \in [Node -> Processes \cup {Down}]
        /\ \A m \in Node : /\ proc'[m] \in {Down, proc[m]}
                           /\ MovedProcess(m) => MovedProcess(m)'
                           /\ m # n => rec'[m].pid = rec[m].pid
                           /\ rec'[m].bin = rec[m].bin /\ rec'[m].role = rec[m].role
                           /\ rec'[m].args = rec[m].args
    <3>1. CASE mem[n].pid = "live"
      BY <1>4, <3>1, KillsIs
    <3>2. CASE mem[n].pid # "live"
      BY <1>0, <1>4, <3>2 DEF TypeOK, MovedProcess, Up
    <3>. QED  BY <3>1, <3>2
  <2>4. TypeOK'
    BY <1>0, <1>4, <2>1, <2>3 DEF TypeOK
  <2>5. Fitting'
    BY <2>1, <2>3 DEF ForkInv, Fitting, Fit, Up
  <2>6. InTime'
    BY <1>0, <1>4, <2>3 DEF ForkInv, InTime
  <2>7. Straying'
    BY <1>0, <1>4, <2>1, <2>2, <2>3 DEF ForkInv, Straying
  <2>8. Handing'
    <3>1. \A m \in First(todo) : m = n
      BY <1>0, <1>1, Numbers DEF First, TypeOK
    <3>2. First(todo)' = First(todo)
      BY <1>4 DEF First
    <3>. QED  BY <1>0, <1>2, <1>4, <2>1, <2>3, <3>1, <3>2 DEF ForkInv, Handing, Follows, MovedNode
  <2>9. Settled'
    BY <1>0, <1>4 DEF ForkInv, Settled
  <2>. QED  BY <2>4, <2>5, <2>6, <2>7, <2>8, <2>9 DEF ForkInv
<1>. QED  BY <1>1, <1>3, <1>4

\* The node that was stopped comes up moved, or the moment fails with it moved and down.
LEMMA LaunchSuccessorKeeps ==
  ASSUME ForkInv, LaunchSuccessor
  PROVE  ForkInv'
<1>0. TypeOK /\ pc = "launch" /\ mem \in [Node -> Records]
  BY DEF ForkInv, TypeOK, LaunchSuccessor
<1>1. PICK n \in First(todo) :
        LaunchAs(n, [mem EXCEPT ![n] = moved(@)], [mem EXCEPT ![n] = armed(moved(@))])
  BY DEF LaunchSuccessor
<1>2. n \in todo /\ n \in Node /\ mem[n] \in Records
  BY <1>0, FirstIsIn DEF TypeOK
<1> DEFINE a == moved(mem[n])
           b == armed(moved(mem[n]))
           across == [mem EXCEPT ![n] = a]
           ready == [mem EXCEPT ![n] = b]
<1>3. /\ a \in Records /\ Fit(a) /\ a.pid = mem[n].pid /\ MovedNode(a)
      /\ Rendered(a) \in Rendering
      /\ b \in Records /\ Fit(b) /\ b.pid = mem[n].pid /\ b.args \in Rendering
      /\ b.bin = a.bin /\ b.role = a.role /\ b.args = Rendered(a)
      /\ shape = "handover" => a.bin = mem[n].bin
  BY <1>2, MovedIs, ArmedIs
<1>4. b.args.bin = b.bin /\ b.args.role = b.role
  BY <1>3 DEF Rendered
<1>5. MovedNode(b)
  BY <1>3, <1>4 DEF MovedNode
<1>6. LaunchAs(n, across, ready)
  BY <1>1
<1> HIDE DEF a, b
<1>7. across[n] = a /\ ready[n] = b /\ \A m \in Node : m # n => across[m] = mem[m] /\ ready[m] = mem[m]
  BY <1>0, <1>2
<1>8. across \in [Node -> Records] /\ ready \in [Node -> Records]
  BY <1>0, <1>3
<1>9. \A m \in Node : Fit(across[m]) /\ Fit(ready[m]) /\ across[m].pid = mem[m].pid
                      /\ ready[m].pid = mem[m].pid
  BY <1>3, <1>7 DEF ForkInv, Fitting
<1> HIDE DEF across, ready
<1>10. Configured(across, n) \in [Node -> Rendering]
  BY <1>0, <1>2, <1>3, <1>7 DEF Configured, TypeOK
<1>11. CASE \/ /\ Fault("config") /\ conf' \in {conf, Configured(across, n)}
               /\ HandOverFails(across)
               /\ UNCHANGED <<shape, proc, chain, commands>>
            \/ /\ Fault("launch") /\ conf' = Configured(across, n)
               /\ HandOverFails(ready)
               /\ UNCHANGED <<shape, proc, chain, commands>>
  <2>1. conf' \in [Node -> Rendering] /\ faults' \in 0..MaxFaults
    BY <1>0, <1>10, <1>11, FaultIsCounted DEF TypeOK
  <2>. QED  BY <1>0, <1>8, <1>9, <1>11, <2>1, HandOverFailsKeeps DEF chain
<1>12. CASE /\ conf' = Configured(across, n)
            /\ mem' = [ready EXCEPT ![n].pid = PidOf(n)]
            /\ proc' = IF Up(n) THEN proc ELSE [proc EXCEPT ![n] = Process(ready, n)]
            /\ todo' = todo \ {n} /\ pc' = "stop"
            /\ UNCHANGED <<shape, rec, step, chain, said, faults, commands>>
  <2>0. UNCHANGED <<shape, rec, step, head>>
    BY <1>12 DEF chain
  <2>1. PidOf(n) \in {"live", "gone"}
    BY DEF PidOf
  <2>2. /\ mem' \in [Node -> Records]
        /\ mem'[n].bin = b.bin /\ mem'[n].role = b.role /\ mem'[n].args = b.args
        /\ \A m \in Node : m # n => mem'[m] = mem[m]
    BY <1>2, <1>7, <1>8, <1>12, <2>1 DEF Records
  <2>3. /\ Process(ready, n) \in Processes /\ Process(ready, n) # Down
        /\ Process(ready, n).args = b.args /\ Process(ready, n).bin = b.bin
    <3>1. conf' \in [Node -> Rendering] /\ ready[n] \in Records /\ ready[n].args \in Rendering
      BY <1>2, <1>3, <1>7, <1>10, <1>12
    <3>. QED  BY <1>2, <1>7, <3>1, ProcessIs
  <2>4. /\ proc' \in [Node -> Processes \cup {Down}]
        /\ \A m \in Node : m # n => proc'[m] = proc[m]
        /\ proc'[n] = IF Up(n) THEN proc[n] ELSE Process(ready, n)
    BY <1>0, <1>2, <1>12, <2>3 DEF TypeOK
  <2>5. TypeOK'
    BY <1>0, <1>10, <1>12, <2>2, <2>4 DEF TypeOK, chain
  <2>6. MovedProcess(n)'
    <3>1. CASE Up(n)
      <4>1. mem[n].pid = "none"
        BY <1>0, <1>1 DEF ForkInv, Handing
      <4>2. MovedProcess(n)
        BY <1>0, <1>2, <4>1 DEF ForkInv, Straying
      <4>. QED  BY <2>0, <2>4, <3>1, <4>2 DEF MovedProcess, Up
    <3>2. CASE ~Up(n)
      BY <1>4, <1>5, <2>0, <2>3, <2>4, <3>2, <1>3, MovedIs, <1>2 DEF MovedProcess, MovedNode
    <3>. QED  BY <3>1, <3>2
  <2>7. \A m \in Node : MovedProcess(m) => MovedProcess(m)'
    BY <2>0, <2>4, <2>6 DEF MovedProcess, Up
  <2>8. Fitting'
    <3>1. \A m \in Node : Fit(mem[m])'
      BY <1>4, <2>2 DEF ForkInv, Fitting, Fit
    <3>2. \A m \in Node : Up(m)' => proc'[m].args.bin = proc'[m].bin
      BY <1>4, <2>3, <2>4 DEF ForkInv, Fitting, Up
    <3>. QED  BY <2>0, <3>1, <3>2 DEF ForkInv, Fitting, Fit
  <2>9. InTime'
    BY <1>0, <2>0 DEF ForkInv, InTime
  <2>10. Straying'
    BY <1>0, <1>12, <2>0, <2>2, <2>6, <2>7 DEF ForkInv, Straying
  <2>11. Handing'
    <3>1. MovedNode(mem[n])'
      BY <1>5, <2>0, <2>2 DEF MovedNode
    <3>2. ASSUME NEW m \in Node, Follows(mem[m])', m \notin todo'
          PROVE  MovedNode(mem[m])' /\ MovedProcess(m)'
      <4>1. CASE m = n
        BY <2>6, <3>1, <4>1
      <4>2. CASE m # n
        <5>1. m \notin todo /\ Follows(mem[m])
          BY <1>12, <2>0, <2>2, <3>2, <4>2 DEF Follows
        <5>2. MovedNode(mem[m]) /\ MovedProcess(m)
          BY <1>0, <5>1 DEF ForkInv, Handing
        <5>. QED  BY <2>0, <2>2, <2>7, <4>2, <5>2 DEF MovedNode
      <4>. QED  BY <4>1, <4>2
    <3>. QED  BY <1>12, <3>2 DEF Handing
  <2>12. Settled'
    BY <1>0, <1>12, <2>0 DEF ForkInv, Settled
  <2>. QED  BY <2>5, <2>8, <2>9, <2>10, <2>11, <2>12 DEF ForkInv
<1>. QED  BY <1>6, <1>11, <1>12 DEF LaunchAs

LEMMA HandOverEndsKeeps ==
  ASSUME ForkInv, HandOverEnds
  PROVE  ForkInv'
<1>0. TypeOK /\ pc = "stop" /\ todo = {} /\ mem \in [Node -> Records]
  BY DEF ForkInv, TypeOK, HandOverEnds
<1>1. UNCHANGED <<shape, conf, proc, head, sealer, commands>>
  BY DEF HandOverEnds, chain
<1>2. CASE Fault("check") /\ HandOverFails(mem)
  <2>1. \A m \in Node : Fit(mem[m])
    BY DEF ForkInv, Fitting
  <2>2. conf' \in [Node -> Rendering] /\ faults' \in 0..MaxFaults
    BY <1>0, <1>1, <1>2, FaultIsCounted DEF TypeOK
  <2>. QED  BY <1>0, <1>1, <1>2, <2>1, <2>2, HandOverFailsKeeps
<1>3. CASE Saved(mem) /\ pc' = "confirm" /\ UNCHANGED <<step, mem, todo, said, faults>>
  <2>1. rec' = mem
    BY <1>3 DEF Saved
  <2>2. TypeOK'
    BY <1>0, <1>1, <1>3, <2>1 DEF TypeOK
  <2>3. \A n \in Node : Up(n)' = Up(n) /\ MovedProcess(n)' = MovedProcess(n)
    BY <1>1 DEF Up, MovedProcess
  <2>4. Fitting'
    BY <1>1, <1>3, <2>1, <2>3 DEF ForkInv, Fitting, Fit
  <2>5. InTime'
    BY <1>0, <1>1 DEF ForkInv, InTime
  <2>6. Straying'
    BY <1>0, <1>3, <2>1, <2>3 DEF ForkInv, Straying
  <2>7. Handing'
    BY <1>3 DEF Handing
  <2>8. Settled'
    BY <1>0, <1>1, <1>3, <2>1, <2>3 DEF ForkInv, Handing, Settled, Follows, MovedNode
  <2>. QED  BY <2>2, <2>4, <2>5, <2>6, <2>7, <2>8 DEF ForkInv
<1>. QED  BY <1>2, <1>3 DEF HandOverEnds

\* The copy is lost with its command.
LEMMA KilledKeeps ==
  ASSUME ForkInv, Killed
  PROVE  ForkInv'
<1>0. /\ TypeOK /\ pc' = "idle" /\ todo' = {}
      /\ UNCHANGED <<shape, rec, step, mem, proc, head, sealer, said, commands>>
  BY DEF ForkInv, Killed, chain
<1>1. conf' \in [Node -> Rendering] /\ faults' \in 0..MaxFaults
  <2>1. ASSUME NEW n \in First(todo)
        PROVE  [conf EXCEPT ![n] = Rendered(moved(mem[n]))] \in [Node -> Rendering]
    <3>1. n \in Node /\ mem[n] \in Records
      BY <1>0, <2>1, FirstIsIn DEF TypeOK
    <3>2. Rendered(moved(mem[n])) \in Rendering
      BY <3>1, MovedIs
    <3>. QED  BY <1>0, <3>2 DEF TypeOK
  <2>. QED  BY <1>0, <2>1, FaultIsCounted DEF Killed, TypeOK
<1>2. TypeOK'
  BY <1>0, <1>1 DEF TypeOK
<1>3. \A n \in Node : Up(n)' = Up(n) /\ MovedProcess(n)' = MovedProcess(n)
  BY <1>0 DEF Up, MovedProcess
<1>4. Fitting'
  BY <1>0, <1>3 DEF ForkInv, Fitting, Fit
<1>5. InTime'
  BY <1>0 DEF ForkInv, InTime, Tame
<1>6. Straying' /\ Handing'
  BY <1>0, <1>3 DEF ForkInv, Straying, Handing
<1>7. Settled'
  BY <1>0, <1>3 DEF ForkInv, Settled, Follows, MovedNode
<1>. QED  BY <1>2, <1>4, <1>5, <1>6, <1>7 DEF ForkInv

-----------------------------------------------------------------------------
(* The chain, and the operator. *)

LEMMA SealKeeps ==
  ASSUME ForkInv, NEW n \in Node, Seal(n)
  PROVE  ForkInv'
<1>0. /\ TypeOK /\ head' = head + 1 /\ head < MaxHead
      /\ UNCHANGED <<shape, rec, step, pc, mem, todo, conf, proc, said, faults, commands>>
      /\ sealer' \in {sealer, proc[n].bin} /\ proc[n] \in Processes
  BY DEF ForkInv, TypeOK, Seal, Up, cross
<1>1. TypeOK'
  BY <1>0, Numbers DEF TypeOK, Processes
<1>2. \A m \in Node : Up(m)' = Up(m) /\ MovedProcess(m)' = MovedProcess(m)
  BY <1>0 DEF Up, MovedProcess
<1>3. Fitting'
  BY <1>0, <1>2 DEF ForkInv, Fitting, Fit
<1>4. InTime'
  <2>1. shape' = "handover" /\ head' < At - 1 => shape = "handover" /\ head < At - 1
    BY <1>0, Numbers DEF TypeOK
  <2>. QED  BY <1>0, <2>1 DEF ForkInv, InTime, Tame
<1>5. First(todo)' = First(todo)
  BY <1>0 DEF First
<1>6. Straying' /\ Handing'
  BY <1>0, <1>2, <1>5 DEF ForkInv, Straying, Handing, Follows, MovedNode
<1>7. Settled'
  BY <1>0, <1>2 DEF ForkInv, Settled, Follows, MovedNode
<1>. QED  BY <1>1, <1>3, <1>4, <1>6, <1>7 DEF ForkInv

\* What an operator's command may do: it runs between two moments, starts nodes as they
\* are recorded, and leaves what a node is alone.
LEMMA OperatorKeeps ==
  ASSUME ForkInv, NEW o, Operator(o),
         rec' \in [Node -> Records], proc' \in [Node -> Processes \cup {Down}],
         \A n \in Node :
           /\ rec'[n].bin = rec[n].bin /\ rec'[n].role = rec[n].role
           /\ rec'[n].args = IF rec[n].args = NoArgs THEN rec'[n].args ELSE rec[n].args
           /\ rec'[n].args \in {rec[n].args, Rendered(rec[n])}
           /\ \/ proc'[n] = Down
              \/ proc'[n] = proc[n] /\ (rec'[n].pid = rec[n].pid \/ rec[n].pid # "live")
              \/ /\ proc'[n].args = rec'[n].args /\ proc'[n].bin = rec[n].bin
                 /\ rec'[n].args # NoArgs /\ rec'[n].pid = "live"
  PROVE  ForkInv'
<1>0. /\ TypeOK /\ UNCHANGED <<shape, step, pc, mem, todo, conf, head, sealer, said, faults>>
      /\ commands' \in 0..MaxCommands
      /\ pc \notin {"stop", "launch"}
  BY Numbers DEF ForkInv, TypeOK, Operator, Unlocked, chain
<1>1. TypeOK'
  BY <1>0 DEF TypeOK
<1>2. \A n \in Node : /\ Rendered(rec[n]).bin = rec[n].bin
                      /\ Rendered(rec[n]).role = rec[n].role
  BY DEF Rendered
<1>3. \A n \in Node : Fit(rec[n])'
  BY <1>2 DEF ForkInv, Fitting, Fit
<1>4. Fitting'
  <2>1. \A n \in Node : Up(n)' => proc'[n].args.bin = proc'[n].bin
    BY <1>3 DEF ForkInv, Fitting, Fit, Up
  <2>. QED  BY <1>0, <1>3, <2>1 DEF ForkInv, Fitting, Fit
<1>5. InTime'
  <2>1. \A n \in Node : Tame(rec[n]) => Tame(rec[n])'
    BY <1>2 DEF Tame
  <2>2. \A n \in Node : Tame(rec[n])' /\ (proc[n].bin = "post" => proc[n].args.role # "bp")
                        => (proc'[n].bin = "post" => proc'[n].args.role # "bp")
    BY DEF Tame, Down
  <2>. QED  BY <1>0, <2>1, <2>2 DEF ForkInv, InTime, Tame
<1>6. Straying' /\ Handing'
  <2>1. \A n \in Node : MovedProcess(n)' \/ rec'[n].pid = "live"
    <3> TAKE n \in Node
    <3>1. CASE proc'[n] = Down
      BY <3>1 DEF MovedProcess, Up
    <3>2. CASE proc'[n] = proc[n] /\ (rec'[n].pid = rec[n].pid \/ rec[n].pid # "live")
      BY <1>0, <3>2 DEF ForkInv, Straying, MovedProcess, Up
    <3>. QED  BY <3>1, <3>2
  <2>. QED  BY <1>0, <2>1 DEF Straying, Handing
<1>7. Settled'
  <2>1. \A n \in Node : MovedNode(rec[n]) => MovedNode(rec[n])'
    BY <1>0, <1>2 DEF MovedNode
  <2>2. \A n \in Node : MovedNode(rec[n])' /\ MovedProcess(n) => MovedProcess(n)'
    BY <1>0 DEF MovedNode, MovedProcess, Up
  <2>. QED  BY <1>0, <2>1, <2>2 DEF ForkInv, Settled, Follows
<1>. QED  BY <1>1, <1>4, <1>5, <1>6, <1>7 DEF ForkInv

LEMMA StopNodeKeeps ==
  ASSUME ForkInv, NEW n \in Node, StopNode(n)
  PROVE  ForkInv'
<1>0. /\ TypeOK /\ Operator("stop")
      /\ proc' = IF rec[n].pid = "live" THEN [proc EXCEPT ![n] = Down] ELSE proc
      /\ rec' = [rec EXCEPT ![n].pid = "none"]
  BY DEF ForkInv, StopNode
<1>1. /\ rec' \in [Node -> Records]
      /\ \A m \in Node : /\ rec'[m].bin = rec[m].bin /\ rec'[m].role = rec[m].role
                         /\ rec'[m].args = rec[m].args
                         /\ m # n => rec'[m].pid = rec[m].pid
  BY <1>0 DEF TypeOK, Records
<1>2. /\ proc' \in [Node -> Processes \cup {Down}]
      /\ \A m \in Node : m # n => proc'[m] = proc[m]
      /\ proc'[n] = IF rec[n].pid = "live" THEN Down ELSE proc[n]
  BY <1>0 DEF TypeOK
<1>. QED  BY <1>0, <1>1, <1>2, OperatorKeeps

LEMMA StartNodeKeeps ==
  ASSUME ForkInv, NEW n \in Node, StartNode(n)
  PROVE  ForkInv'
<1>0. /\ TypeOK /\ Operator("start") /\ rec[n].pid = "none" /\ rec[n].args # NoArgs
      /\ proc' = IF Up(n) THEN proc ELSE [proc EXCEPT ![n] = Process(rec, n)]
      /\ rec' = [rec EXCEPT ![n].pid = PidOf(n)]
  BY DEF ForkInv, StartNode
<1>1. /\ rec' \in [Node -> Records]
      /\ rec'[n].pid = PidOf(n)
      /\ \A m \in Node : /\ rec'[m].bin = rec[m].bin /\ rec'[m].role = rec[m].role
                         /\ rec'[m].args = rec[m].args
                         /\ m # n => rec'[m].pid = rec[m].pid
  BY <1>0 DEF TypeOK, Records, PidOf
<1>2. /\ Process(rec, n) \in Processes
      /\ Process(rec, n).args = rec[n].args /\ Process(rec, n).bin = rec[n].bin
  <2>1. rec[n] \in Records /\ rec[n].args \in Rendering
    BY <1>0 DEF TypeOK, Records
  <2>2. conf' \in [Node -> Rendering]
    BY <1>0 DEF TypeOK, Operator
  <2>. QED  BY <2>1, <2>2, ProcessIs
<1>3. /\ proc' \in [Node -> Processes \cup {Down}]
      /\ \A m \in Node : m # n => proc'[m] = proc[m]
      /\ proc'[n] = IF Up(n) THEN proc[n] ELSE Process(rec, n)
  BY <1>0, <1>2 DEF TypeOK
<1>. QED  BY <1>0, <1>1, <1>2, <1>3, OperatorKeeps DEF PidOf

LEMMA StartKeeps ==
  ASSUME ForkInv, Start
  PROVE  ForkInv'
<1> DEFINE S == {n \in Node : rec[n].pid = "none"}
<1>0. /\ TypeOK /\ Operator("startall")
      /\ rec' = [n \in Node |-> IF n \in S THEN [armed(rec[n]) EXCEPT !.pid = "live"]
                                ELSE rec[n]]
      /\ proc' = [n \in Node |-> IF n \in S THEN Process(rec', n) ELSE proc[n]]
  BY DEF ForkInv, Start
<1>1. conf' \in [Node -> Rendering]
  BY <1>0 DEF TypeOK, Operator
<1>2. \A n \in Node : rec[n] \in Records
  BY <1>0 DEF TypeOK
<1>3. \A n \in S :
        /\ rec'[n] \in Records /\ rec'[n].pid = "live" /\ rec'[n].args \in Rendering
        /\ rec'[n].bin = rec[n].bin /\ rec'[n].role = rec[n].role
        /\ rec'[n].args = IF rec[n].args = NoArgs THEN Rendered(rec[n]) ELSE rec[n].args
  <2> TAKE n \in S
  <2>1. rec'[n] = [armed(rec[n]) EXCEPT !.pid = "live"]
    BY <1>0
  <2>. QED  BY <1>2, <2>1, ArmedIs DEF Records
<1>4. NoArgs \notin Rendering
  BY DEF NoArgs, Rendering, Role
<1>5. \A n \in S : /\ Process(rec', n) \in Processes
                   /\ Process(rec', n).args = rec'[n].args /\ Process(rec', n).bin = rec[n].bin
  BY <1>1, <1>3, ProcessIs
<1>6. \A n \in Node : /\ n \notin S => rec'[n] = rec[n] /\ proc'[n] = proc[n]
                      /\ n \in S => proc'[n] = Process(rec', n)
  BY <1>0
<1>7. rec' \in [Node -> Records] /\ proc' \in [Node -> Processes \cup {Down}]
  <2>1. \A n \in Node : rec'[n] \in Records /\ proc'[n] \in Processes \cup {Down}
    BY <1>0, <1>2, <1>3, <1>5, <1>6 DEF TypeOK
  <2>. QED  BY <1>0, <2>1
<1> HIDE DEF S
<1>. QED  BY <1>0, <1>3, <1>4, <1>5, <1>6, <1>7, OperatorKeeps

-----------------------------------------------------------------------------
(* The theorems. *)

LEMMA StepKeeps == ForkInv /\ [Next]_vars => ForkInv'
<1> SUFFICES ASSUME ForkInv, [Next]_vars  PROVE ForkInv'
  OBVIOUS
<1>1. CASE Begin
  BY <1>1, LooksKeep
<1>2. CASE Crossing
  BY <1>2, LooksKeep, HandOverBeginsKeeps, StopSuccessorKeeps, LaunchSuccessorKeeps,
     HandOverEndsKeeps DEF Crossing
<1>3. CASE Killed
  BY <1>3, KilledKeeps
<1>4. ASSUME NEW n \in Node, NodeDies(n) \/ Seal(n) \/ StopNode(n) \/ StartNode(n)
      PROVE  ForkInv'
  BY <1>4, NodeDiesKeeps, SealKeeps, StopNodeKeeps, StartNodeKeeps
<1>5. CASE Start
  BY <1>5, StartKeeps
<1>6. CASE UNCHANGED vars
  <2>1. First(todo)' = First(todo)
    BY <1>6 DEF vars, First
  <2>2. \A n \in Node : Up(n)' = Up(n) /\ MovedProcess(n)' = MovedProcess(n)
    BY <1>6 DEF vars, Up, MovedProcess
  <2>3. TypeOK' /\ InTime'
    BY <1>6 DEF vars, ForkInv, TypeOK, InTime, Tame
  <2>4. Fitting' /\ Straying'
    BY <1>6, <2>2 DEF vars, ForkInv, Fitting, Fit, Straying
  <2>5. Handing' /\ Settled'
    BY <1>6, <2>1, <2>2 DEF vars, ForkInv, Handing, Settled, Follows, MovedNode
  <2>. QED  BY <2>3, <2>4, <2>5 DEF ForkInv
<1>. QED  BY <1>1, <1>2, <1>3, <1>4, <1>5, <1>6 DEF Next

LEMMA ForkInvariant == Spec => []ForkInv
<1>1. Init => ForkInv
  BY StartsThere
<1>2. ForkInv /\ [Next]_vars => ForkInv'
  BY StepKeeps
<1>. QED  BY <1>1, <1>2, PTL DEF Spec

\* The crossing never leaves its states, and the record keeps its shape.
THEOREM TypeCorrect == Spec => []TypeOK
<1>1. ForkInv => TypeOK
  BY DEF ForkInv
<1>. QED  BY <1>1, ForkInvariant, PTL

\* No post-fork node is up to seal before the block before the fork, whatever is killed,
\* fails, is retried or started by hand (steps_crossfork.go, awaitForkBoundary).
THEOREM NobodyIsEarly == Spec => []NobodySealsEarly
<1>1. ForkInv => NobodySealsEarly
  <2> SUFFICES ASSUME ForkInv, shape = "handover",
                      NEW n \in Node, proc[n].bin = "post", proc[n].args.role = "bp"
               PROVE  head >= At - 1
    BY DEF NobodySealsEarly
  <2>1. ~(head < At - 1)
    BY DEF ForkInv, InTime
  <2>. QED  BY <2>1, Numbers DEF ForkInv, TypeOK
<1>. QED  BY <1>1, ForkInvariant, PTL

\* No process has the command line of another build (LaunchSuccessor clears the recorded
\* one before the relaunch renders it).
THEOREM ArgvFits == Spec => []ArgvFitsBuild
<1>1. ForkInv => ArgvFitsBuild
  BY DEF ForkInv, Fitting, ArgvFitsBuild
<1>. QED  BY <1>1, ForkInvariant, PTL

\* A crossing walked to its end moved every successor, and none comes up unmoved later
\* (handOver goes through all of forkSuccessors before it is confirmed).
THEOREM WalkedIsMoved == Spec => []WalkedMeansMoved
<1>1. ForkInv => WalkedMeansMoved
  BY DEF ForkInv, Settled, WalkedMeansMoved, forkSuccessors, Follows, MovedProcess
<1>. QED  BY <1>1, ForkInvariant, PTL
=============================================================================
