-------------------------- MODULE NodeRecordProofs --------------------------
(***************************************************************************)
(* For every network, every set of commands and every mix of operations    *)
(* and faults: what the ledger archives is numbered without a gap, and a   *)
(* command never launches a node its ledger will not enter.                *)
(***************************************************************************)
EXTENDS NodeRecord, TLAPS

\* The archived executions of a node are revisions 0, 1, 2, ... and the current one,
\* if there is one, is the next.
Numbered(l) ==
  \A n \in Node :
    /\ \A i \in 1..Len(l.history[n]) : l.history[n][i] = i - 1
    /\ Has(l, n) => l.procs[n].rev = Len(l.history[n])

GoodLedgers == {l \in Ledgers : Numbered(l)}

-----------------------------------------------------------------------------
(* The ledger. *)

\* The revision after the archived ones is their number: what Max looks for exists.
LEMMA NextRevision ==
  ASSUME NEW l \in GoodLedgers, NEW n \in Node
  PROVE  nextArchivedRevision(l, n) = Len(l.history[n])
<1> DEFINE h == l.history[n]
           S == {-1} \cup {h[i] : i \in DOMAIN h}
<1>1. h \in Seq(Nat) /\ Len(h) \in Nat /\ DOMAIN h = 1..Len(h)
  BY DEF GoodLedgers, Ledgers
<1>2. \A i \in 1..Len(h) : h[i] = i - 1
  BY DEF GoodLedgers, Numbered
<1>3. \A x \in S : x \in Int /\ x <= Len(h) - 1
  BY <1>1, <1>2
<1>4. Len(h) - 1 \in S
  <2>1. CASE Len(h) = 0
    <3>1. Len(h) - 1 = -1
      BY <2>1
    <3>. QED  BY <3>1
  <2>2. CASE Len(h) > 0
    <3>1. Len(h) \in DOMAIN h /\ h[Len(h)] = Len(h) - 1
      BY <1>1, <1>2, <2>2
    <3>. QED  BY <3>1
  <2>. QED  BY <1>1, <2>1, <2>2
<1> HIDE DEF S
<1>5. \A x \in S : (\A y \in S : x >= y) => x = Len(h) - 1
  BY <1>1, <1>3, <1>4
<1>6. \A y \in S : Len(h) - 1 >= y
  BY <1>1, <1>3
<1>7. Max(S) = Len(h) - 1
  BY <1>4, <1>5, <1>6 DEF Max
<1>. QED  BY <1>1, <1>7 DEF nextArchivedRevision, S

\* What is archived is the next number.
LEMMA ArchiveNumbers ==
  ASSUME NEW l \in GoodLedgers, NEW n \in Node
  PROVE  /\ Archive(l, n) \in Ledgers
         /\ Archive(l, n).procs = l.procs
         /\ \A m \in Node : \A i \in 1..Len(Archive(l, n).history[m]) :
              Archive(l, n).history[m][i] = i - 1
         /\ \A m \in Node \ {n} : Archive(l, n).history[m] = l.history[m]
<1>1. CASE ~Has(l, n)
  BY <1>1 DEF Archive, GoodLedgers, Numbered
<1>2. CASE Has(l, n)
  <2>1. l \in Ledgers /\ l.history[n] \in Seq(Nat) /\ l.procs[n].rev \in Nat
    BY DEF GoodLedgers, Ledgers, Entries
  <2>2. Archive(l, n) = [l EXCEPT !.history[n] = Append(@, l.procs[n].rev)]
    BY <1>2 DEF Archive
  <2>3. Append(l.history[n], l.procs[n].rev) \in Seq(Nat)
    BY <2>1
  <2>4. Archive(l, n).history = [l.history EXCEPT ![n] = Append(l.history[n], l.procs[n].rev)]
        /\ Archive(l, n).procs = l.procs /\ Archive(l, n).whole = l.whole
    BY <2>1, <2>2 DEF Ledgers
  <2>5. Archive(l, n) \in Ledgers
    BY <2>1, <2>2, <2>3 DEF Ledgers
  <2>6. ASSUME NEW m \in Node, NEW i \in 1..Len(Archive(l, n).history[m])
        PROVE  Archive(l, n).history[m][i] = i - 1
    <3>1. CASE m # n
      BY <2>1, <2>4, <3>1 DEF GoodLedgers, Numbered, Ledgers
    <3>2. CASE m = n
      <4>1. Archive(l, n).history[n] = Append(l.history[n], l.procs[n].rev)
        BY <2>1, <2>4 DEF Ledgers
      <4>2. l.procs[n].rev = Len(l.history[n])
        BY <1>2 DEF GoodLedgers, Numbered
      <4>3. \A j \in 1..Len(l.history[n]) : l.history[n][j] = j - 1
        BY DEF GoodLedgers, Numbered
      <4>. QED  BY <2>1, <3>2, <4>1, <4>2, <4>3
    <3>. QED  BY <3>1, <3>2
  <2>7. \A m \in Node \ {n} : Archive(l, n).history[m] = l.history[m]
    BY <2>1, <2>4 DEF Ledgers
  <2>. QED  BY <2>4, <2>5, <2>6, <2>7
<1>. QED  BY <1>1, <1>2

\* A ledger is good when its archive is and every entry has the next number.
LEMMA GoodByParts ==
  ASSUME NEW k \in Ledgers, NEW n \in Node,
         \A m \in Node : \A i \in 1..Len(k.history[m]) : k.history[m][i] = i - 1,
         \A m \in Node \ {n} : Has(k, m) => k.procs[m].rev = Len(k.history[m]),
         Has(k, n) => k.procs[n].rev = Len(k.history[n])
  PROVE  k \in GoodLedgers
BY DEF GoodLedgers, Numbered

\* Clearing entries keeps the numbers.
LEMMA ClearAllNumbers ==
  ASSUME NEW l \in GoodLedgers, NEW S
  PROVE  ClearAll(l, S) \in GoodLedgers
<1> DEFINE k == ClearAll(l, S)
<1>1. l \in Ledgers /\ Absent \in Entries
  BY RecordAssumption DEF GoodLedgers, Entries, Absent
<1>2. k \in Ledgers /\ k.history = l.history
      /\ k.procs = [n \in Node |-> IF n \in S THEN Absent ELSE l.procs[n]]
  BY <1>1 DEF ClearAll, Ledgers
<1>3. \A n \in Node : Has(k, n) => k.procs[n] = l.procs[n] /\ Has(l, n)
  BY <1>2 DEF Has, Absent
<1> HIDE DEF k
<1>4. Numbered(k)
  BY <1>2, <1>3 DEF GoodLedgers, Numbered
<1>5. k \in GoodLedgers
  BY <1>2, <1>4 DEF GoodLedgers
<1>. QED  BY <1>5 DEF k

\* A new entry is given the next number.
LEMMA EntryNumbers ==
  ASSUME NEW l \in Ledgers, NEW n \in Node, NEW p \in Pid,
         \A m \in Node : \A i \in 1..Len(l.history[m]) : l.history[m][i] = i - 1,
         \A m \in Node \ {n} : Has(l, m) => l.procs[m].rev = Len(l.history[m])
  PROVE  /\ Entry(l, n, p) \in Entries
         /\ [l EXCEPT !.procs[n] = Entry(l, n, p)] \in GoodLedgers
<1> DEFINE k == [l EXCEPT !.procs[n] = Entry(l, n, p)]
           e == [l EXCEPT !.procs[n] = Absent]
<1>1. Absent \in Entries
  BY RecordAssumption DEF Entries, Absent
<1>2. e \in Ledgers /\ e.history = l.history /\ e.procs = [l.procs EXCEPT ![n] = Absent]
  BY <1>1 DEF Ledgers
<1>3. ~Has(e, n) /\ \A m \in Node \ {n} : e.procs[m] = l.procs[m]
  BY <1>2 DEF Has, Absent, Ledgers
<1>4. e \in GoodLedgers
  <2>1. \A m \in Node \ {n} : Has(e, m) => e.procs[m].rev = Len(e.history[m])
    BY <1>2, <1>3 DEF Has
  <2>2. \A m \in Node : \A i \in 1..Len(e.history[m]) : e.history[m][i] = i - 1
    BY <1>2
  <2> HIDE DEF e
  <2>. QED  BY <1>2, <1>3, <2>1, <2>2, GoodByParts
<1>5. nextArchivedRevision(l, n) = Len(l.history[n])
  <2>1. nextArchivedRevision(e, n) = Len(e.history[n])
    BY <1>4, NextRevision
  <2>2. nextArchivedRevision(e, n) = nextArchivedRevision(l, n)
    <3>1. e.history = l.history
      BY <1>2
    <3> HIDE DEF e
    <3>. QED  BY <3>1, Zenon DEF nextArchivedRevision
  <2>. QED  BY <1>2, <2>1, <2>2
<1>6. Len(l.history[n]) \in Nat
  BY DEF Ledgers
<1>7. Entry(l, n, p) \in Entries /\ Entry(l, n, p).rev = Len(l.history[n])
  BY <1>5, <1>6, RecordAssumption DEF Entry, Entries, Pid
<1>8. k \in Ledgers /\ k.history = l.history /\ k.procs = [l.procs EXCEPT ![n] = Entry(l, n, p)]
  BY <1>7 DEF Ledgers
<1>9. k.procs[n] = Entry(l, n, p) /\ \A m \in Node \ {n} : k.procs[m] = l.procs[m]
  BY <1>8 DEF Ledgers
<1>10. k \in GoodLedgers
  <2>1. \A m \in Node \ {n} : Has(k, m) => k.procs[m].rev = Len(k.history[m])
    BY <1>8, <1>9 DEF Has
  <2>2. \A m \in Node : \A i \in 1..Len(k.history[m]) : k.history[m][i] = i - 1
    BY <1>8
  <2>3. k \in Ledgers /\ k.procs[n].rev = Len(k.history[n])
    BY <1>7, <1>8, <1>9
  <2> HIDE DEF k
  <2>. QED  BY <2>1, <2>2, <2>3, GoodByParts
<1>. QED  BY <1>7, <1>10

\* Retiring an entry keeps the numbers.
LEMMA RetireNumbers ==
  ASSUME NEW l \in GoodLedgers, NEW n \in Node
  PROVE  Retire(l, n) \in GoodLedgers
<1> DEFINE a == Archive(l, n)
           r == Clear(a, n)
<1>1. l \in Ledgers /\ Numbered(l)
  BY DEF GoodLedgers
<1>2. /\ a \in Ledgers /\ a.procs = l.procs
      /\ \A m \in Node : \A i \in 1..Len(a.history[m]) : a.history[m][i] = i - 1
      /\ \A m \in Node \ {n} : a.history[m] = l.history[m]
  BY ArchiveNumbers
<1>3. Absent \in Entries
  BY RecordAssumption DEF Entries, Absent
<1>4. r \in Ledgers /\ r.history = a.history
      /\ r.procs = [m \in Node |-> IF m \in {n} THEN Absent ELSE a.procs[m]]
  BY <1>2, <1>3 DEF Clear, ClearAll, Ledgers
<1>5. ~Has(r, n) /\ \A m \in Node \ {n} : r.procs[m] = l.procs[m]
  BY <1>2, <1>4 DEF Has, Absent
<1>6. \A m \in Node \ {n} : Has(r, m) => r.procs[m].rev = Len(r.history[m])
  BY <1>1, <1>2, <1>4, <1>5 DEF Has, Numbered
<1>7. \A m \in Node : \A i \in 1..Len(r.history[m]) : r.history[m][i] = i - 1
  BY <1>2, <1>4
<1>8. r \in GoodLedgers
  <2> HIDE DEF r
  <2>. QED  BY <1>4, <1>5, <1>6, <1>7, GoodByParts
<1>. QED  BY <1>8 DEF Retire

\* Recording and superseding keep the numbers.
LEMMA LedgerOperations ==
  ASSUME NEW l \in GoodLedgers, NEW n \in Node, NEW p \in Pid
  PROVE  /\ Record(l, n, p) \in GoodLedgers
         /\ Supersede(l, n, p) \in GoodLedgers
<1> DEFINE a == Archive(l, n)
<1>1. l \in Ledgers /\ Numbered(l)
  BY DEF GoodLedgers
<1>2. /\ a \in Ledgers /\ a.procs = l.procs
      /\ \A m \in Node : \A i \in 1..Len(a.history[m]) : a.history[m][i] = i - 1
      /\ \A m \in Node \ {n} : a.history[m] = l.history[m]
  BY ArchiveNumbers
<1>3. \A m \in Node \ {n} : Has(a, m) => a.procs[m].rev = Len(a.history[m])
  BY <1>1, <1>2 DEF Numbered, Has
<1>4. Record(l, n, p) \in GoodLedgers
  <2>1. CASE Has(l, n)
    BY <2>1 DEF Record
  <2>2. CASE ~Has(l, n)
    <3>1. [l EXCEPT !.procs[n] = Entry(l, n, p)] \in GoodLedgers
      BY <1>1, EntryNumbers DEF Numbered
    <3>. QED  BY <2>2, <3>1 DEF Record
  <2>. QED  BY <2>1, <2>2
<1>5. Supersede(l, n, p) \in GoodLedgers
  <2>1. [a EXCEPT !.procs[n] = Entry(a, n, p)] \in GoodLedgers
    BY <1>2, <1>3, EntryNumbers
  <2>. QED  BY <2>1 DEF Supersede
<1>. QED  BY <1>4, <1>5

\* Entering the pids of an older state keeps the numbers.
LEMMA SeedNumbers ==
  ASSUME NEW l \in GoodLedgers, NEW r \in Records
  PROVE  Seeded(r, l) \in GoodLedgers
<1> DEFINE k == Seeded(r, l)
<1>1. l \in Ledgers /\ Numbered(l)
  BY DEF GoodLedgers
<1>2. ASSUME NEW n \in Unseeded(r, l)
      PROVE  Entry(l, n, r.pid[n]) \in Entries /\ Entry(l, n, r.pid[n]).rev = Len(l.history[n])
  <2>1. n \in Node /\ r.pid[n] \in 0..MaxPid /\ Len(l.history[n]) \in Nat
    BY <1>1, <1>2 DEF Unseeded, Records, Ledgers
  <2>2. nextArchivedRevision(l, n) = Len(l.history[n])
    BY <2>1, NextRevision
  <2>. QED  BY <2>1, <2>2 DEF Entry, Entries
<1>3. k \in Ledgers /\ k.history = l.history
      /\ k.procs = [n \in Node |-> IF n \in Unseeded(r, l) THEN Entry(l, n, r.pid[n]) ELSE l.procs[n]]
  BY <1>1, <1>2 DEF Seeded, Ledgers
<1>4. \A n \in Node : Has(k, n) => k.procs[n].rev = Len(l.history[n])
  <2>1. \A n \in Unseeded(r, l) : n \in Node => k.procs[n].rev = Len(l.history[n])
    BY <1>2, <1>3
  <2>2. \A n \in Node : n \notin Unseeded(r, l) => k.procs[n] = l.procs[n]
    BY <1>3
  <2>. QED  BY <1>1, <2>1, <2>2 DEF Numbered, Has
<1> HIDE DEF k
<1>5. Numbered(k)
  BY <1>1, <1>3, <1>4 DEF Numbered
<1>6. k \in GoodLedgers
  BY <1>3, <1>5 DEF GoodLedgers
<1>. QED  BY <1>6 DEF k

-----------------------------------------------------------------------------
(* The step. *)

\* The files and the copies of the state.
Files == record \in Records /\ mrec \in [Command -> Records]

\* The ledger and its copies are numbered.
Books == ledger \in GoodLedgers /\ mled \in [Command -> GoodLedgers]

Control ==
  /\ lock \in Command \cup {NoCommand}
  /\ pc \in [Command -> {"idle", "record", "ledger", "acquire", "work", "start", "launch",
                         "sweep", "save", "write", "manifest"}]
  /\ op \in [Command -> {"none", "note", "stopnode", "startnode", "restart", "swap", "stop",
                         "plan", "phase", "rollback", "rm", "reconcile"}]
  /\ target \in [Command -> Node] /\ build \in [Command -> Build]
  /\ todo \in [Command -> SUBSET Node] /\ was \in [Command -> SUBSET Node]
  /\ failed \in [Command -> {"yes", "no"}]
  /\ missed \in [Command -> SUBSET Pid] /\ stale \subseteq Command

Machine ==
  /\ next \in 1..MaxPid + 1
  /\ alive \subseteq 1..next - 1 /\ \A p \in alive : running[p] \in Processes

Base == Files /\ Books /\ Control /\ Machine

\* What the pieces of state start from is of its type.
LEMMA Blanks ==
  /\ AnyNode \in Node /\ Default \in Build
  /\ Blank \in Records /\ NewLedger \in GoodLedgers
<1>1. AnyNode \in Node /\ Default \in Build
  BY RecordAssumption DEF AnyNode
<1>2. Blank \in Records
  BY RecordAssumption DEF Blank, Records, NoPids
<1>3. NewLedger \in Ledgers
  BY RecordAssumption DEF NewLedger, Ledgers, Entries, Absent
<1>4. Numbered(NewLedger)
  BY DEF Numbered, NewLedger, Has, Absent
<1>. QED  BY <1>1, <1>2, <1>3, <1>4 DEF GoodLedgers

\* What the operations make of a state is a state.
LEMMA StateOperations ==
  ASSUME NEW r \in Records
  PROVE  /\ \A S : Without(r, S) \in Records
         /\ \A l \in Ledgers : Synced(r, l) \in Records
         /\ \A n \in Node, p \in 0..MaxPid : [r EXCEPT !.pid[n] = p] \in Records
         /\ \A n \in Node, b \in Build : [r EXCEPT !.args[n] = b] \in Records
         /\ \A n \in Node, p \in 0..MaxPid, b \in Build :
              [r EXCEPT !.pid[n] = p, !.args[n] = b] \in Records
<1>1. \A S : Without(r, S) \in Records
  BY RecordAssumption DEF Without, Records
<1>2. \A l \in Ledgers : Synced(r, l) \in Records
  BY DEF Synced, Records, Ledgers, Entries
<1>3. \A n \in Node, p \in 0..MaxPid : [r EXCEPT !.pid[n] = p] \in Records
  BY DEF Records
<1>4. \A n \in Node, b \in Build : [r EXCEPT !.args[n] = b] \in Records
  BY DEF Records
<1>5. \A n \in Node, p \in 0..MaxPid, b \in Build :
        [r EXCEPT !.pid[n] = p, !.args[n] = b] \in Records
  BY DEF Records
<1>. QED  BY <1>1, <1>2, <1>3, <1>4, <1>5

\* The copy of a command that launched a node is a state.
LEMMA LaunchedState ==
  ASSUME Base, NEW c \in Command, NEW n \in Node, NEW b \in Build, LaunchAndRecord(c, n, b)
  PROVE  mrec' \in [Command -> Records]
<1> DEFINE p == IF Has(mled[c], n) THEN mrec[c].pid[n] ELSE next
<1>1. p \in 0..MaxPid
  BY RecordAssumption DEF LaunchAndRecord, Launch, Base, Files, Records, Pid
<1>2. [mrec[c] EXCEPT !.pid[n] = p, !.args[n] = b] \in Records
  BY <1>1, StateOperations DEF Base, Files
<1>3. mrec' = [mrec EXCEPT ![c] = [mrec[c] EXCEPT !.pid[n] = p, !.args[n] = b]]
  BY DEF LaunchAndRecord, Base, Files
<1>. QED  BY <1>2, <1>3 DEF Base, Files

\* Every step keeps where the commands are of its type.
LEMMA ControlStep ==
  ASSUME Base, NEW c \in Command, Step(c)
  PROVE  Control'
<1> USE Blanks DEF Base, Control, Goto, mem, work, machine
<1>1. CASE Reopen(c)
  BY <1>1 DEF Reopen
<1>2. CASE OpenLedger(c)
  BY <1>2 DEF OpenLedger, Finish, Returns, Following
<1>3. CASE Acquire(c)
  BY <1>3 DEF Acquire, Finish, Returns, Following
<1>4. CASE SaveLedgerBegins(c)
  BY <1>4 DEF SaveLedgerBegins
<1>5. CASE SaveLedger(c)
  BY <1>5 DEF SaveLedger
<1>6. CASE SaveState(c)
  BY <1>6 DEF SaveState, Finish, Returns, Following
<1>7. CASE SaveFails(c)
  BY <1>7 DEF SaveFails, Finish, Returns, Following
<1>8. CASE StopNode(c)
  BY <1>8 DEF StopNode, stopOwned, Fail, Forgets
<1>9. CASE StartNode(c)
  BY <1>9 DEF StartNode, LaunchAndRecord, Fail, Done
<1>10. CASE SwapStops(c)
  BY <1>10 DEF SwapStops, stopOwned, Fail
<1>11. CASE SwapLaunches(c)
  BY <1>11 DEF SwapLaunches, Fail, Done
<1>12. CASE Stop(c)
  BY <1>12 DEF Stop, stopNodes, stopOwned, Forgets, Fail
<1>13. CASE StopUnrecorded(c)
  <2>1. PICK U \in SUBSET unrecordedNodes(c) : missed' = [missed EXCEPT ![c] = U]
    BY <1>13 DEF StopUnrecorded
  <2>2. U \subseteq Pid
    <3>1. U \subseteq alive
      BY DEF unrecordedNodes
    <3>2. alive \subseteq Pid
      BY RecordAssumption DEF Machine, Pid
    <3>. QED  BY <3>1, <3>2
  <2>3. missed' \in [Command -> SUBSET Pid]
    BY <2>1, <2>2
  <2>4. (Fail(c) \/ Done(c)) /\ UNCHANGED <<lock, op, target, build, was, stale, todo>>
    BY <1>13 DEF StopUnrecorded
  <2>. QED  BY <2>3, <2>4 DEF Fail, Done
<1>14. CASE LaunchPlan(c)
  <2>1. Running(c) \in SUBSET Node
    BY DEF Running, Files, Records
  <2> HIDE DEF Goto
  <2>2. /\ was' = was \/ was' = [was EXCEPT ![c] = Running(c)]
        /\ Fail(c) \/ Done(c)
        /\ UNCHANGED <<lock, op, target, build, missed, stale, todo>>
    BY <1>14 DEF LaunchPlan
  <2>3. was' \in [Command -> SUBSET Node]
    BY <2>1, <2>2
  <2>. QED  BY <2>2, <2>3 DEF Fail, Done, Goto
<1>15. CASE startPhase(c)
  <2>1. mrec[c].placed \ Running(c) \in SUBSET Node
    BY DEF Running, Files, Records
  <2>2. todo' \in [Command -> SUBSET Node]
    BY <1>15, <2>1 DEF startPhase
  <2>. QED  BY <1>15, <2>2 DEF startPhase, Fail
<1>16. CASE LaunchNext(c)
  <2>1. todo' = todo \/ \E n \in Node : todo' = [todo EXCEPT ![c] = @ \ {n}]
    BY <1>16 DEF LaunchNext
  <2>2. todo' \in [Command -> SUBSET Node]
    BY <2>1
  <2>3. Fail(c) \/ Done(c) \/ UNCHANGED <<pc, failed>>
    BY <1>16 DEF LaunchNext
  <2>4. UNCHANGED <<lock, op, target, build, was, missed, stale>>
    BY <1>16 DEF LaunchNext
  <2>. QED  BY <2>2, <2>3, <2>4 DEF Fail, Done
<1>17. CASE RollBackLaunch(c)
  BY <1>17 DEF RollBackLaunch, stopNodes, stopOwned, Forgets, Fail
<1>18. CASE Rm(c)
  BY <1>18 DEF Rm, Fail, Done
<1>19. CASE ReconcileBegins(c)
  BY <1>19 DEF ReconcileBegins, Files, Records
<1>20. CASE \E n \in Node : ReconcileNode(c, n)
  BY <1>20 DEF ReconcileNode, Forgets
<1>21. CASE ReconcileEnds(c)
  BY <1>21 DEF ReconcileEnds, Done, Fail
<1>22. CASE Crash(c)
  BY <1>22 DEF Crash, Returns
<1>. QED  BY <1>1, <1>2, <1>3, <1>4, <1>5, <1>6, <1>7, <1>8, <1>9, <1>10, <1>11, <1>12, <1>13, <1>14, <1>15, <1>16, <1>17, <1>18, <1>19, <1>20, <1>21, <1>22 DEF Step

\* Every step keeps the state and its copies of their type.
LEMMA FilesStep ==
  ASSUME Base, NEW c \in Command, Step(c)
  PROVE  Files'
<1> USE Blanks DEF Base, Files, mem, work, machine
<1>1. CASE Reopen(c)
  BY <1>1 DEF Reopen
<1>2. CASE OpenLedger(c)
  <2>1. Synced(mrec[c], ledger) \in Records
    BY StateOperations DEF Books, GoodLedgers
  <2>. QED  BY <1>2, <2>1 DEF OpenLedger, Finish, Returns
<1>3. CASE Acquire(c)
  BY <1>3 DEF Acquire, Finish, Returns
<1>4. CASE SaveLedgerBegins(c)
  BY <1>4 DEF SaveLedgerBegins
<1>5. CASE SaveLedger(c)
  BY <1>5 DEF SaveLedger
<1>6. CASE SaveState(c)
  BY <1>6 DEF SaveState, Finish, Returns
<1>7. CASE SaveFails(c)
  BY <1>7 DEF SaveFails, Finish, Returns
<1>8. CASE StopNode(c)
  <2>1. mrec' = mrec \/ mrec' = [mrec EXCEPT ![c] = Without(mrec[c], {target[c]})]
    BY <1>8 DEF StopNode, Forgets
  <2>2. Without(mrec[c], {target[c]}) \in Records
    BY StateOperations
  <2>. QED  BY <1>8, <2>1, <2>2 DEF StopNode
<1>9. CASE StartNode(c)
  <2>1. CASE UNCHANGED mrec
    BY <1>9, <2>1 DEF StartNode
  <2>2. CASE mrec[c].args[target[c]] # NoBuild /\ LaunchAndRecord(c, target[c], mrec[c].args[target[c]])
    <3>1. target[c] \in Node /\ mrec[c].args[target[c]] \in Build
      BY <2>2 DEF Control, Records
    <3>. QED  BY <1>9, <2>2, <3>1, LaunchedState DEF StartNode
  <2>. QED  BY <1>9, <2>1, <2>2 DEF StartNode
<1>10. CASE SwapStops(c)
  <2>1. target[c] \in Node /\ build[c] \in Build /\ 0 \in 0..MaxPid
    BY RecordAssumption DEF Control
  <2>2. [mrec[c] EXCEPT !.pid[target[c]] = 0, !.args[target[c]] = build[c]] \in Records
    BY <2>1, StateOperations
  <2>3. mrec' = mrec \/ mrec' = [mrec EXCEPT ![c] =
          [mrec[c] EXCEPT !.pid[target[c]] = 0, !.args[target[c]] = build[c]]]
    BY <1>10 DEF SwapStops
  <2>. QED  BY <1>10, <2>2, <2>3 DEF SwapStops
<1>11. CASE SwapLaunches(c)
  <2>1. CASE UNCHANGED mrec
    BY <1>11, <2>1 DEF SwapLaunches
  <2>2. CASE next \in Pid /\ mrec' = [mrec EXCEPT ![c].pid[target[c]] = next]
    <3>0. mrec[c] \in Records /\ target[c] \in Node /\ next \in 0..MaxPid
      BY <2>2, RecordAssumption DEF Control, Pid
    <3>1. [mrec[c] EXCEPT !.pid[target[c]] = next] \in Records
      BY <3>0, StateOperations
    <3>. QED  BY <1>11, <2>2, <3>1 DEF SwapLaunches
  <2>. QED  BY <1>11, <2>1, <2>2 DEF SwapLaunches, Launch
<1>12. CASE Stop(c)
  <2>1. PICK S : mrec' = [mrec EXCEPT ![c] = Without(mrec[c], S)]
    BY <1>12 DEF Stop, RollBackLaunch, stopNodes, Forgets
  <2>. QED  BY <1>12, <2>1, StateOperations DEF Stop, RollBackLaunch
<1>13. CASE StopUnrecorded(c)
  BY <1>13 DEF StopUnrecorded, Fail, Done
<1>14. CASE LaunchPlan(c)
  BY <1>14 DEF LaunchPlan, Fail, Done
<1>15. CASE startPhase(c)
  BY <1>15 DEF startPhase, Fail
<1>16. CASE LaunchNext(c)
  <2>1. CASE UNCHANGED mrec
    BY <1>16, <2>1 DEF LaunchNext
  <2>2. CASE \E n \in todo[c] : mrec' = [mrec EXCEPT ![c].args[n] = Armed(c, n)]
    <3>1. PICK n \in todo[c] : mrec' = [mrec EXCEPT ![c].args[n] = Armed(c, n)]
      BY <2>2
    <3>2. n \in Node /\ Armed(c, n) \in Build
      BY DEF Control, Armed, Records
    <3>3. [mrec[c] EXCEPT !.args[n] = Armed(c, n)] \in Records
      BY <3>2, StateOperations
    <3>. QED  BY <1>16, <3>1, <3>3 DEF LaunchNext
  <2>3. CASE \E n \in todo[c] : LaunchAndRecord(c, n, Armed(c, n))
    <3>1. PICK n \in todo[c] : LaunchAndRecord(c, n, Armed(c, n))
      BY <2>3
    <3>2. n \in Node /\ Armed(c, n) \in Build
      BY DEF Control, Armed, Records
    <3>. QED  BY <1>16, <3>1, <3>2, LaunchedState DEF LaunchNext
  <2>. QED  BY <1>16, <2>1, <2>2, <2>3 DEF LaunchNext
<1>17. CASE RollBackLaunch(c)
  <2>1. PICK S : mrec' = [mrec EXCEPT ![c] = Without(mrec[c], S)]
    BY <1>17 DEF Stop, RollBackLaunch, stopNodes, Forgets
  <2>. QED  BY <1>17, <2>1, StateOperations DEF Stop, RollBackLaunch
<1>18. CASE Rm(c)
  BY <1>18 DEF Rm, Fail, Done
<1>19. CASE ReconcileBegins(c)
  BY <1>19 DEF ReconcileBegins
<1>20. CASE \E n \in Node : ReconcileNode(c, n)
  <2>1. PICK n \in Node : ReconcileNode(c, n)
    BY <1>20
  <2>2. \/ mrec' = mrec
        \/ mrec' = [mrec EXCEPT ![c] = Without(mrec[c], {n})]
        \/ \E p \in alive : mrec' = [mrec EXCEPT ![c].pid[n] = p]
    BY <2>1 DEF ReconcileNode, Forgets, orphanOf
  <2>3. \A p \in alive : [mrec[c] EXCEPT !.pid[n] = p] \in Records
    <3>1. mrec[c] \in Records /\ alive \subseteq 0..MaxPid
      BY RecordAssumption DEF Machine
    <3>. QED  BY <3>1, StateOperations
  <2>4. Without(mrec[c], {n}) \in Records
    BY StateOperations
  <2>5. mrec' \in [Command -> Records]
    BY <2>2, <2>3, <2>4
  <2>. QED  BY <2>1, <2>5 DEF ReconcileNode
<1>21. CASE ReconcileEnds(c)
  BY <1>21 DEF ReconcileEnds, Done, Fail
<1>22. CASE Crash(c)
  BY <1>22 DEF Crash, Returns
<1>. QED  BY <1>1, <1>2, <1>3, <1>4, <1>5, <1>6, <1>7, <1>8, <1>9, <1>10, <1>11, <1>12, <1>13, <1>14, <1>15, <1>16, <1>17, <1>18, <1>19, <1>20, <1>21, <1>22 DEF Step

\* Every step keeps the ledger and its copies numbered.
LEMMA BooksStep ==
  ASSUME Base, NEW c \in Command, Step(c)
  PROVE  Books'
<1> USE Blanks DEF Base, Books, mem, work, machine
<1>1. CASE Reopen(c)
  BY <1>1 DEF Reopen
<1>2. CASE OpenLedger(c)
  <2>1. Seeded(mrec[c], ledger) \in GoodLedgers
    BY SeedNumbers DEF Files
  <2>. QED  BY <1>2, <2>1 DEF OpenLedger, Finish, Returns
<1>3. CASE Acquire(c)
  BY <1>3 DEF Acquire, Finish, Returns
<1>4. CASE SaveLedgerBegins(c)
  <2>1. [ledger EXCEPT !.whole = "no"] \in GoodLedgers
    <3> DEFINE k == [ledger EXCEPT !.whole = "no"]
    <3>1. k \in Ledgers /\ k.procs = ledger.procs /\ k.history = ledger.history
      BY DEF GoodLedgers, Ledgers
    <3> HIDE DEF k
    <3>2. Numbered(k)
      BY <3>1 DEF GoodLedgers, Numbered, Has
    <3>3. k \in GoodLedgers
      BY <3>1, <3>2 DEF GoodLedgers
    <3>. QED  BY <3>3 DEF k
  <2>. QED  BY <1>4, <2>1 DEF SaveLedgerBegins
<1>5. CASE SaveLedger(c)
  BY <1>5 DEF SaveLedger
<1>6. CASE SaveState(c)
  BY <1>6 DEF SaveState, Finish, Returns
<1>7. CASE SaveFails(c)
  BY <1>7 DEF SaveFails, Finish, Returns
<1>8. CASE StopNode(c)
  <2>1. mled' = mled \/ mled' = [mled EXCEPT ![c] = Retire(mled[c], target[c])]
    BY <1>8 DEF StopNode
  <2>2. Retire(mled[c], target[c]) \in GoodLedgers
    BY RetireNumbers DEF Control
  <2>. QED  BY <1>8, <2>1, <2>2 DEF StopNode
<1>9. CASE StartNode(c)
  <2>1. mled' = mled \/ \E n \in Node : next \in Pid /\ mled' = [mled EXCEPT ![c] = Record(mled[c], n, next)]
    BY <1>9 DEF StartNode, LaunchNext, LaunchAndRecord, Launch, Control
  <2>2. next \in Pid => \A n \in Node : Record(mled[c], n, next) \in GoodLedgers
    BY LedgerOperations
  <2>. QED  BY <1>9, <2>1, <2>2 DEF StartNode, LaunchNext
<1>10. CASE SwapStops(c)
  BY <1>10 DEF SwapStops, Fail
<1>11. CASE SwapLaunches(c)
  <2>1. \/ mled' = [mled EXCEPT ![c] = Retire(mled[c], target[c])]
        \/ next \in Pid /\ mled' = [mled EXCEPT ![c] = Supersede(mled[c], target[c], next)]
    BY <1>11 DEF SwapLaunches, Launch
  <2>2. /\ Retire(mled[c], target[c]) \in GoodLedgers
        /\ next \in Pid => Supersede(mled[c], target[c], next) \in GoodLedgers
    BY RetireNumbers, LedgerOperations DEF Control
  <2>. QED  BY <1>11, <2>1, <2>2 DEF SwapLaunches
<1>12. CASE Stop(c)
  <2>1. PICK S : mled' = [mled EXCEPT ![c] = ClearAll(mled[c], S)]
    BY <1>12 DEF Stop, RollBackLaunch, stopNodes
  <2>2. ClearAll(mled[c], S) \in GoodLedgers
    BY ClearAllNumbers
  <2>. QED  BY <1>12, <2>1, <2>2 DEF Stop, RollBackLaunch
<1>13. CASE StopUnrecorded(c)
  BY <1>13 DEF StopUnrecorded, Fail, Done
<1>14. CASE LaunchPlan(c)
  BY <1>14 DEF LaunchPlan, Fail, Done
<1>15. CASE startPhase(c)
  BY <1>15 DEF startPhase, Fail
<1>16. CASE LaunchNext(c)
  <2>1. mled' = mled \/ \E n \in Node : next \in Pid /\ mled' = [mled EXCEPT ![c] = Record(mled[c], n, next)]
    BY <1>16 DEF StartNode, LaunchNext, LaunchAndRecord, Launch, Control
  <2>2. next \in Pid => \A n \in Node : Record(mled[c], n, next) \in GoodLedgers
    BY LedgerOperations
  <2>. QED  BY <1>16, <2>1, <2>2 DEF StartNode, LaunchNext
<1>17. CASE RollBackLaunch(c)
  <2>1. PICK S : mled' = [mled EXCEPT ![c] = ClearAll(mled[c], S)]
    BY <1>17 DEF Stop, RollBackLaunch, stopNodes
  <2>2. ClearAll(mled[c], S) \in GoodLedgers
    BY ClearAllNumbers
  <2>. QED  BY <1>17, <2>1, <2>2 DEF Stop, RollBackLaunch
<1>18. CASE Rm(c)
  BY <1>18 DEF Rm, Fail, Done
<1>19. CASE ReconcileBegins(c)
  BY <1>19 DEF ReconcileBegins
<1>20. CASE \E n \in Node : ReconcileNode(c, n)
  <2>1. PICK n \in Node : ReconcileNode(c, n)
    BY <1>20
  <2>2. \/ mled' = mled
        \/ mled' = [mled EXCEPT ![c] = Clear(mled[c], n)]
        \/ \E p \in alive : mled' = [mled EXCEPT ![c] = Record(mled[c], n, p)]
    BY <2>1 DEF ReconcileNode, orphanOf
  <2>3. alive \subseteq Pid
    BY RecordAssumption DEF Machine, Pid
  <2>4. \A p \in alive : Record(mled[c], n, p) \in GoodLedgers
    BY <2>3, LedgerOperations
  <2>5. Clear(mled[c], n) \in GoodLedgers
    BY ClearAllNumbers DEF Clear
  <2>6. mled' \in [Command -> GoodLedgers]
    BY <2>2, <2>4, <2>5
  <2>. QED  BY <2>1, <2>6 DEF ReconcileNode
<1>21. CASE ReconcileEnds(c)
  BY <1>21 DEF ReconcileEnds, Done, Fail
<1>22. CASE Crash(c)
  BY <1>22 DEF Crash, Returns
<1>. QED  BY <1>1, <1>2, <1>3, <1>4, <1>5, <1>6, <1>7, <1>8, <1>9, <1>10, <1>11, <1>12, <1>13, <1>14, <1>15, <1>16, <1>17, <1>18, <1>19, <1>20, <1>21, <1>22 DEF Step

\* A launch adds at most the next pid.
LEMMA LaunchKeeps ==
  ASSUME Base, NEW c \in Command, NEW n \in Node, NEW b \in Build, Launch(c, n, b)
  PROVE  Machine'
<1>1. next \in 1..MaxPid /\ next' = next + 1 /\ MaxPid \in Nat
  BY RecordAssumption DEF Launch, Pid
<1>2. [node |-> n, build |-> b, by |-> c] \in Processes
  BY DEF Processes
<1>3. CASE running' = running
  BY <1>1, <1>3 DEF Base, Machine, alive
<1>4. CASE running' = [p \in alive \cup {next} |->
               IF p = next THEN [node |-> n, build |-> b, by |-> c] ELSE running[p]]
  BY <1>1, <1>2, <1>4 DEF Base, Machine, alive
<1>. QED  BY <1>3, <1>4 DEF Launch

\* Every step keeps the processes of their type.
LEMMA MachineStep ==
  ASSUME Base, NEW c \in Command, Step(c)
  PROVE  Machine'
<1> USE Blanks, RecordAssumption DEF Base, Machine, alive, mem, work, machine
<1>1. CASE Reopen(c)
  BY <1>1 DEF Reopen
<1>2. CASE OpenLedger(c)
  BY <1>2 DEF OpenLedger, Finish, Returns
<1>3. CASE Acquire(c)
  BY <1>3 DEF Acquire, Finish, Returns
<1>4. CASE SaveLedgerBegins(c)
  BY <1>4 DEF SaveLedgerBegins
<1>0. \A p \in alive, f \in Fates : [running[p] EXCEPT !.by = f] \in Processes
  BY DEF Processes
<1>00. "ledger" \in Fates /\ "lost" \in Fates /\ "torn" \in Fates /\ "overwritten" \in Fates
  BY DEF Fates
<1>5. CASE SaveLedger(c)
  BY <1>0, <1>00, <1>5 DEF SaveLedger
<1>6. CASE SaveState(c)
  BY <1>6 DEF SaveState, Finish, Returns
<1>7. CASE SaveFails(c)
  BY <1>0, <1>00, <1>7 DEF SaveFails, Forsakes
<1>8. CASE StopNode(c)
  BY <1>8 DEF StopNode, stopOwned, Kills
<1>9. CASE StartNode(c)
  <2>1. UNCHANGED machine \/ \E n \in Node, b \in Build : Launch(c, n, b)
    BY <1>9 DEF StartNode, LaunchNext, SwapLaunches, LaunchAndRecord, Control, Files, Records, Armed
  <2>. QED  BY <2>1, LaunchKeeps DEF alive
<1>10. CASE SwapStops(c)
  BY <1>10 DEF SwapStops, stopOwned, Kills
<1>11. CASE SwapLaunches(c)
  <2>1. UNCHANGED machine \/ \E n \in Node, b \in Build : Launch(c, n, b)
    BY <1>11 DEF StartNode, LaunchNext, SwapLaunches, LaunchAndRecord, Control, Files, Records, Armed
  <2>. QED  BY <2>1, LaunchKeeps DEF alive
<1>12. CASE Stop(c)
  BY <1>12 DEF Stop, stopNodes, stopOwned, Kills
<1>13. CASE StopUnrecorded(c)
  BY <1>13 DEF StopUnrecorded, Kills
<1>14. CASE LaunchPlan(c)
  BY <1>14 DEF LaunchPlan
<1>15. CASE startPhase(c)
  BY <1>15 DEF startPhase
<1>16. CASE LaunchNext(c)
  <2>1. UNCHANGED machine \/ \E n \in todo[c] : Launch(c, n, Armed(c, n))
    BY <1>16 DEF LaunchNext, LaunchAndRecord
  <2>2. \A n \in todo[c] : n \in Node /\ Armed(c, n) \in Build
    BY DEF Control, Armed, Files, Records
  <2>. QED  BY <2>1, <2>2, LaunchKeeps DEF alive
<1>17. CASE RollBackLaunch(c)
  BY <1>17 DEF RollBackLaunch, stopNodes, stopOwned, Kills
<1>18. CASE Rm(c)
  BY <1>18 DEF Rm
<1>19. CASE ReconcileBegins(c)
  BY <1>19 DEF ReconcileBegins
<1>20. CASE \E n \in Node : ReconcileNode(c, n)
  BY <1>20 DEF ReconcileNode
<1>21. CASE ReconcileEnds(c)
  BY <1>21 DEF ReconcileEnds
<1>22. CASE Crash(c)
  BY <1>0, <1>00, <1>22 DEF Crash, Forsakes, Tears
<1>. QED  BY <1>1, <1>2, <1>3, <1>4, <1>5, <1>6, <1>7, <1>8, <1>9, <1>10, <1>11, <1>12, <1>13, <1>14, <1>15, <1>16, <1>17, <1>18, <1>19, <1>20, <1>21, <1>22 DEF Step

\* Beginning a command, and the end of a node, keep all of it.
LEMMA OtherSteps ==
  ASSUME Base,
         \/ \E c \in Command, o \in Ops, n \in Node, b \in Build : Open(c, o, n, b)
         \/ \E p \in Pid : NodeDies(p)
  PROVE  Base'
<1>1. CASE \E c \in Command, o \in Ops, n \in Node, b \in Build : Open(c, o, n, b)
  <2>1. PICK c \in Command, o \in Ops, n \in Node, b \in Build : Open(c, o, n, b)
    BY <1>1
  <2>2. Files' /\ Books'
    BY <2>1 DEF Base, Files, Books, Open
  <2>3. Control'
    BY <2>1, RecordAssumption DEF Base, Control, Open, Goto
  <2>4. Machine'
    BY <2>1 DEF Base, Machine, Open, machine, alive
  <2>. QED  BY <2>2, <2>3, <2>4 DEF Base
<1>2. CASE \E p \in Pid : NodeDies(p)
  <2>1. PICK p \in Pid : NodeDies(p)
    BY <1>2
  <2>2. Files' /\ Books' /\ Control'
    BY <2>1 DEF Base, Files, Books, Control, NodeDies, work, mem
  <2>3. Machine'
    BY <2>1 DEF Base, Machine, NodeDies, Kills, alive
  <2>. QED  BY <2>2, <2>3 DEF Base
<1>. QED  BY <1>1, <1>2

\* Base is inductive.
LEMMA BaseStep ==
  ASSUME Base, [Next]_vars
  PROVE  Base'
<1>1. CASE UNCHANGED vars
  BY <1>1 DEF vars, Base, Files, Books, Control, Machine, alive
<1>2. ASSUME NEW c \in Command, Step(c)
      PROVE  Base'
  BY <1>2, FilesStep, BooksStep, ControlStep, MachineStep DEF Base
<1>. QED  BY <1>1, <1>2, OtherSteps DEF Next

LEMMA BaseInit == Init => Base
<1> SUFFICES ASSUME Init PROVE Base
  OBVIOUS
<1> USE Blanks, RecordAssumption DEF Init
<1>1. Files
  BY DEF Files, Records, NoPids
<1>2. Books
  BY DEF Books
<1>3. Control
  BY DEF Control
<1>4. Machine
  BY DEF Machine, alive
<1>. QED  BY <1>1, <1>2, <1>3, <1>4 DEF Base

LEMMA BaseAlways == Spec => []Base
BY BaseInit, BaseStep, PTL DEF Spec

-----------------------------------------------------------------------------
(* The pids a command works with. *)

\* The state and the ledger name a pid for the same nodes of the table.
Agrees(r, l) == \A n \in r.placed : Has(l, n) <=> r.pid[n] > 0

Loaded(c) ==
  \/ pc[c] \in {"acquire", "work"}
  \/ pc[c] = "start" /\ op[c] = "restart"
  \/ pc[c] = "launch" /\ op[c] = "phase"

\* From its opening to its last launch a command's two copies agree, and the nodes a
\* phase has yet to launch are down in both.
InStep(c) ==
  /\ Loaded(c) => Agrees(mrec[c], mled[c])
  /\ pc[c] = "launch" /\ op[c] = "phase"
       => \A n \in todo[c] : n \in mrec[c].placed /\ mrec[c].pid[n] = 0

LEMMA OpeningAgrees ==
  ASSUME NEW r \in Records, NEW l \in GoodLedgers
  PROVE  Agrees(Synced(r, l), Seeded(r, l))
<1>1. l \in Ledgers
  BY DEF GoodLedgers
<1>2. Synced(r, l).placed = r.placed /\ r.placed \subseteq Node
      /\ Synced(r, l).pid = [n \in Node |->
            IF n \in r.placed /\ Has(l, n) THEN l.procs[n].pid ELSE r.pid[n]]
  BY DEF Synced, Records
<1>3. Seeded(r, l).procs = [n \in Node |->
            IF n \in Unseeded(r, l) THEN Entry(l, n, r.pid[n]) ELSE l.procs[n]]
  BY <1>1 DEF Seeded, Ledgers
<1>4. ASSUME NEW n \in r.placed
      PROVE  Has(Seeded(r, l), n) <=> Synced(r, l).pid[n] > 0
  <2>1. CASE Has(l, n)
    BY <1>2, <1>3, <2>1 DEF Has, Unseeded
  <2>2. CASE ~Has(l, n) /\ r.pid[n] > 0
    BY <1>2, <1>3, <2>2 DEF Has, Unseeded, Entry
  <2>3. CASE ~Has(l, n) /\ ~(r.pid[n] > 0)
    BY <1>2, <1>3, <2>3 DEF Has, Unseeded
  <2>. QED  BY <2>1, <2>2, <2>3
<1>. QED  BY <1>2, <1>4 DEF Agrees

LEMMA RetiringAgrees ==
  ASSUME NEW r \in Records, NEW l \in GoodLedgers, NEW n \in Node, Agrees(r, l)
  PROVE  Agrees(Without(r, {n}), Retire(l, n))
<1>1. Without(r, {n}).placed = r.placed /\ r.placed \subseteq Node
      /\ Without(r, {n}).pid = [m \in Node |-> IF m \in {n} THEN 0 ELSE r.pid[m]]
  BY DEF Without, Records
<1>2. Archive(l, n) \in Ledgers /\ Archive(l, n).procs = l.procs
  BY ArchiveNumbers
<1>3. Retire(l, n).procs = [m \in Node |-> IF m \in {n} THEN Absent ELSE l.procs[m]]
  BY <1>2 DEF Retire, Clear, ClearAll, Ledgers
<1>4. \A m \in Node : Has(Retire(l, n), m) <=> m # n /\ Has(l, m)
  BY <1>3 DEF Has, Absent
<1>5. \A m \in Node : Without(r, {n}).pid[m] > 0 <=> m # n /\ r.pid[m] > 0
  BY <1>1
<1>. QED  BY <1>1, <1>4, <1>5 DEF Agrees

LEMMA RecordingAgrees ==
  ASSUME NEW r \in Records, NEW l \in GoodLedgers, NEW n \in Node, NEW p \in Pid,
         NEW b \in Build, Agrees(r, l), ~Has(l, n)
  PROVE  Agrees([r EXCEPT !.pid[n] = p, !.args[n] = b], Record(l, n, p))
<1> DEFINE s == [r EXCEPT !.pid[n] = p, !.args[n] = b]
<1>1. s.placed = r.placed /\ r.placed \subseteq Node /\ s.pid = [r.pid EXCEPT ![n] = p]
      /\ r.pid \in [Node -> 0..MaxPid] /\ p > 0
  BY RecordAssumption DEF Records, Pid
<1>2. l \in Ledgers
  BY DEF GoodLedgers
<1>3. Record(l, n, p).procs = [l.procs EXCEPT ![n] = Entry(l, n, p)]
  BY <1>2 DEF Record, Ledgers
<1>4. \A m \in Node : Has(Record(l, n, p), m) <=> m = n \/ Has(l, m)
  BY <1>1, <1>2, <1>3 DEF Has, Entry, Ledgers
<1>5. \A m \in Node : s.pid[m] > 0 <=> m = n \/ r.pid[m] > 0
  BY <1>1
<1> HIDE DEF s
<1>6. Agrees(s, Record(l, n, p))
  BY <1>1, <1>4, <1>5 DEF Agrees
<1>. QED  BY <1>6 DEF s

\* A step of one command leaves the others' copies alone.
LEMMA OthersKeep ==
  ASSUME Base, NEW c \in Command, Step(c), NEW d \in Command \ {c}
  PROVE  /\ pc'[d] = pc[d] /\ op'[d] = op[d] /\ todo'[d] = todo[d] /\ target'[d] = target[d]
         /\ mrec'[d] = mrec[d] /\ mled'[d] = mled[d]
<1> USE DEF Base, Files, Books, Control, Goto, mem, work, machine
<1>1. CASE Reopen(c)
  BY <1>1 DEF Reopen
<1>2. CASE OpenLedger(c)
  BY <1>2 DEF OpenLedger, Finish, Returns
<1>3. CASE Acquire(c)
  BY <1>3 DEF Acquire, Finish, Returns
<1>4. CASE SaveLedgerBegins(c)
  BY <1>4 DEF SaveLedgerBegins
<1>5. CASE SaveLedger(c)
  BY <1>5 DEF SaveLedger
<1>6. CASE SaveState(c)
  BY <1>6 DEF SaveState, Finish, Returns
<1>7. CASE SaveFails(c)
  BY <1>7 DEF SaveFails, Finish, Returns
<1>8. CASE StopNode(c)
  BY <1>8 DEF StopNode, Fail, Forgets
<1>9. CASE StartNode(c)
  BY <1>9 DEF StartNode, LaunchAndRecord, Fail, Done
<1>10. CASE SwapStops(c)
  BY <1>10 DEF SwapStops, Fail
<1>11. CASE SwapLaunches(c)
  BY <1>11 DEF SwapLaunches, Fail, Done
<1>12. CASE Stop(c)
  BY <1>12 DEF Stop, stopNodes, Forgets, Fail
<1>13. CASE StopUnrecorded(c)
  BY <1>13 DEF StopUnrecorded, Fail, Done
<1>14. CASE LaunchPlan(c)
  BY <1>14 DEF LaunchPlan, Fail, Done
<1>15. CASE startPhase(c)
  BY <1>15 DEF startPhase, Fail
<1>16. CASE LaunchNext(c)
  BY <1>16 DEF LaunchNext, Fail, Done, LaunchAndRecord
<1>17. CASE RollBackLaunch(c)
  BY <1>17 DEF RollBackLaunch, stopNodes, Forgets, Fail
<1>18. CASE Rm(c)
  BY <1>18 DEF Rm, Fail, Done
<1>19. CASE ReconcileBegins(c)
  BY <1>19 DEF ReconcileBegins
<1>20. CASE \E n \in Node : ReconcileNode(c, n)
  BY <1>20 DEF ReconcileNode, Forgets
<1>21. CASE ReconcileEnds(c)
  BY <1>21 DEF ReconcileEnds, Done, Fail
<1>22. CASE Crash(c)
  BY <1>22 DEF Crash, Returns
<1>. QED  BY <1>1, <1>2, <1>3, <1>4, <1>5, <1>6, <1>7, <1>8, <1>9, <1>10, <1>11, <1>12, <1>13, <1>14, <1>15, <1>16, <1>17, <1>18, <1>19, <1>20, <1>21, <1>22 DEF Step

\* Every step keeps its own command's copies in step.
LEMMA InStepKept ==
  ASSUME Base, NEW c \in Command, InStep(c), Step(c)
  PROVE  InStep(c)'
<1> USE DEF Base, Files, Books, Control, Goto, mem, work, machine, InStep, Loaded
<1>1. CASE Reopen(c)
  BY <1>1 DEF Reopen
<1>2. CASE OpenLedger(c)
  <2>1. CASE ledger.whole = "no"
    BY <1>2, <2>1 DEF OpenLedger, Finish, Returns
  <2>2. CASE ledger.whole # "no"
    <3>1. mrec'[c] = Synced(mrec[c], ledger) /\ mled'[c] = Seeded(mrec[c], ledger)
          /\ pc'[c] \in {"save", "acquire"}
      BY <1>2, <2>2 DEF OpenLedger
    <3>2. Agrees(Synced(mrec[c], ledger), Seeded(mrec[c], ledger))
      BY OpeningAgrees
    <3>. QED  BY <3>1, <3>2
  <2>. QED  BY <2>1, <2>2
<1>3. CASE Acquire(c)
  BY <1>3 DEF Acquire, Finish, Returns
<1>4. CASE SaveLedgerBegins(c)
  BY <1>4 DEF SaveLedgerBegins
<1>5. CASE SaveLedger(c)
  BY <1>5 DEF SaveLedger
<1>6. CASE SaveState(c)
  BY <1>6 DEF SaveState, Finish, Returns
<1>7. CASE SaveFails(c)
  BY <1>7 DEF SaveFails, Finish, Returns
<1>8. CASE StopNode(c)
  <2>1. CASE pc'[c] = "save"
    BY <2>1
  <2>2. CASE UNCHANGED mem /\ pc'[c] = "start" /\ Loaded(c)
    BY <2>2
  <2>3. CASE /\ mled'[c] = Retire(mled[c], target[c])
             /\ mrec'[c] = Without(mrec[c], {target[c]})
             /\ pc'[c] = "start" /\ Loaded(c)
    <3>1. Agrees(Without(mrec[c], {target[c]}), Retire(mled[c], target[c]))
      BY <2>3, RetiringAgrees
    <3>. QED  BY <2>3, <3>1
  <2>. QED  BY <1>8, <2>1, <2>2, <2>3 DEF StopNode, Fail, Forgets
<1>9. CASE StartNode(c)
  BY <1>9 DEF StartNode, LaunchAndRecord, Fail, Done
<1>10. CASE SwapStops(c)
  BY <1>10 DEF SwapStops, Fail
<1>11. CASE SwapLaunches(c)
  BY <1>11 DEF SwapLaunches, Fail, Done
<1>12. CASE Stop(c)
  BY <1>12 DEF Stop, stopNodes, Forgets, Fail
<1>13. CASE StopUnrecorded(c)
  BY <1>13 DEF StopUnrecorded, Fail, Done
<1>14. CASE LaunchPlan(c)
  BY <1>14 DEF LaunchPlan, Fail, Done
<1>15. CASE startPhase(c)
  <2>1. CASE pc'[c] = "save"
    BY <2>1
  <2>2. CASE pc'[c] = "launch"
    <3>1. UNCHANGED <<mrec, mled, op>> /\ todo'[c] = mrec[c].placed \ Running(c)
          /\ pc[c] = "work"
      BY <1>15, <2>2 DEF startPhase, Fail
    <3>2. mrec[c].pid \in [Node -> 0..MaxPid] /\ mrec[c].placed \subseteq Node
      BY DEF Records
    <3>3. \A n \in todo'[c] : n \in mrec[c].placed /\ mrec[c].pid[n] = 0
      BY <3>1, <3>2, RecordAssumption DEF Running
    <3>. QED  BY <3>1, <3>3
  <2>. QED  BY <1>15, <2>1, <2>2 DEF startPhase, Fail
<1>16. CASE LaunchNext(c)
  <2>1. CASE pc'[c] = "save"
    BY <2>1
  <2>2. CASE pc'[c] = "launch"
    <3>1. PICK n \in todo[c] : /\ LaunchAndRecord(c, n, Armed(c, n))
                              /\ todo' = [todo EXCEPT ![c] = @ \ {n}]
      BY <1>16, <2>2 DEF LaunchNext, Fail, Done
    <3>2. /\ pc[c] = "launch" /\ op[c] = "phase" /\ op' = op
          /\ n \in Node /\ n \in mrec[c].placed /\ mrec[c].pid[n] = 0
          /\ Agrees(mrec[c], mled[c])
      BY <1>16 DEF LaunchNext
    <3>3. ~Has(mled[c], n)
      BY <3>2 DEF Agrees
    <3>4. Armed(c, n) \in Build /\ next \in Pid
      BY <3>1, <3>2, RecordAssumption DEF Armed, Records, LaunchAndRecord, Launch
    <3>5. mled'[c] = Record(mled[c], n, next)
          /\ mrec'[c] = [mrec[c] EXCEPT !.pid[n] = next, !.args[n] = Armed(c, n)]
      BY <3>1, <3>3 DEF LaunchAndRecord
    <3> DEFINE b == Armed(c, n)
               r == mrec[c]
               l == mled[c]
    <3>10. r \in Records /\ l \in GoodLedgers /\ b \in Build
      BY <3>4
    <3>11. n \in Node /\ next \in Pid /\ Agrees(r, l) /\ ~Has(l, n)
      BY <3>2, <3>3, <3>4
    <3>12. mrec'[c] = [r EXCEPT !.pid[n] = next, !.args[n] = b]
          /\ mled'[c] = Record(l, n, next)
      BY <3>5
    <3> HIDE DEF b, r, l
    <3>13. Agrees([r EXCEPT !.pid[n] = next, !.args[n] = b], Record(l, n, next))
      BY ONLY <3>10, <3>11, RecordingAgrees
    <3>6. Agrees(mrec'[c], mled'[c])
      BY ONLY <3>12, <3>13
    <3>7. mrec'[c].placed = mrec[c].placed
          /\ \A m \in Node \ {n} : mrec'[c].pid[m] = mrec[c].pid[m]
      BY <3>2, <3>5 DEF Records
    <3>8. \A m \in todo'[c] : m \in todo[c] /\ m # n /\ m \in Node
      BY <3>1
    <3>9. \A m \in todo[c] : m \in mrec[c].placed /\ mrec[c].pid[m] = 0
      BY <3>2
    <3>. QED  BY <3>6, <3>7, <3>8, <3>9
  <2>. QED  BY <1>16, <2>1, <2>2 DEF LaunchNext, Fail, Done
<1>17. CASE RollBackLaunch(c)
  BY <1>17 DEF RollBackLaunch, stopNodes, Forgets, Fail
<1>18. CASE Rm(c)
  BY <1>18 DEF Rm, Fail, Done
<1>19. CASE ReconcileBegins(c)
  BY <1>19 DEF ReconcileBegins
<1>20. CASE \E n \in Node : ReconcileNode(c, n)
  BY <1>20 DEF ReconcileNode, Forgets
<1>21. CASE ReconcileEnds(c)
  BY <1>21 DEF ReconcileEnds, Done, Fail
<1>22. CASE Crash(c)
  BY <1>22 DEF Crash, Returns
<1>. QED  BY <1>1, <1>2, <1>3, <1>4, <1>5, <1>6, <1>7, <1>8, <1>9, <1>10, <1>11, <1>12, <1>13, <1>14, <1>15, <1>16, <1>17, <1>18, <1>19, <1>20, <1>21, <1>22 DEF Step

-----------------------------------------------------------------------------
(* What a command knows of the live processes. *)

\* What the operations on a ledger leave of its entries.
LEMMA ClearOperations ==
  ASSUME NEW l \in GoodLedgers
  PROVE  /\ \A S : /\ ClearAll(l, S).whole = l.whole
                   /\ ClearAll(l, S).procs = [m \in Node |-> IF m \in S THEN Absent ELSE l.procs[m]]
         /\ \A n \in Node :
              /\ Retire(l, n).whole = l.whole
              /\ Retire(l, n).procs = [m \in Node |-> IF m \in {n} THEN Absent ELSE l.procs[m]]
<1>1. l \in Ledgers
  BY DEF GoodLedgers
<1>2. \A S : /\ ClearAll(l, S).whole = l.whole
            /\ ClearAll(l, S).procs = [m \in Node |-> IF m \in S THEN Absent ELSE l.procs[m]]
  BY <1>1 DEF ClearAll, Ledgers
<1>3. ASSUME NEW n \in Node
      PROVE  /\ Retire(l, n).whole = l.whole
             /\ Retire(l, n).procs = [m \in Node |-> IF m \in {n} THEN Absent ELSE l.procs[m]]
  <2>1. Archive(l, n) \in Ledgers /\ Archive(l, n).procs = l.procs
    BY ArchiveNumbers
  <2>2. Archive(l, n).whole = l.whole
    BY <1>1 DEF Archive, Ledgers
  <2>. QED  BY <2>1, <2>2 DEF Retire, Clear, ClearAll, Ledgers
<1>. QED  BY <1>2, <1>3

LEMMA EntryOperations ==
  ASSUME NEW l \in GoodLedgers, NEW n \in Node, NEW p \in Pid
  PROVE  /\ Record(l, n, p).whole = l.whole
         /\ ~Has(l, n) => /\ Record(l, n, p).procs[n].pid = p
                          /\ \A m \in Node \ {n} : Record(l, n, p).procs[m] = l.procs[m]
         /\ Supersede(l, n, p).whole = l.whole
         /\ Supersede(l, n, p).procs[n].pid = p
         /\ \A m \in Node \ {n} : Supersede(l, n, p).procs[m] = l.procs[m]
<1>1. l \in Ledgers
  BY DEF GoodLedgers
<1>2. Archive(l, n) \in Ledgers /\ Archive(l, n).procs = l.procs
  BY ArchiveNumbers
<1>3. Archive(l, n).whole = l.whole
  BY <1>1 DEF Archive, Ledgers
<1>4. /\ Record(l, n, p).whole = l.whole
      /\ ~Has(l, n) => /\ Record(l, n, p).procs[n].pid = p
                       /\ \A m \in Node \ {n} : Record(l, n, p).procs[m] = l.procs[m]
  BY <1>1 DEF Record, Ledgers, Entry
<1>5. PICK a \in Ledgers : a = Archive(l, n)
  BY <1>2
<1>6. PICK e : e = Entry(a, n, p)
  OBVIOUS
<1>7. Supersede(l, n, p) = [a EXCEPT !.procs[n] = e] /\ e.pid = p
  BY <1>5, <1>6 DEF Supersede, Entry
<1>. QED  BY <1>2, <1>3, <1>4, <1>5, <1>7 DEF Ledgers

\* The entries of S aside, a pid stays recorded.
LEMMA StaysRecorded ==
  ASSUME NEW l, NEW k, NEW S, \A m \in Node \ S : k.procs[m] = l.procs[m],
         NEW p \in Recorded(l), \A m \in S : m \in Node => l.procs[m].pid # p
  PROVE  p \in Recorded(k)
<1>1. PICK m \in Node : Has(l, m) /\ p = l.procs[m].pid
  BY DEF Recorded
<1>2. m \notin S /\ k.procs[m] = l.procs[m]
  BY <1>1
<1>. QED  BY <1>1, <1>2 DEF Recorded, Has

LEMMA SeedingKeeps ==
  ASSUME NEW r \in Records, NEW l \in GoodLedgers
  PROVE  /\ Seeded(r, l).whole = l.whole
         /\ Recorded(l) \subseteq Recorded(Seeded(r, l))
<1>1. /\ Seeded(r, l).whole = l.whole
      /\ Seeded(r, l).procs = [n \in Node |->
            IF n \in Unseeded(r, l) THEN Entry(l, n, r.pid[n]) ELSE l.procs[n]]
  BY DEF Seeded, GoodLedgers, Ledgers
<1>2. \A m \in Node : Has(l, m) => Seeded(r, l).procs[m] = l.procs[m]
  BY <1>1 DEF Unseeded
<1>. QED  BY <1>1, <1>2 DEF Recorded, Has

\* The state and the ledger name the same pid for each node of the table.
Matches(r, l) == \A n \in r.placed : l.procs[n].pid = r.pid[n]

Follows(c) == pc[c] \in {"acquire", "work", "start"} \/ (pc[c] = "launch" /\ op[c] = "phase")

\* From its opening to its last launch a command's two copies name the same pids.
Paired(c) ==
  /\ Follows(c) => Matches(mrec[c], mled[c])
  /\ pc[c] = "start" /\ op[c] = "reconcile" => todo[c] \subseteq mrec[c].placed

\* A command has read a whole ledger.
Whole(c) == mled[c].whole = "yes"

\* A ledger in pieces is being written, or names nobody.
Torn ==
  ledger.whole # "yes" => \/ \E c \in Command : pc[c] = "write"
                          \/ \A p \in alive : running[p].by # "ledger"

\* A command works on the nodes under the lock.
Locked(c) == pc[c] \in {"work", "start", "launch", "sweep"} => lock = c

\* Where a command may have launched what it has not written down yet.
Hands == {"work", "start", "launch", "sweep", "save", "write"}

\* Every live process that was written down is in the ledger, and in the copy of a
\* command at work that no other one has written since, which also has what the command
\* launched; the process a swap took down is gone.
Held(c) ==
  /\ \A p \in alive :
       /\ running[p].by = "ledger" => p \in Recorded(ledger)
       /\ running[p].by = c => pc[c] \in Hands
       /\ pc[c] \in Hands \cup {"acquire"} /\ running[p].by = c => p \in Recorded(mled[c])
       /\ pc[c] \in Hands \cup {"acquire"} /\ c \notin stale /\ running[p].by = "ledger"
            => p \in Recorded(mled[c])
  /\ pc[c] = "launch" /\ op[c] = "swap" => mled[c].procs[target[c]].pid \notin alive

LEMMA OpeningMatches ==
  ASSUME NEW r \in Records, NEW l \in GoodLedgers
  PROVE  Matches(Synced(r, l), Seeded(r, l))
<1>1. l \in Ledgers
  BY DEF GoodLedgers
<1>2. Synced(r, l).placed = r.placed /\ r.placed \subseteq Node
      /\ Synced(r, l).pid = [n \in Node |->
            IF n \in r.placed /\ Has(l, n) THEN l.procs[n].pid ELSE r.pid[n]]
  BY DEF Synced, Records
<1>3. Seeded(r, l).procs = [n \in Node |->
            IF n \in Unseeded(r, l) THEN Entry(l, n, r.pid[n]) ELSE l.procs[n]]
  BY <1>1 DEF Seeded, Ledgers
<1>4. ASSUME NEW n \in r.placed
      PROVE  Seeded(r, l).procs[n].pid = Synced(r, l).pid[n]
  <2>0. n \in Node /\ r.pid[n] \in 0..MaxPid /\ l.procs[n].pid \in 0..MaxPid
    BY <1>1 DEF Records, Ledgers, Entries
  <2>1. CASE Has(l, n)
    BY <1>2, <1>3, <2>0, <2>1 DEF Unseeded
  <2>2. CASE ~Has(l, n) /\ r.pid[n] > 0
    BY <1>2, <1>3, <2>0, <2>2 DEF Unseeded, Entry
  <2>3. CASE ~Has(l, n) /\ ~(r.pid[n] > 0)
    <3>1. r.pid[n] = 0 /\ l.procs[n].pid = 0
      BY <2>0, <2>3, RecordAssumption DEF Has
    <3>. QED  BY <1>2, <1>3, <2>0, <2>3, <3>1 DEF Unseeded
  <2>. QED  BY <2>1, <2>2, <2>3
<1>. QED  BY <1>2, <1>4 DEF Matches

\* What a command makes of a whole ledger is whole.
LEMMA WholeStep ==
  ASSUME Base, NEW c \in Command, Whole(c), Step(c)
  PROVE  Whole(c)'
<1> USE Blanks DEF Base, Files, Books, Control, Whole, Goto, mem, work, machine
<1>01. NewLedger.whole = "yes"
  BY DEF NewLedger
<1>02. ASSUME NEW n \in Node, NEW p \in Pid
       PROVE  Record(mled[c], n, p).whole = "yes" /\ Supersede(mled[c], n, p).whole = "yes"
  BY EntryOperations
<1>03. \A n \in Node : Retire(mled[c], n).whole = "yes"
  BY ClearOperations
<1>04. \A S : ClearAll(mled[c], S).whole = "yes"
  BY ClearOperations
<1>1. CASE Reopen(c)
  BY <1>1 DEF Reopen
<1>2. CASE OpenLedger(c)
  <2>1. Seeded(mrec[c], ledger).whole = ledger.whole /\ ledger.whole \in {"yes", "no"}
    BY SeedingKeeps DEF GoodLedgers, Ledgers
  <2>. QED  BY <1>01, <1>2, <2>1 DEF OpenLedger, Finish, Returns
<1>3. CASE Acquire(c)
  BY <1>01, <1>3 DEF Acquire, Finish, Returns
<1>4. CASE SaveLedgerBegins(c)
  BY <1>4 DEF SaveLedgerBegins
<1>5. CASE SaveLedger(c)
  BY <1>5 DEF SaveLedger
<1>6. CASE SaveState(c)
  BY <1>01, <1>6 DEF SaveState, Finish, Returns
<1>7. CASE SaveFails(c)
  BY <1>01, <1>7 DEF SaveFails, Finish, Returns
<1>8. CASE StopNode(c)
  <2>1. mled' = mled \/ mled' = [mled EXCEPT ![c] = Retire(mled[c], target[c])]
    BY <1>8 DEF StopNode
  <2>2. ledger' = ledger /\ pc[c] # "write"
    BY <1>8 DEF StopNode
  <2>. QED  BY <1>03, <2>1, <2>2
<1>9. CASE StartNode(c) \/ LaunchNext(c)
  <2>1. mled' = mled \/ \E n \in Node : next \in Pid /\ mled' = [mled EXCEPT ![c] = Record(mled[c], n, next)]
    BY <1>9 DEF StartNode, LaunchNext, LaunchAndRecord, Launch
  <2>2. ledger' = ledger /\ pc[c] # "write"
    BY <1>9 DEF StartNode, LaunchNext
  <2>. QED  BY <1>02, <2>1, <2>2
<1>10. CASE SwapStops(c)
  BY <1>10 DEF SwapStops, Fail
<1>11. CASE SwapLaunches(c)
  <2>1. \/ mled' = [mled EXCEPT ![c] = Retire(mled[c], target[c])]
        \/ next \in Pid /\ mled' = [mled EXCEPT ![c] = Supersede(mled[c], target[c], next)]
    BY <1>11 DEF SwapLaunches, Launch
  <2>2. ledger' = ledger /\ pc[c] # "write" /\ target[c] \in Node
    BY <1>11 DEF SwapLaunches
  <2>. QED  BY <1>02, <1>03, <2>1, <2>2
<1>12. CASE Stop(c) \/ RollBackLaunch(c)
  <2>1. PICK S : mled' = [mled EXCEPT ![c] = ClearAll(mled[c], S)]
    BY <1>12 DEF Stop, RollBackLaunch, stopNodes
  <2>2. ledger' = ledger /\ pc[c] # "write"
    BY <1>12 DEF Stop, RollBackLaunch
  <2>. QED  BY <1>04, <2>1, <2>2
<1>13. CASE StopUnrecorded(c) \/ LaunchPlan(c) \/ startPhase(c) \/ Rm(c) \/ ReconcileBegins(c) \/ ReconcileEnds(c)
  BY <1>13 DEF StopUnrecorded, LaunchPlan, startPhase, Rm, ReconcileBegins, ReconcileEnds, Fail, Done
<1>20. CASE \E n \in Node : ReconcileNode(c, n)
  <2>1. PICK n \in Node : ReconcileNode(c, n)
    BY <1>20
  <2>2. \/ mled' = mled
        \/ mled' = [mled EXCEPT ![c] = ClearAll(mled[c], {n})]
        \/ \E p \in alive : mled' = [mled EXCEPT ![c] = Record(mled[c], n, p)]
    BY <2>1 DEF ReconcileNode, orphanOf, Clear
  <2>3. alive \subseteq Pid
    BY RecordAssumption DEF Machine, Pid
  <2>4. ledger' = ledger /\ pc[c] # "write"
    BY <2>1 DEF ReconcileNode
  <2>. QED  BY <1>02, <1>04, <2>2, <2>3, <2>4
<1>22. CASE Crash(c)
  BY <1>01, <1>22 DEF Crash, Returns
<1>. QED  BY <1>1, <1>2, <1>3, <1>4, <1>5, <1>6, <1>7, <1>8, <1>9, <1>10, <1>11, <1>12, <1>13, <1>20, <1>22 DEF Step

\* What a launch enters is what the state then names.
LEMMA RecordingMatches ==
  ASSUME NEW r \in Records, NEW l \in GoodLedgers, NEW n \in Node, NEW p \in Pid,
         NEW s, s.placed = r.placed, s.pid = [r.pid EXCEPT ![n] = p],
         Matches(r, l), ~Has(l, n)
  PROVE  Matches(s, Record(l, n, p))
<1>1. r.placed \subseteq Node /\ r.pid \in [Node -> 0..MaxPid]
  BY DEF Records
<1>2. /\ Record(l, n, p).procs[n].pid = p
      /\ \A m \in Node \ {n} : Record(l, n, p).procs[m] = l.procs[m]
  BY EntryOperations
<1>. QED  BY <1>1, <1>2 DEF Matches

\* What is cleared is forgotten in both.
LEMMA ForgettingMatches ==
  ASSUME NEW r \in Records, NEW k, NEW l \in GoodLedgers, NEW S, Matches(r, l),
         k.procs = [m \in Node |-> IF m \in S THEN Absent ELSE l.procs[m]]
  PROVE  Matches(Without(r, S), k)
<1>1. Without(r, S).placed = r.placed /\ r.placed \subseteq Node
      /\ Without(r, S).pid = [m \in Node |-> IF m \in S THEN 0 ELSE r.pid[m]]
  BY DEF Without, Records
<1>. QED  BY <1>1 DEF Matches, Absent

\* Every step keeps its own command's copies paired.
LEMMA PairedStep ==
  ASSUME Base, NEW c \in Command, InStep(c), Paired(c), Step(c)
  PROVE  Paired(c)'
<1>0. /\ mrec \in [Command -> Records] /\ mled \in [Command -> GoodLedgers]
      /\ record \in Records /\ ledger \in GoodLedgers /\ target[c] \in Node
      /\ c \in DOMAIN pc /\ c \in DOMAIN op /\ c \in DOMAIN todo
  BY DEF Base, Files, Books, Control
<1> USE <1>0 DEF Goto, mem, work, machine, Paired, Follows
<1>1. CASE Reopen(c)
  BY <1>1 DEF Reopen
<1>2. CASE OpenLedger(c)
  <2>1. CASE ledger.whole = "no"
    BY <1>2, <2>1 DEF OpenLedger, Finish, Returns
  <2>2. CASE ledger.whole # "no"
    <3>1. mrec'[c] = Synced(mrec[c], ledger) /\ mled'[c] = Seeded(mrec[c], ledger)
          /\ pc'[c] \in {"save", "acquire"}
      BY <1>2, <2>2 DEF OpenLedger
    <3>2. Matches(Synced(mrec[c], ledger), Seeded(mrec[c], ledger))
      BY OpeningMatches
    <3>. QED  BY <3>1, <3>2
  <2>. QED  BY <2>1, <2>2
<1>3. CASE Acquire(c)
  BY <1>3 DEF Acquire, Finish, Returns
<1>4. CASE SaveLedgerBegins(c)
  BY <1>4 DEF SaveLedgerBegins
<1>5. CASE SaveLedger(c)
  BY <1>5 DEF SaveLedger
<1>6. CASE SaveState(c)
  BY <1>6 DEF SaveState, Finish, Returns
<1>7. CASE SaveFails(c)
  BY <1>7 DEF SaveFails, Finish, Returns
<1>8. CASE StopNode(c)
  <2>1. CASE pc'[c] = "save"
    BY <2>1
  <2>2. CASE UNCHANGED mem /\ pc'[c] = "start" /\ Follows(c) /\ op'[c] = "restart"
    BY <2>2
  <2>3. CASE /\ mled'[c] = Retire(mled[c], target[c])
             /\ mrec'[c] = Without(mrec[c], {target[c]})
             /\ pc'[c] = "start" /\ Follows(c) /\ op'[c] = "restart"
    <3>1. Matches(mrec[c], mled[c])
      BY <2>3
    <3>2. Retire(mled[c], target[c]).procs =
            [m \in Node |-> IF m \in {target[c]} THEN Absent ELSE mled[c].procs[m]]
      BY ClearOperations
    <3>3. Matches(Without(mrec[c], {target[c]}), Retire(mled[c], target[c]))
      BY <3>1, <3>2, ForgettingMatches
    <3>. QED  BY <2>3, <3>3
  <2>. QED  BY <1>8, <2>1, <2>2, <2>3 DEF StopNode, Fail, Forgets
<1>9. CASE StartNode(c)
  BY <1>9 DEF StartNode, LaunchAndRecord, Fail, Done
<1>10. CASE SwapStops(c)
  BY <1>10 DEF SwapStops, Fail
<1>11. CASE SwapLaunches(c)
  BY <1>11 DEF SwapLaunches, Fail, Done
<1>12. CASE Stop(c) \/ RollBackLaunch(c)
  BY <1>12 DEF Stop, RollBackLaunch, stopNodes, Forgets, Fail
<1>13. CASE StopUnrecorded(c) \/ LaunchPlan(c) \/ Rm(c) \/ ReconcileEnds(c)
  BY <1>13 DEF StopUnrecorded, LaunchPlan, Rm, ReconcileEnds, Fail, Done
<1>15. CASE startPhase(c)
  BY <1>15 DEF startPhase, Fail
<1>16. CASE LaunchNext(c)
  <2>1. CASE pc'[c] = "save"
    BY <2>1
  <2>2. CASE pc'[c] = "launch"
    <3>1. PICK n \in todo[c] : LaunchAndRecord(c, n, Armed(c, n))
      BY <1>16, <2>2 DEF LaunchNext, Fail, Done
    <3>2. /\ n \in Node /\ n \in mrec[c].placed /\ mrec[c].pid[n] = 0
          /\ Matches(mrec[c], mled[c]) /\ next \in Pid
      BY <1>16, <3>1 DEF LaunchNext, InStep, Records, LaunchAndRecord, Launch
    <3>3. ~Has(mled[c], n)
      BY <3>2 DEF Matches, Has
    <3>4. /\ mled'[c] = Record(mled[c], n, next)
          /\ mrec'[c].placed = mrec[c].placed /\ mrec'[c].pid = [mrec[c].pid EXCEPT ![n] = next]
      BY <3>1, <3>2, <3>3 DEF LaunchAndRecord, Records
    <3>5. Matches(mrec'[c], Record(mled[c], n, next))
      BY <3>2, <3>3, <3>4, RecordingMatches
    <3>. QED  BY <2>2, <3>4, <3>5
  <2>. QED  BY <1>16, <2>1, <2>2 DEF LaunchNext, Fail, Done
<1>19. CASE ReconcileBegins(c)
  BY <1>19 DEF ReconcileBegins
<1>20. CASE \E n \in Node : ReconcileNode(c, n)
  <2>1. PICK n \in Node : ReconcileNode(c, n)
    BY <1>20
  <2>2. /\ pc[c] = "start" /\ op[c] = "reconcile" /\ n \in todo[c] /\ UNCHANGED <<pc, op>>
        /\ todo'[c] = todo[c] \ {n} /\ n \in mrec[c].placed /\ Matches(mrec[c], mled[c])
    BY <2>1 DEF ReconcileNode
  <2>3. CASE UNCHANGED mem
    BY <2>2, <2>3
  <2>4. CASE mled'[c] = ClearAll(mled[c], {n}) /\ mrec'[c] = Without(mrec[c], {n})
    <3>1. Matches(mrec'[c], mled'[c])
      <4>1. ClearAll(mled[c], {n}).procs =
              [m \in Node |-> IF m \in {n} THEN Absent ELSE mled[c].procs[m]]
        BY ClearOperations
      <4>2. Matches(Without(mrec[c], {n}), ClearAll(mled[c], {n}))
        BY <2>2, <4>1, ForgettingMatches
      <4>. QED  BY <2>4, <4>2
    <3>2. mrec'[c].placed = mrec[c].placed
      BY <2>4 DEF Without, Records
    <3>. QED  BY <2>2, <3>1, <3>2
  <2>5. CASE \E p \in alive : /\ mled'[c] = Record(mled[c], n, p) /\ mrec[c].pid[n] = 0
                              /\ mrec'[c] = [mrec[c] EXCEPT !.pid[n] = p]
    <3>1. PICK p \in alive : /\ mled'[c] = Record(mled[c], n, p) /\ mrec[c].pid[n] = 0
                             /\ mrec'[c] = [mrec[c] EXCEPT !.pid[n] = p]
      BY <2>5
    <3>2. p \in Pid
      BY RecordAssumption DEF Base, Machine, Pid
    <3>3. ~Has(mled[c], n)
      BY <2>2, <3>1 DEF Matches, Has
    <3>4. mrec'[c].placed = mrec[c].placed /\ mrec'[c].pid = [mrec[c].pid EXCEPT ![n] = p]
      BY <3>1 DEF Records
    <3>5. Matches(mrec'[c], Record(mled[c], n, p))
      BY <2>2, <3>2, <3>3, <3>4, RecordingMatches
    <3>. QED  BY <2>2, <3>1, <3>4, <3>5
  <2>. QED  BY <2>1, <2>3, <2>4, <2>5 DEF ReconcileNode, Forgets, Clear, orphanOf
<1>22. CASE Crash(c)
  BY <1>22 DEF Crash, Returns
<1>. QED  BY <1>1, <1>2, <1>3, <1>4, <1>5, <1>6, <1>7, <1>8, <1>9, <1>10, <1>11, <1>12, <1>13, <1>15, <1>16, <1>19, <1>20, <1>22 DEF Step

\* A command that has launched nothing opens, reopens, or ends.
LEMMA HeldAtRest ==
  ASSUME NEW c \in Command, Held(c), running' = running, Recorded(ledger)' = Recorded(ledger),
         pc[c] \notin Hands, pc'[c] \notin Hands \cup {"acquire"}
  PROVE  Held(c)'
BY DEF Held, Hands, alive

\* Of the live processes those of K go.
Loses(K) == DOMAIN running' = alive \ K /\ \A p \in alive \ K : running'[p] = running[p]

LEMMA Losing ==
  /\ running' = running => Loses({})
  /\ \A K : Kills(K) => Loses(K)
BY DEF Loses, Kills, alive

\* A command at work takes processes down, or nothing, and drops from its ledger none
\* that is still up.
LEMMA HeldAtWork ==
  ASSUME NEW c \in Command, Held(c), Recorded(ledger)' = Recorded(ledger),
         NEW K, Loses(K), c \in stale => c \in stale',
         pc[c] \in Hands \cup {"acquire"}, pc'[c] \in Hands,
         \A p \in alive \ K : p \in Recorded(mled[c]) => p \in Recorded(mled'[c]),
         pc'[c] = "launch" /\ op'[c] = "swap" => mled'[c].procs[target'[c]].pid \notin alive \ K
  PROVE  Held(c)'
<1>1. alive' = alive \ K /\ \A p \in alive' : running'[p] = running[p]
  BY DEF alive, Loses
<1>2. ASSUME NEW p \in alive'
      PROVE  /\ running'[p].by = "ledger" => p \in Recorded(ledger')
             /\ running'[p].by = c => pc'[c] \in Hands
             /\ running'[p].by = c => p \in Recorded(mled'[c])
             /\ c \notin stale' /\ running'[p].by = "ledger" => p \in Recorded(mled'[c])
  BY <1>1 DEF Held
<1>. QED  BY <1>1, <1>2 DEF Held

\* A command at work launches what its ledger then has.
LEMMA HeldLaunching ==
  ASSUME Base, NEW c \in Command, Held(c), ledger' = ledger, NEW n, NEW b, Launch(c, n, b),
         c \in stale => c \in stale',
         pc[c] \in Hands, pc'[c] \in Hands, ~(pc'[c] = "launch" /\ op'[c] = "swap"),
         next \in Recorded(mled'[c]),
         \A p \in alive : p \in Recorded(mled[c]) => p \in Recorded(mled'[c])
  PROVE  Held(c)'
<1>1. \A p \in alive' : \/ p \in alive /\ running'[p] = running[p]
                        \/ p = next /\ running'[p].by = c
  BY DEF Launch, alive
<1>2. c # "ledger"
  BY RecordAssumption DEF Fates
<1>3. ASSUME NEW p \in alive'
      PROVE  /\ running'[p].by = "ledger" => p \in Recorded(ledger')
             /\ running'[p].by = c => pc'[c] \in Hands
             /\ running'[p].by = c => p \in Recorded(mled'[c])
             /\ c \notin stale' /\ running'[p].by = "ledger" => p \in Recorded(mled'[c])
  BY <1>1, <1>2 DEF Held
<1>. QED  BY <1>3 DEF Held

\* What a command launched and did not write down is nobody's.
LEMMA HeldForsaken ==
  ASSUME Base, NEW c \in Command, Held(c), ledger' = ledger, Forsakes(c) \/ Tears(c),
         pc'[c] \notin Hands \cup {"acquire"}
  PROVE  Held(c)'
<1>1. c # "lost" /\ c # "torn" /\ "lost" # "ledger" /\ "torn" # "ledger"
  BY RecordAssumption DEF Fates
<1>2. \A p \in alive, f \in {"lost", "torn"} : [running[p] EXCEPT !.by = f].by = f
  BY DEF Base, Machine, Processes
<1>3. alive' = alive /\ \A p \in alive : \/ running'[p] = running[p] /\ running[p].by # c
                                         \/ running'[p].by \in {"lost", "torn"}
  BY <1>2 DEF Forsakes, Tears, alive
<1>. QED  BY <1>1, <1>3 DEF Held, Hands

\* What stopOwned takes down and the ledger drops are the same processes.
LEMMA StoppingHolds ==
  ASSUME Base, NEW c \in Command, Matches(mrec[c], mled[c]),
         NEW S \in SUBSET mrec[c].placed, NEW k,
         k.procs = [m \in Node |-> IF m \in S THEN Absent ELSE mled[c].procs[m]],
         NEW p \in alive \ {mrec[c].pid[n] : n \in S}, p \in Recorded(mled[c])
  PROVE  p \in Recorded(k)
<1>1. \A m \in S : mled[c].procs[m].pid # p
  BY DEF Matches
<1>2. \A m \in Node \ S : k.procs[m] = mled[c].procs[m]
  OBVIOUS
<1>. QED  BY <1>1, <1>2, StaysRecorded

\* A command at work is stale until it ends.
LEMMA StaleKept ==
  ASSUME NEW c \in Command, Base, Step(c), pc[c] \in Hands \cup {"acquire"}, pc'[c] \in Hands
  PROVE  c \in stale => c \in stale'
<1> USE DEF Hands, Goto, work, Base, Control
<1>1. CASE Acquire(c)
  BY <1>1 DEF Acquire, Finish, Returns
<1>2. CASE SaveLedgerBegins(c) \/ SaveLedger(c) \/ SaveState(c) \/ SaveFails(c)
  BY <1>2 DEF SaveLedgerBegins, SaveLedger, SaveState, SaveFails, Finish, Returns
<1>3. CASE StopNode(c) \/ StartNode(c) \/ SwapStops(c) \/ SwapLaunches(c) \/ Stop(c)
  BY <1>3 DEF StopNode, StartNode, SwapStops, SwapLaunches, Stop
<1>4. CASE StopUnrecorded(c) \/ LaunchPlan(c) \/ startPhase(c) \/ LaunchNext(c)
           \/ RollBackLaunch(c) \/ Rm(c)
  BY <1>4 DEF StopUnrecorded, LaunchPlan, startPhase, LaunchNext, RollBackLaunch, Rm
<1>5. CASE ReconcileBegins(c) \/ (\E n \in Node : ReconcileNode(c, n)) \/ ReconcileEnds(c)
  BY <1>5 DEF ReconcileBegins, ReconcileNode, ReconcileEnds
<1>6. CASE Crash(c) \/ Reopen(c) \/ OpenLedger(c)
  BY <1>6 DEF Crash, Returns, Reopen, OpenLedger
<1>. QED  BY <1>1, <1>2, <1>3, <1>4, <1>5, <1>6 DEF Step

\* Every step of a command keeps what it knows of the live processes.
LEMMA HeldStep ==
  ASSUME Base, NEW c \in Command, InStep(c), Paired(c), Held(c), Step(c)
  PROVE  Held(c)'
<1>0. /\ mrec \in [Command -> Records] /\ mled \in [Command -> GoodLedgers]
      /\ record \in Records /\ ledger \in GoodLedgers /\ target[c] \in Node
      /\ c \in DOMAIN pc /\ c \in DOMAIN op /\ c \in DOMAIN todo
      /\ mrec[c].placed \subseteq Node /\ mrec[c].pid \in [Node -> 0..MaxPid]
      /\ mled[c].procs \in [Node -> Entries]
  BY DEF Base, Files, Books, Control, Records, GoodLedgers, Ledgers
<1>01. ledger' = ledger => Recorded(ledger)' = Recorded(ledger)
  OBVIOUS
<1>02. running' = running => Loses({})
  BY Losing
<1>03. pc[c] \in Hands \cup {"acquire"} /\ pc'[c] \in Hands /\ c \in stale => c \in stale'
  BY StaleKept
<1> USE <1>0 DEF Goto, mem, work, machine
<1>1. CASE Reopen(c)
  <2>1. pc[c] = "record" /\ pc'[c] = "ledger" /\ running' = running /\ ledger' = ledger
    BY <1>1 DEF Reopen
  <2>. QED  BY <1>01, <2>1, HeldAtRest DEF Hands
<1>2. CASE OpenLedger(c)
  <2>0. pc[c] = "ledger" /\ running' = running /\ ledger' = ledger
    BY <1>2 DEF OpenLedger
  <2>1. CASE ledger.whole = "no"
    <3>1. pc'[c] \in {"idle", "record"}
      BY <1>2, <2>1 DEF OpenLedger, Finish, Returns
    <3>. QED  BY <1>01, <2>0, <3>1, HeldAtRest DEF Hands
  <2>2. CASE ledger.whole # "no"
    <3>1. mled'[c] = Seeded(mrec[c], ledger) /\ pc'[c] \in {"save", "acquire"}
      BY <1>2, <2>2 DEF OpenLedger
    <3>2. Recorded(ledger) \subseteq Recorded(mled'[c])
      BY <3>1, SeedingKeeps
    <3>. QED  BY <1>01, <2>0, <3>1, <3>2 DEF Held, Hands, alive
  <2>. QED  BY <2>1, <2>2
<1>3. CASE Acquire(c)
  <2>0. pc[c] = "acquire" /\ running' = running /\ ledger' = ledger
    BY <1>3 DEF Acquire
  <2>1. CASE lock = NoCommand
    <3>1. pc'[c] = "work" /\ mled' = mled
      BY <1>3, <2>1 DEF Acquire
    <3>. QED  BY <1>01, <1>02, <2>0, <3>1, <1>03, HeldAtWork DEF Hands
  <2>2. CASE lock # NoCommand
    <3>1. pc'[c] \in {"idle", "record"}
      BY <1>3, <2>2 DEF Acquire, Finish, Returns
    <3>. QED  BY <1>01, <2>0, <3>1, HeldAtRest DEF Hands
  <2>. QED  BY <2>1, <2>2
<1>4. CASE SaveLedgerBegins(c)
  <2>1. pc[c] = "save" /\ pc'[c] = "write" /\ running' = running /\ mled' = mled
        /\ ledger' = [ledger EXCEPT !.whole = "no"]
    BY <1>4 DEF SaveLedgerBegins
  <2>2. ledger'.procs = ledger.procs
    BY <2>1 DEF GoodLedgers, Ledgers
  <2>3. Recorded(ledger') = Recorded(ledger)
    BY <2>2 DEF Recorded, Has
  <2>. QED  BY <1>02, <2>1, <2>3, <1>03, HeldAtWork DEF Hands
<1>5. CASE SaveLedger(c)
  <2>1. pc[c] = "write" /\ pc'[c] = "manifest" /\ ledger' = mled[c]
    BY <1>5 DEF SaveLedger
  <2>2. c # "ledger"
    BY RecordAssumption DEF Fates
  <2>3. \A p \in alive : [running[p] EXCEPT !.by = "ledger"].by = "ledger"
    BY DEF Base, Machine, Processes
  <2>4. alive' = alive /\ \A p \in alive :
          \/ (running[p].by = c \/ p \in Recorded(mled[c])) /\ running'[p].by = "ledger"
          \/ running'[p].by = "overwritten"
          \/ running[p].by # c /\ running'[p] = running[p] /\ (running[p].by = "ledger" => c \notin stale)
    <3>1. \A p \in alive : [running[p] EXCEPT !.by = "overwritten"].by = "overwritten"
      BY DEF Base, Machine, Processes
    <3>. QED  BY <1>5, <2>3, <3>1 DEF SaveLedger, alive
  <2>5. ASSUME NEW p \in alive'
        PROVE  running'[p].by # c /\ (running'[p].by = "ledger" => p \in Recorded(ledger'))
    <3>1. c # "overwritten"
      BY RecordAssumption DEF Fates
    <3>. QED  BY <2>1, <2>2, <2>4, <3>1 DEF Held, Hands
  <2>. QED  BY <2>1, <2>5 DEF Held, Hands
<1>6. CASE SaveState(c)
  <2>1. pc[c] = "manifest" /\ pc'[c] \in {"idle", "record"} /\ running' = running /\ ledger' = ledger
    BY <1>6 DEF SaveState, Finish, Returns
  <2>. QED  BY <1>01, <2>1, HeldAtRest DEF Hands
<1>7. CASE SaveFails(c)
  <2>1. pc'[c] \in {"idle", "record"} /\ Forsakes(c) /\ ledger' = ledger
    BY <1>7 DEF SaveFails, Finish, Returns
  <2>. QED  BY <2>1, HeldForsaken DEF Hands
<1>8. CASE StopNode(c)
  <2>0. /\ pc[c] = "work" /\ pc'[c] \in {"start", "save"} /\ ledger' = ledger
        /\ Matches(mrec[c], mled[c])
    BY <1>8 DEF StopNode, Fail, Paired, Follows
  <2>1. CASE mled' = mled /\ \E K : Loses(K)
    BY <1>01, <2>0, <2>1, <1>03, HeldAtWork DEF Hands
  <2>2. CASE /\ mled'[c] = Retire(mled[c], target[c]) /\ target[c] \in mrec[c].placed
             /\ Kills({mrec[c].pid[n] : n \in {target[c]}})
    <3>1. mled'[c].procs =
            [m \in Node |-> IF m \in {target[c]} THEN Absent ELSE mled[c].procs[m]]
      <4>1. mled'[c] = Retire(mled[c], target[c])
        BY <2>2
      <4>. QED  BY <4>1, ClearOperations
    <3> DEFINE K == {mrec[c].pid[n] : n \in {target[c]}}
    <3>2. \A p \in alive \ K : p \in Recorded(mled[c]) => p \in Recorded(mled'[c])
      BY <2>0, <2>2, <3>1, StoppingHolds
    <3>3. Loses(K)
      BY <2>2, Losing
    <3> HIDE DEF K
    <3>. QED  BY <1>01, <2>0, <3>2, <3>3, <1>03, HeldAtWork DEF Hands
  <2>3. running' = running \/ \E K : Kills(K)
    BY <1>8 DEF StopNode, stopOwned
  <2>4. \E K : Loses(K)
    BY <2>3, Losing
  <2>5. \/ mled' = mled
        \/ /\ mled' = [mled EXCEPT ![c] = Retire(@, target[c])] /\ target[c] \in mrec[c].placed
           /\ stopOwned(c, {target[c]}, {})
    BY <1>8 DEF StopNode
  <2>6. ASSUME stopOwned(c, {target[c]}, {})
        PROVE  Kills({mrec[c].pid[n] : n \in {target[c]}})
    <3>1. {target[c]} \ {} = {target[c]}
      OBVIOUS
    <3>. QED  BY <2>6, <3>1 DEF stopOwned
  <2>. QED  BY <2>1, <2>2, <2>4, <2>5, <2>6
<1>9. CASE StartNode(c)
  <2>0. pc[c] \in {"work", "start"} /\ pc'[c] = "save" /\ ledger' = ledger
        /\ Matches(mrec[c], mled[c])
    BY <1>9 DEF StartNode, Fail, Done, Paired, Follows
  <2>1. CASE UNCHANGED <<mem, machine>>
    BY <1>01, <1>02, <2>0, <2>1, <1>03, HeldAtWork DEF Hands
  <2>2. CASE /\ target[c] \in mrec[c].placed /\ mrec[c].pid[target[c]] = 0
             /\ LaunchAndRecord(c, target[c], mrec[c].args[target[c]])
    <3>1. ~Has(mled[c], target[c])
      BY <2>0, <2>2 DEF Matches, Has
    <3>2. mled'[c] = Record(mled[c], target[c], next) /\ next \in Pid
          /\ Launch(c, target[c], mrec[c].args[target[c]])
      BY <2>2 DEF LaunchAndRecord, Launch
    <3>3. /\ mled'[c].procs[target[c]].pid = next
          /\ \A m \in Node \ {target[c]} : mled'[c].procs[m] = mled[c].procs[m]
      BY <3>1, <3>2, EntryOperations
    <3>4. next \in Recorded(mled'[c])
      BY <3>2, <3>3 DEF Recorded, Has, Pid
    <3>5. \A p \in alive : p \in Recorded(mled[c]) => p \in Recorded(mled'[c])
      BY <3>1, <3>3 DEF Recorded, Has
    <3>. QED  BY <2>0, <3>2, <3>4, <3>5, <1>03, HeldLaunching DEF Hands
  <2>. QED  BY <1>9, <2>1, <2>2 DEF StartNode
<1>10. CASE SwapStops(c)
  <2>0. pc[c] = "work" /\ ledger' = ledger /\ mled' = mled /\ target' = target
        /\ Matches(mrec[c], mled[c]) /\ pc'[c] \in {"save", "launch"}
    BY <1>10 DEF SwapStops, Fail, Paired, Follows
  <2>1. CASE pc'[c] = "save"
    <3>1. running' = running \/ \E K : Kills(K)
      BY <1>10 DEF SwapStops, stopOwned
    <3>2. \E K : Loses(K)
      BY <3>1, Losing
    <3>. QED  BY <1>01, <2>0, <2>1, <3>2, <1>03, HeldAtWork DEF Hands
  <2>2. CASE pc'[c] = "launch"
    <3>1. target[c] \in mrec[c].placed
          /\ IF mrec[c].pid[target[c]] > 0 THEN Kills({mrec[c].pid[n] : n \in {target[c]}})
             ELSE running' = running
      BY <1>10, <2>2 DEF SwapStops, Fail, stopOwned
    <3>2. mled[c].procs[target[c]].pid = mrec[c].pid[target[c]]
      BY <2>0, <3>1 DEF Matches
    <3>3. CASE mrec[c].pid[target[c]] > 0
      <4> DEFINE K == {mrec[c].pid[n] : n \in {target[c]}}
      <4>1. Loses(K)
        BY <3>1, <3>3, Losing
      <4>2. mled'[c].procs[target'[c]].pid \notin alive \ K
        BY <2>0, <3>2
      <4> HIDE DEF K
      <4>. QED  BY <1>01, <2>0, <2>2, <4>1, <4>2, <1>03, HeldAtWork DEF Hands
    <3>4. CASE ~(mrec[c].pid[target[c]] > 0)
      <4>1. Loses({})
        BY <1>02, <3>1, <3>4
      <4>2. mrec[c].pid[target[c]] \notin alive
        BY <3>4, RecordAssumption DEF Base, Machine
      <4>3. mled'[c].procs[target'[c]].pid \notin alive \ {}
        BY <2>0, <3>2, <4>2
      <4>. QED  BY <1>01, <2>0, <2>2, <4>1, <4>3, <1>03, HeldAtWork DEF Hands
    <3>. QED  BY <3>3, <3>4
  <2>. QED  BY <2>0, <2>1, <2>2
<1>11. CASE SwapLaunches(c)
  <2>0. pc[c] = "launch" /\ op[c] = "swap" /\ pc'[c] = "save" /\ ledger' = ledger
    BY <1>11 DEF SwapLaunches, Fail, Done
  <2>1. \A p \in alive : mled[c].procs[target[c]].pid # p
    BY <2>0 DEF Held
  <2>2. CASE mled'[c] = Retire(mled[c], target[c]) /\ running' = running
    <3>1. mled'[c].procs =
            [m \in Node |-> IF m \in {target[c]} THEN Absent ELSE mled[c].procs[m]]
      BY <2>2, ClearOperations
    <3>2. \A m \in Node \ {target[c]} : mled'[c].procs[m] = mled[c].procs[m]
      BY <3>1
    <3>3. \A p \in alive : p \in Recorded(mled[c]) => p \in Recorded(mled'[c])
      BY <2>1, <3>2 DEF Recorded, Has
    <3>. QED  BY <1>01, <1>02, <2>0, <2>2, <3>3, <1>03, HeldAtWork DEF Hands
  <2>3. CASE next \in Pid /\ Launch(c, target[c], build[c]) /\ mled'[c] = Supersede(mled[c], target[c], next)
    <3>1. /\ mled'[c].procs[target[c]].pid = next
          /\ \A m \in Node \ {target[c]} : mled'[c].procs[m] = mled[c].procs[m]
      BY <2>3, EntryOperations
    <3>2. next \in Recorded(mled'[c])
      BY <2>3, <3>1 DEF Recorded, Has, Pid
    <3>3. \A p \in alive : p \in Recorded(mled[c]) => p \in Recorded(mled'[c])
      BY <2>1, <3>1 DEF Recorded, Has
    <3>. QED  BY <2>0, <2>3, <3>2, <3>3, <1>03, HeldLaunching DEF Hands
  <2>. QED  BY <1>11, <2>2, <2>3 DEF SwapLaunches, Launch
<1>12. CASE Stop(c) \/ RollBackLaunch(c)
  <2>0. pc[c] = "work" /\ pc'[c] \in {"sweep", "save"} /\ ledger' = ledger
        /\ Matches(mrec[c], mled[c])
    BY <1>12 DEF Stop, RollBackLaunch, stopNodes, Fail, Paired, Follows
  <2>1. PICK S \in SUBSET mrec[c].placed :
          mled'[c] = ClearAll(mled[c], S) /\ Kills({mrec[c].pid[n] : n \in S})
    <3>1. CASE Stop(c)
      <4>1. PICK E \in SUBSET Running(c) :
              /\ stopOwned(c, Running(c), E)
              /\ mled' = [mled EXCEPT ![c] = ClearAll(@, Running(c) \ E)]
        BY <3>1 DEF Stop, stopNodes
      <4>2. Running(c) \ E \in SUBSET mrec[c].placed
        BY DEF Running
      <4>. QED  BY <4>1, <4>2 DEF stopOwned
    <3>2. CASE RollBackLaunch(c)
      <4>1. PICK E \in SUBSET (Running(c) \ was[c]) :
              /\ stopOwned(c, Running(c) \ was[c], E)
              /\ mled' = [mled EXCEPT ![c] = ClearAll(@, (Running(c) \ was[c]) \ E)]
        BY <3>2 DEF RollBackLaunch, stopNodes
      <4>2. (Running(c) \ was[c]) \ E \in SUBSET mrec[c].placed
        BY DEF Running
      <4>. QED  BY <4>1, <4>2 DEF stopOwned
    <3>. QED  BY <1>12, <3>1, <3>2
  <2>2. mled'[c].procs = [m \in Node |-> IF m \in S THEN Absent ELSE mled[c].procs[m]]
    BY <2>1, ClearOperations
  <2> DEFINE K == {mrec[c].pid[n] : n \in S}
  <2>3. \A p \in alive \ K : p \in Recorded(mled[c]) => p \in Recorded(mled'[c])
    BY <2>0, <2>2, StoppingHolds
  <2>4. Loses(K)
    BY <2>1, Losing
  <2> HIDE DEF K
  <2>. QED  BY <1>01, <2>0, <2>3, <2>4, <1>03, HeldAtWork DEF Hands
<1>13. CASE StopUnrecorded(c)
  <2>1. /\ pc[c] = "sweep" /\ pc'[c] = "save" /\ ledger' = ledger /\ mled' = mled
        /\ \E K : Kills(K)
    BY <1>13 DEF StopUnrecorded, Done, Fail
  <2>2. \E K : Loses(K)
    BY <2>1, Losing
  <2>. QED  BY <1>01, <2>1, <2>2, <1>03, HeldAtWork DEF Hands
<1>14. CASE LaunchPlan(c) \/ startPhase(c) \/ Rm(c) \/ ReconcileBegins(c) \/ ReconcileEnds(c)
  <2>1. /\ pc[c] \in {"work", "start"} /\ ledger' = ledger /\ mled' = mled /\ running' = running
        /\ op' = op /\ pc'[c] \in {"save", "start", "launch"}
        /\ pc'[c] = "launch" => op[c] = "phase"
    BY <1>14 DEF LaunchPlan, startPhase, Rm, ReconcileBegins, ReconcileEnds, Done, Fail
  <2>. QED  BY <1>01, <1>02, <2>1, <1>03, HeldAtWork DEF Hands
<1>16. CASE LaunchNext(c)
  <2>0. pc[c] = "launch" /\ op[c] = "phase" /\ op' = op /\ pc'[c] \in {"launch", "save"}
        /\ ledger' = ledger /\ Matches(mrec[c], mled[c])
    BY <1>16 DEF LaunchNext, Done, Fail, Paired, Follows
  <2>1. CASE mled' = mled /\ running' = running
    BY <1>01, <1>02, <2>0, <2>1, <1>03, HeldAtWork DEF Hands
  <2>2. CASE \E n \in todo[c] : LaunchAndRecord(c, n, Armed(c, n))
    <3>1. PICK n \in todo[c] : LaunchAndRecord(c, n, Armed(c, n))
      BY <2>2
    <3>2. n \in mrec[c].placed /\ n \in Node /\ mrec[c].pid[n] = 0
      BY <2>0 DEF InStep
    <3>3. ~Has(mled[c], n)
      BY <2>0, <3>2 DEF Matches, Has
    <3>4. mled'[c] = Record(mled[c], n, next) /\ next \in Pid /\ Launch(c, n, Armed(c, n))
      BY <3>1 DEF LaunchAndRecord, Launch
    <3>5. /\ mled'[c].procs[n].pid = next
          /\ \A m \in Node \ {n} : mled'[c].procs[m] = mled[c].procs[m]
      BY <3>2, <3>3, <3>4, EntryOperations
    <3>6. next \in Recorded(mled'[c])
      BY <3>2, <3>4, <3>5 DEF Recorded, Has, Pid
    <3>7. \A p \in alive : p \in Recorded(mled[c]) => p \in Recorded(mled'[c])
      BY <3>3, <3>5 DEF Recorded, Has
    <3>. QED  BY <2>0, <3>4, <3>6, <3>7, <1>03, HeldLaunching DEF Hands
  <2>. QED  BY <1>16, <2>1, <2>2 DEF LaunchNext
<1>20. CASE \E n \in Node : ReconcileNode(c, n)
  <2>1. PICK n \in Node : ReconcileNode(c, n)
    BY <1>20
  <2>2. /\ pc[c] = "start" /\ op[c] = "reconcile" /\ n \in todo[c] /\ UNCHANGED <<pc, op>>
        /\ n \in mrec[c].placed /\ Matches(mrec[c], mled[c])
        /\ ledger' = ledger /\ running' = running
    BY <2>1 DEF ReconcileNode, Paired, Follows
  <2>3. CASE mled' = mled
    BY <1>01, <1>02, <2>2, <2>3, <1>03, HeldAtWork DEF Hands
  <2>4. CASE mled'[c] = ClearAll(mled[c], {n}) /\ mrec[c].pid[n] \notin alive
    <3>1. mled'[c].procs = [m \in Node |-> IF m \in {n} THEN Absent ELSE mled[c].procs[m]]
      BY <2>4, ClearOperations
    <3>2. \A p \in alive : p \in Recorded(mled[c]) => p \in Recorded(mled'[c])
      <4>1. \A m \in Node \ {n} : mled'[c].procs[m] = mled[c].procs[m]
        BY <3>1
      <4>2. \A p \in alive : mled[c].procs[n].pid # p
        BY <2>2, <2>4 DEF Matches
      <4>. QED  BY <4>1, <4>2 DEF Recorded, Has
    <3>. QED  BY <1>01, <1>02, <2>2, <3>2, <1>03, HeldAtWork DEF Hands
  <2>5. CASE \E q \in alive : mled'[c] = Record(mled[c], n, q) /\ mrec[c].pid[n] = 0
    <3>1. PICK q \in alive : mled'[c] = Record(mled[c], n, q) /\ mrec[c].pid[n] = 0
      BY <2>5
    <3>2. q \in Pid /\ ~Has(mled[c], n)
      BY <2>2, <3>1, RecordAssumption DEF Base, Machine, Pid, Matches, Has
    <3>3. \A m \in Node \ {n} : mled'[c].procs[m] = mled[c].procs[m]
      BY <3>1, <3>2, EntryOperations
    <3>4. \A p \in alive : p \in Recorded(mled[c]) => p \in Recorded(mled'[c])
      BY <3>2, <3>3 DEF Recorded, Has
    <3>. QED  BY <1>01, <1>02, <2>2, <3>4, <1>03, HeldAtWork DEF Hands
  <2>. QED  BY <2>1, <2>3, <2>4, <2>5 DEF ReconcileNode, Clear, orphanOf
<1>22. CASE Crash(c)
  <2>1. pc'[c] = "idle" /\ (Forsakes(c) \/ Tears(c)) /\ ledger' = ledger
    BY <1>22 DEF Crash, Returns
  <2>. QED  BY <2>1, HeldForsaken DEF Hands
<1>. QED  BY <1>1, <1>2, <1>3, <1>4, <1>5, <1>6, <1>7, <1>8, <1>9, <1>10, <1>11, <1>12, <1>13, <1>14, <1>16, <1>20, <1>22 DEF Step

\* Only a command that holds the lock launches, and only the write of a ledger marks a
\* process as written.
LEMMA Marks ==
  ASSUME Base, NEW c \in Command, Locked(c), Step(c), NEW p \in alive'
  PROVE  \/ p \in alive /\ running'[p] = running[p]
         \/ p \in alive /\ running'[p].by \in {"lost", "torn", "overwritten"}
         \/ p \in alive /\ SaveLedger(c) /\ running'[p].by = "ledger"
         \/ lock = c /\ pc[c] # "write" /\ running'[p].by = c
<1> USE DEF mem, work, machine, alive
<1>0. \A q \in alive, f \in Fates : [running[q] EXCEPT !.by = f].by = f
  BY DEF Base, Machine, Processes
<1>00. "ledger" \in Fates /\ "lost" \in Fates /\ "torn" \in Fates /\ "overwritten" \in Fates
  BY DEF Fates
<1>1. CASE running' = running
  BY <1>1
<1>2. CASE \E K : Kills(K)
  BY <1>2 DEF Kills
<1>3. CASE lock = c /\ pc[c] # "write" /\ \E n, b : Launch(c, n, b)
  BY <1>3 DEF Launch
<1>4. CASE Forsakes(c)
  BY <1>0, <1>00, <1>4 DEF Forsakes
<1>5. CASE Tears(c)
  BY <1>0, <1>00, <1>5 DEF Tears
<1>6. CASE SaveLedger(c)
  BY <1>0, <1>00, <1>6 DEF SaveLedger
<1>7. CASE Reopen(c) \/ OpenLedger(c) \/ Acquire(c) \/ SaveLedgerBegins(c) \/ SaveState(c)
           \/ LaunchPlan(c) \/ startPhase(c) \/ Rm(c) \/ ReconcileBegins(c)
           \/ (\E n \in Node : ReconcileNode(c, n)) \/ ReconcileEnds(c)
  <2>1. running' = running
    BY <1>7 DEF Reopen, OpenLedger, Acquire, SaveLedgerBegins, SaveState, LaunchPlan, startPhase, Rm,
      ReconcileBegins, ReconcileNode, ReconcileEnds
  <2>. QED  BY <1>1, <2>1
<1>8. CASE SaveFails(c) \/ Crash(c)
  BY <1>4, <1>5, <1>8 DEF SaveFails, Crash
<1>9. CASE StopNode(c) \/ SwapStops(c) \/ Stop(c) \/ StopUnrecorded(c) \/ RollBackLaunch(c)
  <2>1. running' = running \/ \E K : Kills(K)
    BY <1>9 DEF StopNode, SwapStops, Stop, StopUnrecorded, RollBackLaunch, stopNodes, stopOwned
  <2>. QED  BY <1>1, <1>2, <2>1
<1>10. CASE StartNode(c) \/ SwapLaunches(c) \/ LaunchNext(c)
  <2>1. pc[c] \in {"work", "start", "launch"}
    BY <1>10 DEF StartNode, SwapLaunches, LaunchNext
  <2>2. running' = running \/ \E n, b : Launch(c, n, b)
    BY <1>10 DEF StartNode, SwapLaunches, LaunchNext, LaunchAndRecord
  <2>. QED  BY <1>1, <1>3, <2>1, <2>2 DEF Locked
<1>. QED  BY <1>6, <1>7, <1>8, <1>9, <1>10 DEF Step

\* The file and the lock under a step.
LEMMA Writing ==
  ASSUME Base, NEW c \in Command, Step(c)
  PROVE  /\ ~SaveLedgerBegins(c) /\ ~SaveLedger(c) => ledger' = ledger
         /\ pc[c] = "write" => SaveLedger(c) \/ Crash(c)
         /\ ~SaveLedger(c) => stale \subseteq stale' \cup {c}
         /\ SaveLedger(c) =>
              \A d \in Command \ {c} : pc[d] \in Hands \cup {"acquire"} => d \in stale'
         /\ lock \notin {c, NoCommand} => lock' = lock
<1> USE DEF Base, Control, Goto, work, mem, machine, Hands
<1>1. CASE Reopen(c) \/ SaveLedgerBegins(c) \/ SaveLedger(c)
  BY <1>1 DEF Reopen, SaveLedgerBegins, SaveLedger
<1>2. CASE OpenLedger(c) \/ Acquire(c)
  BY <1>2 DEF OpenLedger, Acquire, Finish, Returns, SaveLedger
<1>3. CASE SaveState(c) \/ SaveFails(c) \/ Crash(c)
  BY <1>3 DEF SaveState, SaveFails, Crash, Finish, Returns, SaveLedger
<1>4. CASE StopNode(c) \/ StartNode(c) \/ SwapStops(c) \/ SwapLaunches(c) \/ Stop(c)
  BY <1>4 DEF StopNode, StartNode, SwapStops, SwapLaunches, Stop, SaveLedger
<1>5. CASE StopUnrecorded(c) \/ LaunchPlan(c) \/ startPhase(c) \/ LaunchNext(c)
           \/ RollBackLaunch(c) \/ Rm(c)
  BY <1>5 DEF StopUnrecorded, LaunchPlan, startPhase, LaunchNext, RollBackLaunch, Rm, SaveLedger
<1>6. CASE ReconcileBegins(c) \/ (\E n \in Node : ReconcileNode(c, n)) \/ ReconcileEnds(c)
  BY <1>6 DEF ReconcileBegins, ReconcileNode, ReconcileEnds, SaveLedger
<1>. QED  BY <1>1, <1>2, <1>3, <1>4, <1>5, <1>6 DEF Step

\* A command takes the lock before it works, and keeps it.
LEMMA LockedStep ==
  ASSUME Base, NEW c \in Command, Locked(c), Step(c)
  PROVE  Locked(c)'
<1> USE DEF Base, Control, Goto, work, mem, machine, Locked
<1>1. CASE Reopen(c) \/ SaveLedgerBegins(c) \/ SaveLedger(c)
  BY <1>1 DEF Reopen, SaveLedgerBegins, SaveLedger
<1>2. CASE OpenLedger(c) \/ Acquire(c)
  BY <1>2 DEF OpenLedger, Acquire, Finish, Returns
<1>3. CASE SaveState(c) \/ SaveFails(c) \/ Crash(c)
  BY <1>3 DEF SaveState, SaveFails, Crash, Finish, Returns
<1>4. CASE StopNode(c) \/ StartNode(c) \/ SwapStops(c) \/ SwapLaunches(c) \/ Stop(c)
  <2>1. lock' = lock /\ pc[c] \in {"work", "start", "launch", "sweep"}
    BY <1>4 DEF StopNode, StartNode, SwapStops, SwapLaunches, Stop
  <2>. QED  BY <2>1
<1>5. CASE StopUnrecorded(c) \/ LaunchPlan(c) \/ startPhase(c) \/ LaunchNext(c)
           \/ RollBackLaunch(c) \/ Rm(c)
  <2>1. lock' = lock /\ pc[c] \in {"work", "start", "launch", "sweep"}
    BY <1>5 DEF StopUnrecorded, LaunchPlan, startPhase, LaunchNext, RollBackLaunch, Rm
  <2>. QED  BY <2>1
<1>6. CASE ReconcileBegins(c) \/ (\E n \in Node : ReconcileNode(c, n)) \/ ReconcileEnds(c)
  <2>1. lock' = lock /\ pc[c] \in {"work", "start", "launch", "sweep"}
    BY <1>6 DEF ReconcileBegins, ReconcileNode, ReconcileEnds
  <2>. QED  BY <2>1
<1>. QED  BY <1>1, <1>2, <1>3, <1>4, <1>5, <1>6 DEF Step

\* A step of one command keeps what another one knows, or makes it stale.
LEMMA OthersHeld ==
  ASSUME Base, NEW c \in Command, NEW d \in Command \ {c}, Locked(c), Locked(d), Held(c)', Held(d),
         Step(c)
  PROVE  Held(d)'
<1>1. /\ pc'[d] = pc[d] /\ op'[d] = op[d] /\ target'[d] = target[d] /\ mled'[d] = mled[d]
  BY OthersKeep
<1>2. d \notin Fates
  BY RecordAssumption
<1>3. ASSUME NEW p \in alive'
      PROVE  /\ running'[p].by = "ledger" => p \in Recorded(ledger')
             /\ running'[p].by = d => pc'[d] \in Hands
             /\ pc'[d] \in Hands \cup {"acquire"} /\ running'[p].by = d => p \in Recorded(mled'[d])
             /\ pc'[d] \in Hands \cup {"acquire"} /\ d \notin stale' /\ running'[p].by = "ledger"
                  => p \in Recorded(mled'[d])
  <2>1. running'[p].by = "ledger" => p \in Recorded(ledger')
    BY DEF Held
  <2>2. running'[p].by = d => p \in alive /\ running'[p] = running[p]
    BY <1>2, Marks DEF Fates
  <2>3. /\ SaveLedger(c) => (pc[d] \in Hands \cup {"acquire"} => d \in stale')
        /\ ~SaveLedger(c) => (d \in stale => d \in stale')
    BY Writing
  <2>4. c # "ledger"
    BY RecordAssumption DEF Fates
  <2>5. running'[p].by = "ledger" => SaveLedger(c) \/ (p \in alive /\ running'[p] = running[p])
    BY <2>4, Marks
  <2>. QED  BY <1>1, <2>1, <2>2, <2>3, <2>5 DEF Held
<1>4. ASSUME pc'[d] = "launch", op'[d] = "swap"
      PROVE  mled'[d].procs[target'[d]].pid \notin alive'
  <2>1. lock = d
    BY <1>1, <1>4 DEF Locked
  <2>2. \A p \in alive' : p \in alive
    BY <2>1, Marks
  <2>. QED  BY <1>1, <1>4, <2>2 DEF Held
<1>. QED  BY <1>3, <1>4 DEF Held

\* A step keeps the ledger whole, being written, or without a process to name.
LEMMA TornStep ==
  ASSUME Base, NEW c \in Command, Locked(c), Whole(c), Torn, Step(c)
  PROVE  Torn'
<1>0. c # "ledger"
  BY RecordAssumption DEF Fates
<1>1. CASE SaveLedgerBegins(c)
  BY <1>1 DEF SaveLedgerBegins, Goto, Base, Control, Torn
<1>2. CASE SaveLedger(c)
  BY <1>2 DEF SaveLedger, Whole, Torn
<1>3. CASE pc[c] = "write" /\ Crash(c)
  <2>1. CASE ledger.whole = "no"
    <3>1. \A p \in alive, f \in {"lost", "torn"} : [running[p] EXCEPT !.by = f].by = f
      BY DEF Base, Machine, Processes
    <3>2. Tears(c)
      BY <1>3, <2>1 DEF Crash
    <3>3. alive' = alive /\ \A p \in alive : running'[p].by # "ledger"
      BY <3>1, <3>2 DEF Tears, alive
    <3>. QED  BY <3>3 DEF Torn
  <2>2. CASE ledger.whole # "no"
    <3>1. ledger.whole = "yes" /\ ledger' = ledger
      BY <1>3, <2>2 DEF Crash, Base, Books, GoodLedgers, Ledgers
    <3>. QED  BY <3>1 DEF Torn
  <2>. QED  BY <2>1, <2>2
<1>4. CASE pc[c] # "write" /\ ~SaveLedgerBegins(c) /\ ~SaveLedger(c)
  <2>1. ledger' = ledger
    BY <1>4, Writing
  <2>2. \A p \in alive' : running'[p].by = "ledger" => p \in alive /\ running[p].by = "ledger"
    BY <1>0, <1>4, Marks
  <2>3. \A d \in Command : pc[d] = "write" => pc'[d] = "write"
    BY <1>4, OthersKeep
  <2>. QED  BY <2>1, <2>2, <2>3 DEF Torn
<1>. QED  BY <1>1, <1>2, <1>3, <1>4, Writing

-----------------------------------------------------------------------------
(* The sweep. *)

\* A command that goes on to the sweep has no pid of the table left.
LEMMA SweepsAfterStop ==
  ASSUME Base, NEW c \in Command, Step(c), pc[c] = "sweep" => Running(c) = {}
  PROVE  (pc[c] = "sweep" => Running(c) = {})'
<1> SUFFICES ASSUME pc'[c] = "sweep" PROVE Running(c)' = {}
  OBVIOUS
<1>1. Stop(c)
  <2>1. pc[c] # "sweep" \/ StopUnrecorded(c) \/ Crash(c)
    BY DEF Step, Reopen, OpenLedger, Acquire, SaveLedgerBegins, SaveLedger, SaveState, SaveFails,
      StopNode, StartNode, SwapStops, SwapLaunches, Stop, LaunchPlan, startPhase, LaunchNext,
      RollBackLaunch, Rm, ReconcileBegins, ReconcileNode, ReconcileEnds
  <2>2. ~StopUnrecorded(c) /\ ~Crash(c)
    BY DEF Base, Control, StopUnrecorded, Done, Fail, Goto, Crash, Returns
  <2> USE <2>1, <2>2 DEF Base, Control, Goto
  <2>3. ~Reopen(c) /\ ~OpenLedger(c) /\ ~Acquire(c)
    BY DEF Reopen, OpenLedger, Acquire, Finish, Returns
  <2>4. ~SaveLedgerBegins(c) /\ ~SaveLedger(c) /\ ~SaveState(c) /\ ~SaveFails(c)
    BY DEF SaveLedgerBegins, SaveLedger, SaveState, SaveFails, Finish, Returns
  <2>5. ~StopNode(c) /\ ~StartNode(c) /\ ~SwapStops(c) /\ ~SwapLaunches(c)
    BY DEF StopNode, StartNode, SwapStops, SwapLaunches, Fail, Done
  <2>6. ~LaunchPlan(c) /\ ~startPhase(c) /\ ~LaunchNext(c) /\ ~Rm(c)
    BY DEF LaunchPlan, startPhase, LaunchNext, Rm, Fail, Done
  <2>7. ~RollBackLaunch(c)
    BY DEF RollBackLaunch, stopNodes, Fail
  <2>8. ~ReconcileBegins(c) /\ ~(\E n \in Node : ReconcileNode(c, n)) /\ ~ReconcileEnds(c)
    BY DEF ReconcileBegins, ReconcileNode, ReconcileEnds, Done, Fail
  <2>. QED  BY <2>3, <2>4, <2>5, <2>6, <2>7, <2>8 DEF Step
<1>2. mrec' = [mrec EXCEPT ![c] = Without(@, Running(c))]
  <2>1. PICK E \in SUBSET Running(c) :
          /\ mrec' = [mrec EXCEPT ![c] = Without(@, Running(c) \ E)]
          /\ IF E # {} THEN Fail(c) ELSE TRUE
    BY <1>1 DEF Stop, stopNodes, Forgets
  <2>2. E = {}
    BY <2>1 DEF Fail, Goto, Base, Control
  <2>. QED  BY <2>1, <2>2
<1>3. mrec'[c] = Without(mrec[c], Running(c)) /\ mrec[c] \in Records
  BY <1>2 DEF Base, Files
<1>4. /\ mrec'[c].placed = mrec[c].placed /\ mrec[c].placed \subseteq Node
      /\ mrec'[c].pid = [n \in Node |-> IF n \in Running(c) THEN 0 ELSE mrec[c].pid[n]]
  BY <1>3 DEF Without, Records
<1>. QED  BY <1>4 DEF Running

\* Only a sweep that was answered for every process takes a command from its sweep to
\* its save without an error.
LEMMA OnlySweeping ==
  ASSUME Base, NEW c \in Command, Step(c), pc[c] = "sweep", pc'[c] = "save", failed'[c] = "no"
  PROVE  Kills(unrecordedNodes(c) \ missed'[c])
<1>1. StopUnrecorded(c) \/ Crash(c)
  BY DEF Step, Reopen, OpenLedger, Acquire, SaveLedgerBegins, SaveLedger, SaveState, SaveFails,
    StopNode, StartNode, SwapStops, SwapLaunches, Stop, LaunchPlan, startPhase, LaunchNext,
    RollBackLaunch, Rm, ReconcileBegins, ReconcileNode, ReconcileEnds
<1>2. ~Crash(c)
  BY DEF Crash, Returns, Goto, Base, Control
<1>3. PICK U \in SUBSET unrecordedNodes(c) :
        /\ missed' = [missed EXCEPT ![c] = U]
        /\ Kills(unrecordedNodes(c) \ U) \/ Fail(c)
  BY <1>1, <1>2 DEF StopUnrecorded
<1>4. missed'[c] = U /\ ~Fail(c)
  BY <1>3 DEF Fail, Base, Control
<1>. QED  BY <1>3, <1>4

-----------------------------------------------------------------------------
(* The theorems. *)

\* In every reachable state the two files, the commands and the machine are of their
\* types; above all, the revision a launch is given exists.
THEOREM TypeCorrect == Spec => []TypeOK
<1>1. Base => TypeOK
  <2> SUFFICES ASSUME Base PROVE TypeOK
    OBVIOUS
  <2>1. ledger \in Ledgers /\ mled \in [Command -> Ledgers]
    BY DEF Base, Books, GoodLedgers
  <2>. QED  BY <2>1 DEF Base, Files, Control, Machine, TypeOK
<1>. QED  BY <1>1, BaseAlways, PTL

\* Whatever commands record, supersede, retire, clear and seed, in whatever order,
\* together or killed in between, no ledger gives a revision twice.
THEOREM RevisionsAreIncreasing == Spec => []RevisionsIncrease
<1>1. ASSUME NEW l \in GoodLedgers, NEW n \in Node
      PROVE  /\ \A i, j \in DOMAIN l.history[n] : i < j => l.history[n][i] < l.history[n][j]
             /\ Has(l, n) => \A i \in DOMAIN l.history[n] : l.history[n][i] < l.procs[n].rev
  <2>1. l.history[n] \in Seq(Nat) /\ DOMAIN l.history[n] = 1..Len(l.history[n])
        /\ Len(l.history[n]) \in Nat
    BY DEF GoodLedgers, Ledgers
  <2>2. /\ \A i \in 1..Len(l.history[n]) : l.history[n][i] = i - 1
        /\ Has(l, n) => l.procs[n].rev = Len(l.history[n])
    BY DEF GoodLedgers, Numbered
  <2>3. ASSUME NEW i \in DOMAIN l.history[n]
        PROVE  i \in Int /\ i <= Len(l.history[n]) /\ l.history[n][i] = i - 1
    BY <2>1, <2>2, <2>3
  <2>4. \A i, j \in DOMAIN l.history[n] : i < j => l.history[n][i] < l.history[n][j]
    BY <2>1, <2>3
  <2>5. Has(l, n) => \A i \in DOMAIN l.history[n] : l.history[n][i] < l.procs[n].rev
    BY <2>1, <2>2, <2>3
  <2>. QED  BY <2>4, <2>5
<1>2. Base => RevisionsIncrease
  BY <1>1 DEF Base, Books, RevisionsIncrease, EachLedger
<1>. QED  BY <1>2, BaseAlways, PTL

\* No process is started that the ledger then declines to enter: whatever commands
\* run together and wherever they are killed, the pids a command launches by are the
\* ones its ledger holds.
THEOREM LaunchesEntered == Spec => []LaunchesAreEntered
<1> DEFINE J == Base /\ \A c \in Command : InStep(c)
<1>1. Init => J
  BY BaseInit DEF Init, InStep, Loaded
<1>2. J /\ [Next]_vars => J'
  <2> SUFFICES ASSUME J, [Next]_vars PROVE J'
    OBVIOUS
  <2>1. Base'
    BY BaseStep
  <2>2. ASSUME NEW d \in Command PROVE InStep(d)'
    <3>1. CASE UNCHANGED <<pc, op, todo, mrec, mled>>
      BY <3>1 DEF InStep, Loaded, Agrees
    <3>2. ASSUME NEW c \in Command, Step(c) PROVE InStep(d)'
      <4>1. CASE c = d
        BY <3>2, <4>1, InStepKept
      <4>2. CASE c # d
        <5>1. /\ pc'[d] = pc[d] /\ op'[d] = op[d] /\ todo'[d] = todo[d]
              /\ mrec'[d] = mrec[d] /\ mled'[d] = mled[d]
          BY <3>2, <4>2, OthersKeep
        <5>. QED  BY <5>1 DEF InStep, Loaded
      <4>. QED  BY <4>1, <4>2
    <3>3. CASE \E c \in Command, o \in Ops, n \in Node, b \in Build : Open(c, o, n, b)
      BY <3>3 DEF Open, Goto, InStep, Loaded, Base, Control, Files
    <3>4. CASE \E p \in Pid : NodeDies(p)
      BY <3>1, <3>4 DEF NodeDies, mem
    <3>. QED  BY <3>1, <3>2, <3>3, <3>4 DEF Next, vars
  <2>. QED  BY <2>1, <2>2
<1>3. J => LaunchesAreEntered
  <2> SUFFICES ASSUME J, NEW c \in Command
               PROVE  /\ pc[c] = "launch" /\ op[c] = "phase"
                           => \A n \in todo[c] : ~Has(mled[c], n)
                      /\ /\ \/ pc[c] = "work" /\ op[c] = "startnode"
                            \/ pc[c] = "start" /\ op[c] = "restart"
                         /\ target[c] \in mrec[c].placed
                         => (Has(mled[c], target[c]) <=> mrec[c].pid[target[c]] > 0)
    BY DEF LaunchesAreEntered
  <2>1. InStep(c)
    OBVIOUS
  <2>. QED  BY <2>1 DEF InStep, Loaded, Agrees
<1>. QED  BY <1>1, <1>2, <1>3, PTL DEF Spec

\* Whatever commands run together and wherever they are killed, whichever nodes die and
\* whichever writes fail: every live process that was written down stays in the ledger,
\* but for the ones a stale command wrote away and the ones of a torn file.
THEOREM LiveNodesNamed == Spec => []LiveNodesAreNamed
<1> DEFINE Mine(c) == InStep(c) /\ Whole(c) /\ Paired(c) /\ Locked(c) /\ Held(c)
           Named == \A p \in alive : running[p].by = "ledger" => p \in Recorded(ledger)
           J == Base /\ Torn /\ Named /\ \A c \in Command : Mine(c)
<1>1. Init => J
  <2> SUFFICES ASSUME Init PROVE J
    OBVIOUS
  <2>1. ledger = NewLedger /\ alive = {}
    BY DEF Init, alive
  <2>2. ASSUME NEW c \in Command PROVE Mine(c)
    <3>1. pc[c] = "idle" /\ mled[c] = NewLedger
      BY DEF Init
    <3>. QED  BY <2>1, <3>1 DEF InStep, Loaded, Paired, Follows, Whole, Locked, Held, NewLedger
  <2>3. Torn /\ Named
    BY <2>1 DEF Torn
  <2>. QED  BY <2>2, <2>3, BaseInit
<1>2. J /\ [Next]_vars => J'
  <2> SUFFICES ASSUME J, [Next]_vars PROVE J'
    OBVIOUS
  <2>1. Base'
    BY BaseStep
  <2>2. CASE UNCHANGED vars
    <3>1. Torn' /\ Named'
      BY <2>2 DEF vars, Torn, alive
    <3>2. ASSUME NEW c \in Command PROVE Mine(c)'
      BY <2>2 DEF vars, InStep, Loaded, Agrees, Whole, Paired, Follows, Matches, Locked, Held, Hands,
        Recorded, Has, alive
    <3>. QED  BY <2>1, <3>1, <3>2
  <2>3. ASSUME NEW c \in Command, Step(c) PROVE J'
    <3>1. Mine(c)'
      BY <2>3, InStepKept, WholeStep, PairedStep, LockedStep, HeldStep
    <3>2. ASSUME NEW d \in Command \ {c} PROVE Mine(d)'
      <4>1. /\ pc'[d] = pc[d] /\ op'[d] = op[d] /\ todo'[d] = todo[d]
            /\ mrec'[d] = mrec[d] /\ mled'[d] = mled[d]
        BY <2>3, OthersKeep
      <4>2. InStep(d)' /\ Whole(d)' /\ Paired(d)'
        BY <4>1 DEF InStep, Loaded, Whole, Paired, Follows
      <4>3. Locked(d)'
        <5>1. lock = d => lock \notin {c, NoCommand}
          BY RecordAssumption
        <5>. QED  BY <2>3, <4>1, <5>1, Writing DEF Locked
      <4>4. Held(d)'
        BY <2>3, <3>1, OthersHeld
      <4>. QED  BY <4>2, <4>3, <4>4
    <3>3. Torn'
      BY <2>3, TornStep
    <3>4. Named'
      BY <3>1 DEF Held
    <3>. QED  BY <2>1, <3>1, <3>2, <3>3, <3>4
  <2>4. ASSUME NEW c \in Command, NEW o \in Ops, NEW n \in Node, NEW b \in Build, Open(c, o, n, b)
        PROVE  J'
    <3>1. /\ pc[c] = "idle" /\ pc'[c] = "ledger" /\ lock' = lock /\ stale' = stale
          /\ ledger' = ledger /\ mled' = mled /\ running' = running
          /\ \A d \in Command \ {c} : /\ pc'[d] = pc[d] /\ op'[d] = op[d] /\ target'[d] = target[d]
                                      /\ mrec'[d] = mrec[d] /\ todo'[d] = todo[d]
      BY <2>4 DEF Open, Goto, machine, Base, Control, Files
    <3>2. Mine(c)'
      <4>1. InStep(c)' /\ Paired(c)' /\ Whole(c)' /\ Locked(c)'
        BY <3>1 DEF InStep, Loaded, Paired, Follows, Whole, Locked
      <4>2. Held(c)'
        BY <3>1, HeldAtRest DEF Hands
      <4>. QED  BY <4>1, <4>2
    <3>3. ASSUME NEW d \in Command \ {c} PROVE Mine(d)'
      <4>1. InStep(d)' /\ Paired(d)' /\ Whole(d)' /\ Locked(d)'
        BY <3>1 DEF InStep, Loaded, Paired, Follows, Whole, Locked
      <4>2. Held(d)'
        BY <3>1 DEF Held, alive
      <4>. QED  BY <4>1, <4>2
    <3>4. Torn' /\ Named'
      BY <3>1 DEF Torn, alive
    <3>. QED  BY <2>1, <3>2, <3>3, <3>4
  <2>5. ASSUME NEW p \in Pid, NodeDies(p)
        PROVE  J'
    <3>1. /\ UNCHANGED <<ledger, lock, pc, op, target, mrec, mled, todo, stale>>
          /\ alive' = alive \ {p} /\ \A q \in alive' : running'[q] = running[q]
      BY <2>5 DEF NodeDies, Kills, alive, mem, work
    <3>2. ASSUME NEW c \in Command PROVE Mine(c)'
      <4>1. InStep(c)' /\ Paired(c)' /\ Whole(c)' /\ Locked(c)'
        BY <3>1 DEF InStep, Loaded, Agrees, Paired, Follows, Matches, Whole, Locked
      <4>2. Held(c)'
        BY <3>1 DEF Held
      <4>. QED  BY <4>1, <4>2
    <3>3. Torn' /\ Named'
      BY <3>1 DEF Torn
    <3>. QED  BY <2>1, <3>2, <3>3
  <2>. QED  BY <2>2, <2>3, <2>4, <2>5 DEF Next
<1>3. J => LiveNodesAreNamed
  BY DEF Torn, LiveNodesAreNamed
<1>. QED  BY <1>1, <1>2, <1>3, PTL DEF Spec

\* A stop that returns without an error leaves of the table's nodes, recorded or not,
\* only what the machine did not tell it of and what runs a binary the table no longer
\* names, whatever other commands run, are killed or overwrite the files meanwhile.
THEOREM StopsAll == Spec => StopStopsAll
<1> DEFINE Swept(c) == pc[c] = "sweep" => Running(c) = {}
           J == Base /\ \A c \in Command : Swept(c)
<1>1. Init => J
  BY BaseInit DEF Init
<1>2. J /\ [Next]_vars => J'
  <2> SUFFICES ASSUME J, [Next]_vars PROVE J'
    OBVIOUS
  <2>1. Base'
    BY BaseStep
  <2>2. ASSUME NEW d \in Command PROVE Swept(d)'
    <3>1. CASE UNCHANGED <<pc, mrec>>
      BY <3>1 DEF Running
    <3>2. ASSUME NEW c \in Command, Step(c) PROVE Swept(d)'
      <4>1. CASE c = d
        BY <3>2, <4>1, SweepsAfterStop
      <4>2. CASE c # d
        <5>1. pc'[d] = pc[d] /\ mrec'[d] = mrec[d]
          BY <3>2, <4>2, OthersKeep
        <5>. QED  BY <5>1 DEF Running
      <4>. QED  BY <4>1, <4>2
    <3>3. ASSUME NEW c \in Command, NEW o \in Ops, NEW n \in Node, NEW b \in Build,
                 Open(c, o, n, b)
          PROVE  Swept(d)'
      <4>1. CASE c = d
        BY <3>3, <4>1 DEF Open, Goto, Base, Control
      <4>2. CASE c # d
        <5>1. pc'[d] = pc[d] /\ mrec'[d] = mrec[d]
          BY <3>3, <4>2 DEF Open, Goto, Base, Control, Files
        <5>. QED  BY <5>1 DEF Running
      <4>. QED  BY <4>1, <4>2
    <3>4. CASE \E p \in Pid : NodeDies(p)
      BY <3>1, <3>4 DEF NodeDies, mem
    <3>. QED  BY <3>1, <3>2, <3>3, <3>4 DEF Next, vars
  <2>. QED  BY <2>1, <2>2
<1>3. J /\ [Next]_vars =>
        [\A c \in Command :
           pc[c] = "sweep" /\ pc'[c] = "save" /\ failed'[c] = "no"
           => \A p \in DOMAIN running' :
                running[p].node \in mrec[c].placed
                => p \in missed'[c] \/ Name[running[p].build] \notin binaryNamesOn(c)]_vars
  <2> SUFFICES ASSUME J, Next, NEW c \in Command,
                      pc[c] = "sweep", pc'[c] = "save", failed'[c] = "no",
                      NEW p \in DOMAIN running', running[p].node \in mrec[c].placed,
                      p \notin missed'[c], Name[running[p].build] \in binaryNamesOn(c)
               PROVE  FALSE
    OBVIOUS
  <2>1. Step(c)
    <3>1. ASSUME NEW d \in Command, Step(d) PROVE d = c
      BY <3>1, OthersKeep
    <3>2. ~ \E d \in Command, o \in Ops, n \in Node, b \in Build : Open(d, o, n, b)
      BY DEF Open, Goto, Base, Control
    <3>3. ~ \E q \in Pid : NodeDies(q)
      BY DEF NodeDies
    <3>. QED  BY <3>1, <3>2, <3>3 DEF Next
  <2>2. Kills(unrecordedNodes(c) \ missed'[c])
    BY <2>1, OnlySweeping
  <2>3. p \in alive /\ p \notin unrecordedNodes(c)
    BY <2>2 DEF Kills
  <2>4. Running(c) = {}
    OBVIOUS
  <2>. QED  BY <2>3, <2>4 DEF unrecordedNodes
<1>. QED  BY <1>1, <1>2, <1>3, PTL DEF Spec, StopStopsAll
=============================================================================
