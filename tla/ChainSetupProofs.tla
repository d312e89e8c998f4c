-------------------------- MODULE ChainSetupProofs --------------------------
(***************************************************************************)
(* Proofs about the making of a network: the lock it is made under, and the *)
(* composition itself, for any number of processes, hosts and pids, any    *)
(* nodes, requests and launch phases, and any bounds.                      *)
(*                                                                         *)
(* The lock.  Mutual exclusion is not inductive: what keeps two runs apart *)
(* is that a holder is alive and the file names it, that live processes of *)
(* one host have different pids, and that whoever is about to write read   *)
(* the file under the guard at a time nobody held it.  LockInv says so.    *)
(*                                                                         *)
(* The composition.  Its commands are followed stage by stage: UpInv says  *)
(* what a chain up has built by the time it is at each stage, OneNet what  *)
(* all files, records and processes are while only one network was ever    *)
(* asked for, LaunchInv what a launch may still roll back, and RefusalInv  *)
(* that until the reconciliation nothing has been touched.                 *)
(***************************************************************************)
EXTENDS WorkspaceLock, Composition, SequenceTheorems, TLAPS

(* The lock.                                                               *)

\* The kernel gives live processes of one host different pids.
PidsDiffer ==
  \A p, q \in alive : LockOf(p) = LockOf(q) => p = q

\* A process inside a call is alive, and so is a holder.
OnlyTheLivingAct ==
  \A p \in Proc : pc[p] # "out" \/ Holds(p) => p \in alive

\* Who is between flock and unlock has the guard.
GuardInv ==
  \A p \in Proc : pc[p] \in {"read", "decide", "write"} => guard = p

\* The file names the holder.
FileNamesHolder ==
  \A p \in Proc : Holds(p) => file = LockOf(p)

\* Who is about to take the lock has reason to: nobody holds it.
TakerIsAlone ==
  \A p \in Proc :
    \/ pc[p] = "write"
    \/ pc[p] = "decide" /\ seen[p].state \in {"free", "stale"}
    => \A q \in Proc : ~Holds(q)

\* Who is about to nest is named by the file.
NesterIsNamed ==
  \A p \in Proc :
    pc[p] = "decide" /\ seen[p].state = "live" /\ seen[p].pid = PidOf[p]
      => file = LockOf(p)

\* Only the outermost hold may be a real one, and only it removes the file.
OutermostReleases ==
  \A p \in Proc :
    /\ \A i \in 1..Len(held[p]) : i > 1 => held[p][i] = "nested"
    /\ pc[p] = "remove" => Len(held[p]) = 1

LockInv ==
  /\ TypeOK
  /\ PidsDiffer
  /\ OnlyTheLivingAct
  /\ GuardInv
  /\ FileNamesHolder
  /\ TakerIsAlone
  /\ NesterIsNamed
  /\ OutermostReleases

-----------------------------------------------------------------------------

LEMMA InitTypes == Init => TypeOK
  <1> SUFFICES ASSUME Init PROVE TypeOK
    OBVIOUS
  <1> QED
    BY ProcAssumption, BoundAssumption
    DEF Init, TypeOK, Files, Locations, LockStates

\* Popping a hold leaves a stack.
LEMMA PopTypes ==
  ASSUME NEW s \in Seq(Holdings), s # <<>>
  PROVE  /\ SubSeq(s, 1, Len(s) - 1) \in Seq(Holdings)
         /\ Len(SubSeq(s, 1, Len(s) - 1)) = Len(s) - 1
         /\ \A i \in 1..(Len(s) - 1) : SubSeq(s, 1, Len(s) - 1)[i] = s[i]
  <1>1. Len(s) \in Nat \ {0}
    BY EmptySeq
  <1>2. \A i \in 1..(Len(s) - 1) : s[i] \in Holdings
    BY <1>1
  <1>3. Len(SubSeq(s, 1, Len(s) - 1)) = IF 1 <= Len(s) - 1 THEN (Len(s) - 1) - 1 + 1 ELSE 0
    BY <1>1, <1>2, SubSeqProperties
  <1>4. SubSeq(s, 1, Len(s) - 1) \in Seq(Holdings)
    BY <1>1, <1>2, SubSeqProperties
  <1>5. Len(SubSeq(s, 1, Len(s) - 1)) = Len(s) - 1
    BY <1>1, <1>3
  <1>6. ASSUME NEW i \in 1..(Len(s) - 1)
        PROVE  SubSeq(s, 1, Len(s) - 1)[i] = s[i]
    BY <1>1
  <1> QED
    BY <1>4, <1>5, <1>6

\* What readLock returns is a lock state and a pid.
LEMMA ReadTypes ==
  ASSUME TypeOK, NEW p \in Proc
  PROVE  readLock(p) \in [state : LockStates, pid : Nat]
  BY ProcAssumption DEF readLock, TypeOK, Files, NoFile, Torn, LockOf, LockStates

LEMMA NextTypes == TypeOK /\ [Next]_vars => TypeOK'
  <1> SUFFICES ASSUME TypeOK, [Next]_vars PROVE TypeOK'
    OBVIOUS
  <1> USE DEF TypeOK
  <1>1. ASSUME NEW p \in Proc, Spawn(p) PROVE TypeOK'
    BY <1>1, BoundAssumption DEF Spawn
  <1>2. ASSUME NEW p \in Proc, Die(p) PROVE TypeOK'
    BY <1>2, BoundAssumption DEF Die, Locations, LockStates
  <1>3. ASSUME NEW p \in Proc, Acquire(p) PROVE TypeOK'
    BY <1>3, BoundAssumption DEF Acquire, Locations
  <1>4. ASSUME NEW p \in Proc, Release(p) PROVE TypeOK'
    <2>1. held[p] \in Seq(Holdings) /\ held[p] # <<>>
      BY <1>4 DEF Release, Holds
    <2>2. SubSeq(held[p], 1, Len(held[p]) - 1) \in Seq(Holdings)
      BY <2>1, PopTypes
    <2> QED
      BY <1>4, <2>2 DEF Release, Pop, Locations
  <1>5. ASSUME NEW p \in Proc, guardLock(p) PROVE TypeOK'
    BY <1>5 DEF guardLock, Locations
  <1>6. ASSUME NEW p \in Proc, ReadUnderGuard(p) PROVE TypeOK'
    BY <1>6, ReadTypes DEF ReadUnderGuard, Locations
  <1>7. ASSUME NEW p \in Proc, Nest(p) PROVE TypeOK'
    BY <1>7 DEF Nest, Holdings, Locations
  <1>8. ASSUME NEW p \in Proc, Refuse(p) PROVE TypeOK'
    BY <1>8 DEF Refuse, Locations
  <1>9. ASSUME NEW p \in Proc, Truncate(p) PROVE TypeOK'
    BY <1>9 DEF Truncate, Files, Locations
  <1>10. ASSUME NEW p \in Proc, WriteLock(p) PROVE TypeOK'
    BY <1>10 DEF WriteLock, Holdings, Files, Locations
  <1>11. ASSUME NEW p \in Proc, WriteFails(p) PROVE TypeOK'
    BY <1>11 DEF WriteFails, Locations
  <1>12. ASSUME NEW p \in Proc, Poll(p) PROVE TypeOK'
    <2>1. takes[p] < MaxTakes => takes[p] + 1 \in 0..MaxTakes
      BY BoundAssumption
    <2> QED
      BY <1>12, <2>1 DEF Poll, Locations
  <1>13. ASSUME NEW p \in Proc, RemoveFile(p) PROVE TypeOK'
    <2>1. SubSeq(held[p], 1, Len(held[p]) - 1) \in Seq(Holdings)
      OBVIOUS
    <2> QED
      BY <1>13, <2>1 DEF RemoveFile, Pop, Files, Locations
  <1>14. CASE UNCHANGED vars
    BY <1>14 DEF vars
  <1> QED
    BY <1>1, <1>2, <1>3, <1>4, <1>5, <1>6, <1>7, <1>8, <1>9, <1>10, <1>11, <1>12, <1>13,
       <1>14 DEF Next, InCall

THEOREM TypeCorrect == Spec => []TypeOK
  BY InitTypes, NextTypes, PTL DEF Spec

-----------------------------------------------------------------------------

\* A lock that a live process holds is read as live or as foreign, never as free
\* or stale; and who is told its own pid is live is named by the file.
LEMMA ReadFacts ==
  ASSUME LockInv, NEW p \in Proc
  PROVE  /\ readLock(p).state \in {"free", "stale"} => \A q \in Proc : ~Holds(q)
         /\ readLock(p).state = "live" /\ readLock(p).pid = PidOf[p]
              => file = LockOf(p)
  <1>1. ASSUME NEW q \in Proc, Holds(q)
        PROVE  readLock(p).state \notin {"free", "stale"}
    <2>1. file = LockOf(q) /\ q \in alive
      BY <1>1 DEF LockInv, FileNamesHolder, OnlyTheLivingAct
    <2> QED
      BY <2>1 DEF readLock, LockOf, processAlive
  <1>2. ASSUME readLock(p).state = "live", readLock(p).pid = PidOf[p]
        PROVE  file = LockOf(p)
    BY <1>2 DEF LockInv, TypeOK, Files, readLock, NoFile, Torn, LockOf
  <1> QED
    BY <1>1, <1>2

LEMMA InitLockInv == Init => LockInv
  <1> SUFFICES ASSUME Init PROVE LockInv
    OBVIOUS
  <1>1. TypeOK
    BY InitTypes
  <1>2. \A p \in Proc : ~Holds(p) /\ pc[p] = "out" /\ Len(held[p]) = 0
    BY DEF Init, Holds
  <1>3. alive = {}
    BY DEF Init
  <1> QED
    BY <1>1, <1>2, <1>3
    DEF LockInv, PidsDiffer, OnlyTheLivingAct, GuardInv, FileNamesHolder,
        TakerIsAlone, NesterIsNamed, OutermostReleases

LEMMA NextLockInv == LockInv /\ [Next]_vars => LockInv'
  <1> SUFFICES ASSUME LockInv, [Next]_vars PROVE LockInv'
    OBVIOUS
  <1>0. TypeOK /\ TypeOK'
    BY NextTypes DEF LockInv
  <1>1. ASSUME NEW p \in Proc, Spawn(p) PROVE LockInv'
    <2>1. PidsDiffer'
      BY <1>0, <1>1, ProcAssumption
      DEF LockInv, PidsDiffer, TypeOK, Spawn, Holds, LockOf, processAlive
    <2>2. OnlyTheLivingAct'
      BY <1>0, <1>1, ProcAssumption
      DEF LockInv, OnlyTheLivingAct, TypeOK, Spawn, Holds
    <2>3. GuardInv'
      BY <1>0, <1>1, ProcAssumption
      DEF LockInv, GuardInv, TypeOK, Spawn, Holds
    <2>4. FileNamesHolder'
      BY <1>0, <1>1, ProcAssumption
      DEF LockInv, FileNamesHolder, TypeOK, Spawn, Holds
    <2>5. TakerIsAlone'
      BY <1>0, <1>1, ProcAssumption
      DEF LockInv, TakerIsAlone, TypeOK, Spawn, Holds
    <2>6. NesterIsNamed'
      BY <1>0, <1>1, ProcAssumption
      DEF LockInv, NesterIsNamed, TypeOK, Spawn, Holds
    <2>7. OutermostReleases'
      BY <1>0, <1>1, ProcAssumption
      DEF LockInv, OutermostReleases, TypeOK, Spawn, Holds
    <2> QED
      BY <1>0, <2>1, <2>2, <2>3, <2>4, <2>5, <2>6, <2>7 DEF LockInv
  <1>2. ASSUME NEW p \in Proc, Die(p) PROVE LockInv'
    <2>1. PidsDiffer'
      BY <1>0, <1>2, ProcAssumption
      DEF LockInv, PidsDiffer, TypeOK, Die, Holds, LockOf
    <2>2. OnlyTheLivingAct'
      BY <1>0, <1>2, ProcAssumption
      DEF LockInv, OnlyTheLivingAct, TypeOK, Die, Holds
    <2>3. GuardInv'
      BY <1>0, <1>2, ProcAssumption
      DEF LockInv, GuardInv, TypeOK, Die, Holds
    <2>4. FileNamesHolder'
      BY <1>0, <1>2, ProcAssumption
      DEF LockInv, FileNamesHolder, TypeOK, Die, Holds
    <2>5. TakerIsAlone'
      BY <1>0, <1>2, ProcAssumption
      DEF LockInv, TakerIsAlone, TypeOK, Die, Holds
    <2>6. NesterIsNamed'
      BY <1>0, <1>2, ProcAssumption
      DEF LockInv, NesterIsNamed, TypeOK, Die, Holds
    <2>7. OutermostReleases'
      BY <1>0, <1>2, ProcAssumption
      DEF LockInv, OutermostReleases, TypeOK, Die, Holds
    <2> QED
      BY <1>0, <2>1, <2>2, <2>3, <2>4, <2>5, <2>6, <2>7 DEF LockInv
  <1>3. ASSUME NEW p \in Proc, Acquire(p) PROVE LockInv'
    <2>1. PidsDiffer'
      BY <1>0, <1>3, ProcAssumption
      DEF LockInv, PidsDiffer, TypeOK, Acquire, Holds, LockOf
    <2>2. OnlyTheLivingAct'
      BY <1>0, <1>3, ProcAssumption
      DEF LockInv, OnlyTheLivingAct, TypeOK, Acquire, Holds
    <2>3. GuardInv'
      BY <1>0, <1>3, ProcAssumption
      DEF LockInv, GuardInv, TypeOK, Acquire, Holds
    <2>4. FileNamesHolder'
      BY <1>0, <1>3, ProcAssumption
      DEF LockInv, FileNamesHolder, TypeOK, Acquire, Holds
    <2>5. TakerIsAlone'
      BY <1>0, <1>3, ProcAssumption
      DEF LockInv, TakerIsAlone, TypeOK, Acquire, Holds
    <2>6. NesterIsNamed'
      BY <1>0, <1>3, ProcAssumption
      DEF LockInv, NesterIsNamed, TypeOK, Acquire, Holds
    <2>7. OutermostReleases'
      BY <1>0, <1>3, ProcAssumption
      DEF LockInv, OutermostReleases, TypeOK, Acquire, Holds
    <2> QED
      BY <1>0, <2>1, <2>2, <2>3, <2>4, <2>5, <2>6, <2>7 DEF LockInv
  <1>4. ASSUME NEW p \in Proc, Release(p) PROVE LockInv'
    <2>1. /\ alive' = alive /\ file' = file /\ guard' = guard /\ seen' = seen
          /\ p \in alive /\ pc[p] = "out" /\ Holds(p)
      BY <1>4 DEF Release
    <2>2. CASE Pop(p) /\ UNCHANGED pc
      <3>1. /\ Len(held'[p]) = Len(held[p]) - 1
            /\ \A i \in 1..Len(held'[p]) : held'[p][i] = held[p][i]
            /\ Len(held[p]) \in Nat
        BY <1>0, <2>1, <2>2, PopTypes DEF Pop, TypeOK, Holds
      <3>2. \A q \in Proc : q # p => held'[q] = held[q]
        BY <1>0, <2>2 DEF Pop, TypeOK
      <3>3. PidsDiffer'
        BY <1>0, <2>1, <2>2, <3>1, <3>2 DEF LockInv, PidsDiffer, TypeOK, Holds
      <3>4. OnlyTheLivingAct'
        BY <1>0, <2>1, <2>2, <3>1, <3>2 DEF LockInv, OnlyTheLivingAct, TypeOK, Holds
      <3>5. GuardInv'
        BY <1>0, <2>1, <2>2, <3>1, <3>2 DEF LockInv, GuardInv, TypeOK, Holds
      <3>6. FileNamesHolder'
        BY <1>0, <2>1, <2>2, <3>1, <3>2 DEF LockInv, FileNamesHolder, TypeOK, Holds
      <3>7. TakerIsAlone'
        BY <1>0, <2>1, <2>2, <3>1, <3>2 DEF LockInv, TakerIsAlone, TypeOK, Holds
      <3>8. NesterIsNamed'
        BY <1>0, <2>1, <2>2, <3>1, <3>2 DEF LockInv, NesterIsNamed, TypeOK, Holds
      <3>9. OutermostReleases'
        <4>1. ASSUME NEW q \in Proc, NEW i \in 1..Len(held'[q]), i > 1
              PROVE  held'[q][i] = "nested"
          <5>1. CASE q = p
            <6>1. i \in 1..Len(held[p]) /\ held'[p][i] = held[p][i]
              BY <3>1, <4>1, <5>1
            <6> QED
              BY <4>1, <5>1, <6>1 DEF LockInv, OutermostReleases
          <5>2. CASE q # p
            BY <3>2, <4>1, <5>2 DEF LockInv, OutermostReleases
          <5> QED
            BY <5>1, <5>2
        <4>2. ASSUME NEW q \in Proc, pc'[q] = "remove" PROVE Len(held'[q]) = 1
          BY <2>1, <2>2, <3>2, <4>2 DEF LockInv, OutermostReleases
        <4> QED
          BY <4>1, <4>2 DEF OutermostReleases
      <3> QED
        BY <1>0, <3>3, <3>4, <3>5, <3>6, <3>7, <3>8, <3>9 DEF LockInv
    <2>3. CASE /\ pc' = [pc EXCEPT ![p] = "remove"] /\ UNCHANGED held
               /\ Top(p) # "nested"
      <3>1. Len(held[p]) = 1
        <4>1. Len(held[p]) \in Nat \ {0}
          BY <1>0, <2>1, EmptySeq DEF TypeOK, Holds
        <4>2. Len(held[p]) \in 1..Len(held[p])
          BY <4>1
        <4>3. Len(held[p]) > 1 => held[p][Len(held[p])] = "nested"
          BY <4>2 DEF LockInv, OutermostReleases
        <4>4. held[p][Len(held[p])] # "nested"
          BY <2>3 DEF Top
        <4>5. ~(Len(held[p]) > 1)
          BY <4>3, <4>4, Zenon
        <4>6. ASSUME NEW n \in Nat \ {0}, ~(n > 1) PROVE n = 1
          BY <4>6
        <4> QED
          BY <4>1, <4>5, <4>6
      <3>2. PidsDiffer'
        BY <1>0, <2>1, <2>3, <3>1 DEF LockInv, PidsDiffer, TypeOK, Holds
      <3>3. OnlyTheLivingAct'
        BY <1>0, <2>1, <2>3, <3>1 DEF LockInv, OnlyTheLivingAct, TypeOK, Holds
      <3>4. GuardInv'
        BY <1>0, <2>1, <2>3, <3>1 DEF LockInv, GuardInv, TypeOK, Holds
      <3>5. FileNamesHolder'
        BY <1>0, <2>1, <2>3, <3>1 DEF LockInv, FileNamesHolder, TypeOK, Holds
      <3>6. TakerIsAlone'
        BY <1>0, <2>1, <2>3, <3>1 DEF LockInv, TakerIsAlone, TypeOK, Holds
      <3>7. NesterIsNamed'
        BY <1>0, <2>1, <2>3, <3>1 DEF LockInv, NesterIsNamed, TypeOK, Holds
      <3>8. OutermostReleases'
        BY <1>0, <2>1, <2>3, <3>1 DEF LockInv, OutermostReleases, TypeOK, Holds
      <3> QED
        BY <1>0, <3>2, <3>3, <3>4, <3>5, <3>6, <3>7, <3>8 DEF LockInv
    <2> QED
      BY <1>4, <2>2, <2>3 DEF Release
  <1>5. ASSUME NEW p \in Proc, guardLock(p) PROVE LockInv'
    <2>1. PidsDiffer'
      BY <1>0, <1>5, ProcAssumption
      DEF LockInv, PidsDiffer, TypeOK, guardLock, Holds, LockOf
    <2>2. OnlyTheLivingAct'
      BY <1>0, <1>5, ProcAssumption
      DEF LockInv, OnlyTheLivingAct, TypeOK, guardLock, Holds
    <2>3. GuardInv'
      BY <1>0, <1>5, ProcAssumption
      DEF LockInv, GuardInv, TypeOK, guardLock, Holds
    <2>4. FileNamesHolder'
      BY <1>0, <1>5, ProcAssumption
      DEF LockInv, FileNamesHolder, TypeOK, guardLock, Holds
    <2>5. TakerIsAlone'
      BY <1>0, <1>5, ProcAssumption
      DEF LockInv, TakerIsAlone, TypeOK, guardLock, Holds
    <2>6. NesterIsNamed'
      BY <1>0, <1>5, ProcAssumption
      DEF LockInv, NesterIsNamed, TypeOK, guardLock, Holds
    <2>7. OutermostReleases'
      BY <1>0, <1>5, ProcAssumption
      DEF LockInv, OutermostReleases, TypeOK, guardLock, Holds
    <2> QED
      BY <1>0, <2>1, <2>2, <2>3, <2>4, <2>5, <2>6, <2>7 DEF LockInv
  <1>6. ASSUME NEW p \in Proc, ReadUnderGuard(p) PROVE LockInv'
    <2>1. /\ seen'[p].state \in {"free", "stale"} => \A q \in Proc : ~Holds(q)
          /\ seen'[p].state = "live" /\ seen'[p].pid = PidOf[p] => file = LockOf(p)
      BY <1>0, <1>6, ReadFacts DEF ReadUnderGuard, TypeOK
    <2>2. /\ alive' = alive /\ file' = file /\ guard' = guard /\ held' = held
          /\ pc' = [pc EXCEPT ![p] = "decide"] /\ pc[p] = "read"
          /\ \A q \in Proc : q # p => seen'[q] = seen[q]
      BY <1>0, <1>6 DEF ReadUnderGuard, TypeOK
    <2>3. PidsDiffer'
      BY <1>0, <2>1, <2>2 DEF LockInv, PidsDiffer, TypeOK, Holds
    <2>4. OnlyTheLivingAct'
      BY <1>0, <2>1, <2>2 DEF LockInv, OnlyTheLivingAct, TypeOK, Holds
    <2>5. GuardInv'
      BY <1>0, <2>1, <2>2 DEF LockInv, GuardInv, TypeOK, Holds
    <2>6. FileNamesHolder'
      BY <1>0, <2>1, <2>2 DEF LockInv, FileNamesHolder, TypeOK, Holds
    <2>7. TakerIsAlone'
      BY <1>0, <2>1, <2>2 DEF LockInv, TakerIsAlone, TypeOK, Holds
    <2>8. NesterIsNamed'
      BY <1>0, <2>1, <2>2 DEF LockInv, NesterIsNamed, TypeOK, Holds
    <2>9. OutermostReleases'
      BY <1>0, <2>1, <2>2 DEF LockInv, OutermostReleases, TypeOK, Holds
    <2> QED
      BY <1>0, <2>3, <2>4, <2>5, <2>6, <2>7, <2>8, <2>9 DEF LockInv
  <1>7. ASSUME NEW p \in Proc, Nest(p) PROVE LockInv'
    <2>1. PidsDiffer'
      BY <1>0, <1>7, ProcAssumption
      DEF LockInv, PidsDiffer, TypeOK, Nest, Holds, LockOf
    <2>2. OnlyTheLivingAct'
      BY <1>0, <1>7, ProcAssumption
      DEF LockInv, OnlyTheLivingAct, TypeOK, Nest, Holds
    <2>3. GuardInv'
      BY <1>0, <1>7, ProcAssumption
      DEF LockInv, GuardInv, TypeOK, Nest, Holds
    <2>4. FileNamesHolder'
      BY <1>0, <1>7, ProcAssumption
      DEF LockInv, FileNamesHolder, TypeOK, Nest, Holds, NesterIsNamed
    <2>5. TakerIsAlone'
      BY <1>0, <1>7, ProcAssumption
      DEF LockInv, TakerIsAlone, TypeOK, Nest, Holds, GuardInv
    <2>6. NesterIsNamed'
      BY <1>0, <1>7, ProcAssumption
      DEF LockInv, NesterIsNamed, TypeOK, Nest, Holds
    <2>7. OutermostReleases'
      BY <1>0, <1>7, ProcAssumption
      DEF LockInv, OutermostReleases, TypeOK, Nest, Holds
    <2> QED
      BY <1>0, <2>1, <2>2, <2>3, <2>4, <2>5, <2>6, <2>7 DEF LockInv
  <1>8. ASSUME NEW p \in Proc, Refuse(p) PROVE LockInv'
    <2>1. PidsDiffer'
      BY <1>0, <1>8, ProcAssumption
      DEF LockInv, PidsDiffer, TypeOK, Refuse, Holds, LockOf
    <2>2. OnlyTheLivingAct'
      BY <1>0, <1>8, ProcAssumption
      DEF LockInv, OnlyTheLivingAct, TypeOK, Refuse, Holds
    <2>3. GuardInv'
      BY <1>0, <1>8, ProcAssumption
      DEF LockInv, GuardInv, TypeOK, Refuse, Holds
    <2>4. FileNamesHolder'
      BY <1>0, <1>8, ProcAssumption
      DEF LockInv, FileNamesHolder, TypeOK, Refuse, Holds
    <2>5. TakerIsAlone'
      BY <1>0, <1>8, ProcAssumption
      DEF LockInv, TakerIsAlone, TypeOK, Refuse, Holds
    <2>6. NesterIsNamed'
      BY <1>0, <1>8, ProcAssumption
      DEF LockInv, NesterIsNamed, TypeOK, Refuse, Holds
    <2>7. OutermostReleases'
      BY <1>0, <1>8, ProcAssumption
      DEF LockInv, OutermostReleases, TypeOK, Refuse, Holds
    <2> QED
      BY <1>0, <2>1, <2>2, <2>3, <2>4, <2>5, <2>6, <2>7 DEF LockInv
  <1>9. ASSUME NEW p \in Proc, Truncate(p) PROVE LockInv'
    <2>1. PidsDiffer'
      BY <1>0, <1>9, ProcAssumption
      DEF LockInv, PidsDiffer, TypeOK, Truncate, Holds, LockOf
    <2>2. OnlyTheLivingAct'
      BY <1>0, <1>9, ProcAssumption
      DEF LockInv, OnlyTheLivingAct, TypeOK, Truncate, Holds
    <2>3. GuardInv'
      BY <1>0, <1>9, ProcAssumption
      DEF LockInv, GuardInv, TypeOK, Truncate, Holds
    <2>4. FileNamesHolder'
      BY <1>0, <1>9, ProcAssumption
      DEF LockInv, FileNamesHolder, TypeOK, Truncate, Holds, TakerIsAlone
    <2>5. TakerIsAlone'
      BY <1>0, <1>9, ProcAssumption
      DEF LockInv, TakerIsAlone, TypeOK, Truncate, Holds
    <2>6. NesterIsNamed'
      BY <1>0, <1>9, ProcAssumption
      DEF LockInv, NesterIsNamed, TypeOK, Truncate, Holds, GuardInv
    <2>7. OutermostReleases'
      BY <1>0, <1>9, ProcAssumption
      DEF LockInv, OutermostReleases, TypeOK, Truncate, Holds
    <2> QED
      BY <1>0, <2>1, <2>2, <2>3, <2>4, <2>5, <2>6, <2>7 DEF LockInv
  <1>10. ASSUME NEW p \in Proc, WriteLock(p) PROVE LockInv'
    <2>1. PidsDiffer'
      BY <1>0, <1>10, ProcAssumption
      DEF LockInv, PidsDiffer, TypeOK, WriteLock, Holds, LockOf
    <2>2. OnlyTheLivingAct'
      BY <1>0, <1>10, ProcAssumption
      DEF LockInv, OnlyTheLivingAct, TypeOK, WriteLock, Holds
    <2>3. GuardInv'
      BY <1>0, <1>10, ProcAssumption
      DEF LockInv, GuardInv, TypeOK, WriteLock, Holds
    <2>4. FileNamesHolder'
      BY <1>0, <1>10, ProcAssumption
      DEF LockInv, FileNamesHolder, TypeOK, WriteLock, Holds, TakerIsAlone
    <2>5. TakerIsAlone'
      BY <1>0, <1>10, ProcAssumption
      DEF LockInv, TakerIsAlone, TypeOK, WriteLock, Holds, GuardInv
    <2>6. NesterIsNamed'
      BY <1>0, <1>10, ProcAssumption
      DEF LockInv, NesterIsNamed, TypeOK, WriteLock, Holds, GuardInv
    <2>7. OutermostReleases'
      BY <1>0, <1>10, ProcAssumption
      DEF LockInv, OutermostReleases, TypeOK, WriteLock, Holds, TakerIsAlone
    <2> QED
      BY <1>0, <2>1, <2>2, <2>3, <2>4, <2>5, <2>6, <2>7 DEF LockInv
  <1>11. ASSUME NEW p \in Proc, WriteFails(p) PROVE LockInv'
    <2>1. PidsDiffer'
      BY <1>0, <1>11, ProcAssumption
      DEF LockInv, PidsDiffer, TypeOK, WriteFails, Holds, LockOf
    <2>2. OnlyTheLivingAct'
      BY <1>0, <1>11, ProcAssumption
      DEF LockInv, OnlyTheLivingAct, TypeOK, WriteFails, Holds
    <2>3. GuardInv'
      BY <1>0, <1>11, ProcAssumption
      DEF LockInv, GuardInv, TypeOK, WriteFails, Holds
    <2>4. FileNamesHolder'
      BY <1>0, <1>11, ProcAssumption
      DEF LockInv, FileNamesHolder, TypeOK, WriteFails, Holds
    <2>5. TakerIsAlone'
      BY <1>0, <1>11, ProcAssumption
      DEF LockInv, TakerIsAlone, TypeOK, WriteFails, Holds
    <2>6. NesterIsNamed'
      BY <1>0, <1>11, ProcAssumption
      DEF LockInv, NesterIsNamed, TypeOK, WriteFails, Holds
    <2>7. OutermostReleases'
      BY <1>0, <1>11, ProcAssumption
      DEF LockInv, OutermostReleases, TypeOK, WriteFails, Holds
    <2> QED
      BY <1>0, <2>1, <2>2, <2>3, <2>4, <2>5, <2>6, <2>7 DEF LockInv
  <1>12. ASSUME NEW p \in Proc, Poll(p) PROVE LockInv'
    <2>1. /\ alive' = alive /\ file' = file /\ guard' = guard /\ held' = held
          /\ seen' = seen /\ pc[p] = "poll"
          /\ \A q \in Proc : q # p => pc'[q] = pc[q]
          /\ pc'[p] \in {"guard", "out"}
      BY <1>0, <1>12 DEF Poll, TypeOK
    <2>2. PidsDiffer'
      BY <1>0, <2>1 DEF LockInv, PidsDiffer, TypeOK, Holds
    <2>3. OnlyTheLivingAct'
      BY <1>0, <2>1 DEF LockInv, OnlyTheLivingAct, TypeOK, Holds
    <2>4. GuardInv'
      BY <1>0, <2>1 DEF LockInv, GuardInv, TypeOK, Holds
    <2>5. FileNamesHolder'
      BY <1>0, <2>1 DEF LockInv, FileNamesHolder, TypeOK, Holds
    <2>6. TakerIsAlone'
      BY <1>0, <2>1 DEF LockInv, TakerIsAlone, TypeOK, Holds
    <2>7. NesterIsNamed'
      BY <1>0, <2>1 DEF LockInv, NesterIsNamed, TypeOK, Holds
    <2>8. OutermostReleases'
      BY <1>0, <2>1 DEF LockInv, OutermostReleases, TypeOK, Holds
    <2> QED
      BY <1>0, <2>2, <2>3, <2>4, <2>5, <2>6, <2>7, <2>8 DEF LockInv
  <1>13. ASSUME NEW p \in Proc, RemoveFile(p) PROVE LockInv'
    <2>1. /\ alive' = alive /\ guard' = guard /\ seen' = seen
          /\ pc[p] = "remove" /\ pc' = [pc EXCEPT ![p] = "out"]
          /\ Len(held[p]) = 1 /\ p \in alive
      BY <1>13 DEF RemoveFile, LockInv, OutermostReleases, OnlyTheLivingAct
    <2>2. held[p] # <<>>
      BY <2>1, EmptySeq
    <2>3. held'[p] = <<>> /\ Len(held'[p]) = 0
      <3>1. held'[p] \in Seq(Holdings) /\ Len(held'[p]) = 0
        BY <1>0, <1>13, <2>1, <2>2, PopTypes DEF RemoveFile, Pop, TypeOK
      <3> QED
        BY <3>1, EmptySeq
    <2>4. \A q \in Proc : q # p => held'[q] = held[q]
      BY <1>0, <1>13 DEF RemoveFile, Pop, TypeOK
    <2>5. file = LockOf(p)
      BY <2>2 DEF LockInv, FileNamesHolder, Holds
    <2>6. \A q \in Proc : q # p => ~Holds(q)
      BY <2>1, <2>5 DEF LockInv, FileNamesHolder, OnlyTheLivingAct, PidsDiffer
    <2>7. \A q \in Proc : file # LockOf(q) \/ q = p \/ pc[q] = "out"
      BY <2>1, <2>5 DEF LockInv, OnlyTheLivingAct, PidsDiffer
    <2>8. PidsDiffer'
      BY <1>0, <2>1, <2>3, <2>4, <2>6, <2>7 DEF LockInv, PidsDiffer, TypeOK, Holds
    <2>9. OnlyTheLivingAct'
      BY <1>0, <2>1, <2>3, <2>4, <2>6, <2>7 DEF LockInv, OnlyTheLivingAct, TypeOK, Holds
    <2>10. GuardInv'
      BY <1>0, <2>1, <2>3, <2>4, <2>6, <2>7 DEF LockInv, GuardInv, TypeOK, Holds
    <2>11. FileNamesHolder'
      BY <1>0, <2>1, <2>3, <2>4, <2>6, <2>7 DEF LockInv, FileNamesHolder, TypeOK, Holds
    <2>12. TakerIsAlone'
      BY <1>0, <2>1, <2>3, <2>4, <2>6, <2>7 DEF LockInv, TakerIsAlone, TypeOK, Holds
    <2>13. NesterIsNamed'
      BY <1>0, <2>1, <2>3, <2>4, <2>6, <2>7 DEF LockInv, NesterIsNamed, TypeOK, Holds
    <2>14. OutermostReleases'
      BY <1>0, <2>1, <2>3, <2>4, <2>6, <2>7 DEF LockInv, OutermostReleases, TypeOK, Holds
    <2> QED
      BY <1>0, <2>8, <2>9, <2>10, <2>11, <2>12, <2>13, <2>14 DEF LockInv
  <1>14. CASE UNCHANGED vars
    BY <1>0, <1>14 DEF vars, LockInv, PidsDiffer, OnlyTheLivingAct, GuardInv, FileNamesHolder, TakerIsAlone,
                       NesterIsNamed, OutermostReleases, Holds
  <1> QED
    BY <1>1, <1>2, <1>3, <1>4, <1>5, <1>6, <1>7, <1>8, <1>9, <1>10, <1>11, <1>12, <1>13,
       <1>14 DEF Next, InCall

THEOREM LockInvariant == Spec => []LockInv
  BY InitLockInv, NextLockInv, PTL DEF Spec

-----------------------------------------------------------------------------

\* Two processes never hold a workspace at once: both would be named by the one
\* lock file, and live processes have different names.
THEOREM Exclusion == Spec => []MutualExclusion
  <1>1. LockInv => MutualExclusion
    BY DEF LockInv, OnlyTheLivingAct, FileNamesHolder, PidsDiffer, MutualExclusion
  <1> QED
    BY <1>1, LockInvariant, PTL

\* A reader on the holder's host is always told the holder's pid is live, so no
\* run ever takes a held lock for a leftover.
THEOREM HolderSeen == Spec => []HolderIsVisible
  <1>1. LockInv => HolderIsVisible
    <2> SUFFICES ASSUME LockInv, NEW p \in Proc, Holds(p)
                 PROVE  readLock(p) = [state |-> "live", pid |-> PidOf[p]]
      BY DEF HolderIsVisible
    <2>1. file = LockOf(p) /\ p \in alive
      BY DEF LockInv, FileNamesHolder, OnlyTheLivingAct
    <2> QED
      BY <2>1 DEF readLock, LockOf, processAlive
  <1> QED
    BY <1>1, LockInvariant, PTL

-----------------------------------------------------------------------------

\* Under mutual exclusion the abstract holder is the process that holds, if any.
LEMMA HolderIs ==
  ASSUME MutualExclusion
  PROVE  /\ \A p \in Proc : Holds(p) => holder = p
         /\ (\A p \in Proc : ~Holds(p)) => holder = NoProc
  BY DEF MutualExclusion, holder

\* A step of p leaves every other process's holds alone.
LEMMA OneActs ==
  ASSUME TypeOK, Next
  PROVE  \E p \in Proc : \A q \in Proc : q # p => held'[q] = held[q]
  <1>1. PICK p \in Proc : Spawn(p) \/ Die(p) \/ Acquire(p) \/ Release(p) \/ InCall(p)
    BY DEF Next
  <1>2. \A q \in Proc : q # p => held'[q] = held[q]
    BY <1>1
    DEF TypeOK, Spawn, Die, Acquire, Release, Pop, InCall, guardLock, ReadUnderGuard,
        Nest, Refuse, Truncate, WriteLock, WriteFails, Poll, RemoveFile
  <1> QED
    BY <1>2

\* The lock file protocol implements the abstract workspace lock: whatever one
\* process does is a take of a free workspace, a give-up by its holder, or
\* neither.
THEOREM Refinement == Spec => ImplementsMutex
  <1>1. Init => Mutex!Init
    BY DEF Init, Mutex!Init, holder, Holds
  <1>2. LockInv /\ LockInv' /\ [Next]_vars => [Mutex!Next]_holder
    <2> SUFFICES ASSUME LockInv, LockInv', [Next]_vars
                 PROVE  Mutex!Next \/ holder' = holder
      OBVIOUS
    <2>1. MutualExclusion /\ MutualExclusion'
      BY DEF LockInv, OnlyTheLivingAct, FileNamesHolder, PidsDiffer, MutualExclusion
    <2>2. CASE UNCHANGED vars
      BY <2>2 DEF vars, holder, Holds
    <2>3. CASE Next
      <3>1. PICK p \in Proc : \A q \in Proc : q # p => held'[q] = held[q]
        BY <2>3, OneActs DEF LockInv
      <3>2. /\ \A q \in Proc : Holds(q) => holder = q
            /\ (\A q \in Proc : ~Holds(q)) => holder = NoProc
        BY <2>1, HolderIs
      <3>3. /\ \A q \in Proc : Holds(q)' => holder' = q
            /\ (\A q \in Proc : ~Holds(q)') => holder' = NoProc
        BY <2>1 DEF MutualExclusion, holder
      <3>4. \A q \in Proc : q # p => (Holds(q)' <=> Holds(q))
        BY <3>1 DEF Holds
      <3>5. CASE \E q \in Proc : q # p /\ Holds(q)
        BY <3>2, <3>3, <3>4, <3>5
      <3>6. CASE \A q \in Proc : q # p => ~Holds(q)
        BY <3>2, <3>3, <3>4, <3>6 DEF Mutex!Next, Mutex!Take, Mutex!GiveUp
      <3> QED
        BY <3>5, <3>6
    <2> QED
      BY <2>2, <2>3
  <1> QED
    BY <1>1, <1>2, LockInvariant, PTL DEF Spec, ImplementsMutex, Mutex!Spec

-----------------------------------------------------------------------------
(* The composition.                                                        *)

Records ==
  [steps : [Stage -> {"none", "done", "failed"}], path : Path,
   request : Request \cup {None}, nodes : {{}, Node}, argv : SUBSET Node,
   genesis : {"yes", "no"}, inG : Genesis \cup {None},
   inC : [Node -> Config \cup {None}], pids : SUBSET Node]

\* Where a command can be.
Places ==
  Stage \cup {"off", "failed", "rollback", "phase", "actions", "recording",
              "stoppedAtStep", "ready", "reconcile", "compare", "stopping",
              "restarting", "missing", "done", "stop", "rm", "restart"}

\* The places of a command that works on a request.
Composing == Places \ {"off", "stop", "rm", "restart"}

MachineTypes ==
  /\ gfile \in [Node -> Genesis \cup {None}] /\ cfile \in [Node -> Config \cup {None}]
  /\ datadir \in [Node -> Genesis \cup {None, Partial}]
  /\ proc \in [Node -> Process \cup {None}]

MachineRecords ==
  [gfile : [Node -> Genesis \cup {None}], cfile : [Node -> Config \cup {None}],
   datadir : [Node -> Genesis \cup {None, Partial}], proc : [Node -> Process \cup {None}]]

ControlTypes ==
  /\ at \in Places
  /\ want \in Request \cup {None} /\ (at \in Composing => want \in Request)
  /\ failing \in Stage /\ was \subseteq Node /\ todo \subseteq Node
  /\ phase \in 1..Len(Phases) + 1 /\ (at \in {"phase", "actions"} => phase \in 1..Len(Phases))
  /\ before \in [Node -> Process \cup {None}] /\ found \in MachineRecords
  /\ snap.nodes \in {{}, Node} /\ faults \in Nat

\* Which command can be where.
CommandFits ==
  /\ at \in {"compare", "stopping", "restarting"} => cmd = "compare"
  /\ at \in {"missing", "done"} => cmd = "resume"
  /\ at \in {"stop", "rm", "restart"} => cmd = at

HeardTypes == heard \in [Node -> {"yes", "no", "again"}]

CompositionTypes ==
  record \in Records /\ MachineTypes /\ ControlTypes /\ CommandFits /\ HeardTypes

-----------------------------------------------------------------------------

LEMMA EnteredType ==
  ASSUME record \in Records, NEW s \in Path
  PROVE  Entered(s) \in Records
BY DEF Records, Entered

LEMMA DoneType ==
  ASSUME NEW r \in Records, NEW s \in Stage, NEW x \in {"none", "done", "failed"}
  PROVE  [r EXCEPT !.steps[s] = x] \in Records
BY DEF Records

LEMMA PidsType ==
  ASSUME NEW r \in Records, NEW P \in SUBSET Node, NEW A \in SUBSET Node
  PROVE  /\ [r EXCEPT !.pids = P] \in Records
         /\ [r EXCEPT !.argv = A, !.pids = P] \in Records
         /\ r.pids \in SUBSET Node /\ r.argv \in SUBSET Node
BY DEF Records

LEMMA StagesArePlaces == Stage \subseteq Path /\ Stage \subseteq Places
BY DEF Stage, Path, Places

LEMMA AfterType ==
  ASSUME NEW s \in Stage
  PROVE  after(s) \in {"stoppedAtStep", "reconcile", "place", "keys", "genesis", "config",
                       "build", "deploy", "init", "start", "ready"}
BY DEF after, stageOrder, Stage

LEMMA InitTyped == CompositionInit => CompositionTypes
<1> SUFFICES ASSUME CompositionInit PROVE CompositionTypes OBVIOUS
<1>1. record \in Records
  BY DEF CompositionInit, NoRecord, Records, Path
<1>2. MachineTypes
  BY DEF CompositionInit, MachineTypes
<1>3. ControlTypes
  BY CompositionAssumption
     DEF CompositionInit, ControlTypes, Places, Composing, Stage, NoSnap, Machines, MachineRecords
<1> QED BY <1>1, <1>2, <1>3 DEF CompositionTypes, CommandFits, CompositionInit, HeardTypes

-----------------------------------------------------------------------------
(* The stages that build the network, by what they leave of the record. *)

Builds ==
  \/ openingWorkspace \/ buildingNodeTable \/ ensuringKeys \/ buildingGenesis
  \/ buildingNodeConfig \/ buildingNodeCommand \/ deployingInputs \/ initializingDatadirs

Ends(s, r) == Reports(s, r) \/ Fails(s, r) \/ Dies(s)

\* What a stage saves is entered under its name and keeps the steps and the pids; only the
\* first one writes down the request.
Tidy(s, r) ==
  /\ r \in Records /\ r.path = s /\ r.steps = record.steps /\ r.pids = record.pids
  /\ r.request = record.request \/ (s = "new" /\ r.request = want)

LEMMA EnteredKeeps ==
  ASSUME record \in Records, NEW s
  PROVE  /\ Entered(s).pids = record.pids /\ Entered(s).argv = record.argv
         /\ Entered(s).steps = record.steps /\ Entered(s).request = record.request
         /\ Entered(s).nodes = record.nodes /\ Entered(s).path = s
BY DEF Entered, Records

LEMMA EnteredTidy ==
  ASSUME record \in Records, NEW s \in Stage
  PROVE  Tidy(s, Entered(s))
BY EnteredType, EnteredKeeps, StagesArePlaces DEF Tidy

LEMMA StageEnds ==
  ASSUME CompositionTypes, Builds
  PROVE  /\ at \in Stage \ {"start"} /\ want \in Request
         /\ \E r : Tidy(at, r) /\ Ends(at, r)
         /\ at' = "place" => record'.request = want
<1> USE EnteredTidy DEF CompositionTypes, Ends
<1>s. at \in Stage \ {"start"}
  BY DEF Builds, openingWorkspace, buildingNodeTable, ensuringKeys, buildingGenesis,
         buildingNodeConfig, buildingNodeCommand, deployingInputs, initializingDatadirs, Stage
<1>w. want \in Request
  BY <1>s DEF ControlTypes, Composing, Places, Stage
<1>e. Tidy(at, Entered(at)) /\ Entered(at) \in Records
  BY <1>s DEF Tidy
<1>1. CASE openingWorkspace
  <2> DEFINE r == [Entered("new") EXCEPT !.request = want]
  <2>1. at = "new" BY <1>1 DEF openingWorkspace
  <2>2. Tidy(at, r) /\ r.request = want
    BY <1>e, <1>w, <2>1, EnteredKeeps DEF Tidy, Records
  <2>3. Reports("new", r) \/ Fails("new", Entered("new")) \/ Dies("new")
    BY <1>1 DEF openingWorkspace
  <2>4. Reports("new", r) => record'.request = want
    <3>1. [r EXCEPT !.steps["new"] = "done"].request = want BY <2>2 DEF Tidy, Records
    <3> QED BY <3>1 DEF Reports
  <2>5. at' = "place" => Reports("new", r)
    BY <2>3 DEF Fails, Dies, Off
  <2> HIDE DEF r
  <2> QED BY <1>s, <1>w, <1>e, <2>1, <2>2, <2>3, <2>4, <2>5
<1>p. ASSUME ~openingWorkspace, \E r : Tidy(at, r) /\ Ends(at, r) PROVE at' # "place"
  <2>1. at \in Stage \ {"new", "start"}
    BY <1>s, <1>p DEF Builds, openingWorkspace, buildingNodeTable, ensuringKeys, buildingGenesis,
         buildingNodeConfig, buildingNodeCommand, deployingInputs, initializingDatadirs, Stage
  <2> QED BY <1>p, <2>1 DEF Reports, Fails, Dies, Goes, Off, after, stageOrder, Stage
<1>2. CASE buildingNodeTable
  <2>1. Tidy("place", Allocated)
    <3>1. Tidy("place", Entered("place")) BY <1>2, <1>e DEF buildingNodeTable
    <3>2. {} \in SUBSET Node /\ Node \in {{}, Node} OBVIOUS
    <3> QED BY <3>1, <3>2 DEF Allocated, Tidy, Records
  <2> QED BY <1>2, <1>e, <1>s, <1>w, <1>p, <2>1 DEF buildingNodeTable, openingWorkspace
<1>3. CASE ensuringKeys \/ deployingInputs \/ initializingDatadirs
  BY <1>3, <1>e, <1>s, <1>w, <1>p
     DEF ensuringKeys, deployingInputs, initializingDatadirs, openingWorkspace
<1>4. CASE buildingGenesis
  <2> DEFINE wrote(k) == [Entered("genesis") EXCEPT
                            !.inG = IF k > 0 THEN want.genesis ELSE @,
                            !.genesis = IF k = N THEN "yes" ELSE @]
  <2>1. at = "genesis" /\ ~openingWorkspace BY <1>4 DEF buildingGenesis, openingWorkspace
  <2>2. PICK k \in 0..N : Ends(at, wrote(k))
    BY <1>4, <2>1 DEF buildingGenesis
  <2>3. want.genesis \in Genesis BY <1>w DEF Request
  <2>4. Tidy(at, wrote(k))
    BY <1>e, <2>1, <2>3, EnteredKeeps DEF Tidy, Records
  <2> QED BY <1>s, <1>w, <1>p, <2>1, <2>2, <2>4
<1>5. CASE buildingNodeConfig
  <2> DEFINE saved(k, half) ==
        [Entered("config") EXCEPT
           !.inC = [n \in Node |-> IF n \in ((1..k + half) \cap Node) THEN want.config ELSE @[n]]]
  <2>1. at = "config" /\ ~openingWorkspace BY <1>5 DEF buildingNodeConfig, openingWorkspace
  <2>2. PICK k \in 0..N, half \in 0..1 : Ends(at, saved(k, half))
    BY <1>5, <2>1 DEF buildingNodeConfig
  <2>3. want.config \in Config BY <1>w DEF Request
  <2>4. Tidy(at, saved(k, half))
    BY <1>e, <2>1, <2>3, EnteredKeeps DEF Tidy, Records
  <2> QED BY <1>s, <1>w, <1>p, <2>1, <2>2, <2>4
<1>6. CASE buildingNodeCommand
  <2> DEFINE armed(k) == [Entered("build") EXCEPT !.argv = @ \cup 1..k]
  <2>1. at = "build" /\ ~openingWorkspace BY <1>6 DEF buildingNodeCommand, openingWorkspace
  <2>2. PICK k \in 0..N : Ends(at, armed(k))
    BY <1>6, <2>1 DEF buildingNodeCommand
  <2>3. 1..k \subseteq Node BY CompositionAssumption DEF Node
  <2>4. Tidy(at, armed(k))
    BY <1>e, <2>1, <2>3, EnteredKeeps DEF Tidy, Records
  <2> QED BY <1>s, <1>w, <1>p, <2>1, <2>2, <2>4
<1> QED BY <1>1, <1>2, <1>3, <1>4, <1>5, <1>6 DEF Builds

-----------------------------------------------------------------------------

\* What a stage leaves of the record, however it ends.
LEMMA StageRecords ==
  ASSUME NEW s \in Stage, NEW r \in Records, record \in Records,
         Reports(s, r) \/ Fails(s, r) \/ Dies(s)
  PROVE  record' \in Records
BY EnteredType, DoneType, StagesArePlaces DEF Reports, Fails, Dies

LEMMA StepRecords ==
  ASSUME CompositionTypes, [CompositionNext]_compositionVars
  PROVE  record' \in Records
<1> USE EnteredType, StagesArePlaces DEF CompositionTypes
<1>a. \A s \in Stage : s \in Path BY StagesArePlaces
<1>b. {"compare", "reconcile", "stop", "rm", "restart", "ready", "stopped", "removed",
       "stoppedAtStep"} \subseteq Path
  BY DEF Path
<1>1. CASE Up \/ RunStep \/ Operate \/ NothingMissing \/ Crash \/ NodeDies \/ Hides
  BY <1>1 DEF Up, RunStep, Operate, Operates, NothingMissing, Crash, NodeDies, Hides
<1>2. CASE Resume
  <2>1. Alive \cup Adoptable \in SUBSET Node
    BY DEF Alive, Adoptable, Orphans, Live, Records
  <2> QED BY <1>2, <2>1 DEF Resume, Reconciled, Records
<1>3. CASE Builds
  BY <1>3, StageEnds, StageRecords DEF Tidy, Ends
<1>4. CASE launching
  BY <1>4, <1>a, StageRecords DEF launching, Stage
<1>5. CASE launchingPhase
  <2>1. PICK k \in 0..N :
          \/ record' = [Entered("start") EXCEPT
                          !.argv = @ \cup ((Phases[phase] \ record.pids) \cap 1..k),
                          !.pids = @ \cup ((Phases[phase] \ record.pids) \cap 1..k)]
          \/ Dies("start")
    BY <1>5 DEF launchingPhase, RollsBack
  <2>2. (Phases[phase] \ record.pids) \cap 1..k \subseteq Node
    BY CompositionAssumption DEF Node
  <2>3. CASE Dies("start")
    BY <2>3, <1>a, StageRecords DEF Stage
  <2>4. Entered("start") \in Records BY <1>a DEF Stage
  <2> DEFINE S == (Phases[phase] \ record.pids) \cap 1..k
  <2>5. Entered("start").pids \cup S \in SUBSET Node /\ Entered("start").argv \cup S \in SUBSET Node
    BY <2>2, <2>4, PidsType
  <2>6. [Entered("start") EXCEPT !.argv = @ \cup S, !.pids = @ \cup S] \in Records
    BY <2>4, <2>5, PidsType
  <2> QED BY <2>1, <2>3, <2>6
<1>6. CASE runningPhaseActions
  BY <1>6, <1>a, StageRecords DEF runningPhaseActions, RollsBack, Stage
<1>7. CASE recordingRun
  <2>1. [Entered("start") EXCEPT !.steps["start"] = "done"] \in Records
    BY <1>a, DoneType DEF Stage
  <2> QED BY <1>7, <2>1, <1>a, StageRecords DEF recordingRun, RollsBack, Stage
<1>8. CASE rollingBack
  BY <1>8 DEF rollingBack, Fails, Records
<1>9. CASE StageRefuses
  <2>1. PICK s \in Stage : Refuses(s)
    BY <1>9 DEF StageRefuses, Stage
  <2> QED BY <2>1, <1>a, StageRecords DEF Refuses
<1>10. CASE Rests
  BY <1>10, <1>b DEF Rests
<1>11. CASE MarkFailed
  BY <1>11, DoneType DEF MarkFailed, ControlTypes
<1>12. CASE reconciling
  <2>1. Entered("reconcile") \in Records BY <1>b
  <2>2. \/ record' = Entered("reconcile")
        \/ record' = [[Entered("reconcile") EXCEPT !.pids = @ \cup Found]
                        EXCEPT !.pids = @ \ (Node \ Reused)]
    BY <1>12 DEF reconciling, Fails, Dies
  <2>3. Found \subseteq Node BY DEF Found
  <2> DEFINE kept == [Entered("reconcile") EXCEPT !.pids = @ \cup Found]
  <2>4. kept \in Records BY <2>1, <2>3, PidsType
  <2>5. kept.pids \ (Node \ Reused) \in SUBSET Node BY <2>4, PidsType
  <2>6. [kept EXCEPT !.pids = @ \ (Node \ Reused)] \in Records BY <2>4, <2>5, PidsType
  <2> QED BY <2>1, <2>2, <2>6
<1>13. CASE comparing
  BY <1>13, <1>b DEF comparing
<1>14. CASE stoppingToRebuild
  <2>1. PICK S \in SUBSET record.pids :
          \/ record' = [Entered("compare") EXCEPT !.pids = {}]
          \/ record' = [Entered("compare") EXCEPT !.pids = @ \ S]
          \/ record' = Entered("compare")
    BY <1>14 DEF stoppingToRebuild, Leaves, Dies
  <2>2. Entered("compare") \in Records BY <1>b
  <2>3. Entered("compare").pids \ S \in SUBSET Node BY <2>2, PidsType
  <2> QED BY <2>1, <2>2, <2>3, PidsType
<1>15. CASE restartingNodes
  <2>1. \/ record' = Entered("compare")
        \/ \E n \in todo : \/ record' = [Entered("compare") EXCEPT !.pids = @ \cup {n}]
                           \/ record' = [Entered("compare") EXCEPT !.pids = @ \ {n}]
    BY <1>15 DEF restartingNodes, Leaves, Dies
  <2>2. Entered("compare") \in Records BY <1>b
  <2>3. \A n \in todo : /\ Entered("compare").pids \cup {n} \in SUBSET Node
                         /\ Entered("compare").pids \ {n} \in SUBSET Node
    BY <2>2, PidsType DEF ControlTypes
  <2> QED BY <2>1, <2>2, <2>3, PidsType
<1>16. CASE startMissing
  <2>1. PICK k \in 0..N :
          \/ record' = [record EXCEPT !.pids =
                          @ \cup (((record.nodes \cap record.argv) \ record.pids) \cap 1..k)]
          \/ record' = record
    BY <1>16 DEF startMissing
  <2>2. ((record.nodes \cap record.argv) \ record.pids) \cap 1..k \subseteq Node
    BY DEF Records
  <2>3. record.pids \cup (((record.nodes \cap record.argv) \ record.pids) \cap 1..k) \in SUBSET Node
    BY <2>2, PidsType
  <2> QED BY <2>1, <2>3, PidsType
<1>17. CASE stopping
  <2>1. PICK S \in SUBSET record.pids :
          \/ record' = [Entered("stopped") EXCEPT !.pids = {}]
          \/ record' = [Entered("stop") EXCEPT !.pids = @ \ S]
          \/ record' = Entered("stop")
    BY <1>17 DEF stopping, Leaves, Dies
  <2>2. Entered("stop") \in Records /\ Entered("stopped") \in Records BY <1>b
  <2>3. Entered("stop").pids \ S \in SUBSET Node BY <2>2, PidsType
  <2> QED BY <2>1, <2>2, <2>3, PidsType
<1>18. CASE removing
  <2>1. \/ record' = [Entered("removed") EXCEPT !.nodes = {}, !.argv = {}, !.genesis = "no"]
        \/ record' = Entered("rm")
    BY <1>18 DEF removing, Leaves, Dies
  <2>2. Entered("rm") \in Records /\ Entered("removed") \in Records BY <1>b
  <2>3. [Entered("removed") EXCEPT !.nodes = {}, !.argv = {}, !.genesis = "no"] \in Records
    <3>1. {} \in {{}, Node} /\ {} \in SUBSET Node OBVIOUS
    <3> QED BY <2>2, <3>1 DEF Records
  <2> QED BY <2>1, <2>2, <2>3
<1>19. CASE restarting
  <2>1. \E n \in Node : \/ record' = [Entered("ready") EXCEPT !.pids = @ \cup {n}]
                        \/ record' = [Entered("restart") EXCEPT !.pids = @ \ {n}]
                        \/ record' = Entered("restart")
    BY <1>19 DEF restarting, Leaves, Dies
  <2>2. Entered("ready") \in Records /\ Entered("restart") \in Records BY <1>b
  <2>3. \A n \in Node : /\ Entered("ready").pids \cup {n} \in SUBSET Node
                         /\ Entered("restart").pids \ {n} \in SUBSET Node
    BY <2>2, PidsType
  <2> QED BY <2>1, <2>2, <2>3, PidsType
<1>20. CASE UNCHANGED compositionVars
  BY <1>20 DEF compositionVars
<1> QED BY <1>1, <1>2, <1>3, <1>4, <1>5, <1>6, <1>7, <1>8, <1>9, <1>10, <1>11, <1>12, <1>13,
           <1>14, <1>15, <1>16, <1>17, <1>18, <1>19, <1>20
        DEF CompositionNext, Stages, Builds

-----------------------------------------------------------------------------

LEMMA HelperTypes ==
  ASSUME MachineTypes
  PROVE  /\ \A S : Stopped(S) \in [Node -> Process \cup {None}]
         /\ \A S, known : known \in {"yes", "no"} =>
              Launched(S, known) \in [Node -> Process \cup {None}]
         /\ \A S : Touched(S) \in [Node -> Genesis \cup {None, Partial}]
<1>1. \A S : Stopped(S) \in [Node -> Process \cup {None}]
  BY DEF MachineTypes, Stopped
<1>2. \A S : Touched(S) \in [Node -> Genesis \cup {None, Partial}]
  BY DEF MachineTypes, Touched
<1>3. ASSUME NEW S, NEW known \in {"yes", "no"}
      PROVE  Launched(S, known) \in [Node -> Process \cup {None}]
  <2>1. \A n \in Node : cfile[n] # None =>
          [genesis |-> IF datadir[n] = None THEN Partial ELSE datadir[n],
           config |-> cfile[n], known |-> known] \in Process
    BY DEF MachineTypes, Process
  <2> QED BY <2>1 DEF MachineTypes, Launched
<1> QED BY <1>1, <1>2, <1>3

LEMMA AdoptedType ==
  ASSUME MachineTypes, NEW A, NEW f \in [Node -> Process \cup {None}],
         \A n \in A : n \in Node => proc[n] # None
  PROVE  [n \in Node |-> IF n \in A THEN [proc[n] EXCEPT !.known = "yes"] ELSE f[n]]
           \in [Node -> Process \cup {None}]
<1>1. \A n \in Node : n \in A => [proc[n] EXCEPT !.known = "yes"] \in Process
  BY DEF MachineTypes, Process
<1> QED BY <1>1

LEMMA RestartsTypes ==
  ASSUME MachineTypes, NEW n \in Node, NEW known \in {"yes", "no"}, Restarts(n, known)
  PROVE  MachineTypes'
<1>1. cfile[n] # None =>
        [genesis |-> IF datadir[n] = None THEN Partial ELSE datadir[n],
         config |-> cfile[n], known |-> known] \in Process
  BY DEF MachineTypes, Process
<1>2. proc' \in [Node -> Process \cup {None}]
  BY <1>1, HelperTypes DEF Restarts, MachineTypes
<1> QED BY <1>2, HelperTypes DEF Restarts, MachineTypes

LEMMA StepMachines ==
  ASSUME CompositionTypes, [CompositionNext]_compositionVars
  PROVE  MachineTypes'
<1> USE DEF CompositionTypes
<1>0. CASE UNCHANGED machines
  BY <1>0 DEF machines, MachineTypes
<1>1. CASE Up \/ RunStep \/ Operate \/ NothingMissing \/ Crash \/ Hides
  BY <1>0, <1>1 DEF Up, RunStep, Operate, Operates, NothingMissing, Crash, Hides
<1>2. CASE Resume
  <2>1. \A n \in Adoptable : n \in Node => proc[n] # None
    BY DEF Adoptable, Orphans, Live
  <2>2. proc' \in [Node -> Process \cup {None}]
    BY <1>2, <2>1, AdoptedType DEF Resume, MachineTypes
  <2> QED BY <1>2, <2>2 DEF Resume, MachineTypes
<1>3. CASE openingWorkspace \/ buildingNodeTable \/ ensuringKeys \/ buildingNodeCommand
             \/ deployingInputs \/ launching \/ runningPhaseActions \/ recordingRun
  BY <1>0, <1>3 DEF openingWorkspace, buildingNodeTable, ensuringKeys, buildingNodeCommand,
                    deployingInputs, launching, runningPhaseActions, recordingRun
<1>4. CASE buildingGenesis
  <2>1. want.genesis \in Genesis
    BY <1>4 DEF buildingGenesis, ControlTypes, Composing, Places, Stage, Request
  <2>2. PICK k \in 0..N :
          gfile' = [n \in Node |-> IF n \in 1..k THEN want.genesis ELSE gfile[n]]
    BY <1>4 DEF buildingGenesis
  <2> QED BY <1>4, <2>1, <2>2 DEF buildingGenesis, MachineTypes
<1>5. CASE buildingNodeConfig
  <2>1. want.config \in Config
    BY <1>5 DEF buildingNodeConfig, ControlTypes, Composing, Places, Stage, Request
  <2>2. PICK k \in 0..N :
          cfile' = [n \in Node |-> IF n \in 1..k THEN want.config ELSE cfile[n]]
    BY <1>5 DEF buildingNodeConfig
  <2> QED BY <1>5, <2>1, <2>2 DEF buildingNodeConfig, MachineTypes
<1>6. CASE initializingDatadirs
  <2>1. PICK k \in 0..N :
          LET rest == [n \in Node |-> IF n \in (1..k) \ record.pids THEN gfile[n] ELSE datadir[n]]
          IN \/ datadir' = rest
             \/ /\ k < N
                /\ \E left \in {datadir[k + 1], None, Partial} :
                     datadir' = [rest EXCEPT ![k + 1] = left]
    BY <1>6 DEF initializingDatadirs
  <2> DEFINE rest == [n \in Node |-> IF n \in (1..k) \ record.pids THEN gfile[n] ELSE datadir[n]]
  <2>2. rest \in [Node -> Genesis \cup {None, Partial}]
    BY DEF MachineTypes
  <2>3. k < N => datadir[k + 1] \in Genesis \cup {None, Partial}
    BY CompositionAssumption DEF MachineTypes, Node
  <2>4. datadir' \in [Node -> Genesis \cup {None, Partial}]
    BY <2>1, <2>2, <2>3
  <2> QED BY <1>6, <2>4 DEF initializingDatadirs, MachineTypes
<1>7. CASE launchingPhase
  <2> DEFINE S(k) == (Phases[phase] \ record.pids) \cap 1..k
  <2>1. PICK k \in 0..N : /\ proc' = Launched(S(k), "yes") \/ proc' = Launched(S(k), "no")
                         /\ datadir' = Touched(S(k))
    BY <1>7 DEF launchingPhase
  <2>2. UNCHANGED <<gfile, cfile>>
    BY <1>7 DEF launchingPhase
  <2> QED BY <2>1, <2>2, HelperTypes DEF MachineTypes
<1>8. CASE rollingBack
  BY <1>8, HelperTypes DEF rollingBack, MachineTypes
<1>9. CASE StageRefuses \/ Rests \/ MarkFailed \/ comparing
  BY <1>0, <1>9 DEF StageRefuses, Refuses, Rests, MarkFailed, comparing
<1>10. CASE reconciling
  <2>1. CASE UNCHANGED machines BY <2>1, <1>0
  <2>2. CASE ~UNCHANGED machines
    <3> DEFINE redo == Node \ Reused
    <3>1. /\ proc' = [n \in Node |-> IF n \in Found THEN [proc[n] EXCEPT !.known = "yes"]
                                     ELSE Stopped(redo \cap record.pids)[n]]
          /\ UNCHANGED <<gfile, cfile, datadir>>
      BY <1>10, <2>2 DEF reconciling
    <3>2. \A n \in Found : n \in Node => proc[n] # None
      BY DEF Found, Live
    <3> DEFINE f == Stopped(redo \cap record.pids)
    <3>3. f \in [Node -> Process \cup {None}]
      BY HelperTypes
    <3>4. [n \in Node |-> IF n \in Found THEN [proc[n] EXCEPT !.known = "yes"] ELSE f[n]]
            \in [Node -> Process \cup {None}]
      <4> HIDE DEF f
      <4> QED BY <3>2, <3>3, AdoptedType
    <3>5. proc' \in [Node -> Process \cup {None}]
      BY <3>1, <3>4
    <3> QED BY <3>1, <3>5 DEF MachineTypes
  <2> QED BY <2>1, <2>2
<1>11. CASE stoppingToRebuild \/ stopping
  <2>1. PICK S, O : Stops(S, O)
    BY <1>11 DEF stoppingToRebuild, stopping
  <2> QED BY <2>1, HelperTypes DEF Stops, MachineTypes
<1>12. CASE restartingNodes
  <2>1. CASE UNCHANGED machines BY <2>1, <1>0
  <2>2. CASE ~UNCHANGED machines
    <3>1. PICK n \in todo : Restarts(n, "yes") \/ Stays(n) \/ Restarts(n, "no")
      BY <1>12, <2>2 DEF restartingNodes
    <3>2. n \in Node BY DEF ControlTypes
    <3> QED BY <3>1, <3>2, RestartsTypes, HelperTypes DEF Stays, MachineTypes
  <2> QED BY <2>1, <2>2
<1>13. CASE startMissing
  <2> DEFINE S(k) == ((record.nodes \cap record.argv) \ record.pids) \cap 1..k
  <2>1. PICK k \in 0..N : /\ proc' = Launched(S(k), "yes") \/ proc' = Launched(S(k), "no")
                         /\ datadir' = Touched(S(k))
    BY <1>13 DEF startMissing
  <2> QED BY <1>13, <2>1, HelperTypes DEF startMissing, MachineTypes
<1>14. CASE removing
  <2>1. PICK k \in 0..N :
          LET gone == record.nodes \cap 1..k
              cleared(f) == [n \in Node |-> IF n \in gone THEN None ELSE f[n]]
          IN gfile' = cleared(gfile) /\ cfile' = cleared(cfile) /\ datadir' = cleared(datadir)
    BY <1>14 DEF removing
  <2> QED BY <1>14, <2>1 DEF removing, MachineTypes
<1>15. CASE restarting
  <2>1. CASE UNCHANGED machines BY <2>1, <1>0
  <2>2. CASE ~UNCHANGED machines
    <3>1. PICK n \in Node : Restarts(n, "yes") \/ Stays(n) \/ Restarts(n, "no")
      BY <1>15, <2>2 DEF restarting
    <3> QED BY <3>1, RestartsTypes, HelperTypes DEF Stays, MachineTypes
  <2> QED BY <2>1, <2>2
<1>16. CASE NodeDies
  BY <1>16 DEF NodeDies, MachineTypes
<1>17. CASE UNCHANGED compositionVars
  BY <1>17, <1>0 DEF compositionVars, machines
<1> QED BY <1>1, <1>2, <1>3, <1>4, <1>5, <1>6, <1>7, <1>8, <1>9, <1>10, <1>11, <1>12, <1>13,
           <1>14, <1>15, <1>16, <1>17
        DEF CompositionNext, Stages

-----------------------------------------------------------------------------

LEMMA PhasesType == Len(Phases) \in Nat /\ \A i \in 1..Len(Phases) : Phases[i] \subseteq Node
BY CompositionAssumption

\* Every step counts a fault or none, and one kind of fault is about the probes.
LEMMA StepFaults ==
  ASSUME [CompositionNext]_compositionVars
  PROVE  (faults' = faults \/ faults' = faults + 1) /\ (Hides \/ heard' = heard)
<1> USE DEF Fault, NoFault
<1>1. CASE Up \/ RunStep \/ Resume \/ Operate
  BY <1>1 DEF Up, RunStep, Resume, Operate, Operates
<1>2. CASE openingWorkspace \/ buildingNodeTable \/ ensuringKeys
  BY <1>2 DEF openingWorkspace, buildingNodeTable, ensuringKeys, Reports, Dies
<1>3. CASE buildingGenesis \/ buildingNodeConfig \/ buildingNodeCommand
  BY <1>3 DEF buildingGenesis, buildingNodeConfig, buildingNodeCommand, Reports, Dies
<1>4. CASE deployingInputs \/ initializingDatadirs \/ launching
  BY <1>4 DEF deployingInputs, initializingDatadirs, launching, Reports, Dies
<1>5. CASE launchingPhase \/ runningPhaseActions \/ recordingRun \/ rollingBack
  BY <1>5 DEF launchingPhase, runningPhaseActions, recordingRun, rollingBack, Reports, Dies
<1>6. CASE StageRefuses \/ Rests \/ MarkFailed \/ reconciling
  BY <1>6 DEF StageRefuses, Refuses, Rests, MarkFailed, reconciling, Dies
<1>7. CASE comparing \/ stoppingToRebuild \/ restartingNodes
  BY <1>7 DEF comparing, stoppingToRebuild, restartingNodes, Stuck, Stays, Dies
<1>8. CASE startMissing \/ NothingMissing \/ stopping
  BY <1>8 DEF startMissing, NothingMissing, stopping, Stuck, Dies
<1>9. CASE removing \/ restarting \/ Crash \/ NodeDies
  BY <1>9 DEF removing, restarting, Stays, Dies, Crash, NodeDies
<1>10. CASE Hides
  BY <1>10 DEF Hides
<1>11. CASE UNCHANGED compositionVars
  BY <1>11 DEF compositionVars
<1> QED BY <1>1, <1>2, <1>3, <1>4, <1>5, <1>6, <1>7, <1>8, <1>9, <1>10, <1>11
        DEF CompositionNext, Stages

LEMMA StepHeard ==
  ASSUME CompositionTypes, [CompositionNext]_compositionVars
  PROVE  HeardTypes'
BY StepFaults DEF CompositionTypes, HeardTypes, Hides

\* The ways a step of a command hands on.
LEMMA OffControl ==
  ASSUME ControlTypes, NEW r, Off(r), faults' \in Nat
  PROVE  ControlTypes' /\ CommandFits'
<1>1. at' = "off" BY DEF Off
<1>2. phase' \in 1..Len(Phases) + 1 BY PhasesType DEF Off
<1> QED BY <1>1, <1>2 DEF Off, ControlTypes, CommandFits, Places, Composing, Stage, NoSnap

LEMMA GoesControl ==
  ASSUME ControlTypes, NEW where \in Composing \ {"phase", "actions"}, Goes(where),
         want \in Request, faults' \in Nat
  PROVE  ControlTypes'
BY DEF Goes, walk, launch, ControlTypes, Composing

LEMMA FailsControl ==
  ASSUME ControlTypes, NEW s \in Stage, NEW r, Fails(s, r), want \in Request, faults' \in Nat
  PROVE  ControlTypes' /\ CommandFits'
<1>1. at' = "failed" BY DEF Fails
<1> QED BY <1>1 DEF Fails, walk, launch, ControlTypes, CommandFits, Composing, Places, Stage

LEMMA StageControl ==
  ASSUME ControlTypes, NEW s \in Stage, NEW r, want \in Request, faults' \in Nat,
         Reports(s, r) \/ Fails(s, r) \/ Dies(s)
  PROVE  ControlTypes' /\ CommandFits'
<1>1. CASE Reports(s, r)
  <2>1. Goes(after(s)) BY <1>1 DEF Reports
  <2>2. after(s) \in Composing \ {"phase", "actions"}
    BY AfterType DEF Composing, Places, Stage
  <2>3. ControlTypes' BY <2>1, <2>2, GoesControl
  <2>4. at' \notin {"compare", "stopping", "restarting", "missing", "done", "stop", "rm", "restart"}
    BY <2>1, AfterType DEF Goes
  <2> QED BY <2>3, <2>4 DEF CommandFits
<1>2. CASE Fails(s, r) BY <1>2, FailsControl
<1>3. CASE Dies(s) BY <1>3, OffControl DEF Dies
<1> QED BY <1>1, <1>2, <1>3

LEMMA BeginsControl ==
  ASSUME ControlTypes, MachineTypes, NEW c, NEW w \in Request \cup {None},
         NEW where \in Places \ {"phase", "actions"},
         Begins(c, w, where), snap'.nodes \in {{}, Node}, faults' \in Nat,
         where \in Composing => w \in Request
  PROVE  ControlTypes'
<1>1. found' \in MachineRecords BY DEF Begins, Machines, MachineTypes, MachineRecords
<1> QED BY <1>1 DEF Begins, launch, ControlTypes, MachineTypes, Composing

-----------------------------------------------------------------------------

\* FirstUndone names a step, the first of those that are not done.
LEMMA FirstUndoneType ==
  FirstUndone \in Stage \cup {"none"}
<1> DEFINE undone == {s \in Rungs(record.request.stage) : record.steps[s] # "done"}
<1>1. undone \subseteq Stage
  BY DEF Rungs, Stage
<1>2. CASE undone = {} BY <1>2 DEF FirstUndone
<1>3. CASE undone # {}
  <2>1. \E s \in undone : Earlier(s) \cap undone = {}
    <3> HIDE DEF undone
    <3> SUFFICES ASSUME \A s \in undone : Earlier(s) \cap undone # {} PROVE FALSE
      OBVIOUS
    <3> USE DEF Earlier, upStep, Stage
    <3>1. "new" \notin undone OBVIOUS
    <3>2. "place" \notin undone BY <3>1
    <3>3. "keys" \notin undone BY <3>1, <3>2
    <3>4. "genesis" \notin undone BY <3>1, <3>2, <3>3
    <3>5. "config" \notin undone BY <3>1, <3>2, <3>3, <3>4
    <3>6. "build" \notin undone BY <3>1, <3>2, <3>3, <3>4, <3>5
    <3>7. "deploy" \notin undone BY <3>1, <3>2, <3>3, <3>4, <3>5, <3>6
    <3>8. "init" \notin undone BY <3>1, <3>2, <3>3, <3>4, <3>5, <3>6, <3>7
    <3>9. "start" \notin undone BY <3>1, <3>2, <3>3, <3>4, <3>5, <3>6, <3>7, <3>8
    <3> QED BY <1>1, <1>3, <3>1, <3>2, <3>3, <3>4, <3>5, <3>6, <3>7, <3>8, <3>9
  <2>2. FirstUndone = CHOOSE s \in undone : Earlier(s) \cap undone = {}
    BY <1>3 DEF FirstUndone
  <2>3. FirstUndone \in undone
    <3> HIDE DEF undone
    <3> QED BY <2>1, <2>2
  <2> QED BY <2>3, <1>1
<1> QED BY <1>2, <1>3

LEMMA ResumeStepType == ResumeStep \in Stage \cup {"none"}
BY FirstUndoneType DEF ResumeStep

LEMMA StepControl ==
  ASSUME CompositionTypes, [CompositionNext]_compositionVars
  PROVE  ControlTypes' /\ CommandFits'
<1> USE DEF CompositionTypes
<1>f. faults' \in Nat
  BY StepFaults DEF ControlTypes
<1>w. at \in Composing => want \in Request
  BY DEF ControlTypes
<1>s. \A s \in Stage : s \in Composing
  BY DEF Composing, Places, Stage
<1>1. CASE Up
  <2>1. PICK w \in Requests : /\ Begins("up", w, "new") \/ Begins("compare", w, "compare")
                              /\ SnapFor(record, w)
    BY <1>1 DEF Up
  <2>2. w \in Request BY CompositionAssumption
  <2>3. snap'.nodes \in {{}, Node}
    BY <2>1 DEF SnapFor, Snapshot, NoSnap, Records
  <2>4. ControlTypes'
    BY <2>1, <2>2, <2>3, <1>f, BeginsControl DEF Places, Stage
  <2> QED BY <2>1, <2>4 DEF Begins, CommandFits
<1>2. CASE RunStep
  <2>1. PICK w \in Requests, s \in Stage : Begins("step", [w EXCEPT !.mode = "fresh"], s)
    BY <1>2 DEF RunStep
  <2>2. [w EXCEPT !.mode = "fresh"] \in Request
    BY CompositionAssumption DEF Request
  <2>3. snap'.nodes \in {{}, Node}
    BY <1>2 DEF RunStep, ControlTypes
  <2>4. ControlTypes'
    <3>1. s \in Places \ {"phase", "actions"} BY DEF Places, Stage
    <3> QED BY <2>1, <2>2, <2>3, <3>1, <1>f, BeginsControl
  <2> QED BY <2>1, <2>4 DEF Begins, CommandFits, Stage
<1>3. CASE Resume
  <2> DEFINE where == IF ResumeStep # "none" THEN ResumeStep
                      ELSE IF record.request.stage = "start" THEN "missing" ELSE "done"
  <2>1. /\ record.request # None /\ Begins("resume", record.request, where)
        /\ snap' = NoSnap \/ SnapFor(Reconciled, record.request)
    BY <1>3 DEF Resume
  <2>2. record.request \in Request BY <2>1 DEF Records
  <2>3. where \in Places \ {"phase", "actions"}
    BY ResumeStepType DEF Places, Stage
  <2>4. Reconciled.nodes = record.nodes BY DEF Reconciled, Records
  <2>5. snap'.nodes \in {{}, Node}
    BY <2>1, <2>4 DEF SnapFor, Snapshot, NoSnap, Records
  <2>6. ControlTypes'
    <3> HIDE DEF where
    <3> QED BY <2>1, <2>2, <2>3, <2>5, <1>f, BeginsControl
  <2>7. at' \in Stage \cup {"missing", "done"} /\ cmd' = "resume"
    BY <2>1, ResumeStepType DEF Begins
  <2> QED BY <2>6, <2>7 DEF CommandFits, Stage
<1>4. CASE Operate
  <2>1. PICK op \in {"stop", "rm", "restart"} : Begins(op, want, op) /\ UNCHANGED snap
    BY <1>4 DEF Operate, Operates
  <2>2. ControlTypes'
    <3>1. op \in Places \ {"phase", "actions"} /\ op \notin Composing
      BY DEF Places, Stage, Composing
    <3>2. want \in Request \cup {None} /\ snap'.nodes \in {{}, Node} 
      BY <2>1 DEF ControlTypes
    <3> QED BY <2>1, <3>1, <3>2, <1>f, BeginsControl
  <2> QED BY <2>1, <2>2 DEF Begins, CommandFits
<1>5. CASE Builds
  BY <1>5, <1>f, StageEnds, StageControl DEF Ends
<1>6. CASE recordingRun
  <2>1. want \in Request
    BY <1>6, <1>w DEF recordingRun, Composing, Places
  <2>2. CASE Reports("start", Entered("start")) \/ Dies("start")
    BY <2>1, <2>2, <1>f, StageControl DEF Stage
  <2>3. CASE Goes("rollback")
    <3>1. ControlTypes' BY <2>1, <2>3, <1>f, GoesControl DEF Composing, Places
    <3> QED BY <3>1, <2>3 DEF Goes, CommandFits
  <2> QED BY <1>6, <2>2, <2>3 DEF recordingRun, RollsBack
<1>7. CASE launching
  <2>1. want \in Request
    BY <1>7, <1>w, <1>s DEF launching, Stage
  <2>2. CASE Fails("start", Entered("start")) \/ Dies("start")
    BY <2>1, <2>2, <1>f, StageControl DEF Stage
  <2>3. CASE ~(Fails("start", Entered("start")) \/ Dies("start"))
    <3>1. /\ at' = IF Phases = <<>> THEN "recording" ELSE "phase"
          /\ was' = record.pids /\ phase' = 1 /\ before' = proc
          /\ UNCHANGED <<walk, failing>>
      BY <1>7, <2>3 DEF launching
    <3>2. Phases # <<>> => 1 \in 1..Len(Phases)
      BY CompositionAssumption
    <3>3. 1 \in 1..Len(Phases) + 1
      BY PhasesType
    <3>4. at' \in {"recording", "phase"} /\ (at' = "phase" => Phases # <<>>)
      BY <3>1
    <3> QED BY <2>1, <3>1, <3>2, <3>3, <3>4, <1>f
            DEF walk, ControlTypes, CommandFits, Places, Composing, Stage, Records, MachineTypes
  <2> QED BY <2>2, <2>3
<1>8. CASE launchingPhase
  <2>1. want \in Request /\ phase \in 1..Len(Phases)
    BY <1>8, <1>w DEF launchingPhase, Composing, Places, ControlTypes
  <2>2. CASE Dies("start")
    BY <2>1, <2>2, <1>f, StageControl DEF Stage
  <2>3. CASE Goes("rollback")
    <3>1. ControlTypes' BY <2>1, <2>3, <1>f, GoesControl DEF Composing, Places
    <3> QED BY <3>1, <2>3 DEF Goes, CommandFits
  <2>4. CASE ~Dies("start") /\ ~Goes("rollback")
    <3>1. /\ at' = IF phase \in Actions THEN "actions" ELSE NextPhase
          /\ phase' = IF phase \in Actions THEN phase ELSE phase + 1
          /\ UNCHANGED <<walk, was, before, failing>>
      BY <1>8, <2>4 DEF launchingPhase, RollsBack
    <3>2. at' \in {"actions", "phase", "recording"}
      BY <3>1 DEF NextPhase
    <3>3. phase' \in 1..Len(Phases) + 1 /\ (at' \in {"phase", "actions"} => phase' \in 1..Len(Phases))
      BY <2>1, <3>1, PhasesType DEF NextPhase
    <3> QED BY <2>1, <3>1, <3>2, <3>3, <1>f
            DEF walk, ControlTypes, CommandFits, Places, Composing, Stage
  <2> QED BY <2>2, <2>3, <2>4
<1>9. CASE runningPhaseActions
  <2>1. want \in Request /\ phase \in 1..Len(Phases)
    BY <1>9, <1>w DEF runningPhaseActions, Composing, Places, ControlTypes
  <2>2. CASE Dies("start")
    BY <2>1, <2>2, <1>f, StageControl DEF Stage
  <2>3. CASE Goes("rollback")
    <3>1. ControlTypes' BY <2>1, <2>3, <1>f, GoesControl DEF Composing, Places
    <3> QED BY <3>1, <2>3 DEF Goes, CommandFits
  <2>4. CASE ~Dies("start") /\ ~Goes("rollback")
    <3>1. at' = NextPhase /\ phase' = phase + 1 /\ UNCHANGED <<walk, was, before, failing>>
      BY <1>9, <2>4 DEF runningPhaseActions, RollsBack
    <3>2. at' \in {"phase", "recording"}
      BY <3>1 DEF NextPhase
    <3>3. phase' \in 1..Len(Phases) + 1 /\ (at' = "phase" => phase' \in 1..Len(Phases))
      BY <2>1, <3>1, PhasesType DEF NextPhase
    <3> QED BY <2>1, <3>1, <3>2, <3>3, <1>f
            DEF walk, ControlTypes, CommandFits, Places, Composing, Stage
  <2> QED BY <2>2, <2>3, <2>4
<1>10. CASE rollingBack
  <2>1. want \in Request
    BY <1>10, <1>w DEF rollingBack, Composing, Places
  <2>2. (\E r : Fails("start", r)) \/ Off("crashed")
    BY <1>10 DEF rollingBack
  <2> QED BY <2>1, <2>2, <1>f, FailsControl, OffControl DEF Stage
<1>11. CASE StageRefuses
  <2>1. PICK s \in Stage : at = s /\ Fails(s, Entered(s))
    BY <1>11 DEF StageRefuses, Refuses, Stage
  <2> QED BY <2>1, <1>w, <1>s, <1>f, FailsControl
<1>12. CASE Rests
  <2>1. want \in Request
    BY <1>12, <1>w DEF Rests, Composing, Places
  <2>2. CASE Off("ok") BY <2>2, <1>f, OffControl
  <2>3. CASE ~Off("ok")
    <3>1. cmd = "resume" /\ Goes("missing") BY <1>12, <2>3 DEF Rests
    <3>2. ControlTypes' BY <2>1, <3>1, <1>f, GoesControl DEF Composing, Places
    <3> QED BY <3>1, <3>2 DEF Goes, walk, CommandFits
  <2> QED BY <2>2, <2>3
<1>13. CASE MarkFailed \/ startMissing \/ NothingMissing \/ stopping \/ removing \/ restarting
             \/ Crash
  <2>1. \E r : Off(r)
    BY <1>13 DEF MarkFailed, startMissing, NothingMissing, stopping, removing, restarting, Crash,
                 Leaves, Dies
  <2> QED BY <2>1, <1>f, OffControl
<1>14. CASE reconciling
  <2>1. want \in Request
    BY <1>14, <1>w DEF reconciling, Composing, Places
  <2>2. (\E r : Off(r)) \/ Goes("genesis") \/ (\E r : Fails("genesis", r))
    BY <1>14 DEF reconciling, Dies
  <2>3. CASE Goes("genesis")
    <3>1. ControlTypes' BY <2>1, <2>3, <1>s, <1>f, GoesControl DEF Stage
    <3> QED BY <2>3, <3>1 DEF Goes, CommandFits
  <2> QED BY <2>1, <2>2, <2>3, <1>f, FailsControl, OffControl DEF Stage
<1>15. CASE comparing
  <2>1. want \in Request /\ cmd = "compare"
    BY <1>15, <1>w DEF comparing, Composing, Places, CommandFits
  <2>2. at' \in {"ready", "restarting", "stopping", "new", "start"}
    BY <1>15 DEF comparing
  <2>3. todo' \subseteq Node
    BY <1>15 DEF comparing
  <2>4. UNCHANGED <<cmd, want, snap, found, launch, failing>>
    BY <1>15 DEF comparing
  <2> QED BY <2>1, <2>2, <2>3, <2>4, <1>f
          DEF launch, ControlTypes, CommandFits, Composing, Places, Stage
<1>16. CASE stoppingToRebuild
  <2>1. want \in Request
    BY <1>16, <1>w DEF stoppingToRebuild, Composing, Places
  <2>2. (\E r : Off(r)) \/ Goes("new")
    BY <1>16 DEF stoppingToRebuild, Leaves, Dies
  <2>3. CASE Goes("new")
    <3>1. ControlTypes' BY <2>1, <2>3, <1>s, <1>f, GoesControl DEF Stage
    <3> QED BY <2>3, <3>1 DEF Goes, CommandFits
  <2> QED BY <2>2, <2>3, <1>f, OffControl
<1>17. CASE restartingNodes
  <2>1. want \in Request /\ cmd = "compare"
    BY <1>17, <1>w DEF restartingNodes, Composing, Places, CommandFits
  <2>2. CASE \E r : Off(r) BY <2>2, <1>f, OffControl
  <2>3. CASE Goes("ready")
    <3>1. ControlTypes' BY <2>1, <2>3, <1>f, GoesControl DEF Composing, Places
    <3> QED BY <2>3, <3>1 DEF Goes, CommandFits
  <2>4. CASE ~(\E r : Off(r)) /\ ~Goes("ready")
    <3>1. /\ at' = "restarting" /\ todo' \subseteq todo
          /\ UNCHANGED <<cmd, want, snap, found, launch, failing>>
      BY <1>17, <2>4 DEF restartingNodes, Leaves, Dies
    <3> QED BY <2>1, <3>1, <1>f DEF launch, ControlTypes, CommandFits, Composing, Places, Stage
  <2> QED BY <2>2, <2>3, <2>4
<1>18. CASE NodeDies
  <2>1. PICK m \in Live : found' = [found EXCEPT !.proc[m] = None]
    BY <1>18 DEF NodeDies
  <2>2. found' \in MachineRecords
    BY <2>1 DEF ControlTypes, MachineRecords, Live
  <2> QED BY <1>18, <1>f, <2>2 DEF NodeDies, launch, ControlTypes, CommandFits
<1>20. CASE Hides
  BY <1>20, <1>f DEF Hides, walk, launch, ControlTypes, CommandFits
<1>19. CASE UNCHANGED compositionVars
  BY <1>19 DEF compositionVars, ControlTypes, CommandFits
<1> QED BY <1>1, <1>2, <1>3, <1>4, <1>5, <1>6, <1>7, <1>8, <1>9, <1>10, <1>11, <1>12, <1>13,
           <1>14, <1>15, <1>16, <1>17, <1>18, <1>19, <1>20
        DEF CompositionNext, Stages, Builds

\* The record, the machines and the command keep their shapes through every command.
THEOREM CompositionTypeCorrect == CompositionSpec => []CompositionTypeOK
<1>1. CompositionTypes /\ [CompositionNext]_compositionVars => CompositionTypes'
  BY StepRecords, StepMachines, StepControl, StepHeard DEF CompositionTypes
<1>2. CompositionTypes => CompositionTypeOK
  BY DEF CompositionTypes, CompositionTypeOK, Records, MachineTypes, ControlTypes, HeardTypes, Places
<1> QED BY InitTyped, <1>1, <1>2, PTL DEF CompositionSpec

-----------------------------------------------------------------------------
(* Init. *)

LEMMA InitSpares ==
  ASSUME CompositionTypes, initializingDatadirs, NEW n \in Node, datadir'[n] # datadir[n]
  PROVE  n \notin record.pids /\ (n \in Live => heard[n] = "no")
<1>1. PICK k \in 0..N :
        LET rest == [m \in Node |-> IF m \in (1..k) \ record.pids THEN gfile[m] ELSE datadir[m]]
        IN \/ datadir' = rest
           \/ /\ k < N /\ k + 1 \notin record.pids
              /\ \E left \in {datadir[k + 1], None, Partial} :
                   datadir' = [rest EXCEPT ![k + 1] = left]
  BY DEF initializingDatadirs
<1> DEFINE rest == [m \in Node |-> IF m \in (1..k) \ record.pids THEN gfile[m] ELSE datadir[m]]
<1>2. n \in record.pids => rest[n] = datadir[n]
  OBVIOUS
<1>3. n \notin record.pids
  <2>1. CASE datadir' = rest
    BY <1>2, <2>1
  <2>2. CASE /\ k < N /\ k + 1 \notin record.pids
             /\ \E left \in {datadir[k + 1], None, Partial} :
                  datadir' = [rest EXCEPT ![k + 1] = left]
    <3>1. n # k + 1 => datadir'[n] = rest[n]
      BY <2>2
    <3> QED BY <1>2, <2>2, <3>1
  <2> QED BY <1>1, <2>1, <2>2
<1> QED BY <1>3 DEF initializingDatadirs, InitAllowed, Vacant

-----------------------------------------------------------------------------
(* Which processes the record knows. *)

\* Entering a state and marking a step leave the rest of the record alone.
LEMMA StageKeepsPids ==
  ASSUME record \in Records, NEW s \in Stage, NEW r \in Records, r.pids = record.pids,
         Reports(s, r) \/ Fails(s, r) \/ Dies(s)
  PROVE  record'.pids = record.pids
BY EnteredKeeps DEF Reports, Fails, Dies, Records

\* The steps that neither start nor stop a process, nor enter or drop a pid.
Quiet ==
  \/ Up \/ RunStep \/ Operate \/ openingWorkspace \/ buildingNodeTable \/ ensuringKeys
  \/ buildingGenesis \/ buildingNodeConfig \/ buildingNodeCommand \/ deployingInputs
  \/ initializingDatadirs \/ launching \/ runningPhaseActions \/ recordingRun
  \/ StageRefuses \/ Rests \/ MarkFailed \/ comparing \/ NothingMissing \/ removing \/ Crash
  \/ Hides \/ UNCHANGED compositionVars

LEMMA QuietKeeps ==
  ASSUME CompositionTypes, Quiet
  PROVE  proc' = proc /\ record'.pids = record.pids
<1> USE EnteredKeeps DEF CompositionTypes
<1>a. \A s \in Stage : Entered(s) \in Records
  BY EnteredType, StagesArePlaces
<1>1. CASE Up \/ RunStep \/ Operate \/ NothingMissing \/ Crash \/ Hides
  BY <1>1 DEF Up, RunStep, Operate, Operates, NothingMissing, Crash, Hides, machines
<1>2. CASE Builds
  <2>1. record'.pids = record.pids
    BY <1>2, StageEnds, StageKeepsPids DEF Tidy, Ends
  <2>2. proc' = proc
    BY <1>2 DEF Builds, openingWorkspace, buildingNodeTable, ensuringKeys, buildingGenesis,
       buildingNodeConfig, buildingNodeCommand, deployingInputs, initializingDatadirs, machines
  <2> QED BY <2>1, <2>2
<1>3. CASE launching
  BY <1>3, <1>a, StageKeepsPids DEF launching, machines, Stage
<1>4. CASE runningPhaseActions
  BY <1>4, <1>a, StageKeepsPids DEF runningPhaseActions, RollsBack, machines, Stage
<1>5. CASE recordingRun
  <2>1. [Entered("start") EXCEPT !.steps["start"] = "done"].pids = record.pids
    BY <1>a DEF Records, Stage
  <2>2. ASSUME Reports("start", Entered("start")) \/ Dies("start")
        PROVE  record'.pids = record.pids
    BY <2>2, <1>a, StageKeepsPids DEF Stage
  <2>3. ASSUME record' = [Entered("start") EXCEPT !.steps["start"] = "done"]
        PROVE  record'.pids = record.pids
    BY <2>1, <2>3, Zenon
  <2> QED BY <1>5, <2>2, <2>3 DEF recordingRun, RollsBack, machines
<1>6. CASE StageRefuses
  <2>1. PICK s \in Stage : Refuses(s)
    BY <1>6 DEF StageRefuses, Stage
  <2> QED BY <2>1, <1>a, StageKeepsPids DEF Refuses, machines
<1>7. CASE Rests \/ comparing
  BY <1>7 DEF Rests, comparing, machines
<1>8. CASE MarkFailed
  BY <1>8 DEF MarkFailed, machines, Records
<1>9. CASE removing
  <2>1. \/ record' = [Entered("removed") EXCEPT !.nodes = {}, !.argv = {}, !.genesis = "no"]
        \/ record' = Entered("rm")
    BY <1>9 DEF removing, Leaves, Dies
  <2>2. [Entered("removed") EXCEPT !.nodes = {}, !.argv = {}, !.genesis = "no"].pids = record.pids
    BY DEF Entered, Records
  <2>3. Entered("rm").pids = record.pids
    OBVIOUS
  <2>4. record'.pids = record.pids
    BY <2>1, <2>2, <2>3, Zenon
  <2> QED BY <1>9, <2>4 DEF removing
<1>10. CASE UNCHANGED compositionVars
  BY <1>10 DEF compositionVars
<1> QED BY <1>1, <1>2, <1>3, <1>4, <1>5, <1>6, <1>7, <1>8, <1>9, <1>10 DEF Quiet, Builds

\* A process the ledger's pid is right for is one the ledger has a pid for.
KnownAreRecorded ==
  \A n \in Node : proc[n] # None /\ proc[n].known = "yes" => n \in record.pids

LEMMA LaunchedKnown ==
  ASSUME CompositionTypes, KnownAreRecorded, NEW S \in SUBSET Node,
         \/ proc' = Launched(S, "yes") /\ record'.pids = record.pids \cup S
         \/ proc' = Launched(S, "no") /\ record'.pids = record.pids
  PROVE  KnownAreRecorded'
BY DEF KnownAreRecorded, Launched

LEMMA RestartsKnown ==
  ASSUME CompositionTypes, KnownAreRecorded, NEW n \in Node,
         \/ Restarts(n, "yes") /\ record'.pids = record.pids \cup {n}
         \/ Restarts(n, "no") /\ record'.pids = record.pids
  PROVE  KnownAreRecorded'
<1>1. CASE n \in record.pids \ Orphans
  <2>1. \A m \in Node : m # n => proc'[m] = proc[m]
    BY <1>1 DEF Restarts, CompositionTypes, MachineTypes
  <2>2. n \in record'.pids
    BY <1>1
  <2> QED BY <2>1, <2>2 DEF KnownAreRecorded
<1>2. CASE n \notin record.pids \ Orphans
  BY <1>2, LaunchedKnown DEF Restarts
<1> QED BY <1>1, <1>2

LEMMA StoppedKnown ==
  ASSUME CompositionTypes, KnownAreRecorded, NEW S,
         \A n \in Node : proc'[n] \in {None, Stopped(S)[n]},
         record'.pids = record.pids \/ record'.pids = record.pids \ S
  PROVE  KnownAreRecorded'
<1> SUFFICES ASSUME NEW n \in Node, proc'[n] # None, proc'[n].known = "yes"
             PROVE  n \in record'.pids
  BY DEF KnownAreRecorded
<1>1. proc'[n] = Stopped(S)[n] OBVIOUS
<1>2. n \notin S \ Orphans /\ proc'[n] = proc[n]
  BY <1>1 DEF Stopped
<1>3. n \notin Orphans
  BY <1>2 DEF Orphans
<1> QED BY <1>2, <1>3 DEF KnownAreRecorded

LEMMA StepKnown ==
  ASSUME CompositionTypes, KnownAreRecorded, [CompositionNext]_compositionVars
  PROVE  KnownAreRecorded'
<1> USE EnteredKeeps DEF CompositionTypes
<1>1. CASE Quiet
  BY <1>1, QuietKeeps DEF KnownAreRecorded
<1>2. CASE Resume
  <2>1. record'.pids = IF record.nodes = {} THEN record.pids ELSE Alive \cup Adoptable
    BY <1>2 DEF Resume, Reconciled, Records
  <2>2. proc' = [n \in Node |-> IF n \in Adoptable THEN [proc[n] EXCEPT !.known = "yes"]
                                ELSE proc[n]]
    BY <1>2 DEF Resume
  <2>3. record.nodes = {} => Adoptable = {}
    BY DEF Adoptable
  <2> SUFFICES ASSUME NEW n \in Node, proc'[n] # None, proc'[n].known = "yes"
               PROVE  n \in record'.pids
    BY DEF KnownAreRecorded
  <2>4. CASE n \in Adoptable
    BY <2>1, <2>3, <2>4
  <2>5. CASE n \notin Adoptable
    <3>1. proc'[n] = proc[n] BY <2>2, <2>5
    <3>2. n \in record.pids /\ n \in Live \ Orphans
      BY <3>1 DEF KnownAreRecorded, Live, Orphans
    <3> QED BY <2>1, <3>2 DEF Alive
  <2> QED BY <2>4, <2>5
<1>3. CASE launchingPhase
  <2> DEFINE S(k) == (Phases[phase] \ record.pids) \cap 1..k
  <2>1. PICK k \in 0..N :
          \/ /\ proc' = Launched(S(k), "yes")
             /\ record' = [Entered("start") EXCEPT !.argv = @ \cup S(k), !.pids = @ \cup S(k)]
          \/ proc' = Launched(S(k), "no") /\ record' = Entered("start")
    BY <1>3 DEF launchingPhase, RollsBack, Dies
  <2>2. S(k) \in SUBSET Node
    BY CompositionAssumption DEF Node
  <2>3. [Entered("start") EXCEPT !.argv = @ \cup S(k), !.pids = @ \cup S(k)].pids
          = record.pids \cup S(k)
    BY DEF Entered, Records
  <2>4. Entered("start").pids = record.pids OBVIOUS
  <2>5. \/ proc' = Launched(S(k), "yes") /\ record'.pids = record.pids \cup S(k)
        \/ proc' = Launched(S(k), "no") /\ record'.pids = record.pids
    BY <2>1, <2>3, <2>4, Zenon
  <2> QED BY <2>2, <2>5, LaunchedKnown
<1>4. CASE rollingBack
  <2>1. PICK S \in SUBSET toRollBack :
          /\ proc' = Stopped(S)
          /\ record' = [record EXCEPT !.pids = @ \ S] \/ record' = record
    BY <1>4 DEF rollingBack, Fails
  <2>2. record'.pids = record.pids \/ record'.pids = record.pids \ S
    BY <2>1 DEF Records
  <2> QED BY <2>1, <2>2, StoppedKnown
<1>5. CASE reconciling
  <2>1. CASE record' = Entered("reconcile") /\ UNCHANGED machines
    BY <2>1 DEF KnownAreRecorded, machines
  <2>2. CASE ~(record' = Entered("reconcile") /\ UNCHANGED machines)
    <3>1. /\ record' = [[Entered("reconcile") EXCEPT !.pids = @ \cup Found]
                          EXCEPT !.pids = @ \ (Node \ Reused)]
          /\ proc' = [n \in Node |->
                        IF n \in Found THEN [proc[n] EXCEPT !.known = "yes"]
                        ELSE Stopped((Node \ Reused) \cap record.pids)[n]]
      BY <1>5, <2>2 DEF reconciling, Fails, Dies
    <3>2. record'.pids = (record.pids \cup Found) \ (Node \ Reused)
      BY <3>1 DEF Entered, Records
    <3>3. Found \subseteq Reused BY DEF Reused
    <3> SUFFICES ASSUME NEW n \in Node, proc'[n] # None, proc'[n].known = "yes"
                 PROVE  n \in record'.pids
      BY DEF KnownAreRecorded
    <3>4. CASE n \in Found
      BY <3>2, <3>3, <3>4
    <3>5. CASE n \notin Found
      <4>1. proc'[n] = Stopped((Node \ Reused) \cap record.pids)[n]
        BY <3>1, <3>5
      <4>2. proc'[n] = proc[n] /\ n \notin ((Node \ Reused) \cap record.pids) \ Orphans
        BY <4>1 DEF Stopped
      <4>3. n \in record.pids /\ n \notin Orphans
        BY <4>2 DEF KnownAreRecorded, Orphans
      <4> QED BY <3>2, <4>2, <4>3
    <3> QED BY <3>4, <3>5
  <2> QED BY <2>1, <2>2
<1>6. CASE stoppingToRebuild \/ stopping
  <2>1. PICK S \in SUBSET record.pids, O, p \in Path :
          /\ \A n \in Node : proc'[n] \in {None, Stopped(S)[n]}
          /\ \/ record' = [Entered(p) EXCEPT !.pids = {}] /\ S = record.pids
             \/ record' = [Entered(p) EXCEPT !.pids = @ \ S]
             \/ record' = Entered(p)
    <3>1. "compare" \in Path /\ "stop" \in Path /\ "stopped" \in Path BY DEF Path
    <3> QED BY <1>6, <3>1 DEF stoppingToRebuild, stopping, Leaves, Dies, Stops, AllStopped
  <2>2. record'.pids = record.pids \/ record'.pids = record.pids \ S
    BY <2>1 DEF Entered, Records
  <2> QED BY <2>1, <2>2, StoppedKnown
<1>7. CASE restartingNodes \/ restarting
  <2> DEFINE idle == UNCHANGED machines /\ record' \in {Entered("compare"), Entered("restart")}
  <2>1. CASE idle
    <3>1. record'.pids = record.pids BY <2>1
    <3> QED BY <2>1, <3>1 DEF KnownAreRecorded, machines
  <2>2. CASE ~idle
    <3>1. PICK n \in Node, p \in Path :
            \/ Restarts(n, "yes") /\ record' = [Entered(p) EXCEPT !.pids = @ \cup {n}]
            \/ Stays(n) /\ record' = [Entered(p) EXCEPT !.pids = @ \ {n}]
            \/ Restarts(n, "no") /\ record' = Entered(p)
      <4>1. "compare" \in Path /\ "restart" \in Path /\ "ready" \in Path BY DEF Path
      <4> QED BY <1>7, <2>2, <4>1 DEF restartingNodes, restarting, Leaves, Dies, ControlTypes
    <3>2. \/ Restarts(n, "yes") /\ record'.pids = record.pids \cup {n}
          \/ Stays(n) /\ record'.pids = record.pids \ {n}
          \/ Restarts(n, "no") /\ record'.pids = record.pids
      BY <3>1 DEF Entered, Records
    <3>3. CASE Stays(n) /\ record'.pids = record.pids \ {n}
      BY <3>3, StoppedKnown DEF Stays
    <3> QED BY <3>2, <3>3, RestartsKnown
  <2> QED BY <2>1, <2>2
<1>8. CASE startMissing
  <2> DEFINE S(k) == ((record.nodes \cap record.argv) \ record.pids) \cap 1..k
  <2>1. PICK k \in 0..N :
          \/ proc' = Launched(S(k), "yes") /\ record' = [record EXCEPT !.pids = @ \cup S(k)]
          \/ proc' = Launched(S(k), "no") /\ record' = record
    BY <1>8 DEF startMissing
  <2>2. S(k) \in SUBSET Node
    BY DEF Records
  <2>3. [record EXCEPT !.pids = @ \cup S(k)].pids = record.pids \cup S(k)
    BY DEF Records
  <2>4. \/ proc' = Launched(S(k), "yes") /\ record'.pids = record.pids \cup S(k)
        \/ proc' = Launched(S(k), "no") /\ record'.pids = record.pids
    BY <2>1, <2>3, Zenon
  <2> QED BY <2>2, <2>4, LaunchedKnown
<1>9. CASE NodeDies
  BY <1>9 DEF NodeDies, KnownAreRecorded, MachineTypes
<1> QED BY <1>1, <1>2, <1>3, <1>4, <1>5, <1>6, <1>7, <1>8, <1>9
        DEF CompositionNext, Stages, Quiet

-----------------------------------------------------------------------------
(* What is under a process that is up. *)

\* A removal begins on a workspace that names no process.
RemovesNone == at = "rm" => record.pids = {}

LEMMA RemoveSteps ==
  ASSUME CompositionTypes, CompositionNext, at' = "rm"
  PROVE  UNCHANGED record /\ (at = "rm" \/ record.pids = {})
<1>1. CASE Up \/ RunStep \/ Operate
  BY <1>1 DEF Up, RunStep, Operate, Operates, Begins, Stage
<1>2. CASE Resume
  BY <1>2, ResumeStepType DEF Resume, Begins, Stage
<1>3. CASE Builds
  BY <1>3, StageEnds, AfterType DEF Ends, Reports, Fails, Dies, Goes, Off
<1>4. CASE launching \/ launchingPhase \/ runningPhaseActions
  BY <1>4 DEF launching, launchingPhase, runningPhaseActions, NextPhase, RollsBack, Fails, Dies,
              Goes, Off
<1>5. CASE recordingRun
  BY <1>5, AfterType DEF recordingRun, RollsBack, Reports, Dies, Goes, Off, Stage
<1>6. CASE rollingBack \/ StageRefuses \/ Rests \/ MarkFailed
  BY <1>6 DEF rollingBack, StageRefuses, Refuses, Rests, MarkFailed, Fails, Off, Goes
<1>7. CASE reconciling \/ comparing \/ stoppingToRebuild \/ restartingNodes
  BY <1>7 DEF reconciling, comparing, stoppingToRebuild, restartingNodes, Fails, Off, Goes, Leaves,
              Dies
<1>8. CASE startMissing \/ NothingMissing \/ stopping \/ removing \/ restarting \/ Crash
  BY <1>8 DEF startMissing, NothingMissing, stopping, removing, restarting, Crash, Off, Leaves, Dies
<1>9. CASE NodeDies \/ Hides
  BY <1>9 DEF NodeDies, Hides
<1> QED BY <1>1, <1>2, <1>3, <1>4, <1>5, <1>6, <1>7, <1>8, <1>9
        DEF CompositionNext, Stages, Builds

\* Who changes a data directory that is there.
LEMMA DataSteps ==
  ASSUME CompositionTypes, CompositionNext, NEW n \in Node,
         datadir[n] # None, datadir'[n] # datadir[n]
  PROVE  initializingDatadirs \/ removing
<1>t. \A S : Touched(S)[n] = datadir[n]
  BY DEF Touched
<1>1. CASE Up \/ RunStep \/ Resume \/ Operate
  BY <1>1 DEF Up, RunStep, Resume, Operate, Operates, machines
<1>2. CASE openingWorkspace \/ buildingNodeTable \/ ensuringKeys \/ buildingGenesis
             \/ buildingNodeConfig \/ buildingNodeCommand \/ deployingInputs \/ launching
  BY <1>2 DEF openingWorkspace, buildingNodeTable, ensuringKeys, buildingGenesis,
              buildingNodeConfig, buildingNodeCommand, deployingInputs, launching, machines
<1>3. CASE launchingPhase \/ runningPhaseActions \/ recordingRun \/ rollingBack
  BY <1>3, <1>t DEF launchingPhase, runningPhaseActions, recordingRun, rollingBack, machines
<1>4. CASE StageRefuses \/ Rests \/ MarkFailed \/ reconciling \/ comparing
  BY <1>4 DEF StageRefuses, Refuses, Rests, MarkFailed, reconciling, comparing, machines
<1>5. CASE stoppingToRebuild \/ stopping
  BY <1>5 DEF stoppingToRebuild, stopping, Stops
<1>6. CASE restartingNodes \/ restarting
  BY <1>6, <1>t DEF restartingNodes, restarting, Restarts, Stays, machines
<1>7. CASE startMissing \/ NothingMissing \/ Crash \/ NodeDies \/ Hides
  BY <1>7, <1>t DEF startMissing, NothingMissing, Crash, NodeDies, Hides, machines
<1> QED BY <1>1, <1>2, <1>3, <1>4, <1>5, <1>6, <1>7 DEF CompositionNext, Stages

\* No command takes the data from under a process the record names, and from under one it
\* lost only a removal does, or an init whose probe found no port held: every process whose
\* pid is right is recorded (KnownAreRecorded), and stays so through roll backs, failed
\* stops and resumes.
THEOREM DataStays == CompositionSpec => DataStaysUnderTheLive
<1>1. CompositionTypes /\ [CompositionNext]_compositionVars => CompositionTypes'
  BY StepRecords, StepMachines, StepControl, StepHeard DEF CompositionTypes
<1>2. CompositionTypes /\ RemovesNone /\ [CompositionNext]_compositionVars => RemovesNone'
  BY RemoveSteps DEF RemovesNone, compositionVars
<1>3. ASSUME CompositionTypes, KnownAreRecorded, RemovesNone, CompositionNext, NEW n \in Live,
             datadir[n] # None, datadir'[n] # datadir[n]
      PROVE  n \in Orphans /\ (at = "rm" \/ heard[n] = "no")
  <2>1. n \in Node /\ proc[n] # None BY <1>3 DEF Live
  <2>2. proc[n].known \in {"yes", "no"}
    BY <1>3, <2>1 DEF CompositionTypes, MachineTypes, Process
  <2>3. n \notin record.pids => n \in Orphans
    BY <1>3, <2>1, <2>2 DEF KnownAreRecorded, Orphans
  <2>4. CASE initializingDatadirs
    BY <1>3, <2>1, <2>3, <2>4, InitSpares
  <2>5. CASE removing
    BY <1>3, <2>3, <2>5 DEF removing, RemovesNone
  <2> QED BY <1>3, <2>1, <2>4, <2>5, DataSteps
<1>4. CompositionTypes /\ KnownAreRecorded /\ RemovesNone /\ [CompositionNext]_compositionVars =>
        [\A n \in Live : datadir[n] # None /\ datadir'[n] # datadir[n]
           => n \in Orphans /\ (at = "rm" \/ heard[n] = "no")]_compositionVars
  BY <1>3 DEF compositionVars
<1>5. CompositionInit => KnownAreRecorded /\ RemovesNone
  BY DEF CompositionInit, KnownAreRecorded, RemovesNone
<1> QED BY InitTyped, <1>1, <1>2, <1>4, <1>5, StepKnown, PTL
        DEF CompositionSpec, DataStaysUnderTheLive

-----------------------------------------------------------------------------
(* A launch that fails. *)

Launching == {"phase", "actions", "recording", "rollback"}

\* While a launch is under way every process is one the record knows; the nodes that had
\* a pid when it was planned still have it, and run what they ran or nothing.
LaunchInv ==
  at \in Launching =>
    /\ \A n \in Node : proc[n] # None => proc[n].known = "yes"
    /\ was \subseteq record.pids
    /\ \A n \in Node : before[n] # None => n \in was
    /\ \A n \in was : proc[n] \in {None, before[n]}

LEMMA InitLaunch == CompositionInit => KnownAreRecorded /\ LaunchInv
BY DEF CompositionInit, KnownAreRecorded, LaunchInv, Launching

\* A stage that ends is in no launch.
LEMMA StageLeavesLaunch ==
  ASSUME NEW s \in Stage, NEW r, Reports(s, r) \/ Fails(s, r) \/ Dies(s)
  PROVE  at' \notin Launching
BY AfterType DEF Reports, Fails, Dies, Goes, Off, Launching

LEMMA LaunchSteps ==
  ASSUME CompositionTypes, CompositionNext, at' \in Launching
  PROVE  launching \/ launchingPhase \/ runningPhaseActions \/ recordingRun \/ NodeDies \/ Hides
<1>1. CASE Up \/ RunStep \/ Operate
  BY <1>1 DEF Up, RunStep, Operate, Operates, Begins, Launching, Stage
<1>2. CASE Resume
  BY <1>2, ResumeStepType DEF Resume, Begins, Launching, Stage
<1>3. CASE Builds
  BY <1>3, StageEnds, StageLeavesLaunch DEF Ends
<1>4. CASE rollingBack \/ StageRefuses \/ Rests \/ MarkFailed
  BY <1>4 DEF rollingBack, StageRefuses, Refuses, Rests, MarkFailed, Fails, Off, Goes, Launching
<1>5. CASE reconciling \/ comparing \/ stoppingToRebuild \/ restartingNodes
  BY <1>5 DEF reconciling, comparing, stoppingToRebuild, restartingNodes, Fails, Off, Goes, Leaves,
              Dies, Launching
<1>6. CASE startMissing \/ NothingMissing \/ stopping \/ removing \/ restarting \/ Crash
  BY <1>6 DEF startMissing, NothingMissing, stopping, removing, restarting, Crash, Off, Leaves,
              Dies, Launching
<1> QED BY <1>1, <1>2, <1>3, <1>4, <1>5, <1>6 DEF CompositionNext, Stages, Builds

LEMMA StepLaunch ==
  ASSUME CompositionTypes, KnownAreRecorded, LaunchInv, [CompositionNext]_compositionVars
  PROVE  LaunchInv'
<1> USE EnteredKeeps DEF CompositionTypes
<1>0. CASE UNCHANGED compositionVars
  BY <1>0 DEF compositionVars, LaunchInv
<1> SUFFICES ASSUME CompositionNext, at' \in Launching PROVE LaunchInv'
  BY <1>0 DEF LaunchInv
<1>1. CASE launching
  <2>1. /\ was' = record.pids /\ before' = proc /\ LaunchAllowed
    BY <1>1, StageLeavesLaunch DEF launching, Stage
  <2>2. proc' = proc /\ record'.pids = record.pids
    BY <1>1, QuietKeeps DEF Quiet
  <2>3. \A n \in Node : proc[n] # None => proc[n].known = "yes"
    <3>1. Orphans = {} BY <2>1 DEF LaunchAllowed
    <3>2. \A n \in Node : proc[n] # None => proc[n].known \in {"yes", "no"}
      BY DEF MachineTypes, Process
    <3> QED BY <3>1, <3>2 DEF Orphans, Live
  <2>4. \A n \in Node : proc[n] # None => n \in record.pids
    BY <2>3 DEF KnownAreRecorded
  <2> QED BY <2>1, <2>2, <2>3, <2>4 DEF LaunchInv
<1>2. CASE launchingPhase
  <2> DEFINE S(k) == (Phases[phase] \ record.pids) \cap 1..k
  <2>1. at \in Launching BY <1>2 DEF launchingPhase, Launching
  <2>2. PICK k \in 0..N :
          /\ proc' = Launched(S(k), "yes")
          /\ record' = [Entered("start") EXCEPT !.argv = @ \cup S(k), !.pids = @ \cup S(k)]
          /\ UNCHANGED <<was, before>>
    BY <1>2, StageLeavesLaunch DEF launchingPhase, RollsBack, Goes, launch, Stage
  <2>3. record'.pids = record.pids \cup S(k)
    BY <2>2 DEF Entered, Records
  <2>4. \A n \in Node : proc'[n] = proc[n] \/ (n \notin record.pids /\ proc'[n].known = "yes")
    BY <2>2 DEF Launched
  <2> QED BY <2>1, <2>2, <2>3, <2>4 DEF LaunchInv, ControlTypes
<1>3. CASE runningPhaseActions \/ recordingRun
  <2>1. at \in Launching BY <1>3 DEF runningPhaseActions, recordingRun, Launching
  <2>2. proc' = proc /\ record'.pids = record.pids
    BY <1>3, QuietKeeps DEF Quiet
  <2>3. UNCHANGED <<was, before>>
    BY <1>3, StageLeavesLaunch
       DEF runningPhaseActions, recordingRun, RollsBack, Goes, launch, Stage
  <2> QED BY <2>1, <2>2, <2>3 DEF LaunchInv
<1>4. CASE NodeDies
  <2>1. PICK m \in Live : proc' = [proc EXCEPT ![m] = None]
    BY <1>4 DEF NodeDies
  <2>2. UNCHANGED <<record, was, before, at>>
    BY <1>4 DEF NodeDies, launch
  <2>3. \A n \in Node : proc'[n] \in {None, proc[n]}
    BY <2>1 DEF MachineTypes
  <2> QED BY <2>2, <2>3 DEF LaunchInv, ControlTypes
<1>5. CASE Hides
  BY <1>5 DEF Hides, machines, launch, LaunchInv
<1> QED BY <1>1, <1>2, <1>3, <1>4, <1>5, LaunchSteps

\* Only the roll back ends in "failed" from where it is.
LEMMA RollbackSteps ==
  ASSUME CompositionNext, at = "rollback", at' = "failed"
  PROVE  rollingBack
<1>1. CASE Up \/ RunStep \/ Resume \/ Operate
  BY <1>1 DEF Up, RunStep, Resume, Operate, Operates, Begins
<1>2. CASE openingWorkspace \/ buildingNodeTable \/ ensuringKeys \/ buildingGenesis
             \/ buildingNodeConfig \/ buildingNodeCommand \/ deployingInputs
             \/ initializingDatadirs \/ launching
  BY <1>2 DEF openingWorkspace, buildingNodeTable, ensuringKeys, buildingGenesis,
              buildingNodeConfig, buildingNodeCommand, deployingInputs, initializingDatadirs,
              launching
<1>3. CASE launchingPhase \/ runningPhaseActions \/ recordingRun
  BY <1>3 DEF launchingPhase, runningPhaseActions, recordingRun
<1>4. CASE StageRefuses \/ Rests \/ MarkFailed \/ reconciling \/ comparing
  BY <1>4 DEF StageRefuses, Rests, MarkFailed, reconciling, comparing
<1>5. CASE stoppingToRebuild \/ restartingNodes \/ startMissing \/ NothingMissing
  BY <1>5 DEF stoppingToRebuild, restartingNodes, startMissing, NothingMissing
<1>6. CASE stopping \/ removing \/ restarting
  BY <1>6 DEF stopping, removing, restarting
<1>7. CASE Crash \/ NodeDies \/ Hides
  BY <1>7 DEF Crash, Off, NodeDies, Hides
<1> QED BY <1>1, <1>2, <1>3, <1>4, <1>5, <1>6, <1>7 DEF CompositionNext, Stages

\* A failed launch stops what it started and nothing else, whatever the phases, and
\* leaves a node of its own up only when a stop failed.
THEOREM RollbackExact == CompositionSpec => RollbackIsExact
<1>1. CompositionTypes /\ [CompositionNext]_compositionVars => CompositionTypes'
  BY StepRecords, StepMachines, StepControl, StepHeard DEF CompositionTypes
<1>2. ASSUME CompositionTypes, LaunchInv, KnownAreRecorded, CompositionNext,
             at = "rollback", at' = "failed", NEW n \in Node
      PROVE  /\ before[n] # None => proc'[n] = proc[n]
             /\ proc'[n] # None => before[n] = proc'[n] \/ faults' # faults
  <2>1. rollingBack BY <1>2, RollbackSteps
  <2>2. PICK S \in SUBSET toRollBack :
          /\ proc' = Stopped(S)
          /\ S = toRollBack \/ faults' # faults
    <3>1. Fault("stop") => faults' # faults
      BY <1>2 DEF Fault, CompositionTypes, ControlTypes
    <3> QED BY <1>2, <2>1, <3>1 DEF rollingBack, Off
  <2>3. LaunchInv!2 BY <1>2 DEF LaunchInv, Launching
  <2>4. before[n] # None => n \notin S
    BY <2>2, <2>3 DEF toRollBack
  <2>5. proc'[n] = IF n \in S \ Orphans THEN None ELSE proc[n]
    BY <2>2 DEF Stopped
  <2>6. ASSUME proc'[n] # None, S = toRollBack PROVE before[n] = proc'[n]
    <3>1. proc'[n] = proc[n] /\ n \notin S \ Orphans BY <2>5, <2>6
    <3>2. n \in record.pids /\ n \notin Orphans
      BY <1>2, <2>3, <2>6, <3>1 DEF KnownAreRecorded, Orphans
    <3>3. n \in was
      BY <2>6, <3>1, <3>2 DEF toRollBack
    <3> QED BY <2>3, <2>6, <3>1, <3>3
  <2> QED BY <2>2, <2>4, <2>5, <2>6
<1>3. CompositionTypes /\ KnownAreRecorded /\ LaunchInv /\ [CompositionNext]_compositionVars =>
        [at = "rollback" /\ at' = "failed" =>
           \A n \in Node :
             /\ before[n] # None => proc'[n] = proc[n]
             /\ proc'[n] # None => before[n] = proc'[n] \/ faults' # faults]_compositionVars
  BY <1>2 DEF compositionVars
<1> QED BY InitTyped, InitLaunch, <1>1, <1>3, StepKnown, StepLaunch, PTL
        DEF CompositionSpec, RollbackIsExact

-----------------------------------------------------------------------------
(* A reuse that is refused. *)

\* What a chain up does before it writes a file: the stages up to the reconciliation.
Early == {"new", "place", "keys", "reconcile"}

AsFound ==
  /\ gfile = found.gfile /\ cfile = found.cfile /\ datadir = found.datadir
  /\ proc = found.proc

\* Until the reconciliation has decided, and after it refused, the machines are as the
\* command found them.
RefusalInv ==
  cmd = "up" /\ (at \in Early \/ (at = "off" /\ result = "refused")) => AsFound

LEMMA InitRefusal == CompositionInit => RefusalInv
BY DEF CompositionInit, RefusalInv

\* The later stages lead to no early one.
LEMMA LaterStages ==
  ASSUME NEW s \in Stage \ {"new", "place", "keys"}, NEW r,
         Reports(s, r) \/ Fails(s, r) \/ Dies(s)
  PROVE  at' \notin Early /\ (at' = "off" => result' # "refused")
BY DEF Reports, Fails, Dies, Goes, Off, Early, after, stageOrder, Stage

LEMMA EarlySteps ==
  ASSUME CompositionTypes, CompositionNext, cmd' = "up",
         at' \in Early \/ (at' = "off" /\ result' = "refused")
  PROVE  Up \/ openingWorkspace \/ buildingNodeTable \/ ensuringKeys \/ reconciling \/ NodeDies
           \/ Hides
<1>1. CASE RunStep \/ Resume \/ Operate
  BY <1>1 DEF RunStep, Resume, Operate, Operates, Begins
<1>2. CASE buildingGenesis \/ buildingNodeConfig \/ buildingNodeCommand
  <2>1. \E s \in Stage \ {"new", "place", "keys"} :
          (\E r : Reports(s, r)) \/ (\E r : Fails(s, r)) \/ Dies(s)
    BY <1>2 DEF buildingGenesis, buildingNodeConfig, buildingNodeCommand, Stage
  <2> QED BY <2>1, LaterStages
<1>3. CASE deployingInputs \/ initializingDatadirs
  BY <1>3, LaterStages DEF deployingInputs, initializingDatadirs, Stage
<1>4. CASE launching
  BY <1>4, LaterStages DEF launching, Stage, Early
<1>5. CASE launchingPhase \/ runningPhaseActions
  BY <1>5 DEF launchingPhase, runningPhaseActions, NextPhase, RollsBack, Goes, Dies, Off, Early
<1>6. CASE recordingRun
  BY <1>6, LaterStages DEF recordingRun, RollsBack, Goes, Early, Stage
<1>7. CASE rollingBack \/ StageRefuses \/ Rests \/ MarkFailed
  BY <1>7 DEF rollingBack, StageRefuses, Refuses, Rests, MarkFailed, Fails, Off, Goes, Early
<1>8. CASE comparing \/ stoppingToRebuild \/ restartingNodes
  <2>1. cmd = "compare"
    BY <1>8 DEF comparing, stoppingToRebuild, restartingNodes, CompositionTypes, CommandFits
  <2>2. cmd' = cmd
    BY <1>8 DEF comparing, stoppingToRebuild, restartingNodes, Goes, Leaves, Off, Dies, walk
  <2> QED BY <2>1, <2>2
<1>9. CASE startMissing \/ NothingMissing \/ stopping \/ removing \/ restarting \/ Crash
  BY <1>9 DEF startMissing, NothingMissing, stopping, removing, restarting, Crash, Off, Leaves,
              Dies, Early
<1> QED BY <1>1, <1>2, <1>3, <1>4, <1>5, <1>6, <1>7, <1>8, <1>9 DEF CompositionNext, Stages

LEMMA StepRefusal ==
  ASSUME CompositionTypes, RefusalInv, [CompositionNext]_compositionVars
  PROVE  RefusalInv'
<1>0. CASE UNCHANGED compositionVars
  BY <1>0 DEF compositionVars, RefusalInv, AsFound
<1> SUFFICES ASSUME CompositionNext, cmd' = "up",
                    at' \in Early \/ (at' = "off" /\ result' = "refused")
             PROVE  AsFound'
  BY <1>0 DEF RefusalInv
<1>1. CASE Up
  <2>1. UNCHANGED machines /\ found' = Machines
    BY <1>1 DEF Up, Begins
  <2> QED BY <2>1 DEF machines, Machines, AsFound
<1>2. CASE openingWorkspace \/ buildingNodeTable \/ ensuringKeys
  <2>1. UNCHANGED machines /\ at \in Early
    BY <1>2 DEF openingWorkspace, buildingNodeTable, ensuringKeys, Early
  <2>2. UNCHANGED <<cmd, found>>
    BY <1>2 DEF openingWorkspace, buildingNodeTable, ensuringKeys, Reports, Fails, Dies, Goes, Off,
                walk
  <2> QED BY <2>1, <2>2 DEF RefusalInv, AsFound, machines
<1>3. CASE reconciling
  <2>1. at \in Early BY <1>3 DEF reconciling, Early
  <2>2. UNCHANGED machines
    BY <1>3 DEF reconciling, Fails, Dies, Goes, Off, Early
  <2>3. UNCHANGED <<cmd, found>>
    BY <1>3 DEF reconciling, Fails, Dies, Goes, Off, walk
  <2> QED BY <2>1, <2>2, <2>3 DEF RefusalInv, AsFound, machines
<1>4. CASE NodeDies
  <2>1. PICK m \in Live : /\ proc' = [proc EXCEPT ![m] = None]
                          /\ found' = [found EXCEPT !.proc[m] = None]
    BY <1>4 DEF NodeDies
  <2>2. UNCHANGED <<gfile, cfile, datadir, at, cmd, result>>
    BY <1>4 DEF NodeDies
  <2>3. /\ found'.gfile = found.gfile /\ found'.cfile = found.cfile
        /\ found'.datadir = found.datadir /\ found'.proc = [found.proc EXCEPT ![m] = None]
    BY <2>1 DEF CompositionTypes, ControlTypes, MachineRecords
  <2> QED BY <2>1, <2>2, <2>3 DEF RefusalInv, AsFound
<1>5. CASE Hides
  BY <1>5 DEF Hides, machines, walk, RefusalInv, AsFound
<1> QED BY <1>1, <1>2, <1>3, <1>4, <1>5, EarlySteps

\* A chain up that ends in a refusal wrote no file and started, stopped or adopted no
\* process, whatever it found on the machines: the processes are those it found, but for
\* the ones that died by themselves.
THEOREM RefusalIsHarmless == CompositionSpec => []RefusalTouchesNothing
<1>1. CompositionTypes /\ [CompositionNext]_compositionVars => CompositionTypes'
  BY StepRecords, StepMachines, StepControl, StepHeard DEF CompositionTypes
<1>2. RefusalInv => RefusalTouchesNothing
  BY DEF RefusalInv, RefusalTouchesNothing, AsFound
<1> QED BY InitTyped, InitRefusal, <1>1, <1>2, StepRefusal, PTL DEF CompositionSpec

-----------------------------------------------------------------------------
(* What a composition has behind it. *)

\* The steps that are done when a command is at p, or left the record at p.
Behind(p) ==
  CASE p \in Stage -> Earlier(p)
    [] p = "reconcile" -> {"new", "place", "keys"}
    [] p \in {"phase", "actions", "recording"} -> Stage \ {"start"}
    [] p \in {"ready", "missing"} -> Stage
    [] OTHER -> {}

Progress(p) == \A s \in Behind(p) : record.steps[s] = "done"

LEMMA BehindIs ==
  /\ \A s \in Stage : Behind(s) = Earlier(s)
  /\ Behind("reconcile") = {"new", "place", "keys"}
  /\ \A p \in {"phase", "actions", "recording"} : Behind(p) = Stage \ {"start"}
  /\ Behind("ready") = Stage /\ Behind("missing") = Stage
  /\ \A p \in {"off", "failed", "rollback", "stoppedAtStep", "done", "idle"} : Behind(p) = {}
BY DEF Behind, Stage

LEMMA EarlierIs ==
  /\ Earlier("new") = {} /\ Earlier("genesis") = {"new", "place", "keys"}
  /\ Earlier("start") = Stage \ {"start"}
  /\ \A s \in Stage : "genesis" \in Earlier(s) => s \in {"config", "build", "deploy", "init", "start"}
  /\ \A s \in Stage : "config" \in Earlier(s) => s \in {"build", "deploy", "init", "start"}
  /\ \A s \in Stage : "init" \in Earlier(s) => s = "start"
BY DEF Earlier, upStep, Stage

\* A stage that reports has itself behind it, and what it had.
LEMMA BehindAfter ==
  ASSUME NEW s \in Stage, cmd # "step"
  PROVE  Behind(after(s)) \subseteq Earlier(s) \cup {s}
<1> USE BehindIs
<1>1. CASE after(s) = "stoppedAtStep" BY <1>1
<1>2. CASE after(s) = "reconcile" /\ s = "keys"
  BY <1>2 DEF Earlier, upStep, Stage
<1>3. CASE after(s) = stageOrder[s]
  <2>1. CASE s = "start"
    BY <1>3, <2>1, EarlierIs DEF stageOrder
  <2>2. CASE s # "start"
    <3>1. stageOrder[s] \in Stage /\ upStep[stageOrder[s]] = upStep[s] + 1
      BY <2>2 DEF stageOrder, upStep, Stage
    <3>2. Behind(after(s)) = Earlier(stageOrder[s])
      BY <1>3, <3>1
    <3>3. \A t \in Stage : upStep[t] < upStep[s] + 1 => upStep[t] < upStep[s] \/ t = s
      BY DEF upStep, Stage
    <3> QED BY <3>1, <3>2, <3>3 DEF Earlier
  <2> QED BY <2>1, <2>2
<1> QED BY <1>1, <1>2, <1>3 DEF after

LEMMA StageProgress ==
  ASSUME NEW s \in Stage, NEW r \in Records, cmd # "step",
         r.steps = record.steps, \A t \in Earlier(s) : record.steps[t] = "done",
         Reports(s, r) \/ Fails(s, r) \/ Dies(s)
  PROVE  /\ \A t \in Behind(at') : record'.steps[t] = "done"
         /\ at' = "off" => result' = "crashed"
         /\ Behind(at') = {} \/ (Reports(s, r) /\ Behind(at') \subseteq Earlier(s) \cup {s})
<1>1. CASE Reports(s, r)
  <2>1. at' = after(s) /\ record' = [r EXCEPT !.steps[s] = "done"]
    BY <1>1 DEF Reports, Goes
  <2>2. record'.steps = [r.steps EXCEPT ![s] = "done"]
    BY <2>1 DEF Records
  <2>3. \A t \in Stage : record'.steps[t] = IF t = s THEN "done" ELSE record.steps[t]
    BY <2>2 DEF Records
  <2>4. \A t \in Behind(at') : t \in Earlier(s) \cup {s}
    BY <2>1, BehindAfter
  <2>5. Earlier(s) \subseteq Stage BY DEF Earlier
  <2>6. at' # "off" BY <2>1, AfterType
  <2> QED BY <1>1, <2>3, <2>4, <2>5, <2>6
<1>2. CASE Fails(s, r)
  BY <1>2, BehindIs DEF Fails
<1>3. CASE Dies(s)
  BY <1>3, BehindIs DEF Dies, Off
<1> QED BY <1>1, <1>2, <1>3

-----------------------------------------------------------------------------
(* A chain up that reports the network ready. *)

\* Every process is the one the command found there or one it started for the request.
Mine ==
  \A n \in Node :
    \/ proc[n] = None \/ Kept(n)
    \/ proc[n].genesis = want.genesis /\ proc[n].config = want.config

\* What the machines hold once a stage is behind the command.
Prepared ==
  /\ "genesis" \in Behind(at) => \A n \in Node : gfile[n] = want.genesis
  /\ "config" \in Behind(at) => \A n \in Node : cfile[n] = want.config
  /\ "init" \in Behind(at) => \A n \in Node \ record.pids : datadir[n] = want.genesis

Built == at = "off" /\ result = "ok" /\ record.path = "ready" =>
           \A s \in Stage : record.steps[s] = "done"

UpInv == cmd = "up" => Mine /\ Prepared /\ Progress(at) /\ Built

LEMMA InitUp == CompositionInit => UpInv
BY DEF CompositionInit, UpInv

\* A step that begins no command keeps what the command is about, and what it found but
\* for a node that dies.
LEMMA CommandKeeps ==
  ASSUME CompositionNext, ~(Up \/ RunStep \/ Resume \/ Operate)
  PROVE  UNCHANGED <<cmd, want, asked>> /\ (NodeDies \/ UNCHANGED found)
<1>1. CASE openingWorkspace \/ buildingNodeTable \/ ensuringKeys \/ buildingGenesis
             \/ buildingNodeConfig
  BY <1>1 DEF openingWorkspace, buildingNodeTable, ensuringKeys, buildingGenesis,
              buildingNodeConfig, Reports, Fails, Dies, Goes, Off, walk
<1>2. CASE buildingNodeCommand \/ deployingInputs \/ initializingDatadirs \/ launching
  BY <1>2 DEF buildingNodeCommand, deployingInputs, initializingDatadirs, launching, Reports,
              Fails, Dies, Goes, Off, walk
<1>3. CASE launchingPhase \/ runningPhaseActions \/ recordingRun \/ rollingBack
  BY <1>3 DEF launchingPhase, runningPhaseActions, recordingRun, rollingBack, RollsBack, Reports,
              Fails, Dies, Goes, Off, walk
<1>4. CASE StageRefuses \/ Rests \/ MarkFailed \/ reconciling
  BY <1>4 DEF StageRefuses, Refuses, Rests, MarkFailed, reconciling, Fails, Dies, Goes, Off, walk
<1>5. CASE comparing \/ stoppingToRebuild \/ restartingNodes \/ startMissing \/ NothingMissing
  BY <1>5 DEF comparing, stoppingToRebuild, restartingNodes, startMissing, NothingMissing, Leaves,
              Dies, Goes, Off, walk
<1>6. CASE stopping \/ removing \/ restarting \/ Crash \/ NodeDies \/ Hides
  BY <1>6 DEF stopping, removing, restarting, Crash, NodeDies, Hides, Leaves, Dies, Off, walk
<1> QED BY <1>1, <1>2, <1>3, <1>4, <1>5, <1>6 DEF CompositionNext, Stages

LEMMA MineKeeps ==
  ASSUME Mine, UNCHANGED <<want, found>>, \A n \in Node : proc'[n] \in {None, proc[n]}
  PROVE  Mine'
<1> SUFFICES ASSUME NEW n \in Node, proc'[n] # None
             PROVE  \/ Kept(n)'
                    \/ proc'[n].genesis = want'.genesis /\ proc'[n].config = want'.config
  BY DEF Mine
<1>1. proc'[n] = proc[n] OBVIOUS
<1> QED BY <1>1 DEF Mine, Kept

\* What a launch over an initialised data directory starts.
LEMMA LaunchedServes ==
  ASSUME MachineTypes, NEW S \in SUBSET Node, NEW known \in {"yes", "no"}, want \in Request,
         NEW n \in Node,
         n \in S => datadir[n] = want.genesis /\ cfile[n] \in {None, want.config}
  PROVE  /\ Touched(S)[n] = datadir[n]
         /\ \/ Launched(S, known)[n] = proc[n]
            \/ /\ Launched(S, known)[n].genesis = want.genesis
               /\ Launched(S, known)[n].config = want.config
<1>1. want.genesis # None
  BY CompositionAssumption DEF Request
<1>2. Touched(S)[n] = datadir[n]
  BY <1>1 DEF Touched, MachineTypes
<1>3. ASSUME n \in S, proc[n] = None, cfile[n] # None
      PROVE  Launched(S, known)[n] = [genesis |-> want.genesis, config |-> want.config,
                                      known |-> known]
  BY <1>1, <1>3 DEF Launched
<1>4. ASSUME ~(n \in S /\ proc[n] = None /\ cfile[n] # None)
      PROVE  Launched(S, known)[n] = proc[n]
  BY <1>4 DEF Launched
<1> QED BY <1>2, <1>3, <1>4

LEMMA StepUp ==
  ASSUME CompositionTypes, UpInv, [CompositionNext]_compositionVars
  PROVE  UpInv'
<1> USE BehindIs DEF CompositionTypes
<1>0. CASE UNCHANGED compositionVars
  BY <1>0 DEF compositionVars, UpInv, Mine, Kept, Prepared, Progress, Built
<1> SUFFICES ASSUME CompositionNext, cmd' = "up"
             PROVE  Mine' /\ Prepared' /\ Progress(at)' /\ Built'
  BY <1>0 DEF UpInv
<1>1. CASE Up
  <2>1. UNCHANGED machines /\ found' = Machines /\ at' = "new"
    BY <1>1 DEF Up, Begins
  <2>2. \A n \in Node : proc[n] # None => proc[n] = [proc[n] EXCEPT !.known = proc[n].known]
    BY DEF MachineTypes, Process
  <2>3. Mine'
    BY <2>1, <2>2 DEF machines, Machines, Mine, Kept
  <2>4. Behind(at') = {}
    BY <2>1, EarlierIs DEF Stage
  <2> QED BY <2>1, <2>3, <2>4 DEF Prepared, Progress, Built
<1>2. CASE RunStep \/ Resume \/ Operate
  BY <1>2 DEF RunStep, Resume, Operate, Operates, Begins
<1>17. CASE NodeDies
  <2>1. PICK m \in Live : /\ proc' = [proc EXCEPT ![m] = None]
                          /\ found' = [found EXCEPT !.proc[m] = None]
    BY <1>17 DEF NodeDies
  <2>2. UNCHANGED <<record, gfile, cfile, datadir, at, result, cmd, want>>
    BY <1>17 DEF NodeDies
  <2>3. proc'[m] = None /\ \A n \in Node \ {m} : proc'[n] = proc[n]
    BY <2>1 DEF MachineTypes, Live
  <2>4. \A n \in Node \ {m} : found'.proc[n] = found.proc[n]
    BY <2>1 DEF ControlTypes, MachineRecords, Live
  <2>5. Mine /\ Prepared /\ Progress(at) /\ Built BY <2>2 DEF UpInv
  <2>6. Mine' BY <2>2, <2>3, <2>4, <2>5 DEF Mine, Kept
  <2> QED BY <2>2, <2>5, <2>6 DEF Prepared, Progress, Built
<1> SUFFICES ASSUME ~(Up \/ RunStep \/ Resume \/ Operate \/ NodeDies)
             PROVE  Mine' /\ Prepared' /\ Progress(at)' /\ Built'
  BY <1>1, <1>2, <1>17
<1>3. UNCHANGED <<cmd, want, found>> /\ cmd = "up"
  BY CommandKeeps
<1>4. Mine /\ Prepared /\ Progress(at) /\ Built
  BY <1>3 DEF UpInv
<1>5. at \in Composing => want \in Request
  BY DEF ControlTypes
<1>6. ASSUME \A n \in Node : proc'[n] \in {None, proc[n]} PROVE Mine'
  BY <1>3, <1>4, <1>6, MineKeeps
<1>7. ASSUME Behind(at') = {}, at' # "off" \/ result' # "ok"
      PROVE  Prepared' /\ Progress(at)' /\ Built'
  BY <1>7 DEF Prepared, Progress, Built
\* A stage that ends: what it has behind it, given what its own work left.
<1>8. ASSUME NEW s \in Stage, NEW r \in Records, at = s,
             r.steps = record.steps, Reports(s, r) \/ Fails(s, r) \/ Dies(s)
      PROVE  /\ Progress(at)' /\ Built'
             /\ \A t \in Behind(at') : Reports(s, r) /\ (t \in Behind(at) \/ t = s)
  <2>1. Behind(at) = Earlier(s) BY <1>8
  <2>2. \A t \in Earlier(s) : record.steps[t] = "done"
    BY <1>4, <2>1 DEF Progress
  <2> QED BY <1>3, <1>8, <2>1, <2>2, StageProgress DEF Progress, Built
<1>9. CASE Builds
  <2>1. PICK r : Tidy(at, r) /\ Ends(at, r)
    BY <1>9, StageEnds
  <2>2. at \in Stage BY <1>9, StageEnds
  <2>3. /\ Progress(at)' /\ Built'
        /\ \A t \in Behind(at') : Reports(at, r) /\ (t \in Behind(at) \/ t = at)
    BY <2>1, <2>2, <1>8 DEF Tidy, Ends
  <2>4. proc' = proc /\ record'.pids = record.pids
    BY <1>9, QuietKeeps DEF Quiet, Builds
  <2>5. Behind(at') # {} => at' \notin {"off", "failed"}
    OBVIOUS
  <2>6. "genesis" \in Behind(at') => \A n \in Node : gfile'[n] = want.genesis
    <3>1. CASE buildingGenesis
      BY <2>5, <3>1, CompositionAssumption DEF buildingGenesis, Fails, Dies, Off, Node
    <3>2. CASE ~buildingGenesis
      <4>1. at # "genesis" /\ gfile' = gfile
        BY <1>9, <3>2 DEF Builds, openingWorkspace, buildingNodeTable, ensuringKeys,
           buildingNodeConfig, buildingNodeCommand, deployingInputs, initializingDatadirs, machines
      <4> QED BY <4>1, <2>3, <1>4 DEF Prepared
    <3> QED BY <3>1, <3>2
  <2>7. "config" \in Behind(at') => \A n \in Node : cfile'[n] = want.config
    <3>1. CASE buildingNodeConfig
      BY <2>5, <3>1, CompositionAssumption DEF buildingNodeConfig, Fails, Dies, Off, Node
    <3>2. CASE ~buildingNodeConfig
      <4>1. at # "config" /\ cfile' = cfile
        BY <1>9, <3>2 DEF Builds, openingWorkspace, buildingNodeTable, ensuringKeys,
           buildingGenesis, buildingNodeCommand, deployingInputs, initializingDatadirs, machines
      <4> QED BY <4>1, <2>3, <1>4 DEF Prepared
    <3> QED BY <3>1, <3>2
  <2>8. "init" \in Behind(at') => \A n \in Node \ record.pids : datadir'[n] = want.genesis
    <3>1. CASE initializingDatadirs
      <4>1. ASSUME "init" \in Behind(at'), NEW n \in Node \ record.pids
            PROVE  datadir'[n] = gfile[n]
        BY <2>5, <3>1, <4>1, CompositionAssumption
           DEF initializingDatadirs, Fails, Dies, Off, Node
      <4>2. \A n \in Node : gfile[n] = want.genesis
        <5>1. "genesis" \in Behind(at)
          BY <3>1 DEF initializingDatadirs, Stage, Earlier, upStep
        <5> QED BY <5>1, <1>4 DEF Prepared
      <4> QED BY <4>1, <4>2
    <3>2. CASE ~initializingDatadirs
      <4>1. at # "init" /\ datadir' = datadir
        BY <1>9, <3>2 DEF Builds, openingWorkspace, buildingNodeTable, ensuringKeys,
           buildingGenesis, buildingNodeConfig, buildingNodeCommand, deployingInputs, machines
      <4> QED BY <4>1, <2>3, <1>4 DEF Prepared
    <3> QED BY <3>1, <3>2
  <2>9. Prepared'
    BY <1>3, <2>4, <2>6, <2>7, <2>8 DEF Prepared
  <2> QED BY <1>6, <2>3, <2>4, <2>9
<1>10. CASE launching \/ runningPhaseActions
  <2>1. Stage \ {"start"} \subseteq Behind(at)
    BY <1>10, EarlierIs DEF launching, runningPhaseActions, Stage
  <2>2. UNCHANGED machines /\ record'.pids = record.pids
    BY <1>10, QuietKeeps DEF Quiet, launching, runningPhaseActions
  <2>3. record'.steps = record.steps
    BY <1>10, EnteredKeeps DEF launching, runningPhaseActions, RollsBack, Fails, Dies
  <2>4. /\ at' \in {"phase", "recording", "rollback", "failed", "off"}
        /\ at' = "off" => result' # "ok"
    BY <1>10 DEF launching, runningPhaseActions, RollsBack, Fails, Dies, Goes, Off, NextPhase
  <2>5. Behind(at') \subseteq Stage \ {"start"}
    BY <2>4
  <2>6. Progress(at)' /\ Built'
    BY <1>4, <2>1, <2>3, <2>4, <2>5 DEF Progress, Built
  <2>7. Prepared'
    BY <1>3, <1>4, <2>1, <2>2, <2>5 DEF Prepared, machines
  <2> QED BY <1>6, <2>2, <2>6, <2>7 DEF machines
<1>11. CASE launchingPhase
  <2> DEFINE S(k) == (Phases[phase] \ record.pids) \cap 1..k
  <2>1. PICK k \in 0..N, known \in {"yes", "no"} :
          /\ proc' = Launched(S(k), known) /\ datadir' = Touched(S(k))
          /\ UNCHANGED <<gfile, cfile>>
          /\ \/ record' = [Entered("start") EXCEPT !.argv = @ \cup S(k), !.pids = @ \cup S(k)]
             \/ record' = Entered("start")
    BY <1>11 DEF launchingPhase, RollsBack, Dies
  <2>2. S(k) \in SUBSET Node
    BY CompositionAssumption DEF Node
  <2>3. record.pids \subseteq record'.pids /\ record'.steps = record.steps
    <3> DEFINE r == [Entered("start") EXCEPT !.argv = @ \cup S(k), !.pids = @ \cup S(k)]
    <3>1. r.pids = record.pids \cup S(k) /\ r.steps = record.steps
      BY DEF Entered, Records
    <3>2. Entered("start").pids = record.pids /\ Entered("start").steps = record.steps
      BY EnteredKeeps
    <3> HIDE DEF r
    <3>3. record' = r \/ record' = Entered("start") BY <2>1 DEF r
    <3>4. CASE record' = r BY <3>1, <3>4
    <3>5. CASE record' = Entered("start") BY <3>2, <3>5
    <3> QED BY <3>3, <3>4, <3>5
  <2>4. at = "phase" /\ want \in Request
    BY <1>5, <1>11 DEF launchingPhase, Composing, Places
  <2>5. Behind(at) = Stage \ {"start"}
    BY <2>4
  <2>6. /\ \A n \in Node : gfile[n] = want.genesis /\ cfile[n] = want.config
        /\ \A n \in Node \ record.pids : datadir[n] = want.genesis
    BY <1>4, <2>5 DEF Prepared, Stage
  <2>7. \A n \in S(k) : datadir[n] = want.genesis /\ cfile[n] \in {None, want.config}
    BY <2>2, <2>6
  <2>8. \A n \in Node :
          /\ Touched(S(k))[n] = datadir[n]
          /\ \/ Launched(S(k), known)[n] = proc[n]
             \/ /\ Launched(S(k), known)[n].genesis = want.genesis
                /\ Launched(S(k), known)[n].config = want.config
    <3> HIDE DEF S
    <3> QED BY <2>2, <2>4, <2>7, LaunchedServes
  <2> HIDE DEF S
  <2>9. Mine'
    <3> SUFFICES ASSUME NEW n \in Node, proc'[n] # None
                 PROVE  \/ Kept(n)'
                        \/ proc'[n].genesis = want'.genesis /\ proc'[n].config = want'.config
      BY DEF Mine
    <3>1. CASE proc'[n] = proc[n]
      BY <1>3, <1>4, <3>1 DEF Mine, Kept
    <3> QED BY <1>3, <2>1, <2>8, <3>1
  <2>10. at' \in {"actions", "phase", "recording", "rollback", "off"}
         /\ (at' = "off" => result' # "ok")
    BY <1>11 DEF launchingPhase, RollsBack, Dies, Goes, Off, NextPhase
  <2>11. Behind(at') \subseteq Stage \ {"start"}
    BY <2>10
  <2>12. Progress(at)' /\ Built'
    BY <1>4, <2>3, <2>5, <2>10, <2>11 DEF Progress, Built
  <2>13. Prepared'
    BY <1>3, <2>1, <2>3, <2>6, <2>8 DEF Prepared
  <2> QED BY <2>9, <2>12, <2>13
<1>12. CASE recordingRun
  <2>1. UNCHANGED machines /\ record'.pids = record.pids
    BY <1>12, QuietKeeps DEF Quiet, recordingRun
  <2>2. Behind(at) = Stage \ {"start"} BY <1>12 DEF recordingRun
  <2>3. CASE Goes("rollback")
    <3>1. at' = "rollback" BY <2>3 DEF Goes
    <3> QED BY <1>6, <1>7, <2>1, <3>1 DEF machines
  <2>4. CASE Reports("start", Entered("start")) \/ Dies("start")
    <3>1. Tidy("start", Entered("start")) BY EnteredTidy DEF Stage
    <3>2. \A t \in Earlier("start") : record.steps[t] = "done"
      BY <1>4, <2>2, EarlierIs DEF Progress
    <3>3. /\ \A t \in Behind(at') : record'.steps[t] = "done"
          /\ at' = "off" => result' = "crashed"
          /\ Behind(at') \subseteq Earlier("start") \cup {"start"}
      BY <1>3, <2>4, <3>1, <3>2, StageProgress DEF Tidy, Stage
    <3>4. Progress(at)' /\ Built'
      BY <3>3 DEF Progress, Built
    <3>5. Prepared'
      BY <1>3, <1>4, <2>1, <2>2, <3>3, EarlierIs DEF Prepared, machines, Stage
    <3> QED BY <1>6, <2>1, <3>4, <3>5 DEF machines
  <2> QED BY <1>12, <2>3, <2>4 DEF recordingRun, RollsBack
<1>13. CASE rollingBack \/ StageRefuses \/ MarkFailed \/ Crash
  <2>1. at' \in {"failed", "off"} /\ (at' = "off" => result' # "ok")
    BY <1>13 DEF rollingBack, StageRefuses, Refuses, MarkFailed, Crash, Fails, Off
  <2>2. \A n \in Node : proc'[n] \in {None, proc[n]}
    BY <1>13 DEF rollingBack, StageRefuses, Refuses, MarkFailed, Crash, Stopped, machines
  <2> QED BY <1>6, <1>7, <2>1, <2>2
<1>14. CASE Rests
  <2>1. at' = "off" /\ record' = Entered(at) /\ UNCHANGED machines
    BY <1>3, <1>14 DEF Rests, Off
  <2>2. Behind(at') = {} BY <2>1
  <2>3. record'.path = "ready" => at = "ready" /\ record'.steps = record.steps
    BY <2>1, EnteredKeeps
  <2>4. Built' BY <1>4, <2>3 DEF Built, Progress
  <2> QED BY <1>6, <2>1, <2>2, <2>4 DEF Prepared, Progress, machines
<1>15. CASE reconciling
  <2>1. CASE UNCHANGED machines /\ at' \in {"off", "failed"} /\ (at' = "off" => result' # "ok")
    BY <2>1, <1>6, <1>7 DEF machines
  <2>2. CASE ~(UNCHANGED machines /\ at' \in {"off", "failed"} /\ (at' = "off" => result' # "ok"))
    <3>1. /\ proc' = [n \in Node |-> IF n \in Found THEN [proc[n] EXCEPT !.known = "yes"]
                                     ELSE Stopped((Node \ Reused) \cap record.pids)[n]]
          /\ record' = [[Entered("reconcile") EXCEPT !.pids = @ \cup Found]
                          EXCEPT !.pids = @ \ (Node \ Reused)]
          /\ at = "reconcile" /\ at' = "genesis"
      BY <1>15, <2>2 DEF reconciling, Fails, Dies, Off, Goes
    <3>2. record'.steps = record.steps BY <3>1 DEF Entered, Records
    <3>3. Behind(at') = Behind(at)
      BY <3>1, EarlierIs DEF Stage
    <3>4. "genesis" \notin Behind(at') /\ "config" \notin Behind(at') /\ "init" \notin Behind(at')
      BY <3>1, <3>3
    <3>5. Progress(at)' /\ Prepared' /\ Built'
      BY <1>4, <3>1, <3>2, <3>3, <3>4 DEF Progress, Prepared, Built
    <3>6. Mine'
      <4> SUFFICES ASSUME NEW n \in Node, proc'[n] # None
                   PROVE  \/ Kept(n)'
                          \/ proc'[n].genesis = want'.genesis /\ proc'[n].config = want'.config
        BY DEF Mine
      <4>1. CASE n \notin Found
        <5>1. proc'[n] = proc[n] BY <3>1, <4>1 DEF Stopped
        <5> QED BY <1>3, <1>4, <5>1 DEF Mine, Kept
      <4>2. CASE n \in Found
        <5>1. proc'[n] = [proc[n] EXCEPT !.known = "yes"] BY <3>1, <4>2
        <5>2. proc[n] \in Process BY <4>2 DEF Found, Live, MachineTypes
        <5>3. /\ proc'[n].genesis = proc[n].genesis /\ proc'[n].config = proc[n].config
              /\ proc'[n].known = "yes"
          BY <5>1, <5>2 DEF Process
        <5>4. ASSUME Kept(n) PROVE Kept(n)'
          <6>1. /\ found.proc[n] # None
                /\ proc[n] = [found.proc[n] EXCEPT !.known = proc[n].known]
            BY <5>4 DEF Kept
          <6>2. found.proc[n] \in Process BY <6>1 DEF ControlTypes, MachineRecords
          <6>3. proc'[n] = [found.proc[n] EXCEPT !.known = "yes"]
            BY <5>1, <6>1, <6>2 DEF Process
          <6> QED BY <1>3, <5>3, <6>1, <6>3 DEF Kept
        <5>5. proc[n] # None BY <4>2 DEF Found, Live
        <5> QED BY <1>3, <1>4, <5>3, <5>4, <5>5 DEF Mine
      <4> QED BY <4>1, <4>2
    <3> QED BY <3>5, <3>6
  <2> QED BY <2>1, <2>2
<1>16. CASE comparing \/ stoppingToRebuild \/ restartingNodes \/ startMissing \/ NothingMissing
             \/ stopping \/ removing \/ restarting
  BY <1>3, <1>16 DEF comparing, stoppingToRebuild, restartingNodes, startMissing, NothingMissing,
                     stopping, removing, restarting, CommandFits
<1>18. CASE Hides
  BY <1>3, <1>4, <1>6, <1>18 DEF Hides, machines, Prepared, Progress, Built
<1> QED BY <1>9, <1>10, <1>11, <1>12, <1>13, <1>14, <1>15, <1>16, <1>18
        DEF CompositionNext, Stages, Builds

-----------------------------------------------------------------------------
(* A workspace that was only ever brought up as one network. *)

Walking == Stage \cup {"phase", "actions", "recording", "ready", "missing"}

For(w, g, c) == w \in Request /\ w.genesis = g /\ w.config = c /\ w.mode = "fresh"

\* The data directories are made, but for those a node that a probe missed may have lost.
Inited(g) == \A n \in Node : heard[n] = "yes" => datadir[n] = g

\* The steps before p are done, and their work on the data directories is there.
Reached(p, g) == Progress(p) /\ ("init" \in Behind(p) => Inited(g))

\* The request stops before the launch, and every step of it is done.
Composed(w) == w.stage # "start" /\ \A s \in Rungs(w.stage) : record.steps[s] = "done"

\* The machines hold this network or nothing, and nothing half made is under a process.
OneFiles(g, c) ==
  /\ \A n \in Node : gfile[n] \in {None, g} /\ cfile[n] \in {None, c}
  /\ \A n \in Node : heard[n] = "yes" =>
       /\ n \in record.pids \/ proc[n] # None => datadir[n] = g
       /\ proc[n] # None => proc[n].genesis = g /\ proc[n].config = c

\* Where the record says the run is, a resume can begin.
OneRecord(g, c) ==
  /\ record.path \in Stage \cup {"idle", "stoppedAtStep", "ready"}
  /\ Reached(record.path, g)
  /\ record.request # None => For(record.request, g, c)
  /\ record.path = "idle" => record.request = None
  /\ record.path = "stoppedAtStep" => record.request # None /\ Composed(record.request)

\* Where the command is, it has got.
OneWalk(g, c) ==
  /\ cmd \in {"up", "resume"} /\ For(want, g, c)
  /\ at \in Walking \cup {"off", "failed", "rollback", "done", "stoppedAtStep"}
  /\ Reached(at, g)
  /\ at \in (Walking \ {"new"}) \cup {"stoppedAtStep"} => record.request = want
  /\ at = "failed" => failing = record.path
  /\ at \in Launching => record.path = "start"
  /\ at = "missing" => record.path = "ready"
  /\ at = "stoppedAtStep" => Composed(want)

One(g, c) == OneFiles(g, c) /\ OneRecord(g, c) /\ OneWalk(g, c)

OneNet == \A g \in Genesis, c \in Config : asked = {<<"fresh", g, c>>} => One(g, c)

\* A workspace nothing was asked of is empty.
Bare ==
  asked = {} =>
    /\ at = "off" /\ record = NoRecord
    /\ \A n \in Node : gfile[n] = None /\ cfile[n] = None /\ datadir[n] = None /\ proc[n] = None

LEMMA InitOne == CompositionInit => Bare /\ OneNet
BY DEF CompositionInit, Bare, OneNet

LEMMA BareIsOne ==
  ASSUME Bare, asked = {}, NEW g \in Genesis, NEW c \in Config
  PROVE  OneFiles(g, c) /\ OneRecord(g, c)
<1>1. record.pids = {} /\ record.path = "idle" /\ record.request = None
  BY DEF Bare, NoRecord
<1>2. OneFiles(g, c)
  BY <1>1 DEF Bare, OneFiles
<1>3. OneRecord(g, c)
  BY <1>1, BehindIs DEF OneRecord, Reached, Progress, Stage
<1> QED BY <1>2, <1>3

\* What one fresh request adds to the history names it.
LEMMA AskedNames ==
  ASSUME NEW g, NEW c, NEW x, NEW y
  PROVE  /\ <<"else">> # <<"fresh", g, c>>
         /\ <<"fresh", x, y>> = <<"fresh", g, c>> => x = g /\ y = c
<1>1. <<"else">>[1] = "else" /\ <<"fresh", g, c>>[1] = "fresh" OBVIOUS
<1>2. /\ <<"fresh", x, y>>[2] = x /\ <<"fresh", x, y>>[3] = y
      /\ <<"fresh", g, c>>[2] = g /\ <<"fresh", g, c>>[3] = c
  OBVIOUS
<1> QED BY <1>1, <1>2

\* A stage that ends, given what its own work left on the machines.
LEMMA StageOne ==
  ASSUME CompositionTypes, NEW g, NEW c, One(g, c), NEW s \in Stage, NEW r,
         at = s \/ (s = "start" /\ at = "recording"),
         Tidy(s, r), Ends(s, r), UNCHANGED <<cmd, want>>, OneFiles(g, c)',
         "init" \in Earlier(s) \/ (s = "init" /\ Reports(s, r)) => Inited(g)',
         at' = "place" => record'.request = want
  PROVE  One(g, c)'
<1> USE BehindIs DEF Tidy
<1>c. cmd # "step" /\ For(want, g, c) /\ cmd \in {"up", "resume"} BY DEF One, OneWalk
<1>r. /\ want \in Request /\ want.stage \in {"deploy", "init", "start"} /\ want.mode = "fresh"
      /\ want # None
  BY <1>c, CompositionAssumption DEF For, Request
<1>p. s \in Path /\ s # "idle" /\ s # "stoppedAtStep" /\ s # "ready" BY StagesArePlaces DEF Stage
<1>a. Earlier(s) \subseteq Stage /\ s \notin Earlier(s)
  BY DEF Earlier, upStep, Stage
<1>1. \A t \in Earlier(s) : record.steps[t] = "done"
  BY EarlierIs DEF One, OneWalk, Reached, Progress
<1>2. /\ \A t \in Behind(at') : record'.steps[t] = "done"
      /\ Behind(at') = {} \/ (Reports(s, r) /\ Behind(at') \subseteq Earlier(s) \cup {s})
  BY <1>c, <1>1, StageProgress DEF Ends
<1>3. "init" \in Behind(at') => Inited(g)'
  BY <1>2
<1>4. Reached(at, g)'
  BY <1>2, <1>3 DEF Reached, Progress
<1>5. r.request # None => For(r.request, g, c)
  BY <1>c DEF One, OneRecord
<1>6. ASSUME record'.path = s, record'.steps = record.steps \/
                record'.steps = [record.steps EXCEPT ![s] = "done"],
             record'.request = r.request \/ record'.request = record.request
      PROVE  OneRecord(g, c)'
  <2>1. \A t \in Earlier(s) : record'.steps[t] = "done"
    BY <1>1, <1>6, <1>a DEF CompositionTypes, Records
  <2>2. Reached(record.path, g)'
    BY <1>6, <2>1 DEF Reached, Progress
  <2>3. record'.request # None => For(record'.request, g, c)
    BY <1>5, <1>6 DEF One, OneRecord
  <2> QED BY <1>6, <1>p, <2>2, <2>3 DEF OneRecord
<1>7. CASE Reports(s, r)
  <2>1. record' = [r EXCEPT !.steps[s] = "done"] /\ at' = after(s)
    BY <1>7 DEF Reports, Goes
  <2>2. /\ record'.path = s /\ record'.steps = [record.steps EXCEPT ![s] = "done"]
        /\ record'.request = r.request
    BY <2>1 DEF Records
  <2>3. \/ at' = "stoppedAtStep" /\ s = want.stage /\ s # "start"
        \/ at' = stageOrder[s]
    BY <2>1, <1>c, <1>r DEF after, reusing
  <2>4. /\ at' \in (Walking \ {"new", "missing"}) \cup {"stoppedAtStep"}
        /\ at' \notin Launching /\ at' # "failed"
    BY <2>3 DEF stageOrder, Stage, Walking, Launching
  <2>5. record'.request = want
    <3>1. CASE s = "new"
      <4>1. at' = "place" BY <2>3, <3>1, <1>r DEF stageOrder
      <4> QED BY <4>1
    <3>2. CASE s # "new"
      <4>1. record.request = want BY <3>2 DEF One, OneWalk, Walking
      <4> QED BY <2>2, <3>2, <4>1
    <3> QED BY <3>1, <3>2
  <2>6. at' = "stoppedAtStep" => Composed(want)'
    <3> SUFFICES ASSUME at' = "stoppedAtStep" PROVE Composed(want)' OBVIOUS
    <3>1. s = want.stage /\ s \in {"deploy", "init"}
      BY <2>3, <1>r DEF stageOrder, Stage
    <3>2. Rungs(s) \subseteq Earlier(s) \cup {s}
      BY <3>1 DEF Rungs, Earlier, upStep, Stage
    <3>3. \A t \in Earlier(s) \cup {s} : record'.steps[t] = "done"
      BY <1>1, <1>a, <2>2 DEF CompositionTypes, Records
    <3> QED BY <3>1, <3>2, <3>3 DEF Composed
  <2>7. OneWalk(g, c)'
    BY <1>c, <1>4, <2>4, <2>5, <2>6 DEF OneWalk
  <2> QED BY <1>6, <2>2, <2>7 DEF One
<1>8. CASE Fails(s, r)
  <2>1. record' = r /\ at' = "failed" /\ failing' = s BY <1>8 DEF Fails
  <2>2. OneWalk(g, c)'
    BY <1>c, <1>4, <2>1 DEF OneWalk, Walking, Stage, Launching
  <2> QED BY <1>6, <2>1, <2>2 DEF One
<1>9. CASE Dies(s)
  <2>1. record' = Entered(s) /\ at' = "off" BY <1>9 DEF Dies, Off
  <2>2. record'.path = s /\ record'.steps = record.steps /\ record'.request = record.request
    BY <2>1, EnteredKeeps DEF CompositionTypes
  <2>3. OneWalk(g, c)'
    BY <1>c, <1>4, <2>1 DEF OneWalk, Walking, Stage, Launching
  <2> QED BY <1>6, <2>2, <2>3 DEF One
<1> QED BY <1>7, <1>8, <1>9 DEF Ends

\* A fresh chain up of the network, on a workspace that is this network or empty.
LEMMA UpOne ==
  ASSUME CompositionTypes, NEW g \in Genesis, NEW c \in Config, Up,
         asked \in {{}, {<<"fresh", g, c>>}}, asked' = {<<"fresh", g, c>>}, UNCHANGED heard,
         OneFiles(g, c), OneRecord(g, c)
  PROVE  One(g, c)'
<1>1. PICK w \in Requests :
        /\ \/ Begins("up", w, "new") /\ Asks(w)
           \/ Begins("compare", w, "compare") /\ AsksElse
        /\ UNCHANGED <<record, machines>>
  BY DEF Up
<1>2. <<"else">> \notin asked'
  BY AskedNames
<1>3. Begins("up", w, "new") /\ Asks(w)
  BY <1>1, <1>2 DEF AsksElse
<1>4. w.mode = "fresh" /\ <<"fresh", w.genesis, w.config>> \in asked'
  BY <1>2, <1>3 DEF Asks
<1>5. w.genesis = g /\ w.config = c
  BY <1>4, AskedNames
<1>6. For(w, g, c)
  BY <1>4, <1>5, CompositionAssumption DEF For
<1>7. cmd' = "up" /\ want' = w /\ at' = "new"
  BY <1>3 DEF Begins
<1>8. OneWalk(g, c)'
  BY <1>6, <1>7, BehindIs, EarlierIs DEF OneWalk, Reached, Progress, Walking, Launching, Stage
<1>9. OneFiles(g, c)' /\ OneRecord(g, c)'
  BY <1>1 DEF OneFiles, OneRecord, Reached, Progress, Inited, Composed, machines
<1> QED BY <1>8, <1>9 DEF One

LEMMA ResumeOne ==
  ASSUME CompositionTypes, NEW g \in Genesis, NEW c \in Config, Resume, One(g, c),
         UNCHANGED heard
  PROVE  One(g, c)'
<1> USE BehindIs DEF CompositionTypes
<1> DEFINE where == IF ResumeStep # "none" THEN ResumeStep
                    ELSE IF record.request.stage = "start" THEN "missing" ELSE "done"
<1>1. /\ record.request # None /\ Begins("resume", record.request, where)
      /\ record' = Reconciled /\ UNCHANGED <<gfile, cfile, datadir>>
      /\ proc' = [n \in Node |-> IF n \in Adoptable THEN [proc[n] EXCEPT !.known = "yes"]
                                 ELSE proc[n]]
  BY DEF Resume
<1>2. /\ record'.path = record.path /\ record'.steps = record.steps
      /\ record'.request = record.request
      /\ record'.pids = IF record.nodes = {} THEN record.pids ELSE Alive \cup Adoptable
  BY <1>1 DEF Reconciled, Records
<1>3. \A n \in Node : n \in record'.pids => n \in record.pids \/ proc[n] # None
  BY <1>2 DEF Alive, Adoptable, Orphans, Live
<1>4. \A n \in Node : proc'[n] # None => /\ proc[n] # None
                                          /\ proc'[n].genesis = proc[n].genesis
                                          /\ proc'[n].config = proc[n].config
  <2> TAKE n \in Node
  <2>1. CASE n \notin Adoptable BY <1>1, <2>1
  <2>2. CASE n \in Adoptable
    <3>1. proc[n] # None /\ proc[n] \in Process BY <2>2 DEF Adoptable, Orphans, Live, MachineTypes
    <3>2. proc'[n] = [proc[n] EXCEPT !.known = "yes"] BY <1>1, <2>2
    <3> QED BY <3>1, <3>2 DEF Process
  <2> QED BY <2>1, <2>2
<1>5. OneFiles(g, c)'
  BY <1>1, <1>3, <1>4 DEF One, OneFiles
<1>6. OneRecord(g, c)'
  BY <1>1, <1>2 DEF One, OneRecord, Reached, Progress, Inited, Composed
<1>7. cmd' = "resume" /\ want' = record.request /\ at' = where
  BY <1>1 DEF Begins
<1>8. For(record.request, g, c) BY <1>1 DEF One, OneRecord
<1>9. /\ Reached(where, g) /\ where \in Walking \cup {"done"} /\ where \notin Launching
      /\ where = "missing" => record.path = "ready"
  <2>1. record.path \in Stage \cup {"stoppedAtStep", "ready"}
    BY <1>1 DEF One, OneRecord
  <2>2. CASE record.path \in Stage
    <3>1. ResumeStep = record.path BY <2>2 DEF ResumeStep, Stage
    <3>2. where = record.path BY <2>2, <3>1 DEF Stage
    <3> QED BY <2>2, <3>2 DEF One, OneRecord, Walking, Launching, Stage
  <2>3. CASE record.path = "ready"
    <3>1. ResumeStep = "none" BY <2>3 DEF ResumeStep, Stage
    <3>2. Reached("missing", g) BY <2>3 DEF One, OneRecord, Reached, Progress
    <3> QED BY <2>3, <3>1, <3>2 DEF Reached, Progress, Walking, Launching
  <2>4. CASE record.path = "stoppedAtStep"
    <3>1. Composed(record.request) BY <2>4 DEF One, OneRecord
    <3>2. FirstUndone = "none" BY <3>1 DEF Composed, FirstUndone
    <3>3. ResumeStep = "none" BY <2>4, <3>2 DEF ResumeStep, Stage
    <3>4. where = "done" BY <3>1, <3>3 DEF Composed
    <3> QED BY <2>4, <3>4 DEF Reached, Progress, Walking, Launching
  <2> QED BY <2>1, <2>2, <2>3, <2>4
<1> HIDE DEF where
<1>10. Reached(at, g)'
  BY <1>1, <1>2, <1>7, <1>9 DEF Reached, Progress, Inited
<1>11. at' \notin {"failed", "stoppedAtStep"}
  BY <1>7, <1>9 DEF Walking, Stage
<1>12. OneWalk(g, c)'
  BY <1>2, <1>7, <1>8, <1>9, <1>10, <1>11 DEF OneWalk
<1> QED BY <1>5, <1>6, <1>12 DEF One

LEMMA BuildsOne ==
  ASSUME CompositionTypes, NEW g \in Genesis, NEW c \in Config, CompositionNext, Builds, One(g, c),
         UNCHANGED heard
  PROVE  One(g, c)'
<1> USE DEF CompositionTypes
<1>1. PICK r : Tidy(at, r) /\ Ends(at, r)
  BY StageEnds
<1>2. at \in Stage /\ (at' = "place" => record'.request = want)
  BY StageEnds
<1>3. UNCHANGED <<cmd, want>>
  <2>1. at # "off" BY <1>2 DEF Stage
  <2> QED BY <2>1, CommandKeeps DEF Up, RunStep, Resume, Operate, Operates, Begins
<1>4. proc' = proc /\ record'.pids = record.pids
  BY QuietKeeps DEF Quiet, Builds
<1>5. want.genesis = g /\ want.config = c
  BY DEF One, OneWalk, For
<1>6. CASE initializingDatadirs
  <2>1. UNCHANGED <<gfile, cfile, proc>> /\ at = "init" /\ InitAllowed
    BY <1>6 DEF initializingDatadirs
  <2>2. \A n \in Node : heard[n] = "yes" /\ proc[n] # None => n \in record.pids
    BY <2>1 DEF InitAllowed, Vacant, Live
  <2>3. \A n \in record.pids : n \in Node => datadir'[n] = datadir[n]
    <3> DEFINE rest(k) ==
          [n \in Node |-> IF n \in (1..k) \ record.pids THEN gfile[n] ELSE datadir[n]]
    <3>1. PICK k \in 0..N : \/ datadir' = rest(k)
                            \/ /\ k + 1 \notin record.pids
                               /\ \E left : datadir' = [rest(k) EXCEPT ![k + 1] = left]
      BY <1>6 DEF initializingDatadirs
    <3>2. \A n \in Node : n \in record.pids => rest(k)[n] = datadir[n]
      OBVIOUS
    <3>3. rest(k) = [n \in Node |-> rest(k)[n]]
      OBVIOUS
    <3> HIDE DEF rest
    <3> QED BY <3>1, <3>2, <3>3
  <2>4. OneFiles(g, c)'
    BY <1>4, <2>1, <2>2, <2>3 DEF One, OneFiles
  <2>5. Reports(at, r) => Inited(g)'
    <3> SUFFICES ASSUME Reports(at, r) PROVE Inited(g)' OBVIOUS
    <3>1. at' \notin {"failed", "off"}
      BY AfterType, <1>2 DEF Reports, Goes
    <3>2. /\ \A n \in (1..N) \ record.pids : gfile[n] # None
          /\ datadir' = [n \in Node |-> IF n \in (1..N) \ record.pids THEN gfile[n] ELSE datadir[n]]
      BY <1>6, <3>1 DEF initializingDatadirs, Fails, Dies, Off
    <3>3. ASSUME NEW n \in Node, heard[n] = "yes" PROVE datadir'[n] = g
      BY <3>2, <3>3, CompositionAssumption DEF Node, One, OneFiles
    <3> QED BY <3>3 DEF Inited
  <2>6. "init" \notin Earlier(at) BY <2>1, EarlierIs DEF Stage
  <2> QED BY <1>1, <1>2, <1>3, <2>1, <2>4, <2>5, <2>6, StageOne
<1>7. CASE ~initializingDatadirs
  <2>1. datadir' = datadir /\ at # "init"
    BY <1>7 DEF Builds, openingWorkspace, buildingNodeTable, ensuringKeys, buildingGenesis,
       buildingNodeConfig, buildingNodeCommand, deployingInputs, machines
  <2>2. \A n \in Node : gfile'[n] \in {gfile[n], want.genesis} /\ cfile'[n] \in {cfile[n], want.config}
    BY <1>7 DEF Builds, openingWorkspace, buildingNodeTable, ensuringKeys, buildingGenesis,
       buildingNodeConfig, buildingNodeCommand, deployingInputs, machines
  <2>3. OneFiles(g, c)'
    BY <1>4, <1>5, <2>1, <2>2 DEF One, OneFiles
  <2>4. "init" \in Earlier(at) => Inited(g)'
    BY <1>2, <2>1, BehindIs DEF One, OneWalk, Reached, Inited
  <2> QED BY <1>1, <1>2, <1>3, <2>1, <2>3, <2>4, StageOne
<1> QED BY <1>6, <1>7

\* A step that leaves the machines and the record's request alone.
LEMMA WalkOne ==
  ASSUME CompositionTypes, NEW g, NEW c, One(g, c), UNCHANGED <<cmd, want, heard>>, UNCHANGED machines,
         record'.pids = record.pids, record'.request = record.request,
         OneRecord(g, c)', at' \in Walking \cup {"off", "failed", "rollback", "done"},
         Reached(at, g)', at' \in Walking \ {"new"} => record.request = want,
         at' = "failed" => failing' = record'.path,
         at' \in Launching => record'.path = "start",
         at' = "missing" => record'.path = "ready"
  PROVE  One(g, c)'
<1>1. OneFiles(g, c)'
  BY DEF One, OneFiles, machines
<1>2. at' # "stoppedAtStep" BY DEF Walking, Stage
<1>3. OneWalk(g, c)'
  BY <1>2 DEF One, OneWalk
<1> QED BY <1>1, <1>3 DEF One

\* In a launch the data directories are there, so it starts the network that was asked for.
LEMMA StartsOne ==
  ASSUME CompositionTypes, NEW g \in Genesis, NEW c \in Config, One(g, c),
         at \in {"phase", "missing"}, UNCHANGED <<gfile, cfile, want, heard>>,
         NEW S \in SUBSET Node, NEW known \in {"yes", "no"},
         proc' = Launched(S, known), datadir' = Touched(S),
         record'.pids = record.pids \/ record'.pids = record.pids \cup S
  PROVE  OneFiles(g, c)' /\ Inited(g)'
<1> USE DEF CompositionTypes
<1>1. For(want, g, c) BY DEF One, OneWalk
<1>2. Inited(g)
  BY BehindIs DEF One, OneWalk, Reached, Stage
<1>3. \A n \in Node : heard[n] = "yes" =>
        datadir[n] = want.genesis /\ cfile[n] \in {None, want.config}
  BY <1>1, <1>2 DEF One, OneFiles, Inited, For
<1>4. \A n \in Node : heard[n] = "yes" =>
        /\ Touched(S)[n] = datadir[n]
        /\ \/ Launched(S, known)[n] = proc[n]
           \/ /\ Launched(S, known)[n].genesis = want.genesis
              /\ Launched(S, known)[n].config = want.config
  BY <1>1, <1>3, LaunchedServes DEF For
<1>5. Inited(g)' BY <1>2, <1>4 DEF Inited
<1>6. \A n \in Node : heard[n] = "yes" /\ proc'[n] # None =>
        proc'[n].genesis = g /\ proc'[n].config = c
  BY <1>1, <1>4 DEF One, OneFiles, For
<1>7. \A n \in Node : gfile'[n] \in {None, g} /\ cfile'[n] \in {None, c}
  BY DEF One, OneFiles
<1>8. OneFiles(g, c)'
  BY <1>5, <1>6, <1>7 DEF OneFiles, Inited
<1> QED BY <1>5, <1>8

LEMMA LaunchOne ==
  ASSUME CompositionTypes, NEW g \in Genesis, NEW c \in Config, CompositionNext, One(g, c),
         launching \/ launchingPhase \/ runningPhaseActions \/ recordingRun, UNCHANGED heard
  PROVE  One(g, c)'
<1> USE BehindIs DEF CompositionTypes
<1>0. /\ at \in {"start", "phase", "actions", "recording"} /\ record.request = want
      /\ Progress("start") /\ Inited(g)
  <2>1. at \in {"start", "phase", "actions", "recording"}
    BY DEF launching, launchingPhase, runningPhaseActions, recordingRun
  <2>2. Behind(at) = Stage \ {"start"} /\ Behind("start") = Stage \ {"start"}
    BY <2>1, EarlierIs DEF Stage
  <2> QED BY <2>1, <2>2 DEF One, OneWalk, Walking, Stage, Reached, Progress
<1>1. UNCHANGED <<cmd, want>>
  <2>1. at # "off" BY <1>0
  <2> QED BY <2>1, CommandKeeps DEF Up, RunStep, Resume, Operate, Operates, Begins
<1>2. For(want, g, c) /\ cmd \in {"up", "resume"} /\ (record.request # None => For(record.request, g, c))
  BY DEF One, OneWalk, OneRecord
<1>3. Tidy("start", Entered("start")) BY EnteredTidy DEF Stage
\* Entered under "start", and with its other parts as they were, the record is right.
<1>4. ASSUME record'.path = "start", Inited(g)', record'.request = record.request,
             \A s \in Stage \ {"start"} : record'.steps[s] = record.steps[s]
      PROVE  /\ OneRecord(g, c)'
             /\ \A p \in {"off", "failed", "rollback", "phase", "actions", "recording"} : Reached(p, g)'
  <2>1. Behind("start") = Stage \ {"start"} BY EarlierIs DEF Stage
  <2>2. \A s \in Stage \ {"start"} : record'.steps[s] = "done"
    BY <1>0, <1>4, <2>1 DEF Progress
  <2>3. OneRecord(g, c)'
    BY <1>2, <1>4, <2>1, <2>2 DEF OneRecord, Reached, Progress, Stage
  <2> QED BY <1>4, <2>2, <2>3 DEF Reached, Progress
<1>5. CASE launchingPhase
  <2> DEFINE S(k) == (Phases[phase] \ record.pids) \cap 1..k
             r(k) == [Entered("start") EXCEPT !.argv = @ \cup S(k), !.pids = @ \cup S(k)]
  <2>1. PICK k \in 0..N, known \in {"yes", "no"} :
          /\ proc' = Launched(S(k), known) /\ datadir' = Touched(S(k))
          /\ UNCHANGED <<gfile, cfile>>
          /\ record' = r(k) \/ record' = Entered("start")
    BY <1>5 DEF launchingPhase, RollsBack, Dies
  <2>2. S(k) \in SUBSET Node
    BY CompositionAssumption DEF Node
  <2>3. /\ r(k).pids = record.pids \cup S(k) /\ r(k).steps = record.steps /\ r(k).path = "start"
        /\ r(k).request = record.request
    BY DEF Entered, Records
  <2> HIDE DEF S, r
  <2>4. /\ record'.pids = record.pids \/ record'.pids = record.pids \cup S(k)
        /\ record'.path = "start" /\ record'.steps = record.steps
        /\ record'.request = record.request
    <3>1. CASE record' = r(k) BY <2>3, <3>1
    <3>2. CASE record' = Entered("start") BY <3>2, EnteredKeeps
    <3> QED BY <2>1, <3>1, <3>2
  <2>5. at = "phase" BY <1>5 DEF launchingPhase
  <2>6. OneFiles(g, c)' /\ Inited(g)'
    BY <1>1, <2>1, <2>2, <2>4, <2>5, StartsOne
  <2>7. at' \in {"actions", "phase", "recording", "rollback", "off"}
    BY <1>5 DEF launchingPhase, RollsBack, Dies, Goes, Off, NextPhase
  <2>8. OneRecord(g, c)' /\ Reached(at, g)'
    BY <1>4, <2>4, <2>6, <2>7
  <2>9. OneWalk(g, c)'
    BY <1>0, <1>1, <1>2, <2>4, <2>7, <2>8 DEF OneWalk, Walking, Stage
  <2> QED BY <2>6, <2>8, <2>9 DEF One
<1>6. CASE launching \/ runningPhaseActions
  <2>1. UNCHANGED machines /\ record'.pids = record.pids
    BY <1>6, QuietKeeps DEF Quiet, launching, runningPhaseActions
  <2>2. record' = Entered("start")
    BY <1>6 DEF launching, runningPhaseActions, RollsBack, Fails, Dies
  <2>3. /\ at' \in {"phase", "recording", "rollback", "failed", "off"}
        /\ at' = "failed" => failing' = "start"
    BY <1>6 DEF launching, runningPhaseActions, RollsBack, Fails, Dies, Goes, Off, NextPhase
  <2>4. /\ record'.path = "start" /\ record'.steps = record.steps
        /\ record'.request = record.request
    BY <2>2, EnteredKeeps
  <2>5. OneRecord(g, c)' /\ Reached(at, g)'
    BY <1>0, <1>4, <2>1, <2>3, <2>4 DEF Inited, machines
  <2> QED BY <1>0, <1>1, <2>1, <2>3, <2>4, <2>5, WalkOne DEF Walking, Stage
<1>7. CASE recordingRun
  <2>1. UNCHANGED machines /\ record'.pids = record.pids
    BY <1>7, QuietKeeps DEF Quiet, recordingRun
  <2>2. at = "recording" BY <1>7 DEF recordingRun
  <2>3. CASE Reports("start", Entered("start")) \/ Dies("start")
    <3>1. OneFiles(g, c)' BY <2>1 DEF One, OneFiles, machines
    <3>2. Inited(g)' BY <1>0, <2>1 DEF Inited, machines
    <3>3. at' # "place"
      BY <2>3 DEF Reports, Dies, Goes, Off, after, stageOrder
    <3> QED BY <1>1, <1>3, <2>2, <2>3, <3>1, <3>2, <3>3, StageOne DEF Ends, Stage
  <2>4. CASE RollsBack([Entered("start") EXCEPT !.steps["start"] = "done"])
    <3>1. at' = "rollback" /\ record' = [Entered("start") EXCEPT !.steps["start"] = "done"]
      BY <2>4 DEF RollsBack, Goes
    <3>2. /\ record'.path = "start" /\ record'.request = record.request
          /\ record'.steps = [record.steps EXCEPT !["start"] = "done"]
      BY <3>1 DEF Entered, Records
    <3>3. \A s \in Stage \ {"start"} : record'.steps[s] = record.steps[s]
      BY <3>2 DEF Records
    <3>4. OneRecord(g, c)' /\ Reached(at, g)'
      BY <1>0, <1>4, <2>1, <3>1, <3>2, <3>3 DEF Inited, machines
    <3> QED BY <1>0, <1>1, <2>1, <3>1, <3>2, <3>4, WalkOne DEF Walking, Stage
  <2> QED BY <1>7, <2>3, <2>4 DEF recordingRun
<1> QED BY <1>5, <1>6, <1>7

LEMMA EndsOne ==
  ASSUME CompositionTypes, NEW g \in Genesis, NEW c \in Config, CompositionNext, One(g, c),
         rollingBack \/ StageRefuses \/ Rests \/ MarkFailed \/ NothingMissing \/ Crash,
         UNCHANGED heard
  PROVE  One(g, c)'
<1> USE BehindIs DEF CompositionTypes
<1>0. UNCHANGED <<cmd, want>>
  <2>1. at # "off"
    BY DEF rollingBack, StageRefuses, Rests, MarkFailed, NothingMissing, Crash
  <2> QED BY <2>1, CommandKeeps DEF Up, RunStep, Resume, Operate, Operates, Begins
<1>1. CASE StageRefuses
  <2>1. Refuses(at) /\ at \in Stage BY <1>1 DEF StageRefuses, Stage
  <2>2. Fails(at, Entered(at)) /\ UNCHANGED machines BY <2>1 DEF Refuses
  <2>3. record'.pids = record.pids BY <1>1, QuietKeeps DEF Quiet
  <2>4. OneFiles(g, c)' BY <2>2, <2>3 DEF One, OneFiles, machines
  <2>5. "init" \in Earlier(at) => Inited(g)'
    BY <2>1, <2>2 DEF One, OneWalk, Reached, Inited, machines
  <2>6. at' # "place" /\ ~Reports(at, Entered(at))
    BY <2>1, <2>2, AfterType DEF Fails, Reports, Goes
  <2>7. Tidy(at, Entered(at)) BY <2>1, EnteredTidy
  <2> QED BY <1>0, <2>1, <2>2, <2>4, <2>5, <2>6, <2>7, StageOne DEF Ends
<1>2. CASE rollingBack
  <2>1. PICK S \in SUBSET toRollBack :
          /\ proc' = Stopped(S) /\ UNCHANGED <<gfile, cfile, datadir>>
          /\ \/ Fails("start", [record EXCEPT !.pids = @ \ S])
             \/ record' = record /\ Off("crashed")
    BY <1>2 DEF rollingBack
  <2>2. /\ record'.path = record.path /\ record'.steps = record.steps
        /\ record'.request = record.request
        /\ record'.pids \subseteq record.pids
    BY <2>1 DEF Fails, Records
  <2>3. \A n \in Node : proc'[n] \in {None, proc[n]} BY <2>1 DEF Stopped
  <2>4. OneFiles(g, c)' BY <2>1, <2>2, <2>3 DEF One, OneFiles
  <2>5. OneRecord(g, c)'
    BY <2>1, <2>2 DEF One, OneRecord, Reached, Progress, Inited, Composed
  <2>6. at' \in {"off", "failed"} /\ (at' = "failed" => failing' = "start")
    BY <2>1 DEF Fails, Off
  <2>7. record.path = "start" BY <1>2 DEF rollingBack, One, OneWalk, Launching
  <2>8. OneWalk(g, c)'
    BY <1>0, <2>2, <2>6, <2>7 DEF One, OneWalk, Reached, Progress, Walking, Stage, Launching
  <2> QED BY <2>4, <2>5, <2>8 DEF One
<1>3. CASE MarkFailed
  <2>1. /\ record' = [record EXCEPT !.steps[failing] = "failed"] /\ at' = "off"
        /\ UNCHANGED machines /\ at = "failed"
    BY <1>3 DEF MarkFailed, Off
  <2>2. /\ record'.path = record.path /\ record'.request = record.request
        /\ record'.pids = record.pids /\ record'.steps = [record.steps EXCEPT ![failing] = "failed"]
    BY <2>1 DEF Records
  <2>3. failing = record.path /\ failing \in Stage
    BY <2>1 DEF One, OneWalk, ControlTypes
  <2>4. \A t \in Earlier(failing) : t \in Stage /\ t # failing
    BY <2>3 DEF Earlier, upStep, Stage
  <2>5. \A t \in Earlier(failing) : record'.steps[t] = record.steps[t]
    BY <2>2, <2>4 DEF Records
  <2>6. record.path # "stoppedAtStep" /\ record.path # "idle" BY <2>3 DEF Stage
  <2>7. OneRecord(g, c)'
    BY <2>1, <2>2, <2>3, <2>5, <2>6 DEF One, OneRecord, Reached, Progress, Inited, machines
  <2> QED BY <1>0, <2>1, <2>2, <2>7, WalkOne DEF Reached, Progress, Walking, Stage, Launching
<1>4. CASE NothingMissing \/ Crash
  <2>1. UNCHANGED <<record, machines>> /\ at' = "off"
    BY <1>4 DEF NothingMissing, Crash, Off
  <2>2. OneRecord(g, c)'
    BY <2>1 DEF One, OneRecord, Reached, Progress, Inited, Composed, machines
  <2> QED BY <1>0, <2>1, <2>2, WalkOne DEF Reached, Progress, Walking, Stage, Launching
<1>5. CASE Rests
  <2>1. /\ record' = Entered(at) /\ UNCHANGED machines /\ at \in {"stoppedAtStep", "ready"}
        /\ at' \in {"missing", "off"}
        /\ at' = "missing" => want.stage = "start"
    BY <1>5 DEF Rests, Goes, Off
  <2>2. /\ record'.path = at /\ record'.steps = record.steps
        /\ record'.request = record.request /\ record'.pids = record.pids
    BY <2>1, EnteredKeeps
  <2>3. record.request = want /\ For(want, g, c) /\ Reached(at, g)
    BY <2>1 DEF One, OneWalk, Walking
  <2>4. want # None BY <2>3, CompositionAssumption DEF For
  <2>5. at = "stoppedAtStep" => Composed(want) BY DEF One, OneWalk
  <2>6. OneRecord(g, c)'
    BY <2>1, <2>2, <2>3, <2>4, <2>5 DEF OneRecord, Reached, Progress, Inited, Composed, machines
  <2>7. at' = "missing" => at = "ready"
    BY <2>1, <2>5 DEF Composed
  <2>8. Reached(at, g)'
    BY <2>1, <2>2, <2>3, <2>7 DEF Reached, Progress, Inited, machines
  <2> QED BY <1>0, <2>1, <2>2, <2>3, <2>6, <2>7, <2>8, WalkOne DEF Walking, Stage, Launching
<1> QED BY <1>1, <1>2, <1>3, <1>4, <1>5

\* The nodes a resume starts after the walk, and a node that dies.
LEMMA MissingOne ==
  ASSUME CompositionTypes, NEW g \in Genesis, NEW c \in Config, One(g, c), startMissing, UNCHANGED heard
  PROVE  One(g, c)'
<1> USE BehindIs DEF CompositionTypes
<1> DEFINE S(k) == ((record.nodes \cap record.argv) \ record.pids) \cap 1..k
<1>1. PICK k \in 0..N, known \in {"yes", "no"} :
        /\ proc' = Launched(S(k), known) /\ datadir' = Touched(S(k))
        /\ record' = [record EXCEPT !.pids = @ \cup S(k)] \/ record' = record
  BY DEF startMissing
<1>2. S(k) \in SUBSET Node BY DEF Records
<1>3. /\ record'.path = record.path /\ record'.steps = record.steps
      /\ record'.request = record.request
      /\ record'.pids = record.pids \/ record'.pids = record.pids \cup S(k)
  <2> DEFINE r == [record EXCEPT !.pids = @ \cup S(k)]
  <2>1. /\ r.path = record.path /\ r.steps = record.steps /\ r.request = record.request
        /\ r.pids = record.pids \cup S(k)
    BY DEF Records
  <2> HIDE DEF r
  <2>2. CASE record' = r BY <2>1, <2>2
  <2>3. CASE record' = record BY <2>3
  <2> QED BY <1>1, <2>2, <2>3 DEF r
<1>4. at = "missing" /\ at' = "off" /\ UNCHANGED <<gfile, cfile, cmd, want>>
  BY DEF startMissing, Off
<1> HIDE DEF S
<1>5. OneFiles(g, c)' /\ Inited(g)'
  BY <1>1, <1>2, <1>3, <1>4, StartsOne
<1>6. OneRecord(g, c)'
  BY <1>3, <1>5 DEF One, OneRecord, Reached, Progress, Composed
<1>7. OneWalk(g, c)'
  BY <1>4 DEF One, OneWalk, Reached, Progress, Walking, Stage, Launching
<1> QED BY <1>5, <1>6, <1>7 DEF One

LEMMA DiesOne ==
  ASSUME CompositionTypes, NEW g \in Genesis, NEW c \in Config, One(g, c), NodeDies, UNCHANGED heard
  PROVE  One(g, c)'
<1>1. PICK m \in Live : proc' = [proc EXCEPT ![m] = None]
  BY DEF NodeDies
<1>2. UNCHANGED <<record, gfile, cfile, datadir, at, cmd, want, failing>>
  BY DEF NodeDies
<1>3. \A n \in Node : proc'[n] \in {None, proc[n]}
  BY <1>1 DEF CompositionTypes, MachineTypes
<1>4. OneFiles(g, c)' BY <1>2, <1>3 DEF One, OneFiles
<1>5. OneRecord(g, c)' /\ OneWalk(g, c)'
  BY <1>2 DEF One, OneRecord, OneWalk, Reached, Progress, Inited, Composed
<1> QED BY <1>4, <1>5 DEF One

LEMMA HidesOne ==
  ASSUME CompositionTypes, NEW g \in Genesis, NEW c \in Config, One(g, c), Hides
  PROVE  One(g, c)'
<1>1. UNCHANGED <<record, gfile, cfile, datadir, proc, at, cmd, want, failing>>
  BY DEF Hides, machines, walk
<1>2. \A n \in Node : heard'[n] = "yes" => heard[n] = "yes"
  BY DEF Hides, CompositionTypes, HeardTypes
<1>3. OneFiles(g, c)' BY <1>1, <1>2 DEF One, OneFiles
<1>4. \A p : Reached(p, g) => Reached(p, g)'
  BY <1>1, <1>2 DEF Reached, Progress, Inited
<1>5. OneRecord(g, c)' /\ OneWalk(g, c)'
  BY <1>1, <1>4 DEF One, OneRecord, OneWalk, Composed
<1> QED BY <1>3, <1>5 DEF One

\* Only the chain up of a network leaves a workspace that is nothing else.
LEMMA AskedSteps ==
  ASSUME CompositionTypes, Bare, CompositionNext,
         NEW g \in Genesis, NEW c \in Config, asked' = {<<"fresh", g, c>>}
  PROVE  \/ Up /\ asked \in {{}, {<<"fresh", g, c>>}}
         \/ asked = {<<"fresh", g, c>>} /\ ~(Up \/ RunStep \/ Operate)
<1>1. <<"else">> \notin asked' BY AskedNames
<1>2. CASE Up
  BY <1>2 DEF Up, Asks, AsksElse
<1>3. CASE RunStep \/ Operate
  BY <1>1, <1>3 DEF RunStep, Operate, Operates, AsksElse
<1>4. CASE Resume
  BY <1>4 DEF Resume, RunStep, Operate, Operates, Up, Begins
<1>5. CASE ~(Up \/ RunStep \/ Resume \/ Operate)
  BY <1>5, CommandKeeps
<1> QED BY <1>2, <1>3, <1>4, <1>5

LEMMA StepBare ==
  ASSUME CompositionTypes, Bare, [CompositionNext]_compositionVars
  PROVE  Bare'
<1> SUFFICES ASSUME asked' = {} PROVE Bare' BY DEF Bare
<1>1. ~(Up \/ RunStep \/ Operate)
  BY DEF Up, RunStep, Operate, Operates, Asks, AsksElse
<1>2. CASE UNCHANGED compositionVars
  BY <1>2 DEF compositionVars, Bare
<1>3. CASE CompositionNext
  <2>1. asked = {}
    BY <1>1, <1>3, CommandKeeps DEF Resume
  <2>2. /\ at = "off" /\ record = NoRecord /\ Live = {}
    BY <2>1 DEF Bare, Live
  <2>3. ~Resume /\ ~NodeDies /\ ~Crash
    BY <2>2 DEF Resume, NoRecord, NodeDies, Crash
  <2>4. ~Stages
    BY <2>2 DEF Stages, openingWorkspace, buildingNodeTable, ensuringKeys, buildingGenesis,
       buildingNodeConfig, buildingNodeCommand, deployingInputs, initializingDatadirs, launching,
       launchingPhase, runningPhaseActions, recordingRun, rollingBack, StageRefuses, Rests,
       MarkFailed
  <2>5. ~(reconciling \/ comparing \/ stoppingToRebuild \/ restartingNodes \/ startMissing
            \/ NothingMissing \/ stopping \/ removing \/ restarting)
    BY <2>2 DEF reconciling, comparing, stoppingToRebuild, restartingNodes, startMissing,
       NothingMissing, stopping, removing, restarting
  <2>6. Hides
    BY <1>1, <1>3, <2>3, <2>4, <2>5 DEF CompositionNext
  <2> QED BY <2>1, <2>6 DEF Hides, machines, Bare
<1> QED BY <1>2, <1>3

LEMMA StepOne ==
  ASSUME CompositionTypes, Bare, OneNet, [CompositionNext]_compositionVars
  PROVE  OneNet'
<1> SUFFICES ASSUME NEW g \in Genesis, NEW c \in Config, asked' = {<<"fresh", g, c>>}
             PROVE  One(g, c)'
  BY DEF OneNet
<1>1. CASE UNCHANGED compositionVars
  <2>1. One(g, c) BY <1>1 DEF OneNet, compositionVars
  <2> QED BY <1>1, <2>1 DEF compositionVars, One, OneFiles, OneRecord, OneWalk, Reached, Progress,
                            Inited, Composed
<1>4. CASE Hides
  <2>1. asked = asked' BY <1>4 DEF Hides, walk
  <2> QED BY <1>4, <2>1, HidesOne DEF OneNet
<1>5. ~Hides => UNCHANGED heard
  BY StepFaults
<1>2. CASE CompositionNext /\ Up /\ ~Hides
  <2>1. asked \in {{}, {<<"fresh", g, c>>}} BY <1>2, AskedSteps
  <2>2. OneFiles(g, c) /\ OneRecord(g, c)
    BY <2>1, BareIsOne DEF OneNet, One
  <2> QED BY <1>2, <1>5, <2>1, <2>2, UpOne
<1>3. CASE CompositionNext /\ ~Up /\ ~Hides
  <2>1. asked = {<<"fresh", g, c>>} /\ ~(Up \/ RunStep \/ Operate) BY <1>3, AskedSteps
  <2>2. One(g, c) BY <2>1 DEF OneNet
  <2>3. ~(reconciling \/ comparing \/ stoppingToRebuild \/ restartingNodes \/ stopping
            \/ removing \/ restarting)
    BY <2>2 DEF reconciling, comparing, stoppingToRebuild, restartingNodes, stopping, removing,
       restarting, One, OneWalk, Walking, Stage
  <2>4. CASE Resume BY <1>3, <1>5, <2>2, <2>4, ResumeOne
  <2>5. CASE Builds BY <1>3, <1>5, <2>2, <2>5, BuildsOne
  <2>6. CASE launching \/ launchingPhase \/ runningPhaseActions \/ recordingRun
    BY <1>3, <1>5, <2>2, <2>6, LaunchOne
  <2>7. CASE rollingBack \/ StageRefuses \/ Rests \/ MarkFailed \/ NothingMissing \/ Crash
    BY <1>3, <1>5, <2>2, <2>7, EndsOne
  <2>8. CASE startMissing BY <1>3, <1>5, <2>2, <2>8, MissingOne
  <2>9. CASE NodeDies BY <1>3, <1>5, <2>2, <2>9, DiesOne
  <2> QED BY <1>3, <2>1, <2>3, <2>4, <2>5, <2>6, <2>7, <2>8, <2>9
          DEF CompositionNext, Stages, Builds
<1> QED BY <1>1, <1>2, <1>3, <1>4

\* A resume works on the request the record holds.
ResumeWants == cmd = "resume" => want \in Request

LEMMA StepWants ==
  ASSUME CompositionTypes, ResumeWants, [CompositionNext]_compositionVars
  PROVE  ResumeWants'
<1>1. CASE UNCHANGED compositionVars
  BY <1>1 DEF compositionVars, ResumeWants
<1>2. CASE Up \/ RunStep \/ Operate
  BY <1>2 DEF Up, RunStep, Operate, Operates, Begins, ResumeWants
<1>3. CASE Resume
  BY <1>3 DEF Resume, Begins, ResumeWants, CompositionTypes, Records
<1>4. CASE CompositionNext /\ ~(Up \/ RunStep \/ Resume \/ Operate)
  BY <1>4, CommandKeeps DEF ResumeWants
<1> QED BY <1>1, <1>2, <1>3, <1>4

\* A composition that reports the network ready serves what was asked for: a chain up
\* whatever the workspace was, a resume where the workspace was only ever this network,
\* on every node that no probe ever missed.
THEOREM ReadyServesTheRequest == CompositionSpec => []ServesTheRequest
<1>1. CompositionTypes /\ [CompositionNext]_compositionVars => CompositionTypes'
  BY StepRecords, StepMachines, StepControl, StepHeard DEF CompositionTypes
<1>2. ASSUME CompositionTypes, ResumeWants, UpInv, OneNet PROVE ServesTheRequest
  <2> SUFFICES ASSUME at = "off" /\ result = "ok" /\ record.path = "ready",
                      \/ cmd = "up"
                      \/ cmd = "resume" /\ asked = {<<"fresh", want.genesis, want.config>>}
               PROVE  /\ \A s \in Stage : record.steps[s] = "done"
                      /\ \A n \in record.pids :
                           \/ proc[n] = None \/ Kept(n) \/ n \in Orphans
                           \/ cmd = "resume" /\ heard[n] # "yes"
                           \/ proc[n].genesis = want.genesis /\ proc[n].config = want.config
    BY DEF ServesTheRequest
  <2>p. record.pids \subseteq Node BY <1>2 DEF CompositionTypes, Records
  <2>1. CASE cmd = "up"
    BY <1>2, <2>p, <2>1 DEF UpInv, Mine, Built
  <2>2. CASE cmd = "resume" /\ asked = {<<"fresh", want.genesis, want.config>>}
    <3>1. want \in Request BY <1>2, <2>2 DEF ResumeWants
    <3>2. One(want.genesis, want.config)
      BY <1>2, <2>2, <3>1 DEF OneNet, Request
    <3>3. \A s \in Stage : record.steps[s] = "done"
      BY <3>2, BehindIs DEF One, OneRecord, Reached, Progress
    <3> QED BY <2>p, <2>2, <3>2, <3>3 DEF One, OneFiles
  <2> QED BY <2>1, <2>2
<1>3. CompositionInit => ResumeWants BY DEF CompositionInit, ResumeWants
<1> QED BY InitTyped, InitUp, InitOne, <1>1, <1>2, <1>3, StepWants, StepUp, StepBare, StepOne, PTL
        DEF CompositionSpec
=============================================================================
