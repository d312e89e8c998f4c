---------------------------- MODULE WorkspaceLock ----------------------------
(***************************************************************************)
(* internal/core/session/lock.go: the lock file a run leaves in a          *)
(* workspace, and the polling allocation lock of chainsetup/setlock.go     *)
(* built on it.                                                            *)
(*                                                                         *)
(* A process slot is one chainbench command.  A slot that dies and is      *)
(* spawned again is another process that was given the same pid, so pid    *)
(* reuse is part of the model.  The flock on the sidecar guard file is     *)
(* taken to reach every process that sees the lock file.                   *)
(***************************************************************************)
EXTENDS Naturals, Sequences

CONSTANTS Proc,       \* process slots
          NoProc,     \* no process
          HostOf,     \* the host a slot runs on
          PidOf,      \* its pid there
          Waiter,     \* the slots that call AcquireSetLock, which polls
          MaxDepth,   \* bound: nested holds of one process
          MaxTakes,   \* bound: AcquireLock calls of one process
          MaxSpawns   \* bound: processes started

ASSUME ProcAssumption ==
  /\ NoProc \notin Proc
  /\ Waiter \subseteq Proc
  /\ HostOf \in [Proc -> STRING]
  /\ PidOf \in [Proc -> Nat \ {0}]

ASSUME BoundAssumption ==
  MaxDepth \in Nat /\ MaxTakes \in Nat /\ MaxSpawns \in Nat

VARIABLES alive,   \* the processes that are running
          spawns,  \* how many were started
          file,    \* the lock file
          guard,   \* who has the flock on the sidecar file
          pc,      \* where each process is inside AcquireLock or Release
          seen,    \* what readLock last returned to it
          held,    \* its stack of Held values, each an own or a nested one
          takes    \* how often it called AcquireLock

vars == <<alive, spawns, file, guard, pc, seen, held, takes>>

Locations == {"out", "guard", "read", "decide", "write", "poll", "remove"}

Holdings == {"own", "nested"}

LockStates == {"free", "live", "stale", "foreign"}

\* The lock file as the file system shows it: not there, there and not yet
\* (or never) parsable, or one complete record.
NoFile == [st |-> "absent", pid |-> 0, host |-> "none"]
Torn == [st |-> "torn", pid |-> 0, host |-> "none"]
LockOf(p) == [st |-> "full", pid |-> PidOf[p], host |-> HostOf[p]]

Files == {NoFile, Torn} \cup {LockOf(p) : p \in Proc}

TypeOK ==
  /\ alive \subseteq Proc
  /\ spawns \in 0..MaxSpawns
  /\ file \in Files
  /\ guard \in Proc \cup {NoProc}
  /\ pc \in [Proc -> Locations]
  /\ seen \in [Proc -> [state : LockStates, pid : Nat]]
  /\ held \in [Proc -> Seq(Holdings)]
  /\ takes \in [Proc -> 0..MaxTakes]

Init ==
  /\ alive = {}
  /\ spawns = 0
  /\ file = NoFile
  /\ guard = NoProc
  /\ pc = [p \in Proc |-> "out"]
  /\ seen = [p \in Proc |-> [state |-> "free", pid |-> 0]]
  /\ held = [p \in Proc |-> <<>>]
  /\ takes = [p \in Proc |-> 0]

-----------------------------------------------------------------------------
(* Reading the file. *)

\* Is there a process with this pid on this host?  Signal 0 does not ask what
\* program it runs.
processAlive(pid, host) ==
  \E q \in alive : PidOf[q] = pid /\ HostOf[q] = host

\* What readLock makes of the file on p's host.
readLock(p) ==
  LET state ==
        IF file.st = "absent" THEN "free"
        ELSE IF file.st = "torn" THEN "stale"
        ELSE IF file.host # HostOf[p] THEN "foreign"
        ELSE IF processAlive(file.pid, file.host) THEN "live" ELSE "stale"
  IN [state |-> state, pid |-> file.pid]

-----------------------------------------------------------------------------
(* The environment: processes start, end and are killed at any moment. *)

\* A command starts.  The kernel gives it a pid no live process of its host has.
Spawn(p) ==
  /\ p \notin alive
  /\ spawns < MaxSpawns
  /\ ~processAlive(PidOf[p], HostOf[p])
  /\ alive' = alive \cup {p}
  /\ spawns' = spawns + 1
  /\ UNCHANGED <<file, guard, pc, seen, held, takes>>

\* A process ends, wherever it is.  The kernel drops its flock; the lock file
\* stays, which is the evidence the next run reads.
Die(p) ==
  /\ p \in alive
  /\ alive' = alive \ {p}
  /\ guard' = IF guard = p THEN NoProc ELSE guard
  /\ pc' = [pc EXCEPT ![p] = "out"]
  /\ seen' = [seen EXCEPT ![p] = [state |-> "free", pid |-> 0]]
  /\ held' = [held EXCEPT ![p] = <<>>]
  /\ takes' = [takes EXCEPT ![p] = 0]
  /\ UNCHANGED <<spawns, file>>

-----------------------------------------------------------------------------
(* AcquireLock. *)

\* The call starts, and will wait in flock.
Acquire(p) ==
  /\ p \in alive
  /\ pc[p] = "out"
  /\ takes[p] < MaxTakes
  /\ Len(held[p]) < MaxDepth
  /\ pc' = [pc EXCEPT ![p] = "guard"]
  /\ takes' = [takes EXCEPT ![p] = @ + 1]
  /\ UNCHANGED <<alive, spawns, file, guard, seen, held>>

\* A mutant: the flock is shared, so it keeps nobody out.
SharedGuardLock(p) ==
  /\ pc[p] = "guard"
  /\ guard' = p
  /\ pc' = [pc EXCEPT ![p] = "read"]
  /\ UNCHANGED <<alive, spawns, file, seen, held, takes>>

\* flock LOCK_EX returns.
guardLock(p) ==
  /\ pc[p] = "guard"
  /\ guard = NoProc
  /\ guard' = p
  /\ pc' = [pc EXCEPT ![p] = "read"]
  /\ UNCHANGED <<alive, spawns, file, seen, held, takes>>

ReadUnderGuard(p) ==
  /\ pc[p] = "read"
  /\ seen' = [seen EXCEPT ![p] = readLock(p)]
  /\ pc' = [pc EXCEPT ![p] = "decide"]
  /\ UNCHANGED <<alive, spawns, file, guard, held, takes>>

\* A mutant: any live holder counts as this run.
NestInAnyLive(p) ==
  /\ pc[p] = "decide"
  /\ seen[p].state = "live"
  /\ held' = [held EXCEPT ![p] = Append(@, "nested")]
  /\ guard' = NoProc
  /\ pc' = [pc EXCEPT ![p] = "out"]
  /\ UNCHANGED <<alive, spawns, file, seen, takes>>

\* The lock this process finds is its own: the hold is nested.  A process that
\* was given the pid of a dead holder ends up here too.
Nest(p) ==
  /\ pc[p] = "decide"
  /\ seen[p].state = "live"
  /\ seen[p].pid = PidOf[p]
  /\ held' = [held EXCEPT ![p] = Append(@, "nested")]
  /\ guard' = NoProc
  /\ pc' = [pc EXCEPT ![p] = "out"]
  /\ UNCHANGED <<alive, spawns, file, seen, takes>>

\* A mutant: a refusal returns without dropping the guard.
RefuseKeepingGuard(p) ==
  /\ pc[p] = "decide"
  /\ \/ seen[p].state = "foreign"
     \/ seen[p].state = "live" /\ seen[p].pid # PidOf[p]
  /\ pc' = [pc EXCEPT ![p] =
              IF p \in Waiter /\ seen[p].state = "live" THEN "poll" ELSE "out"]
  /\ UNCHANGED <<alive, spawns, file, guard, seen, held, takes>>

\* ErrLocked: another live process here, or any process of another host.  A
\* command gives up; an allocator polls while the holder is live.
Refuse(p) ==
  /\ pc[p] = "decide"
  /\ \/ seen[p].state = "foreign"
     \/ seen[p].state = "live" /\ seen[p].pid # PidOf[p]
  /\ guard' = NoProc
  /\ pc' = [pc EXCEPT ![p] =
              IF p \in Waiter /\ seen[p].state = "live" THEN "poll" ELSE "out"]
  /\ UNCHANGED <<alive, spawns, file, seen, held, takes>>

\* os.WriteFile has opened the file with O_TRUNC.
Truncate(p) ==
  /\ pc[p] = "decide"
  /\ seen[p].state \in {"free", "stale"}
  /\ file' = Torn
  /\ pc' = [pc EXCEPT ![p] = "write"]
  /\ UNCHANGED <<alive, spawns, guard, seen, held, takes>>

\* os.WriteFile has written the record; AcquireLock returns and drops the guard.
WriteLock(p) ==
  /\ pc[p] = "write"
  /\ file' = LockOf(p)
  /\ held' = [held EXCEPT ![p] = Append(@, "own")]
  /\ guard' = NoProc
  /\ pc' = [pc EXCEPT ![p] = "out"]
  /\ UNCHANGED <<alive, spawns, seen, takes>>

\* os.WriteFile fails after the truncation: no lock is held and the file stays
\* unparsable.
WriteFails(p) ==
  /\ pc[p] = "write"
  /\ guard' = NoProc
  /\ pc' = [pc EXCEPT ![p] = "out"]
  /\ UNCHANGED <<alive, spawns, file, seen, held, takes>>

\* AcquireSetLock: after setLockPoll the allocator looks again, or its deadline
\* has passed and it reports that the set is contended.
Poll(p) ==
  /\ pc[p] = "poll"
  /\ \/ /\ takes[p] < MaxTakes
        /\ pc' = [pc EXCEPT ![p] = "guard"]
        /\ takes' = [takes EXCEPT ![p] = @ + 1]
     \/ /\ pc' = [pc EXCEPT ![p] = "out"]
        /\ UNCHANGED takes
  /\ UNCHANGED <<alive, spawns, file, guard, seen, held>>

-----------------------------------------------------------------------------
(* Release.  Holds are given back in the reverse order they were taken. *)

Holds(p) == held[p] # <<>>

Top(p) == held[p][Len(held[p])]

Pop(p) == held' = [held EXCEPT ![p] = SubSeq(@, 1, Len(@) - 1)]

\* A mutant: the nested hold of an inner step releases like the outermost one.
ReleaseAlways(p) ==
  /\ p \in alive /\ pc[p] = "out" /\ Holds(p)
  /\ IF file.pid # PidOf[p]
     THEN Pop(p) /\ UNCHANGED pc
     ELSE pc' = [pc EXCEPT ![p] = "remove"] /\ UNCHANGED held
  /\ UNCHANGED <<alive, spawns, file, guard, seen, takes>>

\* The first half of Release: nothing to do for a nested hold, nor when the file
\* does not name this pid.  It reads the file without the guard.
Release(p) ==
  /\ p \in alive /\ pc[p] = "out" /\ Holds(p)
  /\ IF Top(p) = "nested" \/ file.pid # PidOf[p]
     THEN Pop(p) /\ UNCHANGED pc
     ELSE pc' = [pc EXCEPT ![p] = "remove"] /\ UNCHANGED held
  /\ UNCHANGED <<alive, spawns, file, guard, seen, takes>>

\* The second half: os.Remove, which may fail and leave the file.
RemoveFile(p) ==
  /\ pc[p] = "remove"
  /\ file' \in {NoFile, file}
  /\ Pop(p)
  /\ pc' = [pc EXCEPT ![p] = "out"]
  /\ UNCHANGED <<alive, spawns, guard, seen, takes>>

-----------------------------------------------------------------------------

\* What a process does on its own once it is inside a call.
InCall(p) ==
  \/ guardLock(p) \/ ReadUnderGuard(p) \/ Nest(p) \/ Refuse(p)
  \/ Truncate(p) \/ WriteLock(p) \/ WriteFails(p) \/ Poll(p) \/ RemoveFile(p)

Next ==
  \E p \in Proc : Spawn(p) \/ Die(p) \/ Acquire(p) \/ Release(p) \/ InCall(p)

Spec == Init /\ [][Next]_vars

\* A process that is inside a call goes on: nothing in it waits for anything but
\* the guard, and the guard's owner goes on as well.
FairSpec == Spec /\ \A p \in Proc : WF_vars(InCall(p))

-----------------------------------------------------------------------------
(* Properties *)

\* Two processes never hold the workspace at once, whatever dies, is refused,
\* fails to write or is given a dead holder's pid in between (AcquireLock,
\* guardLock, Release).
MutualExclusion ==
  \A p, q \in Proc : Holds(p) /\ Holds(q) => p = q

\* While a run holds the workspace, everybody who reads the lock on its host is
\* told that this very pid is live: no other run's write or release can take the
\* record away under it (Composition.Lock, Release's pid check).
HolderIsVisible ==
  \A p \in Proc : Holds(p) => readLock(p) = [state |-> "live", pid |-> PidOf[p]]

\* Every AcquireLock, AcquireSetLock and Release comes back, because the kernel
\* drops a dead process's guard and a nested hold never waits for itself.
CallsReturn ==
  \A p \in Proc : pc[p] # "out" ~> pc[p] = "out"

\* readLock's comment: an unreadable lock is not a live one.
UnreadableIsNotLive ==
  \A p \in alive : pc[p] = "write" => readLock(p).state # "stale"

\* The run that holds the workspace, for the abstract lock.
holder == IF \E p \in Proc : Holds(p)
          THEN CHOOSE p \in Proc : Holds(p)
          ELSE NoProc

Mutex == INSTANCE WorkspaceMutex WITH Proc <- Proc, NoProc <- NoProc, holder <- holder

\* The lock file protocol implements the abstract lock: a run takes the
\* workspace only when nobody holds it, and only its holder gives it up.
ImplementsMutex == Mutex!Spec
=============================================================================
