------------------------------- MODULE Gate -------------------------------
(***************************************************************************)
(* The readiness gate (internal/nodemonitor/gate.go, classify.go) as the   *)
(* run path wires it (internal/testengine/nodegate.go) over one health     *)
(* reading per round (internal/core/health/health.go).                     *)
(*                                                                         *)
(* A round is not one look, and neither is a look at one node.  The record *)
(* is read, the primary's height is sampled twice, each node is asked in   *)
(* turn for its height, then its peers, then whether it syncs, and then    *)
(* the hashes are compared; the network, an operator and the deadline move *)
(* between any two of these calls.  The verdict is passed on what was      *)
(* seen, not on what is.                                                   *)
(***************************************************************************)
EXTENDS Integers, FiniteSets

CONSTANTS
    Count,          \* the nodes are 1..Count, in the order of their index
    MaxRestarts,    \* Options.MaxRestarts
    Waits,          \* how many WaitIntervals fit in MaxNodeMonitorTimeout
    Forks,          \* the forkGates a network may have
    Starts,         \* how the processes may stand when the gate is called
    MaxHeight,      \* bound: no node's height passes it
    MaxFaults       \* bound: how many times something outside disturbs a node

ASSUME GateAssumption ==
    /\ Count \in Nat \ {0, 1}
    /\ MaxRestarts \in Nat \ {0}
    /\ Waits \in Nat
    /\ Forks \subseteq [at : Nat, preFork : SUBSET (1..Count),
                       restart : {"yes", "no"}, handedOver : {"yes", "no"}]
    /\ Starts \subseteq [1..Count -> {"none", "booting"}]
    /\ MaxHeight \in Nat
    /\ MaxFaults \in Nat

Nodes == 1..Count

\* A node with no recorded pid, a recorded pid whose process is gone, a process
\* whose RPC is not open yet, and an answering one: catching up with its peers,
\* short of peers (and then it has no one to sync from), or serving.
Answering == {"syncing", "alone", "serving"}
Processes == {"none", "dead", "booting"} \cup Answering

\* How far behind the head a node may be seen and still be level with it.
heightLagTolerance == 2

VARIABLES
    fork,       \* the forkGate: the block the network stops one short of (0 for
                \* none), the nodes on the build that hands over there, whether
                \* it is crossed by a restart, whether it has been handed over
    given,      \* the nodes with a pid in the node set the gate was called with
    proc,       \* the nodes
    height,     \* and how far each one's chain reaches
    split,      \* "yes" once the nodes hold different chains
    faults,     \* how often something outside has disturbed a node
    ctx,        \* "live", "expired" (the gate's deadline) or "cancelled" (the run's)
    at,         \* where Gate stands
    pids,       \* the nodes with a pid in the record, as this round read it
    baseline,   \* the primary's first height sample, -1 when it did not answer
    producing,  \* health.Report.Producing
    forked,     \* a checked disagreement
    seen,       \* the NodeInfo of each node asked so far in this round
    todo,       \* the restartable nodes still to be restarted
    failed,     \* whether the last restart returned an error
    restarts,   \* the restarts spent on each node
    waits,      \* remainingWait, in intervals
    outcome     \* "none" until Gate returns, then "ok", "terminate" or "error"

network == <<proc, height, split, faults>>
reading == <<pids, baseline, producing, forked, seen>>
budget == <<todo, failed, restarts, waits>>
fixed == <<fork, given>>
vars == <<fixed, network, ctx, at, reading, budget, outcome>>

\* Nobody has been asked yet, and a node that has told nothing yet.
NoAnswer == [n \in {} |-> 0]
Blank == [ok |-> "no", height |-> 0, peers |-> "no", syncing |-> "no"]

Init ==
    /\ fork \in Forks
    /\ proc \in Starts
    /\ given = {n \in Nodes : proc[n] # "none"}
    /\ height \in [Nodes -> {0, IF fork.at > 0 THEN fork.at - 1 ELSE 0}]
    /\ split = "no"
    /\ faults = 0
    /\ ctx = "live"
    /\ at = "round"
    /\ pids = {} /\ baseline = -1 /\ producing = "no" /\ forked = "no"
    /\ seen = NoAnswer
    /\ todo = {} /\ failed = "no"
    /\ restarts = [n \in Nodes |-> 0]
    /\ waits = Waits
    /\ outcome = "none"

-----------------------------------------------------------------------------
(* What the network, an operator and the clock do while Gate works.        *)

\* Once the gate has answered, or its context has ended, nobody reads the network
\* again: what it does then is left out.
Watched == outcome = "none" /\ ctx = "live"

\* A process opens its RPC, finds or loses peers, catches up.
Settle(n) ==
    /\ Watched
    /\ proc[n] \in {"booting"} \cup Answering
    /\ \E p \in Answering \ {proc[n]} : proc' = [proc EXCEPT ![n] = p]
    /\ UNCHANGED <<height, split, faults, ctx, at, reading, budget, outcome>>

\* Where a chain stops: the pre-fork build cannot pass the fork block, and
\* nobody passes it before the handover; a fork crossed by a restart stops none.
Ceiling(n) ==
    IF fork.at > 0 /\ fork.restart = "no" /\ (fork.handedOver = "no" \/ n \in fork.preFork)
    THEN fork.at - 1
    ELSE MaxHeight

Grow(n) ==
    /\ Watched
    /\ proc[n] \in Answering
    /\ height[n] < MaxHeight /\ height[n] < Ceiling(n)
    /\ height' = [height EXCEPT ![n] = @ + 1]
    /\ UNCHANGED <<proc, split, faults, ctx, at, reading, budget, outcome>>

\* A process dies, leaving its pid in the record; another command stops it,
\* which clears the pid; or the chain splits.
Disturb ==
    /\ Watched
    /\ faults < MaxFaults
    /\ faults' = faults + 1
    /\ \/ \E n \in Nodes :
             /\ proc[n] \in {"booting"} \cup Answering
             /\ proc' = [proc EXCEPT ![n] = "dead"]
             /\ UNCHANGED split
       \/ \E n \in Nodes :
             /\ proc[n] # "none"
             /\ proc' = [proc EXCEPT ![n] = "none"]
             /\ UNCHANGED split
       \/ split = "no" /\ split' = "yes" /\ UNCHANGED proc
    /\ UNCHANGED <<height, ctx, at, reading, budget, outcome>>

\* The gate's own deadline passes, or the run that called it is cancelled.
Expire ==
    /\ outcome = "none"
    /\ ctx = "live"
    /\ ctx' = "expired"
    /\ UNCHANGED <<network, at, reading, budget, outcome>>

Cancel ==
    /\ outcome = "none"
    /\ ctx \in {"live", "expired"}
    /\ ctx' = "cancelled"
    /\ UNCHANGED <<network, at, reading, budget, outcome>>

-----------------------------------------------------------------------------
(* One round of observation.                                               *)

Return(o) == at' = "ended" /\ outcome' = o

\* finishError: the caller's cancellation is an error, the gate's own deadline
\* is a reason to terminate.
finishError == Return(IF ctx = "cancelled" THEN "error" ELSE "terminate")

\* NodeSet.Primary: the lowest index.
Primary == 1

\* A call under a dead context gets no answer.
Answers(n) == proc[n] \in Answering /\ ctx = "live"

\* The top of the loop, and the first of detectProducing's two samples.  A record
\* that cannot be read, or names no node, leaves the node set the gate was given.
BeginRound ==
    /\ at = "round"
    /\ IF ctx # "live"
       THEN /\ finishError
            /\ UNCHANGED reading
       ELSE /\ pids' \in {{n \in Nodes : proc[n] # "none"}, given}
            /\ baseline' = IF Answers(Primary) THEN height[Primary] ELSE -1
            /\ at' = "sampling"
            /\ UNCHANGED <<producing, forked, seen, outcome>>
    /\ UNCHANGED <<network, ctx, budget>>

\* The second sample, after the delay.
detectProducing ==
    /\ at = "sampling"
    /\ producing' = IF baseline >= 0 /\ Answers(Primary) /\ height[Primary] > baseline
                    THEN "yes" ELSE "no"
    /\ baseline' = -1
    /\ at' = "probing"
    /\ UNCHANGED <<network, ctx, pids, forked, seen, budget, outcome>>

\* health.Run asks the nodes one at a time, in order, and fill asks each one
\* several things, one call after the other.  A call that fails ends the look at
\* that node and keeps what the earlier ones told.
Asking == Cardinality(DOMAIN seen)

\* What is known of node n becomes a, and the look goes on at place p.
Tell(n, a, p) ==
    /\ seen' = [m \in DOMAIN seen \cup {n} |-> IF m = n THEN a ELSE seen[m]]
    /\ at' = p

\* Where the loop goes once node n has been looked at.
After(n) == IF n = Count THEN "comparing" ELSE "probing"

\* eth_chainId, which nothing here compares, and eth_blockNumber.
askHeight ==
    /\ at = "probing"
    /\ LET n == Asking + 1 IN
         IF Answers(n)
         THEN Tell(n, [Blank EXCEPT !.height = height[n]], "peers")
         ELSE Tell(n, Blank, After(n))
    /\ UNCHANGED <<network, ctx, pids, baseline, producing, forked, budget, outcome>>

askPeers ==
    /\ at = "peers"
    /\ LET n == Asking IN
         IF Answers(n)
         THEN Tell(n, [seen[n] EXCEPT !.peers = IF proc[n] = "alone" THEN "no" ELSE "yes"],
                   "syncing")
         ELSE Tell(n, seen[n], After(n))
    /\ UNCHANGED <<network, ctx, pids, baseline, producing, forked, budget, outcome>>

\* The last call: with its answer the node counts as up.
askSyncing ==
    /\ at = "syncing"
    /\ LET n == Asking IN
         IF Answers(n)
         THEN Tell(n, [seen[n] EXCEPT !.ok = "yes",
                                      !.syncing = IF proc[n] = "syncing" THEN "yes" ELSE "no"],
                   After(n))
         ELSE Tell(n, seen[n], After(n))
    /\ UNCHANGED <<network, ctx, pids, baseline, producing, forked, budget, outcome>>

Up(n) == seen[n].ok = "yes"

\* checkAgreement asks every node that answered for its hash at the lowest head
\* among them.  It compares nothing with fewer than two, at genesis, or when one
\* of them no longer answers.
checkAgreement ==
    /\ at = "comparing"
    /\ LET live == {n \in Nodes : Up(n)} IN
         forked' = IF /\ split = "yes"
                      /\ Cardinality(live) >= 2
                      /\ \A n \in live : seen[n].height > 0 /\ Answers(n)
                   THEN "yes" ELSE "no"
    /\ at' = "judging"
    /\ UNCHANGED <<network, ctx, pids, baseline, producing, seen, budget, outcome>>

-----------------------------------------------------------------------------
(* The verdicts: factsFromReport and Classify.                             *)

\* The network's head as this round saw it is the highest answer, that of a node
\* which failed a later call included.
AtHead(h) == \A n \in DOMAIN seen : seen[n].height <= h

\* forkGate.parked: every node answered, one block short of the fork.
parked ==
    /\ fork.restart = "no" /\ fork.handedOver = "no" /\ fork.at > 0
    /\ \A n \in Nodes : Up(n) /\ seen[n].height = fork.at - 1

advancing == producing = "yes" \/ parked

\* forkGate.retired: a pre-fork node, once the fork block has been seen.
retired(n) ==
    /\ fork.restart = "no" /\ fork.at > 0 /\ n \in fork.preFork
    /\ \E m \in DOMAIN seen : seen[m].height >= fork.at

\* Mutant: the two blocks of lag excuse a successor too.
WantMinHeightNone(n) == 0

\* A successor has to have executed the fork block after the handover.
WantMinHeight(n) ==
    IF fork.handedOver = "yes" /\ fork.restart = "no" /\ fork.at > 0 /\ n \notin fork.preFork
    THEN fork.at ELSE 0

\* Mutant: a node short of peers is not waited for.
laggingAlone(n) ==
    \/ ~Up(n)
    \/ seen[n].syncing = "yes"
    \/ ~advancing
    \/ seen[n].height < WantMinHeight(n)
    \/ ~AtHead(seen[n].height + heightLagTolerance)

\* Alive, and not there yet.
lagging(n) ==
    \/ ~Up(n)
    \/ seen[n].syncing = "yes"
    \/ seen[n].peers = "no"
    \/ ~advancing
    \/ seen[n].height < WantMinHeight(n)
    \/ ~AtHead(seen[n].height + heightLagTolerance)

\* Worst first.  PIDAlive is the recorded pid.
Classify(n) ==
    IF retired(n) THEN "ready"
    ELSE IF forked = "yes" THEN "fatal"
    ELSE IF n \notin pids THEN "restartable"
    ELSE IF lagging(n) THEN "waitable"
    ELSE "ready"

Having(v) == {n \in Nodes : Classify(n) = v}

-----------------------------------------------------------------------------
(* What Gate does with them.                                               *)

\* Where the verdicts lead, and what is left of the reading: a reading is of one
\* round, and only the one that let the network through outlives it.  A dead
\* context throws the round away; restartable nodes come before waitable ones.
Judge ==
    /\ at = "judging"
    /\ \/ ctx # "live" /\ finishError /\ UNCHANGED todo
       \/ /\ ctx = "live"
          /\ Having("fatal") # {}
          /\ Return("terminate") /\ UNCHANGED todo
       \/ /\ ctx = "live"
          /\ Having("ready") = Nodes
          /\ Return("ok") /\ UNCHANGED todo
       \/ /\ ctx = "live"
          /\ Having("fatal") = {} /\ Having("restartable") # {}
          /\ at' = "restarting" /\ todo' = Having("restartable") /\ UNCHANGED outcome
       \/ /\ ctx = "live"
          /\ Having("fatal") = {} /\ Having("restartable") = {} /\ Having("waitable") # {}
          /\ IF waits = 0 THEN Return("terminate") ELSE at' = "waiting" /\ UNCHANGED outcome
          /\ UNCHANGED todo
    /\ IF outcome' = "ok"
       THEN UNCHANGED reading
       ELSE pids' = {} /\ baseline' = -1 /\ producing' = "no" /\ forked' = "no" /\ seen' = NoAnswer
    /\ UNCHANGED <<network, ctx, failed, restarts, waits>>

First(S) == CHOOSE n \in S : \A m \in S : n <= m

\* Whether a node's restarts are spent.
Spent(n) == restarts[n] >= MaxRestarts

\* The cap is checked, the restart counted, then made: verb.ChainRestart stops
\* the node and starts it.  It may be refused before it stops anything, or leave
\* the node stopped.
RestartNode ==
    /\ at = "restarting"
    /\ LET n == First(todo) IN
         IF Spent(n)
         THEN /\ Return("terminate")
              /\ UNCHANGED <<proc, todo, failed, restarts>>
         ELSE /\ restarts' = [restarts EXCEPT ![n] = @ + 1]
              /\ todo' = todo \ {n}
              /\ at' = "restarted"
              /\ \/ proc' = [proc EXCEPT ![n] = "booting"] /\ failed' = "no"
                 \/ proc' = [proc EXCEPT ![n] = "none"] /\ failed' = "yes"
                 \/ UNCHANGED proc /\ failed' = "yes"
              /\ UNCHANGED outcome
    /\ UNCHANGED <<height, split, faults, ctx, reading, waits>>

\* The context is looked at before the restart's own error.
AfterRestart ==
    /\ at = "restarted"
    /\ IF ctx # "live" THEN finishError
       ELSE IF failed = "yes" THEN Return("terminate")
       ELSE /\ at' = IF todo = {} THEN "round" ELSE "restarting"
            /\ UNCHANGED outcome
    /\ UNCHANGED <<network, ctx, reading, budget>>

\* Mutant: the wait is not taken from the budget.
SleepFree ==
    /\ at = "waiting"
    /\ IF ctx # "live"
       THEN finishError
       ELSE at' = "round" /\ UNCHANGED outcome
    /\ UNCHANGED <<network, ctx, reading, todo, failed, restarts, waits>>

\* clock.Sleep: the interval passes, or the context ends first.
Sleep ==
    /\ at = "waiting"
    /\ IF ctx # "live"
       THEN finishError /\ UNCHANGED waits
       ELSE at' = "round" /\ waits' = waits - 1 /\ UNCHANGED outcome
    /\ UNCHANGED <<network, ctx, reading, todo, failed, restarts>>

Work == \/ BeginRound \/ detectProducing
        \/ askHeight \/ askPeers \/ askSyncing \/ checkAgreement
        \/ Judge \/ RestartNode \/ AfterRestart \/ Sleep

Environment == \/ \E n \in Nodes : Settle(n) \/ Grow(n)
               \/ Disturb \/ Expire \/ Cancel

Ended == at = "ended" /\ UNCHANGED vars

Next == (Work \/ Environment \/ Ended) /\ UNCHANGED fixed

Spec == Init /\ [][Next]_vars

\* The gate's own calls return; nothing is assumed of the nodes, of the clock
\* that would end it, or of the operator.
FairSpec == Spec /\ WF_vars(Work /\ UNCHANGED fixed)

-----------------------------------------------------------------------------
(* Properties.                                                             *)

\* The variables stay within their types, and the readings within what the
\* nodes could have answered.
TypeOK ==
    /\ fork \in Forks
    /\ given \subseteq Nodes
    /\ proc \in [Nodes -> Processes]
    /\ height \in [Nodes -> Nat]
    /\ split \in {"yes", "no"}
    /\ faults \in 0..MaxFaults
    /\ ctx \in {"live", "expired", "cancelled"}
    /\ at \in {"round", "sampling", "probing", "peers", "syncing", "comparing",
              "judging", "restarting", "restarted", "waiting", "ended"}
    /\ pids \subseteq Nodes
    /\ baseline \in Nat \cup {-1}
    /\ producing \in {"yes", "no"}
    /\ forked \in {"yes", "no"}
    /\ \E k \in 0..Count :
          seen \in [1..k -> [ok : {"yes", "no"}, height : Nat,
                             peers : {"yes", "no"}, syncing : {"yes", "no"}]]
    /\ todo \subseteq Nodes
    /\ failed \in {"yes", "no"}
    /\ restarts \in [Nodes -> 0..MaxRestarts]
    /\ waits \in 0..Waits
    /\ outcome \in {"none", "ok", "terminate", "error"}
    /\ (outcome # "none") = (at = "ended")

\* A network handed over at its fork passes only when every successor has
\* executed the fork block: neither the two blocks of lag the gate allows, nor a
\* node parked one short of the fork, nor what it saw in an earlier round lets
\* one through (nodegate.go, factsFromReport's minimumHeight and parked).
OkMeansCrossed ==
    outcome = "ok" /\ fork.handedOver = "yes" /\ fork.restart = "no" /\ fork.at > 0
        => \A n \in Nodes \ fork.preFork : height[n] >= fork.at

\* Gate returns whatever the nodes do, however often they alternate between
\* restartable and waitable, and even if its deadline never fires: each round
\* spends a restart or a wait, and both run out (gate.go, the round loop).
GateEnds == <>(outcome # "none")

\* What a node has to be before it is tested against, in truth and as this round
\* saw it: far enough, connected, and answering that it does not sync.  A pre-fork
\* node has done its part once some node has the fork block.
Aspects == {"height", "peers", "sync"}

Is(n, a) ==
    CASE a = "height" -> height[n] >= WantMinHeight(n)
      [] a = "peers" -> proc[n] \in {"syncing", "serving"}
      [] a = "sync" -> proc[n] \in {"alone", "serving"}

SeenTo(n, a) ==
    CASE a = "height" -> seen[n].height >= WantMinHeight(n)
      [] a = "peers" -> seen[n].peers = "yes"
      [] a = "sync" -> Up(n) /\ seen[n].syncing = "no"

Done(n) ==
    /\ fork.restart = "no" /\ fork.at > 0 /\ n \in fork.preFork
    /\ \E m \in Nodes : height[m] >= fork.at

Fit == {x \in Nodes \X Aspects : Done(x[1]) \/ Is(x[1], x[2])}

Shown == {x \in (DOMAIN seen) \X Aspects : retired(x[1]) \/ SeenTo(x[1], x[2])}

Contract == INSTANCE ReadinessContract WITH fit <- Fit, shown <- Shown, spent <- restarts

\* What nodegate.go says of a crashed process, whose pid is still recorded: it
\* "classifies RESTARTABLE all the same".
CrashedIsRestartable ==
    at = "judging" /\ ctx = "live" /\ forked = "no" =>
        \A n \in pids : proc[n] = "dead" /\ ~Up(n) /\ ~retired(n) => Classify(n) = "restartable"

\* The gate implements its contract: "ok" rests on looks at every node taken since
\* the last restart, at its height, its peers and its syncing, each of which was
\* true when it was taken; and no node is restarted more often than the cap
\* (gate.go, Gate).  The three are separate calls, and the gate does not promise
\* that they were true together: a node that has peers while it syncs and is alone
\* once it stops passes without ever having served.
ImplementsContract == Contract!Spec
===========================================================================
