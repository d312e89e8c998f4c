---------------------------- MODULE StateMachine ----------------------------
(***************************************************************************)
(* internal/core/statemachine: a tree of states that messages drive, one   *)
(* synchronous Send at a time.  The composition manager and the test run   *)
(* are both built on it.                                                   *)
(*                                                                         *)
(* What the states do is left open: every Enter, Exit and Process may      *)
(* leave a self message, name a destination, misuse the machine or return  *)
(* an error, as far as Faults allows.  What the machine makes of it is     *)
(* machine.go's code, one step per call into a state.                      *)
(***************************************************************************)
EXTENDS Naturals, Sequences

CONSTANTS State,       \* the states that were added
          NoState,     \* ""
          Parent,      \* the tree
          Msg,         \* the messages
          NoMsg,       \* nil
          Accepts, Emits, Ignores,  \* the contracts
          Refuses,     \* the states whose contract refuses everything else
          FailMsg,     \* what OnUnhandled makes of a message, or NoMsg
          Faults,      \* which of "misuse", "process", "enter", "exit", "cancel" happen
          MaxDispatch, \* maxDispatchPerSend
          MaxQueue,    \* bound: messages waiting in each queue
          MaxSends     \* bound: calls of Send

\* The states above s, s included: the smallest set that holds s and, with a
\* state, its parent.
Climbs(C) == \A t \in C : Parent[t] # NoState => Parent[t] \in C

Lineage(s) ==
  {t \in State : \A C \in SUBSET State : s \in C /\ Climbs(C) => t \in C}

\* Add accepts a state only under one that is already there, so the tree has no
\* cycle.
ASSUME TreeAssumption ==
  /\ NoState \notin State
  /\ Parent \in [State -> State \cup {NoState}]
  /\ \A s \in State : Parent[s] # NoState => s \notin Lineage(Parent[s])

ASSUME MessageAssumption ==
  /\ NoMsg \notin Msg
  /\ FailMsg \in Msg \cup {NoMsg}
  /\ Accepts \in [State -> SUBSET Msg]
  /\ Emits \in [State -> SUBSET Msg]
  /\ Ignores \in [State -> SUBSET Msg]

ASSUME BoundAssumption ==
  MaxDispatch \in Nat /\ MaxQueue \in Nat /\ MaxSends \in Nat

VARIABLES current,   \* the state the machine is in
          dest,      \* the destination TransitionTo named, NoState when none
          asked,     \* history: the last destination the machine accepted
          active,    \* the states entered and not yet exited
          self,      \* the self queue
          inbox,     \* what Post left
          opErr,     \* is a misuse pending?
          inFailure, \* is the message of OnUnhandled being dispatched?
          pc,        \* where Send is; "idle" is outside any Send
          at,        \* the state acting, or where a walk up the tree stands
          msg,       \* the message being dispatched
          handled,   \* who handled it
          target,    \* where the transition under way goes
          entering,  \* the states it has still to enter
          ancestor,  \* the active state it turns around at
          n,         \* messages drained in this Send
          result,    \* what the last Send returned
          sends,     \* how many there were
          broken     \* has an Enter or Exit ever failed?

queues == <<self, inbox>>
move == <<target, entering, ancestor>>
vars == <<current, dest, asked, active, self, inbox, opErr, inFailure, pc, at, msg,
          handled, target, entering, ancestor, n, result, sends, broken>>

Locations == {"idle", "offer", "resolve", "walk", "exit", "enter", "settle", "drain"}

Init ==
  /\ current = NoState /\ dest = NoState /\ asked = NoState /\ active = {}
  /\ self = <<>> /\ inbox = <<>>
  /\ opErr = "no" /\ inFailure = "no"
  /\ pc = "idle" /\ at = NoState /\ msg = NoMsg /\ handled = NoState
  /\ target = NoState /\ entering = {} /\ ancestor = NoState
  /\ n = 0 /\ result = "none" /\ sends = 0 /\ broken = "no"

TypeOK ==
  /\ {current, dest, asked, at, handled, target, ancestor} \subseteq State \cup {NoState}
  /\ active \subseteq State /\ entering \subseteq State
  /\ self \in Seq(Msg) /\ inbox \in Seq(Msg)
  /\ msg \in Msg \cup {NoMsg}
  /\ {opErr, inFailure, broken} \subseteq {"yes", "no"}
  /\ pc \in Locations
  /\ n \in Nat /\ sends \in Nat
  /\ result \in {"none", "ok", "error"}

-----------------------------------------------------------------------------
(* How Send and Start return. *)

\* The deferred resets of Send, performTransition and failUnhandled.
Return(r) ==
  /\ pc' = "idle"
  /\ result' = r
  /\ inFailure' = "no"

\* A return in the middle of a message: whatever was pending stays pending.
FailHere == Return("error") /\ UNCHANGED <<dest, opErr, queues>>

\* takeOpErr: the pending misuse is what this Send returns.  The destination it
\* was about, and the self messages, are left where they are.
takeOpErr == Return("error") /\ opErr' = "no" /\ UNCHANGED <<dest, queues>>

-----------------------------------------------------------------------------
(* What a state may do to the machine while its code runs. *)

\* SendSelf: an undeclared message is a misuse, and is queued all the same.
SendSelf(m) ==
  self' = IF m = NoMsg THEN self ELSE Append(self, m)

Says == {m \in Msg \cup {NoMsg} : m # NoMsg => Len(self) < MaxQueue}

checkEmitted(s, m) == m # NoMsg => m \in Emits[s]

checkHandled(s, m) == s \in Refuses \/ m \in Accepts[s]

Misuse(bad) == opErr' = IF bad THEN "yes" ELSE opErr

MayMisuse == {b \in BOOLEAN : b => "misuse" \in Faults}

-----------------------------------------------------------------------------
(* Start, Send and Post: the machine's callers. *)

\* Begin a transition, or none.
Begin(d) ==
  /\ dest' = NoState
  /\ IF d = NoState
     THEN pc' = "settle" /\ UNCHANGED <<at, move>>
     ELSE /\ pc' = "walk" /\ at' = d
          /\ target' = d /\ entering' = {} /\ ancestor' = NoState

Start(s) ==
  /\ pc = "idle" /\ current = NoState /\ sends < MaxSends
  /\ sends' = sends + 1
  /\ n' = 0
  /\ asked' = s
  /\ Begin(s)
  /\ UNCHANGED <<current, active, queues, opErr, inFailure, msg, handled, result, broken>>

\* Dispatch starts: a cancelled context refuses the message, which is lost.
Dispatch(m) ==
  \/ /\ msg' = m /\ at' = current /\ handled' = NoState
     /\ pc' = "offer"
     /\ UNCHANGED <<inFailure, result>>
  \/ /\ "cancel" \in Faults
     /\ Return("error")
     /\ UNCHANGED <<msg, at, handled>>

\* Send from the outside; from inside a state it is refused (pc is not "idle").
Send(m) ==
  /\ pc = "idle" /\ current # NoState /\ sends < MaxSends
  /\ sends' = sends + 1
  /\ n' = 0
  /\ Dispatch(m)
  /\ UNCHANGED <<current, asked, dest, active, queues, opErr, move, broken>>

\* Post from an observer between two Sends, or from a child machine that a state's
\* own code drives.
Post(m) ==
  /\ pc \in {"idle", "offer", "exit", "enter"}
  /\ Len(inbox) < MaxQueue
  /\ inbox' = Append(inbox, m)
  /\ UNCHANGED <<current, asked, dest, active, self, opErr, inFailure, pc, at, msg, handled,
                 move, n, result, sends, broken>>

-----------------------------------------------------------------------------
(* dispatch: offer the message up the tree. *)

\* One state's Process.  It may leave a self message, name a destination, and
\* then it handles the message, passes it on or returns an error.  It is a misuse
\* to name a destination while one is pending, or none, or an unknown one (bad),
\* and to send or handle what the contract does not declare.
Process(to, bad, say, ret) ==
  /\ pc = "offer"
  /\ SendSelf(say)
  /\ LET again == to # NoState /\ dest # NoState
         undeclared == ~checkEmitted(at, say)
                       \/ (ret = "handled" /\ ~checkHandled(at, msg))
     IN /\ undeclared => "misuse" \in Faults
        /\ Misuse(bad \/ again \/ undeclared)
  /\ IF to # NoState /\ dest = NoState
     THEN dest' = to /\ asked' = to
     ELSE UNCHANGED <<dest, asked>>
  /\ CASE ret = "handled" ->
            pc' = "resolve" /\ handled' = at /\ UNCHANGED <<at, inFailure, result>>
       [] ret = "pass" ->
            /\ at' = Parent[at]
            /\ pc' = IF Parent[at] = NoState THEN "resolve" ELSE "offer"
            /\ UNCHANGED <<handled, inFailure, result>>
       [] ret = "error" ->
            "process" \in Faults /\ Return("error") /\ UNCHANGED <<at, handled>>
  /\ UNCHANGED <<current, active, inbox, msg, move, n, sends, broken>>

ignoredOnPath(s, m) == \E t \in Lineage(s) : m \in Ignores[t]

Unhandled == handled = NoState /\ ~ignoredOnPath(current, msg)

\* A misuse ends the Send before any move.
ResolveMisuse ==
  /\ pc = "resolve" /\ opErr = "yes"
  /\ takeOpErr
  /\ UNCHANGED <<current, asked, active, at, msg, handled, move, n, sends, broken>>

\* A mutant: the failure message may itself fail into a failure message.
FailAgain ==
  /\ pc = "resolve" /\ opErr = "no" /\ Unhandled
  /\ inFailure' = "yes"
  /\ msg' = FailMsg /\ at' = current
  /\ pc' = "offer"
  /\ UNCHANGED <<current, asked, dest, active, queues, opErr, handled, move, n, result,
                 sends, broken>>

\* failUnhandled: the machine's own failure message, once, or ErrUnhandled.
failUnhandled ==
  /\ pc = "resolve" /\ opErr = "no" /\ Unhandled
  /\ IF FailMsg = NoMsg \/ inFailure = "yes"
     THEN FailHere /\ UNCHANGED <<msg, at, handled>>
     ELSE \/ /\ inFailure' = "yes"
             /\ msg' = FailMsg /\ at' = current
             /\ pc' = "offer"
             /\ UNCHANGED <<dest, opErr, queues, handled, result>>
          \/ "cancel" \in Faults /\ FailHere /\ UNCHANGED <<msg, at, handled>>
  /\ UNCHANGED <<current, asked, active, move, n, sends, broken>>

Resolve ==
  /\ pc = "resolve" /\ opErr = "no" /\ ~Unhandled
  /\ Begin(dest)
  /\ UNCHANGED <<current, asked, active, queues, opErr, inFailure, msg, handled, n, result,
                 sends, broken>>

-----------------------------------------------------------------------------
(* performTransition. *)

\* A mutant: the move turns around one state too low.
WalkTurnsTooLow ==
  /\ pc = "walk"
  /\ entering' = entering \cup {at}
  /\ IF Parent[at] = NoState \/ Parent[at] \in active
     THEN ancestor' = at /\ at' = current /\ pc' = "exit"
     ELSE at' = Parent[at] /\ UNCHANGED <<ancestor, pc>>
  /\ UNCHANGED <<current, asked, dest, active, queues, opErr, inFailure, msg, handled, target,
                 n, result, sends, broken>>

\* From the destination up to the first active ancestor, or the root.
Walk ==
  /\ pc = "walk"
  /\ entering' = entering \cup {at}
  /\ IF Parent[at] = NoState \/ Parent[at] \in active
     THEN ancestor' = Parent[at] /\ at' = current /\ pc' = "exit"
     ELSE at' = Parent[at] /\ UNCHANGED <<ancestor, pc>>
  /\ UNCHANGED <<current, asked, dest, active, queues, opErr, inFailure, msg, handled, target,
                 n, result, sends, broken>>

\* A state's Enter or Exit returned an error: the transition stops halfway.
StopHalfway(fault) ==
  /\ fault \in Faults
  /\ Return("error")
  /\ broken' = "yes"
  /\ UNCHANGED <<active, at, entering>>

\* One state's Exit, innermost first.  TransitionTo is a misuse in it.
Exit(say, bad) ==
  /\ pc = "exit" /\ at # NoState /\ at # ancestor
  /\ ~checkEmitted(at, say) => "misuse" \in Faults
  /\ SendSelf(say)
  /\ Misuse(bad \/ ~checkEmitted(at, say))
  /\ \/ /\ active' = active \ {at}
        /\ at' = Parent[at]
        /\ UNCHANGED <<inFailure, pc, entering, result, broken>>
     \/ StopHalfway("exit")
  /\ UNCHANGED <<current, asked, dest, inbox, msg, handled, target, ancestor, n, sends>>

\* Every state below the turning point is exited.
ExitsDone ==
  /\ pc = "exit" /\ (at = NoState \/ at = ancestor)
  /\ pc' = "enter"
  /\ UNCHANGED <<current, asked, dest, active, queues, opErr, inFailure, at, msg, handled,
                 move, n, result, sends, broken>>

\* The outermost state that is still to be entered.
NextToEnter(s) == s \in entering /\ Parent[s] \notin entering

\* One state's Enter, outermost first.
Enter(s, say, bad) ==
  /\ pc = "enter" /\ NextToEnter(s)
  /\ ~checkEmitted(s, say) => "misuse" \in Faults
  /\ SendSelf(say)
  /\ Misuse(bad \/ ~checkEmitted(s, say))
  /\ \/ /\ active' = active \cup {s}
        /\ entering' = entering \ {s}
        /\ UNCHANGED <<inFailure, pc, at, result, broken>>
     \/ StopHalfway("enter")
  /\ UNCHANGED <<current, asked, dest, inbox, msg, handled, target, ancestor, n, sends>>

\* A mutant: the machine does not take note of where it has gone.
ArriveUnnoticed ==
  /\ pc = "enter" /\ entering = {}
  /\ pc' = "settle"
  /\ UNCHANGED <<current, asked, dest, active, queues, opErr, inFailure, at, msg, handled,
                 move, n, result, sends, broken>>

\* Only now is the machine in its new state.
Arrive ==
  /\ pc = "enter" /\ entering = {}
  /\ current' = target
  /\ pc' = "settle"
  /\ UNCHANGED <<dest, asked, active, queues, opErr, inFailure, at, msg, handled, move, n,
                 result, sends, broken>>

\* A mutant: nobody looks for a misuse once the move is made.
SettleBlind ==
  /\ pc = "settle"
  /\ pc' = "drain"
  /\ inFailure' = "no"
  /\ UNCHANGED <<current, dest, asked, active, queues, opErr, at, msg, handled, move, n,
                 result, sends, broken>>

\* The end of dispatch: a misuse inside Enter or Exit fails the Send.
Settle ==
  /\ pc = "settle"
  /\ IF opErr = "yes"
     THEN takeOpErr
     ELSE /\ pc' = "drain"
          /\ inFailure' = "no"
          /\ UNCHANGED <<dest, queues, opErr, result>>
  /\ UNCHANGED <<current, asked, active, at, msg, handled, move, n, sends, broken>>

-----------------------------------------------------------------------------
(* drain. *)

\* The self queue first, then the inbox, until both are empty or the limit is
\* reached.
drain ==
  /\ pc = "drain"
  /\ \/ /\ n >= MaxDispatch
        /\ Return("error")
        /\ UNCHANGED <<queues, n, msg, at, handled>>
     \/ /\ n < MaxDispatch /\ self # <<>>
        /\ n' = n + 1 /\ self' = Tail(self) /\ UNCHANGED inbox
        /\ Dispatch(Head(self))
     \/ /\ n < MaxDispatch /\ self = <<>> /\ inbox # <<>>
        /\ n' = n + 1 /\ inbox' = Tail(inbox) /\ UNCHANGED self
        /\ Dispatch(Head(inbox))
     \/ /\ n < MaxDispatch /\ self = <<>> /\ inbox = <<>>
        /\ Return("ok")
        /\ UNCHANGED <<queues, n, msg, at, handled>>
  /\ UNCHANGED <<current, asked, dest, active, opErr, move, sends, broken>>

-----------------------------------------------------------------------------

\* What goes on inside one Send.
Step ==
  \/ \E to \in State \cup {NoState}, bad \in MayMisuse, say \in Says,
        ret \in {"handled", "pass", "error"} : Process(to, bad, say, ret)
  \/ ResolveMisuse \/ failUnhandled \/ Resolve
  \/ Walk \/ ExitsDone \/ Arrive \/ Settle \/ drain
  \/ \E say \in Says, bad \in MayMisuse :
       Exit(say, bad) \/ \E s \in State : Enter(s, say, bad)

Next ==
  \/ \E s \in State : Start(s)
  \/ \E m \in Msg : Send(m) \/ Post(m)
  \/ Step

Spec == Init /\ [][Next]_vars

\* The calling goroutine goes on: a Send waits for nobody.
FairSpec == Spec /\ WF_vars(Step)

-----------------------------------------------------------------------------
(* Properties. *)

\* At rest, and whenever a message is offered, the states marked active are
\* exactly the current one and its ancestors, as long as no Enter or Exit has
\* failed: performTransition finds its turning point by the marks and its way
\* down by the tree, and the two must agree.
ActiveIsLineage ==
  /\ broken = "no"
  /\ pc \in {"idle", "offer", "resolve", "settle", "drain"}
  => active = IF current = NoState THEN {} ELSE Lineage(current)

\* In the middle of a move too, a state is active only below an active parent,
\* and no state is entered that has not been exited: Enter and Exit nest.
EnterAndExitNest ==
  broken = "no" =>
    /\ Climbs(active)
    /\ pc = "enter" => entering \cap active = {}

\* A move leaves alone what it has in common with where it comes from: a state
\* above the destination that was entered stays entered, so a parent's Enter and
\* Exit are not run again by a move between its children.
CommonAncestorsStay ==
  broken = "no" /\ current # NoState /\ pc \in {"exit", "enter"}
  => Lineage(current) \cap (Lineage(target) \ {target}) \subseteq active

\* A Send or Start that returns nil leaves the machine at rest, where its states
\* asked it to go ("When Send returns, the machine is at rest"): no message waits,
\* no misuse is unreported, and the last destination TransitionTo accepted has
\* been reached.  That includes one a failed Send left pending: it is performed by
\* the next Send that succeeds, and until then every other destination is refused.
OkIsRest ==
  [][pc # "idle" /\ pc' = "idle" /\ result' = "ok"
     => /\ self' = <<>> /\ inbox' = <<>> /\ opErr' = "no" /\ dest' = NoState
        /\ broken' = "no" => current' = asked']_vars

\* Every Send returns, whatever loop the states run: maxDispatchPerSend ends it,
\* and the failure message of OnUnhandled does not fail into another one.
SendReturns == pc # "idle" ~> pc = "idle"

\* takeOpErr's comment: the next Send starts clean.  It does not: the destination
\* a refused message had named is still pending.
NextSendStartsClean == pc = "idle" => dest = NoState /\ opErr = "no"
=============================================================================
