------------------------- MODULE StateMachineProofs -------------------------
(***************************************************************************)
(* For every tree, every contract and every bound: the marks of the states *)
(* that are entered agree with the tree.                                   *)
(***************************************************************************)
EXTENDS StateMachine, TLAPS

\* The lineage of a state, and of none.
Line(s) == IF s = NoState THEN {} ELSE Lineage(s)

\* Where the machine has a current state, and where a walk stands on one.
Located ==
  /\ pc \in {"offer", "resolve", "settle", "drain"} => current \in State
  /\ pc \in {"offer", "walk"} => at \in State
  /\ pc \in {"walk", "exit", "enter"} => target \in State

\* The walk up collects the destination's lineage below where it stands.
Walking ==
  /\ active = Line(current)
  /\ Line(at) \subseteq Lineage(target)
  /\ entering = Lineage(target) \ Line(at)
  /\ at = target \/ at \notin active
  /\ entering \cap active \subseteq {target}

\* The exits take the lineage of the current state down to the ancestor's.
Exiting ==
  /\ active = Line(at)
  /\ ancestor = NoState \/ ancestor \in Line(at)
  /\ Line(ancestor) \subseteq Lineage(target)
  /\ entering = Lineage(target) \ Line(ancestor)
  /\ entering \cap Line(current) \subseteq {target}
  /\ Line(ancestor) \subseteq active

\* What is active and what is still to be entered make up the new lineage.
Entering ==
  /\ Climbs(active)
  /\ active \cup entering = Lineage(target)
  /\ entering \cap active = {}
  /\ Line(current) \cap (Lineage(target) \ {target}) \subseteq active

\* The inductive invariant of a machine whose Enters and Exits succeed.
Moving ==
  broken = "no" =>
    /\ pc = "walk" => Walking
    /\ pc = "exit" => Exiting
    /\ pc = "enter" => Entering
    /\ pc \notin {"walk", "exit", "enter"} => active = Line(current)

\* TypeOK and Located together are inductive; Moving rests on them.
Base == TypeOK /\ Located
IInv == Base /\ Moving

-----------------------------------------------------------------------------
(* The tree. *)

\* A lineage holds its state and climbs to the root.
LEMMA LineageClimbs ==
  ASSUME NEW s \in State
  PROVE  s \in Lineage(s) /\ Lineage(s) \subseteq State /\ Climbs(Lineage(s))
<1>1. s \in Lineage(s) /\ Lineage(s) \subseteq State
  BY DEF Lineage
<1>2. ASSUME NEW t \in Lineage(s), Parent[t] # NoState
      PROVE  Parent[t] \in Lineage(s)
  <2>1. t \in State /\ Parent[t] \in State
    BY <1>1, <1>2, TreeAssumption
  <2>2. ASSUME NEW C \in SUBSET State, s \in C, Climbs(C)
        PROVE  Parent[t] \in C
    <3>1. t \in C
      BY <1>2, <2>2 DEF Lineage
    <3> QED BY <3>1, <1>2, <2>2 DEF Climbs
  <2> QED BY <2>1, <2>2 DEF Lineage
<1> QED BY <1>1, <1>2 DEF Climbs

\* It is the least set that does: a climbing set with a state in it holds the
\* state's lineage.
LEMMA LineageIsLeast ==
  ASSUME NEW s \in State, NEW C \in SUBSET State, s \in C, Climbs(C)
  PROVE  Lineage(s) \subseteq C
BY DEF Lineage

\* A lineage is its state on top of the parent's lineage, which does not hold it.
LEMMA LineSplits ==
  ASSUME NEW s \in State
  PROVE  /\ Line(s) = {s} \cup Line(Parent[s])
         /\ s \notin Line(Parent[s])
         /\ Parent[s] \in State \cup {NoState}
<1>1. s # NoState /\ Parent[s] \in State \cup {NoState}
  BY TreeAssumption
<1>2. s \notin Line(Parent[s])
  BY TreeAssumption DEF Line
<1>3. s \in Lineage(s) /\ Lineage(s) \subseteq State /\ Climbs(Lineage(s))
  BY LineageClimbs
<1>4. CASE Parent[s] = NoState
  <2>1. Climbs({s})
    BY <1>4 DEF Climbs
  <2>2. Lineage(s) \subseteq {s}
    BY <2>1, LineageIsLeast
  <2> QED BY <2>2, <1>1, <1>2, <1>3, <1>4 DEF Line
<1>5. CASE Parent[s] # NoState
  <2>1. Parent[s] \in State
    BY <1>1, <1>5
  <2>2. /\ Parent[s] \in Lineage(Parent[s])
        /\ Lineage(Parent[s]) \subseteq State
        /\ Climbs(Lineage(Parent[s]))
    BY <2>1, LineageClimbs
  <2>3. Climbs({s} \cup Lineage(Parent[s]))
    BY <2>2 DEF Climbs
  <2>4. Lineage(s) \subseteq {s} \cup Lineage(Parent[s])
    BY <2>2, <2>3, LineageIsLeast
  <2>5. Parent[s] \in Lineage(s)
    BY <1>3, <1>5 DEF Climbs
  <2>6. Lineage(Parent[s]) \subseteq Lineage(s)
    BY <2>1, <2>5, <1>3, LineageIsLeast
  <2> QED BY <2>4, <2>6, <1>1, <1>2, <1>3, <1>5 DEF Line
<1> QED BY <1>4, <1>5

\* The lineage of a member lies inside.
LEMMA LineNests ==
  ASSUME NEW s \in State, NEW t \in Lineage(s)
  PROVE  Lineage(t) \subseteq Lineage(s)
<1>1. Lineage(s) \subseteq State /\ Climbs(Lineage(s))
  BY LineageClimbs
<1> QED BY <1>1, LineageIsLeast

-----------------------------------------------------------------------------
(* Types. *)

\* The initial state is typed and located.
LEMMA BaseInit == Init => Base
BY BoundAssumption DEF Init, Base, TypeOK, Located, Locations

\* A step keeps the types and the places.
LEMMA BaseStep == Base /\ [Next]_vars => Base'
<1> SUFFICES ASSUME Base, [Next]_vars PROVE Base'
  OBVIOUS
<1> USE TreeAssumption, MessageAssumption, BoundAssumption DEF Base
<1>1. ASSUME NEW s \in State, Start(s)
      PROVE  Base'
  <2>1. {current', dest', asked', at', handled', target', ancestor'} \subseteq State \cup {NoState}
    BY <1>1 DEF Start, Begin, TypeOK, Located, Locations, queues, move
  <2>2. active' \subseteq State /\ entering' \subseteq State
    BY <1>1 DEF Start, Begin, TypeOK, Located, Locations, queues, move
  <2>3. self' \in Seq(Msg) /\ inbox' \in Seq(Msg) /\ msg' \in Msg \cup {NoMsg}
    BY <1>1 DEF Start, Begin, TypeOK, Located, Locations, queues, move
  <2>4. {opErr', inFailure', broken'} \subseteq {"yes", "no"} /\ pc' \in Locations
    BY <1>1 DEF Start, Begin, TypeOK, Located, Locations, queues, move
  <2>5. n' \in Nat /\ sends' \in Nat /\ result' \in {"none", "ok", "error"}
    BY <1>1 DEF Start, Begin, TypeOK, Located, Locations, queues, move
  <2>6. Located'
    BY <1>1 DEF Start, Begin, TypeOK, Located, Locations, queues, move
  <2> QED BY <2>1, <2>2, <2>3, <2>4, <2>5, <2>6 DEF TypeOK
<1>2. ASSUME NEW m \in Msg, Send(m)
      PROVE  Base'
  <2>1. {current', dest', asked', at', handled', target', ancestor'} \subseteq State \cup {NoState}
    BY <1>2 DEF Send, Dispatch, Return, TypeOK, Located, Locations, queues, move
  <2>2. active' \subseteq State /\ entering' \subseteq State
    BY <1>2 DEF Send, Dispatch, Return, TypeOK, Located, Locations, queues, move
  <2>3. self' \in Seq(Msg) /\ inbox' \in Seq(Msg) /\ msg' \in Msg \cup {NoMsg}
    BY <1>2 DEF Send, Dispatch, Return, TypeOK, Located, Locations, queues, move
  <2>4. {opErr', inFailure', broken'} \subseteq {"yes", "no"} /\ pc' \in Locations
    BY <1>2 DEF Send, Dispatch, Return, TypeOK, Located, Locations, queues, move
  <2>5. n' \in Nat /\ sends' \in Nat /\ result' \in {"none", "ok", "error"}
    BY <1>2 DEF Send, Dispatch, Return, TypeOK, Located, Locations, queues, move
  <2>6. Located'
    BY <1>2 DEF Send, Dispatch, Return, TypeOK, Located, Locations, queues, move
  <2> QED BY <2>1, <2>2, <2>3, <2>4, <2>5, <2>6 DEF TypeOK
<1>3. ASSUME NEW m \in Msg, Post(m)
      PROVE  Base'
  <2>1. {current', dest', asked', at', handled', target', ancestor'} \subseteq State \cup {NoState}
    BY <1>3 DEF Post, TypeOK, Located, Locations, queues, move
  <2>2. active' \subseteq State /\ entering' \subseteq State
    BY <1>3 DEF Post, TypeOK, Located, Locations, queues, move
  <2>3. self' \in Seq(Msg) /\ inbox' \in Seq(Msg) /\ msg' \in Msg \cup {NoMsg}
    BY <1>3 DEF Post, TypeOK, Located, Locations, queues, move
  <2>4. {opErr', inFailure', broken'} \subseteq {"yes", "no"} /\ pc' \in Locations
    BY <1>3 DEF Post, TypeOK, Located, Locations, queues, move
  <2>5. n' \in Nat /\ sends' \in Nat /\ result' \in {"none", "ok", "error"}
    BY <1>3 DEF Post, TypeOK, Located, Locations, queues, move
  <2>6. Located'
    BY <1>3 DEF Post, TypeOK, Located, Locations, queues, move
  <2> QED BY <2>1, <2>2, <2>3, <2>4, <2>5, <2>6 DEF TypeOK
<1>4. ASSUME NEW to \in State \cup {NoState}, NEW bad \in MayMisuse,
             NEW say \in Says, NEW ret \in {"handled", "pass", "error"}, Process(to, bad, say, ret)
      PROVE  Base'
  <2>0. at \in State /\ current \in State /\ Parent[at] \in State \cup {NoState}
    BY <1>4 DEF Process, TypeOK, Located
  <2>1. {current', dest', asked', at', handled', target', ancestor'} \subseteq State \cup {NoState}
    BY <2>0, <1>4 DEF Process, SendSelf, Says, Misuse, Return, TypeOK, Located, Locations, queues, move
  <2>2. active' \subseteq State /\ entering' \subseteq State
    BY <2>0, <1>4 DEF Process, SendSelf, Says, Misuse, Return, TypeOK, Located, Locations, queues, move
  <2>3. self' \in Seq(Msg) /\ inbox' \in Seq(Msg) /\ msg' \in Msg \cup {NoMsg}
    BY <2>0, <1>4 DEF Process, SendSelf, Says, Misuse, Return, TypeOK, Located, Locations, queues, move
  <2>4. {opErr', inFailure', broken'} \subseteq {"yes", "no"} /\ pc' \in Locations
    BY <2>0, <1>4 DEF Process, SendSelf, Says, Misuse, Return, TypeOK, Located, Locations, queues, move
  <2>5. n' \in Nat /\ sends' \in Nat /\ result' \in {"none", "ok", "error"}
    BY <2>0, <1>4 DEF Process, SendSelf, Says, Misuse, Return, TypeOK, Located, Locations, queues, move
  <2>6. Located'
    BY <2>0, <1>4 DEF Process, SendSelf, Says, Misuse, Return, TypeOK, Located, Locations, queues, move
  <2> QED BY <2>1, <2>2, <2>3, <2>4, <2>5, <2>6 DEF TypeOK
<1>5. ASSUME ResolveMisuse
      PROVE  Base'
  <2>1. {current', dest', asked', at', handled', target', ancestor'} \subseteq State \cup {NoState}
    BY <1>5 DEF ResolveMisuse, takeOpErr, Return, TypeOK, Located, Locations, queues, move
  <2>2. active' \subseteq State /\ entering' \subseteq State
    BY <1>5 DEF ResolveMisuse, takeOpErr, Return, TypeOK, Located, Locations, queues, move
  <2>3. self' \in Seq(Msg) /\ inbox' \in Seq(Msg) /\ msg' \in Msg \cup {NoMsg}
    BY <1>5 DEF ResolveMisuse, takeOpErr, Return, TypeOK, Located, Locations, queues, move
  <2>4. {opErr', inFailure', broken'} \subseteq {"yes", "no"} /\ pc' \in Locations
    BY <1>5 DEF ResolveMisuse, takeOpErr, Return, TypeOK, Located, Locations, queues, move
  <2>5. n' \in Nat /\ sends' \in Nat /\ result' \in {"none", "ok", "error"}
    BY <1>5 DEF ResolveMisuse, takeOpErr, Return, TypeOK, Located, Locations, queues, move
  <2>6. Located'
    BY <1>5 DEF ResolveMisuse, takeOpErr, Return, TypeOK, Located, Locations, queues, move
  <2> QED BY <2>1, <2>2, <2>3, <2>4, <2>5, <2>6 DEF TypeOK
<1>6. ASSUME failUnhandled
      PROVE  Base'
  <2>1. {current', dest', asked', at', handled', target', ancestor'} \subseteq State \cup {NoState}
    BY <1>6 DEF failUnhandled, FailHere, Return, TypeOK, Located, Locations, queues, move
  <2>2. active' \subseteq State /\ entering' \subseteq State
    BY <1>6 DEF failUnhandled, FailHere, Return, TypeOK, Located, Locations, queues, move
  <2>3. self' \in Seq(Msg) /\ inbox' \in Seq(Msg) /\ msg' \in Msg \cup {NoMsg}
    BY <1>6 DEF failUnhandled, FailHere, Return, TypeOK, Located, Locations, queues, move
  <2>4. {opErr', inFailure', broken'} \subseteq {"yes", "no"} /\ pc' \in Locations
    BY <1>6 DEF failUnhandled, FailHere, Return, TypeOK, Located, Locations, queues, move
  <2>5. n' \in Nat /\ sends' \in Nat /\ result' \in {"none", "ok", "error"}
    BY <1>6 DEF failUnhandled, FailHere, Return, TypeOK, Located, Locations, queues, move
  <2>6. Located'
    BY <1>6 DEF failUnhandled, FailHere, Return, TypeOK, Located, Locations, queues, move
  <2> QED BY <2>1, <2>2, <2>3, <2>4, <2>5, <2>6 DEF TypeOK
<1>7. ASSUME Resolve
      PROVE  Base'
  <2>1. {current', dest', asked', at', handled', target', ancestor'} \subseteq State \cup {NoState}
    BY <1>7 DEF Resolve, Begin, TypeOK, Located, Locations, queues, move
  <2>2. active' \subseteq State /\ entering' \subseteq State
    BY <1>7 DEF Resolve, Begin, TypeOK, Located, Locations, queues, move
  <2>3. self' \in Seq(Msg) /\ inbox' \in Seq(Msg) /\ msg' \in Msg \cup {NoMsg}
    BY <1>7 DEF Resolve, Begin, TypeOK, Located, Locations, queues, move
  <2>4. {opErr', inFailure', broken'} \subseteq {"yes", "no"} /\ pc' \in Locations
    BY <1>7 DEF Resolve, Begin, TypeOK, Located, Locations, queues, move
  <2>5. n' \in Nat /\ sends' \in Nat /\ result' \in {"none", "ok", "error"}
    BY <1>7 DEF Resolve, Begin, TypeOK, Located, Locations, queues, move
  <2>6. Located'
    BY <1>7 DEF Resolve, Begin, TypeOK, Located, Locations, queues, move
  <2> QED BY <2>1, <2>2, <2>3, <2>4, <2>5, <2>6 DEF TypeOK
<1>8. ASSUME Walk
      PROVE  Base'
  <2>1. {current', dest', asked', at', handled', target', ancestor'} \subseteq State \cup {NoState}
    BY <1>8 DEF Walk, TypeOK, Located, Locations, queues, move
  <2>2. active' \subseteq State /\ entering' \subseteq State
    BY <1>8 DEF Walk, TypeOK, Located, Locations, queues, move
  <2>3. self' \in Seq(Msg) /\ inbox' \in Seq(Msg) /\ msg' \in Msg \cup {NoMsg}
    BY <1>8 DEF Walk, TypeOK, Located, Locations, queues, move
  <2>4. {opErr', inFailure', broken'} \subseteq {"yes", "no"} /\ pc' \in Locations
    BY <1>8 DEF Walk, TypeOK, Located, Locations, queues, move
  <2>5. n' \in Nat /\ sends' \in Nat /\ result' \in {"none", "ok", "error"}
    BY <1>8 DEF Walk, TypeOK, Located, Locations, queues, move
  <2>6. Located'
    BY <1>8 DEF Walk, TypeOK, Located, Locations, queues, move
  <2> QED BY <2>1, <2>2, <2>3, <2>4, <2>5, <2>6 DEF TypeOK
<1>9. ASSUME ExitsDone
      PROVE  Base'
  <2>1. {current', dest', asked', at', handled', target', ancestor'} \subseteq State \cup {NoState}
    BY <1>9 DEF ExitsDone, TypeOK, Located, Locations, queues, move
  <2>2. active' \subseteq State /\ entering' \subseteq State
    BY <1>9 DEF ExitsDone, TypeOK, Located, Locations, queues, move
  <2>3. self' \in Seq(Msg) /\ inbox' \in Seq(Msg) /\ msg' \in Msg \cup {NoMsg}
    BY <1>9 DEF ExitsDone, TypeOK, Located, Locations, queues, move
  <2>4. {opErr', inFailure', broken'} \subseteq {"yes", "no"} /\ pc' \in Locations
    BY <1>9 DEF ExitsDone, TypeOK, Located, Locations, queues, move
  <2>5. n' \in Nat /\ sends' \in Nat /\ result' \in {"none", "ok", "error"}
    BY <1>9 DEF ExitsDone, TypeOK, Located, Locations, queues, move
  <2>6. Located'
    BY <1>9 DEF ExitsDone, TypeOK, Located, Locations, queues, move
  <2> QED BY <2>1, <2>2, <2>3, <2>4, <2>5, <2>6 DEF TypeOK
<1>10. ASSUME Arrive
      PROVE  Base'
  <2>1. {current', dest', asked', at', handled', target', ancestor'} \subseteq State \cup {NoState}
    BY <1>10 DEF Arrive, TypeOK, Located, Locations, queues, move
  <2>2. active' \subseteq State /\ entering' \subseteq State
    BY <1>10 DEF Arrive, TypeOK, Located, Locations, queues, move
  <2>3. self' \in Seq(Msg) /\ inbox' \in Seq(Msg) /\ msg' \in Msg \cup {NoMsg}
    BY <1>10 DEF Arrive, TypeOK, Located, Locations, queues, move
  <2>4. {opErr', inFailure', broken'} \subseteq {"yes", "no"} /\ pc' \in Locations
    BY <1>10 DEF Arrive, TypeOK, Located, Locations, queues, move
  <2>5. n' \in Nat /\ sends' \in Nat /\ result' \in {"none", "ok", "error"}
    BY <1>10 DEF Arrive, TypeOK, Located, Locations, queues, move
  <2>6. Located'
    BY <1>10 DEF Arrive, TypeOK, Located, Locations, queues, move
  <2> QED BY <2>1, <2>2, <2>3, <2>4, <2>5, <2>6 DEF TypeOK
<1>11. ASSUME Settle
      PROVE  Base'
  <2>1. {current', dest', asked', at', handled', target', ancestor'} \subseteq State \cup {NoState}
    BY <1>11 DEF Settle, takeOpErr, Return, TypeOK, Located, Locations, queues, move
  <2>2. active' \subseteq State /\ entering' \subseteq State
    BY <1>11 DEF Settle, takeOpErr, Return, TypeOK, Located, Locations, queues, move
  <2>3. self' \in Seq(Msg) /\ inbox' \in Seq(Msg) /\ msg' \in Msg \cup {NoMsg}
    BY <1>11 DEF Settle, takeOpErr, Return, TypeOK, Located, Locations, queues, move
  <2>4. {opErr', inFailure', broken'} \subseteq {"yes", "no"} /\ pc' \in Locations
    BY <1>11 DEF Settle, takeOpErr, Return, TypeOK, Located, Locations, queues, move
  <2>5. n' \in Nat /\ sends' \in Nat /\ result' \in {"none", "ok", "error"}
    BY <1>11 DEF Settle, takeOpErr, Return, TypeOK, Located, Locations, queues, move
  <2>6. Located'
    BY <1>11 DEF Settle, takeOpErr, Return, TypeOK, Located, Locations, queues, move
  <2> QED BY <2>1, <2>2, <2>3, <2>4, <2>5, <2>6 DEF TypeOK
<1>12. ASSUME drain
      PROVE  Base'
  <2>0. \A q \in Seq(Msg) : q # <<>> => Head(q) \in Msg /\ Tail(q) \in Seq(Msg)
    OBVIOUS
  <2>1. {current', dest', asked', at', handled', target', ancestor'} \subseteq State \cup {NoState}
    BY <2>0, <1>12 DEF drain, Dispatch, Return, TypeOK, Located, Locations, queues, move
  <2>2. active' \subseteq State /\ entering' \subseteq State
    BY <2>0, <1>12 DEF drain, Dispatch, Return, TypeOK, Located, Locations, queues, move
  <2>3. self' \in Seq(Msg) /\ inbox' \in Seq(Msg) /\ msg' \in Msg \cup {NoMsg}
    BY <2>0, <1>12 DEF drain, Dispatch, Return, TypeOK, Located, Locations, queues, move
  <2>4. {opErr', inFailure', broken'} \subseteq {"yes", "no"} /\ pc' \in Locations
    BY <2>0, <1>12 DEF drain, Dispatch, Return, TypeOK, Located, Locations, queues, move
  <2>5. n' \in Nat /\ sends' \in Nat /\ result' \in {"none", "ok", "error"}
    BY <2>0, <1>12 DEF drain, Dispatch, Return, TypeOK, Located, Locations, queues, move
  <2>6. Located'
    BY <2>0, <1>12 DEF drain, Dispatch, Return, TypeOK, Located, Locations, queues, move
  <2> QED BY <2>1, <2>2, <2>3, <2>4, <2>5, <2>6 DEF TypeOK
<1>13. ASSUME NEW say \in Says, NEW bad \in MayMisuse, Exit(say, bad)
      PROVE  Base'
  <2>1. {current', dest', asked', at', handled', target', ancestor'} \subseteq State \cup {NoState}
    BY <1>13 DEF Exit, SendSelf, Says, Misuse, StopHalfway, Return, TypeOK, Located, Locations, queues, move
  <2>2. active' \subseteq State /\ entering' \subseteq State
    BY <1>13 DEF Exit, SendSelf, Says, Misuse, StopHalfway, Return, TypeOK, Located, Locations, queues, move
  <2>3. self' \in Seq(Msg) /\ inbox' \in Seq(Msg) /\ msg' \in Msg \cup {NoMsg}
    BY <1>13 DEF Exit, SendSelf, Says, Misuse, StopHalfway, Return, TypeOK, Located, Locations, queues, move
  <2>4. {opErr', inFailure', broken'} \subseteq {"yes", "no"} /\ pc' \in Locations
    BY <1>13 DEF Exit, SendSelf, Says, Misuse, StopHalfway, Return, TypeOK, Located, Locations, queues, move
  <2>5. n' \in Nat /\ sends' \in Nat /\ result' \in {"none", "ok", "error"}
    BY <1>13 DEF Exit, SendSelf, Says, Misuse, StopHalfway, Return, TypeOK, Located, Locations, queues, move
  <2>6. Located'
    BY <1>13 DEF Exit, SendSelf, Says, Misuse, StopHalfway, Return, TypeOK, Located, Locations, queues, move
  <2> QED BY <2>1, <2>2, <2>3, <2>4, <2>5, <2>6 DEF TypeOK
<1>14. ASSUME NEW say \in Says, NEW bad \in MayMisuse, NEW s \in State, Enter(s, say, bad)
      PROVE  Base'
  <2>1. {current', dest', asked', at', handled', target', ancestor'} \subseteq State \cup {NoState}
    BY <1>14 DEF Enter, NextToEnter, SendSelf, Says, Misuse, StopHalfway, Return, TypeOK, Located, Locations, queues, move
  <2>2. active' \subseteq State /\ entering' \subseteq State
    BY <1>14 DEF Enter, NextToEnter, SendSelf, Says, Misuse, StopHalfway, Return, TypeOK, Located, Locations, queues, move
  <2>3. self' \in Seq(Msg) /\ inbox' \in Seq(Msg) /\ msg' \in Msg \cup {NoMsg}
    BY <1>14 DEF Enter, NextToEnter, SendSelf, Says, Misuse, StopHalfway, Return, TypeOK, Located, Locations, queues, move
  <2>4. {opErr', inFailure', broken'} \subseteq {"yes", "no"} /\ pc' \in Locations
    BY <1>14 DEF Enter, NextToEnter, SendSelf, Says, Misuse, StopHalfway, Return, TypeOK, Located, Locations, queues, move
  <2>5. n' \in Nat /\ sends' \in Nat /\ result' \in {"none", "ok", "error"}
    BY <1>14 DEF Enter, NextToEnter, SendSelf, Says, Misuse, StopHalfway, Return, TypeOK, Located, Locations, queues, move
  <2>6. Located'
    BY <1>14 DEF Enter, NextToEnter, SendSelf, Says, Misuse, StopHalfway, Return, TypeOK, Located, Locations, queues, move
  <2> QED BY <2>1, <2>2, <2>3, <2>4, <2>5, <2>6 DEF TypeOK
<1>15. CASE UNCHANGED vars
  BY <1>15 DEF vars, TypeOK, Located, Locations
<1> QED BY <1>1, <1>2, <1>3, <1>4, <1>5, <1>6, <1>7, <1>8, <1>9, <1>10, <1>11, <1>12, <1>13, <1>14, <1>15 DEF Next, Step

\* TypeOK of the machine: for every tree, contract and bound, every variable
\* keeps its type whatever the states do.
THEOREM TypeCorrect == Spec => []TypeOK
<1>1. Base => TypeOK
  BY DEF Base
<1> QED BY BaseInit, BaseStep, <1>1, PTL DEF Spec

-----------------------------------------------------------------------------
(* Moves. *)

\* The initial state is at rest.
LEMMA MovingInit == Init => Moving
BY DEF Init, Moving, Line, Walking, Exiting, Entering

\* The actions that are no part of a move leave the marks and the place alone.
LEMMA AtRestStep ==
  ASSUME IInv, active' = active, current' = current, broken' = broken,
         pc \notin {"walk", "exit", "enter"}, pc' \notin {"walk", "exit", "enter"}
  PROVE  Moving'
BY DEF IInv, Moving, Line

\* A move that begins stands at its destination and has collected nothing.
LEMMA BeginStep ==
  ASSUME IInv, NEW d \in State \cup {NoState}, Begin(d),
         active' = active, current' = current, broken' = broken,
         pc \notin {"walk", "exit", "enter"}
  PROVE  Moving'
<1>1. CASE d = NoState
  <2>1. pc' = "settle"
    BY <1>1 DEF Begin
  <2> QED BY <2>1, AtRestStep
<1>2. CASE d # NoState
  <2>1. pc' = "walk" /\ at' = d /\ target' = d /\ entering' = {}
    BY <1>2 DEF Begin
  <2>2. ASSUME broken = "no" PROVE active = Line(current)
    BY <2>2 DEF IInv, Moving
  <2>3. Line(d) = Lineage(d)
    BY <1>2 DEF Line
  <2>4. ASSUME broken = "no" PROVE Walking'
    <3>1. active' = Line(current')
      BY <2>2, <2>4
    <3>2. Line(at') \subseteq Lineage(target') /\ entering' = Lineage(target') \ Line(at')
      BY <2>1, <2>3
    <3>3. (at' = target' \/ at' \notin active') /\ entering' \cap active' \subseteq {target'}
      BY <2>1
    <3> QED BY <3>1, <3>2, <3>3 DEF Walking, Line, Lineage
  <2> QED BY <2>1, <2>4 DEF Moving
<1> QED BY <1>1, <1>2

\* A step keeps the marks and the tree in agreement.
LEMMA MovingStep == IInv /\ [Next]_vars => Moving'
<1> SUFFICES ASSUME IInv, [Next]_vars PROVE Moving'
  OBVIOUS
<1>1. ASSUME NEW s \in State, Start(s) PROVE Moving'
  BY <1>1, BeginStep DEF Start
<1>2. ASSUME NEW m \in Msg, Send(m) PROVE Moving'
  BY <1>2, AtRestStep DEF Send, Dispatch, Return
<1>3. ASSUME NEW m \in Msg, Post(m) PROVE Moving'
  BY <1>3 DEF Post, IInv, Moving, Walking, Exiting, Entering, Line, Lineage, move
<1>4. ASSUME NEW to \in State \cup {NoState}, NEW bad \in MayMisuse, NEW say \in Says,
             NEW ret \in {"handled", "pass", "error"}, Process(to, bad, say, ret)
      PROVE  Moving'
  <2>1. pc' \notin {"walk", "exit", "enter"}
    BY <1>4 DEF Process, Return
  <2>2. active' = active /\ current' = current /\ broken' = broken /\ pc = "offer"
    BY <1>4 DEF Process
  <2> QED BY <2>1, <2>2, AtRestStep
<1>5. ASSUME ResolveMisuse PROVE Moving'
  BY <1>5, AtRestStep DEF ResolveMisuse, takeOpErr, Return
<1>6. ASSUME failUnhandled PROVE Moving'
  BY <1>6, AtRestStep DEF failUnhandled, FailHere, Return
<1>7. ASSUME Resolve PROVE Moving'
  <2>1. dest \in State \cup {NoState}
    BY DEF IInv, Base, TypeOK
  <2> QED BY <1>7, <2>1, BeginStep DEF Resolve
<1>8. ASSUME Walk PROVE Moving'
  <2> SUFFICES ASSUME broken = "no" PROVE Moving'
    BY <1>8 DEF Walk, Moving
  <2>1. at \in State /\ target \in State /\ Walking
    BY <1>8 DEF Walk, IInv, Base, Located, Moving
  <2>2. /\ Line(at) = {at} \cup Line(Parent[at]) /\ at \notin Line(Parent[at])
        /\ Parent[at] \in State \cup {NoState}
    BY <2>1, LineSplits
  <2>3. /\ Line(Parent[at]) \subseteq Lineage(target)
        /\ entering \cup {at} = Lineage(target) \ Line(Parent[at])
    BY <2>1, <2>2 DEF Walking
  <2>10. (entering \cup {at}) \cap active \subseteq {target}
    BY <2>1 DEF Walking
  <2>4. /\ entering' = entering \cup {at} /\ target' = target
        /\ active' = active /\ current' = current /\ broken' = broken
    BY <1>8 DEF Walk
  <2>5. CASE Parent[at] = NoState \/ Parent[at] \in active
    <3>1. ancestor' = Parent[at] /\ at' = current /\ pc' = "exit"
      BY <1>8, <2>5 DEF Walk
    <3>2. active = Line(current)
      BY <2>1 DEF Walking
    <3>3. Exiting'
      <4>1. active' = Line(at') /\ (ancestor' = NoState \/ ancestor' \in Line(at'))
        BY <3>1, <3>2, <2>4, <2>5
      <4>2. Line(ancestor') \subseteq Lineage(target') /\ entering' = Lineage(target') \ Line(ancestor')
        BY <3>1, <2>3, <2>4
      <4>3. entering' \cap Line(current') \subseteq {target'} /\ Line(ancestor') \subseteq active'
        <5>1. Line(Parent[at]) \subseteq active
          <6>1. CASE Parent[at] = NoState
            BY <6>1 DEF Line
          <6>2. CASE Parent[at] # NoState
            <7>1. Parent[at] \in Line(current)
              BY <2>5, <3>2, <6>2
            <7>2. current # NoState /\ current \in State
              BY <7>1 DEF Line, IInv, Base, TypeOK
            <7>3. Lineage(Parent[at]) \subseteq Lineage(current)
              BY <7>1, <7>2, LineNests DEF Line
            <7> QED BY <7>2, <7>3, <3>2, <6>2 DEF Line
          <6> QED BY <6>1, <6>2
        <5> QED BY <5>1, <3>1, <3>2, <2>4, <2>10
      <4> QED BY <4>1, <4>2, <4>3 DEF Exiting, Line, Lineage
    <3> QED BY <3>1, <3>3 DEF Moving
  <2>6. CASE ~(Parent[at] = NoState \/ Parent[at] \in active)
    <3>1. at' = Parent[at] /\ pc' = "walk"
      BY <1>8, <2>6 DEF Walk
    <3>2. Walking'
      <4>1. active' = Line(current')
        BY <2>1, <2>4 DEF Walking
      <4>2. Line(at') \subseteq Lineage(target') /\ entering' = Lineage(target') \ Line(at')
        BY <3>1, <2>3, <2>4
      <4>3. (at' = target' \/ at' \notin active') /\ entering' \cap active' \subseteq {target'}
        BY <3>1, <2>4, <2>6, <2>10
      <4> QED BY <4>1, <4>2, <4>3 DEF Walking, Line, Lineage
    <3> QED BY <3>1, <3>2 DEF Moving
  <2> QED BY <2>5, <2>6
<1>9. ASSUME ExitsDone PROVE Moving'
  <2> SUFFICES ASSUME broken = "no" PROVE Moving'
    BY <1>9 DEF ExitsDone, Moving
  <2>1. target \in State /\ Exiting /\ at \in State \cup {NoState}
    BY <1>9 DEF ExitsDone, IInv, Base, TypeOK, Located, Moving
  <2>2. active = Line(ancestor)
    BY <1>9, <2>1 DEF ExitsDone, Exiting, Line
  <2>3. Climbs(active)
    BY <2>1, LineageClimbs DEF Exiting, Line, Climbs
  <2>4. active \cup entering = Lineage(target) /\ entering \cap active = {}
    BY <2>1, <2>2 DEF Exiting
  <2>5. /\ active' = active /\ entering' = entering /\ target' = target
        /\ broken' = broken /\ pc' = "enter" /\ current' = current
    BY <1>9 DEF ExitsDone, move
  <2>7. Line(current) \cap (Lineage(target) \ {target}) \subseteq active
    BY <2>1, <2>2 DEF Exiting
  <2>6. Entering'
    BY <2>3, <2>4, <2>5, <2>7 DEF Entering, Climbs, Line, Lineage
  <2> QED BY <2>5, <2>6 DEF Moving
<1>10. ASSUME Arrive PROVE Moving'
  <2> SUFFICES ASSUME broken = "no" PROVE Moving'
    BY <1>10 DEF Arrive, Moving
  <2>1. target \in State /\ Entering
    BY <1>10 DEF Arrive, IInv, Base, Located, Moving
  <2>2. active = Line(target)
    BY <1>10, <2>1, TreeAssumption DEF Arrive, Entering, Line
  <2>3. active' = active /\ current' = target /\ pc' = "settle"
    BY <1>10 DEF Arrive
  <2>4. active' = Line(current')
    BY <2>2, <2>3
  <2> QED BY <2>3, <2>4 DEF Moving, Line, Lineage
<1>11. ASSUME Settle PROVE Moving'
  BY <1>11, AtRestStep DEF Settle, takeOpErr, Return
<1>12. ASSUME drain PROVE Moving'
  <2>1. pc' \notin {"walk", "exit", "enter"}
    BY <1>12 DEF drain, Dispatch, Return
  <2>2. active' = active /\ current' = current /\ broken' = broken /\ pc = "drain"
    BY <1>12 DEF drain
  <2> QED BY <2>1, <2>2, AtRestStep
<1>13. ASSUME NEW say \in Says, NEW bad \in MayMisuse, Exit(say, bad) PROVE Moving'
  <2>1. CASE broken' = "yes"
    BY <2>1 DEF Moving
  <2>2. CASE broken' # "yes"
    <3> SUFFICES ASSUME broken = "no" PROVE Moving'
      BY <1>13, <2>2 DEF Exit, StopHalfway, Moving
    <3>1. /\ active' = active \ {at} /\ at' = Parent[at] /\ pc' = "exit"
          /\ entering' = entering /\ ancestor' = ancestor /\ target' = target
          /\ current' = current /\ at # NoState /\ at # ancestor /\ pc = "exit"
      BY <1>13, <2>2 DEF Exit, StopHalfway
    <3>2. at \in State /\ Exiting
      BY <3>1 DEF IInv, Base, TypeOK, Moving
    <3>3. Line(at) = {at} \cup Line(Parent[at]) /\ at \notin Line(Parent[at])
      BY <3>2, LineSplits
    <3>4. active' = Line(at') /\ (ancestor' = NoState \/ ancestor' \in Line(at'))
      BY <3>1, <3>2, <3>3 DEF Exiting
    <3>5. Line(ancestor') \subseteq Lineage(target') /\ entering' = Lineage(target') \ Line(ancestor')
      BY <3>1, <3>2 DEF Exiting
    <3>7. entering' \cap Line(current') \subseteq {target'} /\ Line(ancestor') \subseteq active'
      <4>1. entering \cap Line(current) \subseteq {target} /\ Line(ancestor) \subseteq active
        BY <3>2 DEF Exiting
      <4>2. at \notin Line(ancestor)
        <5>1. CASE ancestor = NoState
          BY <5>1 DEF Line
        <5>2. CASE ancestor # NoState
          <6>1. ancestor \in Line(Parent[at])
            BY <3>1, <3>2, <3>3, <5>2 DEF Exiting
          <6>2. Parent[at] \in State /\ Line(Parent[at]) = Lineage(Parent[at])
            BY <6>1, <3>2, TreeAssumption DEF Line
          <6>3. Lineage(ancestor) \subseteq Lineage(Parent[at])
            BY <6>1, <6>2, LineNests
          <6> QED BY <6>2, <6>3, <3>3, <5>2 DEF Line
        <5> QED BY <5>1, <5>2
      <4> QED BY <4>1, <4>2, <3>1
    <3>6. Exiting'
      BY <3>4, <3>5, <3>7 DEF Exiting, Line, Lineage
    <3> QED BY <3>1, <3>6 DEF Moving
  <2> QED BY <2>1, <2>2
<1>14. ASSUME NEW say \in Says, NEW bad \in MayMisuse, NEW s \in State, Enter(s, say, bad)
       PROVE  Moving'
  <2>1. CASE broken' = "yes"
    BY <2>1 DEF Moving
  <2>2. CASE broken' # "yes"
    <3> SUFFICES ASSUME broken = "no" PROVE Moving'
      BY <1>14, <2>2 DEF Enter, StopHalfway, Moving
    <3>1. /\ active' = active \cup {s} /\ entering' = entering \ {s} /\ pc' = "enter"
          /\ target' = target /\ current' = current /\ pc = "enter" /\ s \in entering /\ Parent[s] \notin entering
      BY <1>14, <2>2 DEF Enter, StopHalfway, NextToEnter
    <3>2. target \in State /\ Entering
      BY <3>1 DEF IInv, Base, Located, Moving
    <3>3. Climbs(Lineage(target))
      BY <3>2, LineageClimbs
    <3>4. Parent[s] # NoState => Parent[s] \in active
      BY <3>1, <3>2, <3>3 DEF Entering, Climbs
    <3>5. Climbs(active \cup {s})
      BY <3>2, <3>4 DEF Entering, Climbs
    <3>6. /\ active' \cup entering' = Lineage(target)
          /\ entering' \cap active' = {}
      BY <3>1, <3>2 DEF Entering
    <3>8. Line(current) \cap (Lineage(target) \ {target}) \subseteq active'
      BY <3>1, <3>2 DEF Entering
    <3>7. Entering'
      BY <3>1, <3>5, <3>6, <3>8 DEF Entering, Climbs, Line, Lineage
    <3> QED BY <3>1, <3>7 DEF Moving
  <2> QED BY <2>1, <2>2
<1>15. CASE UNCHANGED vars
  BY <1>15 DEF vars, IInv, Moving, Walking, Exiting, Entering, Line, Lineage
<1> QED BY <1>1, <1>2, <1>3, <1>4, <1>5, <1>6, <1>7, <1>8, <1>9, <1>10, <1>11, <1>12,
           <1>13, <1>14, <1>15 DEF Next, Step

\* IInv holds throughout.
LEMMA MoveInvariant == Spec => []IInv
<1>1. Init => IInv
  BY BaseInit, MovingInit DEF IInv
<1>2. IInv /\ [Next]_vars => IInv'
  BY BaseStep, MovingStep DEF IInv
<1> QED BY <1>1, <1>2, PTL DEF Spec

\* performTransition never loses track: outside a move, the active states are the
\* current one and its ancestors, for every tree and every sequence of messages,
\* until an Enter or Exit fails.
THEOREM MarksAgree == Spec => []ActiveIsLineage
<1>1. IInv => ActiveIsLineage
  BY DEF IInv, Moving, ActiveIsLineage, Line
<1> QED BY <1>1, MoveInvariant, PTL

\* Inside a move too, Enter and Exit nest like brackets.
THEOREM MovesNest == Spec => []EnterAndExitNest
<1>1. ASSUME IInv PROVE EnterAndExitNest
  <2> SUFFICES ASSUME broken = "no"
               PROVE  Climbs(active) /\ (pc = "enter" => entering \cap active = {})
    BY DEF EnterAndExitNest
  <2>1. \A s \in State \cup {NoState} : Climbs(Line(s))
    BY LineageClimbs DEF Line, Climbs
  <2>2. {current, at} \subseteq State \cup {NoState}
    BY <1>1 DEF IInv, Base, TypeOK
  <2>3. CASE pc = "enter"
    BY <1>1, <2>3 DEF IInv, Moving, Entering
  <2>4. CASE pc # "enter"
    BY <1>1, <2>1, <2>2, <2>4 DEF IInv, Moving, Walking, Exiting
  <2> QED BY <2>3, <2>4
<1> QED BY <1>1, MoveInvariant, PTL

\* A move between two branches keeps the states above both entered.
THEOREM MovesKeepAncestors == Spec => []CommonAncestorsStay
<1>1. ASSUME IInv PROVE CommonAncestorsStay
  <2>1. CASE pc = "exit"
    BY <1>1, <2>1 DEF IInv, Moving, Exiting, CommonAncestorsStay, Line
  <2>2. CASE pc = "enter"
    BY <1>1, <2>2 DEF IInv, Moving, Entering, CommonAncestorsStay, Line
  <2> QED BY <2>1, <2>2 DEF CommonAncestorsStay
<1> QED BY <1>1, MoveInvariant, PTL

\* Where the machine is bound: a pending destination, the target of the move under
\* way, or where it already is.
Bound ==
  IF dest # NoState THEN dest
  ELSE IF pc \in {"walk", "exit", "enter"} THEN target ELSE current

\* From the move on no destination is pending, and no misuse once the dispatch is over;
\* and no destination that was accepted is forgotten on the way, until an Enter or
\* Exit fails.
Cleared ==
  /\ pc \in {"walk", "exit", "enter", "settle", "drain"} => dest = NoState
  /\ pc = "drain" => opErr = "no"
  /\ broken = "no" => asked = Bound

\* Only drain, with both queues empty, returns nil: when a Start or Send does, nothing
\* is pending, whatever the states sent, named or misused on the way, and the machine
\* is where a state last sent it, in this Send or in one that failed before it.
THEOREM ReturnsAtRest == Spec => OkIsRest
<1> DEFINE AtRest ==
              pc # "idle" /\ pc' = "idle" /\ result' = "ok"
              => /\ self' = <<>> /\ inbox' = <<>> /\ opErr' = "no" /\ dest' = NoState
                 /\ broken' = "no" => current' = asked'
<1>1. Init => Cleared
  BY DEF Init, Cleared, Bound
<1>2. ASSUME TypeOK, Cleared, [Next]_vars PROVE Cleared'
  <2>1. opErr \in {"yes", "no"}
    BY <1>2 DEF TypeOK
  <2> USE <1>2, <2>1 DEF Cleared, Bound, queues, move, Return
  <2>2. CASE UNCHANGED vars
    BY <2>2 DEF vars
  <2>3. ASSUME NEW s \in State, Start(s) PROVE Cleared'
    BY <2>3, TreeAssumption DEF Start, Begin
  <2>4. ASSUME NEW m \in Msg, Send(m) \/ Post(m) PROVE Cleared'
    BY <2>4 DEF Send, Dispatch, Post
  <2>5. ASSUME NEW to, NEW bad, NEW say, NEW ret \in {"handled", "pass", "error"},
               Process(to, bad, say, ret)
        PROVE  Cleared'
    BY <2>5 DEF Process
  <2>6. CASE ResolveMisuse \/ failUnhandled \/ Resolve
    BY <2>6 DEF ResolveMisuse, takeOpErr, failUnhandled, FailHere, Resolve, Begin
  <2>7. CASE Walk \/ ExitsDone \/ Arrive \/ Settle
    BY <2>7 DEF Walk, ExitsDone, Arrive, Settle, takeOpErr
  <2>8. CASE drain
    BY <2>8 DEF drain, Dispatch
  <2>9. ASSUME NEW say, NEW bad, NEW s, Exit(say, bad) \/ Enter(s, say, bad)
        PROVE  Cleared'
    BY <2>9 DEF Exit, Enter, StopHalfway
  <2>. QED  BY <2>2, <2>3, <2>4, <2>5, <2>6, <2>7, <2>8, <2>9 DEF Next, Step
<1>3. ASSUME TypeOK, Cleared, [Next]_vars PROVE [AtRest]_vars
  <2> SUFFICES ASSUME Next, pc # "idle", pc' = "idle", result' = "ok"
               PROVE  /\ self' = <<>> /\ inbox' = <<>> /\ opErr' = "no" /\ dest' = NoState
                      /\ broken' = "no" => current' = asked'
    BY <1>3
  <2> USE DEF Return
  <2>1. ~(\E s \in State : Start(s)) /\ ~(\E m \in Msg : Send(m) \/ Post(m))
    BY DEF Start, Send, Post
  <2>2. ASSUME NEW to, NEW bad, NEW say, NEW ret \in {"handled", "pass", "error"},
               Process(to, bad, say, ret)
        PROVE  FALSE
    BY <2>2 DEF Process
  <2>3. ~ResolveMisuse /\ ~failUnhandled /\ ~Resolve
    BY DEF ResolveMisuse, takeOpErr, failUnhandled, FailHere, Resolve, Begin
  <2>4. ~Walk /\ ~ExitsDone /\ ~Arrive /\ ~Settle
    BY DEF Walk, ExitsDone, Arrive, Settle, takeOpErr
  <2>5. ASSUME NEW say, NEW bad, NEW s, Exit(say, bad) \/ Enter(s, say, bad)
        PROVE  FALSE
    BY <2>5 DEF Exit, Enter, StopHalfway
  <2>6. drain
    BY <2>1, <2>2, <2>3, <2>4, <2>5 DEF Next, Step
  <2>. QED  BY <1>3, <2>6 DEF drain, Dispatch, Cleared, Bound, queues
<1>4. TypeOK /\ Cleared /\ [Next]_vars => Cleared' /\ [AtRest]_vars
  BY <1>2, <1>3
<1>. QED  BY <1>1, <1>4, TypeCorrect, PTL DEF Spec, OkIsRest
=============================================================================
