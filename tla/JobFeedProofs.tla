--------------------------- MODULE JobFeedProofs ---------------------------
(***************************************************************************)
(* For any jobs, pages, scopes, subscriptions, buffer and faults: a page   *)
(* shows what some version committed and never goes back, and a replay     *)
(* fits its channel.                                                       *)
(***************************************************************************)
EXTENDS JobFeed, TLAPS

\* The change of a job, or of a plan.
Change == {"job_changed", "version_changed"}

\* The numbers stay within their bounds: a commit needs room, a restart counts as a fault.
Bounded ==
  /\ version <= MaxVersion + faults /\ inst <= faults + 1
  /\ \A v \in 1..version : \A j \in Job : audit[v][j] <= v
  /\ \A c \in Client : snap[c].ver = -1 => snap[c].try < Attempts

\* The journal has the last changes, in their order.
Journalled ==
  /\ Len(journal) <= version /\ Len(journal) <= Buffer
  /\ \A i \in 1..Len(journal) : /\ journal[i].type \in Change
                                /\ journal[i].ver = version - Len(journal) + i

\* The change e, told to somebody who sees the jobs of S, is all that its version did to
\* them; or nobody will ever take it, because who follows e's instance is past it.
Tells(S, e) ==
  /\ e.type \in Change =>
       /\ e.ver \in 1..version /\ e.inst <= inst
       /\ \/ /\ e.job \in S \cup {NoJob}
             /\ \A j \in S : At(e.ver)[j] = IF j = e.job THEN e.rev ELSE At(e.ver - 1)[j]
          \/ \A c \in Client : view[c].inst = e.inst => view[c].ver >= e.ver
  /\ e.type \notin Change => e.job = NoJob

Telling ==
  /\ \A i \in 1..Len(journal) : Tells(Job, journal[i])
  /\ \A s \in Slot : \A i \in 1..Len(sub[s].chan) : Tells(Job, sub[s].chan[i])
  /\ \A c \in Client : \A i \in 1..Len(wire[c]) : Tells(Scope[c], wire[c][i])

\* A snapshot under way has what its version left.
Snapped ==
  \A c \in Client : snap[c].ver >= 0 =>
    snap[c].ver <= version /\ snap[c].jobs = Scoped(c, At(snap[c].ver))

\* A page is of no later instance, nor at a later version, than the server.
Behind == \A c \in Client : view[c].inst <= inst /\ view[c].ver <= version

FeedInv ==
  TypeOK /\ Bounded /\ Journalled /\ Telling /\ Snapped /\ Behind /\ ViewIsCommitted /\ ReplayFits

-----------------------------------------------------------------------------
(* Facts about the pieces. *)

LEMMA Numbers == /\ Buffer \in Nat \ {0} /\ MaxVersion \in Nat /\ MaxFaults \in Nat
                 /\ Revision \subseteq Nat /\ 0 \in Revision
BY FeedAssumption DEF Revision

LEMMA EventIs ==
  ASSUME NEW e \in Events
  PROVE  /\ e.ver \in Nat /\ e.inst \in Nat \ {0} /\ e.rev \in Revision
         /\ e.job \in Job \cup {NoJob}
<1>1. /\ e.inst \in 1..MaxFaults + 1 /\ e.ver \in Revision /\ e.rev \in Revision
      /\ e.job \in Job \cup {NoJob}
  BY DEF Events
<1>2. e.inst \in Nat \ {0}
  BY <1>1, FeedAssumption
<1>3. e.ver \in Nat
  BY <1>1, Numbers
<1>. QED  BY <1>1, <1>2, <1>3

LEMMA TypesGive ==
  ASSUME TypeOK
  PROVE  /\ version \in Nat /\ inst \in Nat \ {0} /\ faults \in Nat
         /\ Len(journal) \in Nat /\ journal \in Seq(Events)
         /\ \A c \in Client : view[c].inst \in Nat /\ view[c].ver \in Nat
<1>1. /\ version \in Revision /\ inst \in 1..MaxFaults + 1 /\ faults \in 0..MaxFaults
      /\ journal \in Seq(Events)
  BY DEF TypeOK
<1>2. \A c \in Client : view[c].inst \in 0..MaxFaults + 1 /\ view[c].ver \in Revision
  BY DEF TypeOK
<1>3. \A n \in 0..MaxFaults + 1 : n \in Nat
  BY FeedAssumption
<1>4. inst \in Nat \ {0} /\ faults \in Nat
  BY <1>1, FeedAssumption
<1>5. \A v \in Revision : v \in Nat
  BY FeedAssumption DEF Revision
<1>. QED  BY <1>1, <1>2, <1>3, <1>4, <1>5

LEMMA EventTyped ==
  ASSUME TypeOK, NEW t \in {"job_changed", "version_changed", "resync_required", "observation"},
         NEW v \in Revision, NEW j \in Job \cup {NoJob}, NEW r \in Revision
  PROVE  /\ Event(t, v, j, r) \in Events
         /\ Event(t, v, j, r).type = t /\ Event(t, v, j, r).ver = v
         /\ Event(t, v, j, r).job = j /\ Event(t, v, j, r).rev = r
         /\ Event(t, v, j, r).inst = inst
BY DEF TypeOK, Event, Events

\* The jobs at a version there is, and what a client may see of them.
LEMMA AtIs ==
  ASSUME TypeOK, NEW v \in 0..version
  PROVE  At(v) \in [Job -> Revision]
BY Numbers, TypesGive DEF TypeOK, At, NoJobs, version

LEMMA ScopedIs ==
  ASSUME NEW c \in Client, NEW js \in [Job -> Revision]
  PROVE  Scoped(c, js) \in [Job -> Revision]
BY Numbers DEF Scoped

\* What was committed stays.
LEMMA AtStays ==
  ASSUME TypeOK, \/ audit' = audit
                 \/ \E x \in [Job -> Revision] : audit' = Append(audit, x)
  PROVE  version' >= version /\ version' \in Nat /\ \A v \in 0..version : At(v)' = At(v)
<1>0. audit \in Seq([Job -> Revision])
  BY DEF TypeOK
<1>1. CASE audit' = audit
  BY <1>0, <1>1 DEF version, At
<1>2. ASSUME NEW x \in [Job -> Revision], audit' = Append(audit, x)
      PROVE  version' >= version /\ version' \in Nat /\ \A v \in 0..version : At(v)' = At(v)
  BY <1>0, <1>2 DEF version, At
<1>. QED  BY <1>1, <1>2

\* A page goes on with its instance, or takes the last version of the current one.
Onward(c) ==
  /\ view'[c].ver \in Nat
  /\ \/ view'[c].inst = view[c].inst /\ view'[c].ver >= view[c].ver
     \/ view'[c].inst = inst' /\ view'[c].ver = version'

LEMMA TellsStays ==
  ASSUME TypeOK, version' >= version, version' \in Nat, inst' \in Nat, inst' >= inst,
         \A v \in 0..version : At(v)' = At(v),
         \A c \in Client : Onward(c),
         NEW S, NEW e \in Events, Tells(S, e)
  PROVE  Tells(S, e)'
<1> SUFFICES ASSUME e.type \in Change
             PROVE  /\ e.ver \in 1..version' /\ e.inst <= inst'
                    /\ \/ /\ e.job \in S \cup {NoJob}
                          /\ \A j \in S : At(e.ver)'[j] = IF j = e.job THEN e.rev ELSE At(e.ver - 1)'[j]
                       \/ \A c \in Client : view'[c].inst = e.inst => view'[c].ver >= e.ver
  BY DEF Tells
<1>1. e.ver \in 1..version /\ e.inst <= inst
  BY DEF Tells
<1>2. version \in Nat /\ inst \in Nat /\ e.inst \in Nat /\ e.ver \in Nat
      /\ \A c \in Client : view[c].ver \in Nat
  BY TypesGive, EventIs
<1>3. e.ver \in 0..version /\ e.ver - 1 \in 0..version
  BY <1>1, <1>2
<1>4. At(e.ver)' = At(e.ver) /\ At(e.ver - 1)' = At(e.ver - 1)
  BY <1>3
<1>5. CASE \A c \in Client : view[c].inst = e.inst => view[c].ver >= e.ver
  BY <1>1, <1>2, <1>5 DEF Onward
<1>6. CASE /\ e.job \in S \cup {NoJob}
           /\ \A j \in S : At(e.ver)[j] = IF j = e.job THEN e.rev ELSE At(e.ver - 1)[j]
  BY <1>1, <1>2, <1>4, <1>6
<1>. QED  BY <1>5, <1>6 DEF Tells

\* The last changes of a longer journal.
LEMMA TrimmedIs ==
  ASSUME NEW es \in Seq(Events)
  PROVE  /\ trimmed(es) \in Seq(Events)
         /\ Len(trimmed(es)) = IF Len(es) > Buffer THEN Buffer ELSE Len(es)
         /\ \A i \in 1..Len(trimmed(es)) :
              trimmed(es)[i] = es[i + Len(es) - Len(trimmed(es))]
<1>0. Buffer \in Nat \ {0} /\ Len(es) \in Nat
  BY Numbers
<1>1. CASE Len(es) > Buffer
  <2>1. trimmed(es) = SubSeq(es, Len(es) - Buffer + 1, Len(es))
    BY <1>1 DEF trimmed
  <2>. QED  BY <1>0, <1>1, <2>1
<1>2. CASE ~(Len(es) > Buffer)
  <2>1. trimmed(es) = SubSeq(es, 1, Len(es))
    BY <1>2 DEF trimmed
  <2>2. trimmed(es) = es
    BY <1>0, <2>1
  <2>. QED  BY <1>0, <1>2, <2>2
<1>. QED  BY <1>1, <1>2

-----------------------------------------------------------------------------
(* The replay. *)

\* A cursor that need not start over is of the journal: its changes are the versions
\* after it, up to the last, in their order.
LEMMA ReplayBegins ==
  ASSUME TypeOK, Journalled, NEW v \in Nat, v <= version, v >= version - Len(journal)
  PROVE  firstAfter(v) = v - version + Len(journal) + 1
<1> DEFINE k0 == v - version + Len(journal) + 1
           P(k) == \A i \in DOMAIN journal : i < k <=> journal[i].ver <= v
<1>0. version \in Nat /\ Len(journal) \in Nat /\ DOMAIN journal = 1..Len(journal)
  BY TypesGive
<1>1. \A i \in 1..Len(journal) : journal[i].ver = version - Len(journal) + i
  BY DEF Journalled
<1>2. k0 \in 1..Len(journal) + 1 /\ P(k0)
  BY <1>0, <1>1
<1>3. ASSUME NEW k \in 1..Len(journal) + 1, P(k)  PROVE k = k0
  <2>1. CASE k < k0
    <3>1. k \in DOMAIN journal
      BY <1>0, <1>2, <2>1
    <3>. QED  BY <1>0, <1>2, <1>3, <2>1, <3>1
  <2>2. CASE k0 < k
    <3>1. k0 \in DOMAIN journal
      BY <1>0, <1>2, <2>2
    <3>. QED  BY <1>0, <1>2, <1>3, <2>2, <3>1
  <2>. QED  BY <1>0, <1>2, <2>1, <2>2
<1>4. firstAfter(v) = CHOOSE k \in 1..Len(journal) + 1 : P(k)
  BY DEF firstAfter
<1>. HIDE DEF P, k0
<1>5. firstAfter(v) \in 1..Len(journal) + 1 /\ P(firstAfter(v))
  BY <1>2, <1>4
<1>6. firstAfter(v) = k0
  BY <1>3, <1>5
<1>. QED  BY <1>6 DEF k0

\* SubscribeChanges promises "no event can fall between the replay boundary and live
\* delivery": a replay is every change after the cursor, once, in order, up to the last.
THEOREM ReplayIsWhole ==
  ASSUME TypeOK, Journalled, NEW cursor, cursor.ver \in Nat, ~mustResync(cursor)
  PROVE  /\ replay(cursor) \in Seq(Events)
         /\ Len(replay(cursor)) = version - cursor.ver
         /\ \A i \in 1..Len(replay(cursor)) :
              /\ replay(cursor)[i].ver = cursor.ver + i
              /\ replay(cursor)[i] = journal[Len(journal) - (version - cursor.ver) + i]
<1> DEFINE k == firstAfter(cursor.ver)
<1>0. /\ version \in Nat /\ Len(journal) \in Nat /\ Len(journal) <= version
      /\ journal \in Seq(Events)
      /\ \A i \in 1..Len(journal) : journal[i].ver = version - Len(journal) + i
  BY TypesGive DEF Journalled
<1>1. cursor.ver <= version
  BY <1>0 DEF mustResync
<1>2. cursor.ver >= version - Len(journal)
  <2>1. CASE cursor.ver = version
    BY <1>0, <2>1
  <2>2. CASE cursor.ver < version
    <3>1. journal # <<>> /\ ~(cursor.ver + 1 < journal[1].ver)
      BY <2>2 DEF mustResync
    <3>2. 1 \in 1..Len(journal)
      BY <1>0, <3>1
    <3>3. journal[1].ver = version - Len(journal) + 1
      BY <1>0, <3>2
    <3>. QED  BY <1>0, <3>1, <3>3
  <2>. QED  BY <1>0, <1>1, <2>1, <2>2
<1>3. k = cursor.ver - version + Len(journal) + 1
  BY <1>1, <1>2, ReplayBegins
<1>4. k \in 1..Len(journal) + 1
  BY <1>0, <1>1, <1>2, <1>3
<1>5. replay(cursor) = SubSeq(journal, k, Len(journal))
  BY DEF replay
<1>. HIDE DEF k
<1>6. /\ replay(cursor) \in Seq(Events)
      /\ Len(replay(cursor)) = Len(journal) - k + 1
      /\ \A i \in 1..Len(replay(cursor)) : replay(cursor)[i] = journal[k + i - 1]
  BY <1>0, <1>4, <1>5
<1>7. Len(replay(cursor)) = version - cursor.ver
  BY <1>0, <1>3, <1>6
<1>8. ASSUME NEW i \in 1..Len(replay(cursor))
      PROVE  /\ replay(cursor)[i].ver = cursor.ver + i
             /\ replay(cursor)[i] = journal[Len(journal) - (version - cursor.ver) + i]
  <2>0. i \in Nat /\ i >= 1 /\ i <= version - cursor.ver /\ cursor.ver \in Nat
    BY <1>0, <1>1, <1>7
  <2>n. version \in Nat /\ Len(journal) \in Nat
    BY TypesGive
  <2>1. /\ k + i - 1 \in 1..Len(journal) /\ k + i - 1 = Len(journal) - (version - cursor.ver) + i
        /\ version - Len(journal) + (k + i - 1) = cursor.ver + i
    <3>1. PICK v \in Nat, n \in Nat, l \in Nat :
            v = cursor.ver /\ n = version /\ l = Len(journal)
      BY <2>0, <2>n
    <3>2. v <= n /\ v >= n - l /\ i <= n - v /\ k = v - n + l + 1
      BY <1>1, <1>2, <1>3, <2>0, <3>1
    <3>3. k + i - 1 \in 1..l /\ k + i - 1 = l - (n - v) + i /\ n - l + (k + i - 1) = v + i
      BY <2>0, <3>2
    <3>. QED  BY <3>1, <3>3
  <2>2. replay(cursor)[i] = journal[k + i - 1]
    BY <1>6
  <2>3. journal[k + i - 1].ver = version - Len(journal) + (k + i - 1)
    BY <1>0, <2>1
  <2>. QED  BY <2>1, <2>2, <2>3
<1>. QED  BY <1>6, <1>7, <1>8

LEMMA ReplayIs ==
  ASSUME TypeOK, Journalled, Telling, NEW cursor, cursor.ver \in Nat
  PROVE  /\ replay(cursor) \in Seq(Events) /\ Len(replay(cursor)) <= Buffer
         /\ \A i \in 1..Len(replay(cursor)) : Tells(Job, replay(cursor)[i])
<1>0. /\ version \in Nat /\ Len(journal) \in Nat /\ Len(journal) <= Buffer
      /\ Buffer \in Nat \ {0} /\ 0 \in Revision /\ version \in Revision
  BY TypesGive, Numbers DEF Journalled, TypeOK
<1>1. CASE mustResync(cursor)
  <2> DEFINE e == Event("resync_required", version, NoJob, 0)
  <2>1. e \in Events /\ e.type = "resync_required" /\ e.job = NoJob
    BY <1>0, EventTyped
  <2>2. replay(cursor) = <<e>>
    BY <1>1 DEF replay
  <2>3. Tells(Job, e)
    BY <2>1 DEF Tells, Change
  <2>. HIDE DEF e
  <2>. QED  BY <1>0, <2>1, <2>2, <2>3
<1>2. CASE ~mustResync(cursor)
  <2>1. /\ replay(cursor) \in Seq(Events)
        /\ Len(replay(cursor)) = version - cursor.ver
        /\ \A i \in 1..Len(replay(cursor)) :
             /\ replay(cursor)[i].ver = cursor.ver + i
             /\ replay(cursor)[i] = journal[Len(journal) - (version - cursor.ver) + i]
    BY <1>2, ReplayIsWhole
  <2>2. cursor.ver <= version /\ Len(journal) >= version - cursor.ver
    <3>1. CASE cursor.ver = version
      BY <1>0, <3>1
    <3>2. CASE cursor.ver # version
      <4>1. cursor.ver < version /\ journal # <<>> /\ ~(cursor.ver + 1 < journal[1].ver)
        BY <1>0, <1>2, <3>2 DEF mustResync
      <4>2. journal[1].ver = version - Len(journal) + 1
        <5>1. 1 \in 1..Len(journal)
          BY <1>0, <4>1, TypesGive
        <5>. QED  BY <5>1 DEF Journalled
      <4>. QED  BY <1>0, <4>1, <4>2
    <3>. QED  BY <3>1, <3>2
  <2>3. \A i \in 1..Len(replay(cursor)) :
          Len(journal) - (version - cursor.ver) + i \in 1..Len(journal)
    BY <1>0, <2>1, <2>2
  <2>4. \A i \in 1..Len(replay(cursor)) : Tells(Job, replay(cursor)[i])
    BY <2>1, <2>3 DEF Telling
  <2>5. Len(replay(cursor)) <= Buffer
    BY <1>0, <2>1, <2>2
  <2>. QED  BY <2>1, <2>4, <2>5
<1>. QED  BY <1>1, <1>2

-----------------------------------------------------------------------------
(* Every step keeps FeedInv. *)

LEMMA InvAtFirst == Init => FeedInv
<1> SUFFICES ASSUME Init  PROVE FeedInv
  OBVIOUS
<1>0. /\ audit = <<>> /\ journal = <<>> /\ inst = 1 /\ faults = 0 /\ version = 0
      /\ \A s \in Slot : sub[s] = Free
      /\ \A c \in Client : wire[c] = <<>> /\ view[c] = NoView /\ snap[c] = NoSnap
  BY DEF Init, version
<1>1. TypeOK
  <2>1. Free \in [client : Client \cup {NoClient}, chan : Seq(Events)]
    BY DEF Free
  <2>2. NoJobs \in [Job -> Revision]
    BY Numbers DEF NoJobs
  <2>3. NoView \in [inst : 0..MaxFaults + 1, ver : Revision, jobs : [Job -> Revision]]
    BY <2>2, Numbers DEF NoView
  <2>4. NoSnap \in [try : 0..3, ver : Revision \cup {-1}, jobs : [Job -> Revision]]
    BY <2>2, Numbers DEF NoSnap
  <2>. QED  BY <1>0, <2>1, <2>3, <2>4, Numbers DEF Init, TypeOK
<1>2. Bounded
  BY <1>0, Numbers DEF Bounded, NoSnap, Attempts
<1>3. Journalled /\ Telling
  BY <1>0, Numbers DEF Journalled, Telling, Free
<1>4. Snapped /\ Behind /\ ViewIsCommitted
  BY <1>0 DEF Snapped, Behind, ViewIsCommitted, NoSnap, NoView
<1>5. ReplayFits
  BY <1>0, Numbers DEF ReplayFits, Free
<1>. QED  BY <1>1, <1>2, <1>3, <1>4, <1>5 DEF FeedInv

\* What is bounded by a number is bounded by a larger one.
LEMMA StaysBelow ==
  ASSUME NEW x \in Nat, NEW m \in Nat, NEW f \in Nat, NEW g \in Nat, g >= f, x <= m + f
  PROVE  x <= m + g
OBVIOUS

\* Faults are only counted up.
LEMMA StaysBounded ==
  ASSUME Bounded, version \in Nat, inst \in Nat, faults \in Nat, faults' \in Nat,
         version' = version, inst' = inst, faults' >= faults
  PROVE  version' <= MaxVersion + faults' /\ inst' <= faults' + 1
<1>1. MaxVersion \in Nat
  BY FeedAssumption
<1>2. version <= MaxVersion + faults
  BY DEF Bounded
<1>3. version <= MaxVersion + faults'
  BY <1>1, <1>2, StaysBelow
<1>4. inst <= faults + 1
  BY DEF Bounded
<1>5. inst' <= faults' + 1
  BY <1>4, StaysBelow, 1 \in Nat, faults + 1 = 1 + faults, faults' + 1 = 1 + faults'
<1>. QED  BY <1>3, <1>5

\* What a step that leaves the server alone must not do to the pages and the streams.
LEMMA PageStep ==
  ASSUME FeedInv, UNCHANGED server, TypeOK', faults' >= faults,
         \A c \in Client : Onward(c),
         \A c \in Client : /\ view'[c].ver <= version
                           /\ view'[c].inst > 0 => view'[c].jobs = Scoped(c, At(view'[c].ver)),
         \A c \in Client : /\ snap'[c].ver = -1 => snap'[c].try < Attempts
                           /\ snap'[c].ver >= 0 =>
                                /\ snap'[c].ver <= version
                                /\ snap'[c].jobs = Scoped(c, At(snap'[c].ver)),
         \A s \in Slot : /\ Len(sub'[s].chan) <= Buffer
                         /\ \A i \in 1..Len(sub'[s].chan) : Tells(Job, sub'[s].chan[i]),
         \A c \in Client : \A i \in 1..Len(wire'[c]) : Tells(Scope[c], wire'[c][i])
  PROVE  FeedInv'
<1>0. /\ TypeOK /\ Bounded /\ Journalled /\ Telling /\ Behind
      /\ audit' = audit /\ inst' = inst /\ journal' = journal
  BY DEF FeedInv, server
<1>1. /\ version' = version /\ version \in Nat /\ inst \in Nat /\ faults \in Nat /\ faults' \in Nat
      /\ \A c \in Client : view[c].inst \in Nat /\ view[c].ver \in Nat
  BY <1>0, TypesGive, Numbers DEF version, TypeOK
<1>2. \A v : At(v)' = At(v)
  BY <1>0 DEF At
<1>3. Bounded'
  <2>1. version' <= MaxVersion + faults' /\ inst' <= faults' + 1
    BY <1>0, <1>1, StaysBounded
  <2>. QED  BY <1>0, <1>1, <2>1 DEF Bounded, Attempts
<1>4. Journalled'
  BY <1>0, <1>1 DEF Journalled
<1>5. ASSUME NEW S, NEW e \in Events, Tells(S, e)  PROVE Tells(S, e)'
  BY <1>0, <1>1, <1>2, <1>5, TellsStays
<1>6. Telling'
  <2>1. \A i \in 1..Len(journal') : Tells(Job, journal[i])'
    <3> SUFFICES ASSUME NEW i \in 1..Len(journal')  PROVE Tells(Job, journal[i])'
      OBVIOUS
    <3>1. PICK e \in Events : e = journal[i]
      BY <1>0 DEF TypeOK
    <3>2. Tells(Job, e)'
      BY <1>0, <1>5, <3>1 DEF Telling
    <3>. QED  BY <1>0, <3>1, <3>2 DEF Tells
  <2>2. ASSUME NEW s \in Slot, NEW i \in 1..Len(sub'[s].chan)  PROVE Tells(Job, sub[s].chan[i])'
    <3>1. PICK e \in Events : e = sub'[s].chan[i]
      BY DEF TypeOK
    <3>2. Tells(Job, e)'
      BY <1>5, <3>1
    <3>. QED  BY <3>1, <3>2 DEF Tells
  <2>3. ASSUME NEW c \in Client, NEW i \in 1..Len(wire'[c])  PROVE Tells(Scope[c], wire[c][i])'
    <3>1. PICK e \in Events : e = wire'[c][i]
      BY DEF TypeOK
    <3>2. Tells(Scope[c], e)'
      BY <1>5, <3>1
    <3>. QED  BY <3>1, <3>2 DEF Tells
  <2>. QED  BY <2>1, <2>2, <2>3 DEF Telling
<1>7. Snapped' /\ ViewIsCommitted' /\ ReplayFits'
  BY <1>0, <1>1 DEF Snapped, ViewIsCommitted, ReplayFits, Scoped, At
<1>8. Behind'
  BY <1>0, <1>1 DEF Behind, Onward
<1>. QED  BY <1>3, <1>4, <1>6, <1>7, <1>8 DEF FeedInv

\* Streams and snapshots that are given up leave nothing behind.
LEMMA Retreat ==
  ASSUME FeedInv, UNCHANGED <<server, view>>, TypeOK', faults' >= faults,
         \A s \in Slot : sub'[s] \in {sub[s], Free},
         \A c \in Client : wire'[c] \in {wire[c], <<>>} /\ snap'[c] \in {snap[c], NoSnap}
  PROVE  FeedInv'
<1>0. TypeOK /\ Bounded /\ Telling /\ Snapped /\ Behind /\ ViewIsCommitted /\ ReplayFits
  BY DEF FeedInv
<1>1. \A c \in Client : Onward(c)
  BY <1>0, TypesGive DEF Onward
<1>2. \A c \in Client : /\ view'[c].ver <= version
                        /\ view'[c].inst > 0 => view'[c].jobs = Scoped(c, At(view'[c].ver))
  BY <1>0 DEF Behind, ViewIsCommitted
<1>3. \A c \in Client : /\ snap'[c].ver = -1 => snap'[c].try < Attempts
                        /\ snap'[c].ver >= 0 => /\ snap'[c].ver <= version
                                                /\ snap'[c].jobs = Scoped(c, At(snap'[c].ver))
  BY <1>0 DEF Bounded, Snapped, NoSnap, Attempts
<1>4. \A s \in Slot : /\ Len(sub'[s].chan) <= Buffer
                      /\ \A i \in 1..Len(sub'[s].chan) : Tells(Job, sub'[s].chan[i])
  BY <1>0, Numbers DEF ReplayFits, Telling, Free
<1>5. \A c \in Client : \A i \in 1..Len(wire'[c]) : Tells(Scope[c], wire'[c][i])
  BY <1>0 DEF Telling
<1>. QED  BY <1>1, <1>2, <1>3, <1>4, <1>5, PageStep

\* What a subscription is.
LEMMA FreeIs == Free \in [client : Client \cup {NoClient}, chan : Seq(Events)]
BY DEF Free

LEMMA NoSnapIs == NoSnap \in [try : 0..3, ver : Revision \cup {-1}, jobs : [Job -> Revision]]
<1>1. NoJobs \in [Job -> Revision]
  BY Numbers DEF NoJobs
<1>. QED  BY <1>1 DEF NoSnap

LEMMA LeaveKeeps ==
  ASSUME FeedInv, NEW s \in Slot, unsubscribe(s) \/ Unauthorized(s)
  PROVE  FeedInv'
<1>0. TypeOK /\ faults \in Nat
  BY TypesGive DEF FeedInv
<1>1. /\ UNCHANGED <<server, wire, phase, view, snap, stream>>
      /\ sub' = [sub EXCEPT ![s] = Free]
      /\ faults' \in 0..MaxFaults /\ faults' >= faults
  BY <1>0, Numbers DEF unsubscribe, Unauthorized, Fault, TypeOK
<1>2. sub' \in [Slot -> [client : Client \cup {NoClient}, chan : Seq(Events)]]
      /\ \A t \in Slot : sub'[t] \in {sub[t], Free}
  BY <1>0, <1>1, FreeIs DEF TypeOK
<1>3. TypeOK'
  BY <1>0, <1>1, <1>2 DEF TypeOK, server, version
<1>. QED  BY <1>1, <1>2, <1>3, Retreat

LEMMA GiveUpKeeps ==
  ASSUME FeedInv, NEW c \in Client, restore(c) \/ retryLater(c),
         UNCHANGED <<server, sub, view>>, faults' \in 0..MaxFaults, faults' >= faults
  PROVE  FeedInv'
<1>0. TypeOK
  BY DEF FeedInv
<1>1. /\ stream' \in [Client -> Slot \cup {NoSlot}]
      /\ wire' = [wire EXCEPT ![c] = <<>>] /\ snap' = [snap EXCEPT ![c] = NoSnap]
      /\ phase' \in [Client -> {"snapshot", "connect", "live", "wait"}]
  BY <1>0 DEF restore, retryLater, disconnect, Goto, TypeOK
<1>2. /\ wire' \in [Client -> Seq(Events)]
      /\ \A d \in Client : wire'[d] \in {wire[d], <<>>}
  BY <1>0, <1>1 DEF TypeOK
<1>3. /\ snap' \in [Client -> [try : 0..3, ver : Revision \cup {-1}, jobs : [Job -> Revision]]]
      /\ \A d \in Client : snap'[d] \in {snap[d], NoSnap}
  BY <1>0, <1>1, NoSnapIs DEF TypeOK
<1>4. TypeOK'
  BY <1>0, <1>1, <1>2, <1>3 DEF TypeOK, server, version
<1>. QED  BY <1>2, <1>3, <1>4, Retreat

\* Pages and snapshots that a step leaves alone are as they should be.
LEMMA Unmoved ==
  ASSUME FeedInv
  PROVE  /\ view' = view => \A c \in Client :
              /\ Onward(c) /\ view'[c].ver <= version
              /\ view'[c].inst > 0 => view'[c].jobs = Scoped(c, At(view'[c].ver))
         /\ \A c \in Client : snap'[c] = snap[c] =>
              /\ snap'[c].ver = -1 => snap'[c].try < Attempts
              /\ snap'[c].ver >= 0 => /\ snap'[c].ver <= version
                                      /\ snap'[c].jobs = Scoped(c, At(snap'[c].ver))
<1>0. TypeOK /\ Bounded /\ Snapped /\ Behind /\ ViewIsCommitted
  BY DEF FeedInv
<1>. QED  BY <1>0, TypesGive DEF Onward, Bounded, Snapped, Behind, ViewIsCommitted

LEMMA ForwardKeeps ==
  ASSUME FeedInv, NEW s \in Slot, NEW c \in Client, Forward(s, c)
  PROVE  FeedInv'
<1> DEFINE e == Head(sub[s].chan)
           shown == IF e.job \in Job \ Scope[c]
                    THEN [e EXCEPT !.type = "version_changed", !.job = NoJob, !.rev = 0] ELSE e
<1>0. /\ TypeOK /\ Telling /\ ReplayFits /\ Scope[c] \subseteq Job /\ NoJob \notin Job
      /\ sub[s].chan \in Seq(Events) /\ wire[c] \in Seq(Events)
  BY FeedAssumption DEF FeedInv, TypeOK
<1>1. /\ sub[s].chan # <<>>
      /\ wire' = [wire EXCEPT ![c] = Append(@, shown)]
      /\ sub' = [sub EXCEPT ![s].chan = Tail(@)]
      /\ UNCHANGED <<server, phase, view, snap, stream, faults>>
  BY DEF Forward
<1>2. e \in Events /\ e = sub[s].chan[1] /\ 1 \in 1..Len(sub[s].chan)
  BY <1>0, <1>1
<1>3. Tells(Job, e)
  BY <1>0, <1>2 DEF Telling
<1>. HIDE DEF e
<1>4. shown \in Events
  BY <1>2, Numbers DEF Events
<1>5. Tells(Scope[c], shown)
  <2>1. CASE e.job \in Job \ Scope[c]
    <3>1. /\ shown.ver = e.ver /\ shown.inst = e.inst /\ shown.job = NoJob
          /\ shown.type = "version_changed"
      BY <1>2, <2>1 DEF Events
    <3>2. e.type \in Change /\ shown.type \in Change
      BY <1>0, <1>3, <2>1, <3>1 DEF Tells, Change
    <3>. QED  BY <1>0, <1>3, <2>1, <3>1, <3>2 DEF Tells
  <2>2. CASE e.job \notin Job \ Scope[c]
    <3>1. shown = e /\ e.job \in Scope[c] \cup {NoJob}
      BY <1>2, <2>2, EventIs
    <3>. QED  BY <1>0, <1>3, <3>1 DEF Tells
  <2>. QED  BY <2>1, <2>2
<1>. HIDE DEF shown
<1>6. /\ wire' \in [Client -> Seq(Events)]
      /\ \A d \in Client : wire'[d] = IF d = c THEN Append(wire[c], shown) ELSE wire[d]
  BY <1>0, <1>1, <1>4 DEF TypeOK
<1>7. \A d \in Client : \A i \in 1..Len(wire'[d]) : Tells(Scope[d], wire'[d][i])
  <2>1. ASSUME NEW i \in 1..Len(Append(wire[c], shown))  PROVE Tells(Scope[c], Append(wire[c], shown)[i])
    BY <1>0, <1>4, <1>5 DEF Telling
  <2>. QED  BY <1>0, <1>6, <2>1 DEF Telling
<1>8. /\ sub' \in [Slot -> [client : Client \cup {NoClient}, chan : Seq(Events)]]
      /\ \A t \in Slot : sub'[t].chan = IF t = s THEN Tail(sub[s].chan) ELSE sub[t].chan
  <2> DEFINE new == [sub[s] EXCEPT !.chan = Tail(sub[s].chan)]
  <2>0. sub[s] \in [client : Client \cup {NoClient}, chan : Seq(Events)]
    BY <1>0 DEF TypeOK
  <2>1. sub' = [sub EXCEPT ![s] = new]
    BY <1>1
  <2>2. Tail(sub[s].chan) \in Seq(Events)
    BY <1>0, <1>1
  <2>3. /\ new \in [client : Client \cup {NoClient}, chan : Seq(Events)]
        /\ new.chan = Tail(sub[s].chan)
    BY <2>0, <2>2
  <2>. HIDE DEF new
  <2>. QED  BY <1>0, <2>1, <2>3 DEF TypeOK
<1>9. \A t \in Slot : /\ Len(sub'[t].chan) <= Buffer
                      /\ \A i \in 1..Len(sub'[t].chan) : Tells(Job, sub'[t].chan[i])
  <2>1. Len(Tail(sub[s].chan)) <= Buffer
    BY <1>0, <1>1, Numbers DEF ReplayFits
  <2>2. ASSUME NEW i \in 1..Len(Tail(sub[s].chan))  PROVE Tells(Job, Tail(sub[s].chan)[i])
    <3>1. i + 1 \in 1..Len(sub[s].chan) /\ Tail(sub[s].chan)[i] = sub[s].chan[i + 1]
      BY <1>0, <1>1
    <3>. QED  BY <1>0, <3>1 DEF Telling
  <2>. QED  BY <1>0, <1>8, <2>1, <2>2 DEF Telling, ReplayFits
<1>10. TypeOK'
  BY <1>0, <1>1, <1>6, <1>8 DEF TypeOK, server, version
<1>11. faults' >= faults
  BY <1>0, <1>1, TypesGive
<1>. QED  BY <1>1, <1>7, <1>9, <1>10, <1>11, Unmoved, PageStep

LEMMA StreamsUnmoved ==
  ASSUME FeedInv
  PROVE  /\ sub' = sub => \A s \in Slot :
              /\ Len(sub'[s].chan) <= Buffer
              /\ \A i \in 1..Len(sub'[s].chan) : Tells(Job, sub'[s].chan[i])
         /\ \A c \in Client : wire'[c] = wire[c] =>
              \A i \in 1..Len(wire'[c]) : Tells(Scope[c], wire'[c][i])
BY DEF FeedInv, Telling, ReplayFits

LEMMA HeartbeatKeeps ==
  ASSUME FeedInv, NEW s \in Slot, NEW c \in Client, Heartbeat(s, c)
  PROVE  FeedInv'
<1> DEFINE e == Event("observation", version, NoJob, 0)
<1>0. TypeOK /\ Telling /\ wire[c] \in Seq(Events) /\ version \in Revision /\ 0 \in Revision
  BY Numbers DEF FeedInv, TypeOK
<1>1. /\ wire' = [wire EXCEPT ![c] = Append(@, e)]
      /\ UNCHANGED <<server, sub, phase, view, snap, stream, faults>>
  BY DEF Heartbeat
<1>2. e \in Events /\ e.type = "observation" /\ e.job = NoJob
  BY <1>0, EventTyped
<1>. HIDE DEF e
<1>3. Tells(Scope[c], e)
  BY <1>2 DEF Tells, Change
<1>4. /\ wire' \in [Client -> Seq(Events)]
      /\ \A d \in Client : wire'[d] = IF d = c THEN Append(wire[c], e) ELSE wire[d]
  BY <1>0, <1>1, <1>2 DEF TypeOK
<1>5. \A d \in Client : \A i \in 1..Len(wire'[d]) : Tells(Scope[d], wire'[d][i])
  <2>1. ASSUME NEW i \in 1..Len(Append(wire[c], e))  PROVE Tells(Scope[c], Append(wire[c], e)[i])
    BY <1>0, <1>2, <1>3 DEF Telling
  <2>. QED  BY <1>0, <1>4, <2>1 DEF Telling
<1>6. TypeOK'
  BY <1>0, <1>1, <1>4 DEF TypeOK, server, version
<1>7. faults' >= faults
  BY <1>0, <1>1, TypesGive
<1>. QED  BY <1>1, <1>5, <1>6, <1>7, Unmoved, StreamsUnmoved, PageStep

LEMMA ReadsKeeps == ASSUME FeedInv, NEW c \in Client, SnapshotReads(c)  PROVE FeedInv'
<1> DEFINE new == [try |-> snap[c].try + 1, ver |-> version, jobs |-> Scoped(c, jobs)]
<1>0. TypeOK /\ Bounded /\ version \in Revision /\ version \in Nat
  BY TypesGive DEF FeedInv, TypeOK
<1>1. /\ snap[c].ver = -1 /\ snap' = [snap EXCEPT ![c] = new]
      /\ UNCHANGED <<server, sub, wire, phase, view, stream, faults>>
  BY DEF SnapshotReads
<1>2. snap[c].try + 1 \in 0..3
  <2>1. snap[c].try \in 0..3
    BY <1>0 DEF TypeOK
  <2>2. snap[c].try < 3
    BY <1>0, <1>1 DEF Bounded, Attempts
  <2>. QED  BY <2>1, <2>2
<1>3. Scoped(c, jobs) \in [Job -> Revision]
  BY <1>0, AtIs, ScopedIs DEF jobs
<1>4. /\ new \in [try : 0..3, ver : Revision \cup {-1}, jobs : [Job -> Revision]]
      /\ new.ver = version /\ new.jobs = Scoped(c, At(version))
  BY <1>0, <1>2, <1>3 DEF jobs
<1>. HIDE DEF new
<1>5. /\ snap' \in [Client -> [try : 0..3, ver : Revision \cup {-1}, jobs : [Job -> Revision]]]
      /\ \A d \in Client : snap'[d] = IF d = c THEN new ELSE snap[d]
  BY <1>0, <1>1, <1>4 DEF TypeOK
<1>6. \A d \in Client :
        /\ snap'[d].ver = -1 => snap'[d].try < Attempts
        /\ snap'[d].ver >= 0 => /\ snap'[d].ver <= version
                                /\ snap'[d].jobs = Scoped(d, At(snap'[d].ver))
  <2>1. 0 <= version /\ version <= version /\ version # -1
    BY <1>0
  <2>. QED  BY <1>4, <1>5, <2>1, Unmoved
<1>7. TypeOK'
  BY <1>0, <1>1, <1>5 DEF TypeOK, server, version
<1>8. faults' >= faults
  BY <1>0, <1>1, TypesGive
<1>. QED  BY <1>1, <1>6, <1>7, <1>8, Unmoved, StreamsUnmoved, PageStep

\* A page takes a view that is committed and not behind.
LEMMA ViewStep ==
  ASSUME FeedInv, NEW c \in Client, UNCHANGED <<server, sub, faults>>, NEW new,
         new \in [inst : 0..MaxFaults + 1, ver : Revision, jobs : [Job -> Revision]],
         view' = [view EXCEPT ![c] = new],
         \/ new.inst = view[c].inst /\ new.ver >= view[c].ver
         \/ new.inst = inst /\ new.ver = version,
         new.ver <= version, new.inst > 0 => new.jobs = Scoped(c, At(new.ver)),
         phase' \in [Client -> {"snapshot", "connect", "live", "wait"}], stream' = stream,
         wire' \in [Client -> Seq(Events)],
         \A d \in Client : \A i \in 1..Len(wire'[d]) : Tells(Scope[d], wire'[d][i]),
         snap' \in [Client -> [try : 0..3, ver : Revision \cup {-1}, jobs : [Job -> Revision]]],
         \A d \in Client : snap'[d] \in {snap[d], NoSnap}
  PROVE  FeedInv'
<1>0. TypeOK /\ new.ver \in Nat
  BY Numbers DEF FeedInv
<1>1. /\ view' \in [Client -> [inst : 0..MaxFaults + 1, ver : Revision, jobs : [Job -> Revision]]]
      /\ \A d \in Client : view'[d] = IF d = c THEN new ELSE view[d]
  BY <1>0 DEF TypeOK
<1>2. TypeOK'
  BY <1>0, <1>1 DEF TypeOK, server, version
<1>3. inst' = inst /\ version' = version /\ faults' >= faults
  BY <1>0, TypesGive DEF server, version
<1>4. \A d \in Client : Onward(d)
  BY <1>0, <1>1, <1>3, TypesGive DEF Onward
<1>5. \A d \in Client : /\ view'[d].ver <= version
                        /\ view'[d].inst > 0 => view'[d].jobs = Scoped(d, At(view'[d].ver))
  BY <1>1 DEF FeedInv, Behind, ViewIsCommitted
<1>6. \A d \in Client :
        /\ snap'[d].ver = -1 => snap'[d].try < Attempts
        /\ snap'[d].ver >= 0 => /\ snap'[d].ver <= version
                                /\ snap'[d].jobs = Scoped(d, At(snap'[d].ver))
  BY DEF FeedInv, Bounded, Snapped, NoSnap, Attempts
<1>. QED  BY <1>2, <1>3, <1>4, <1>5, <1>6, StreamsUnmoved, PageStep

LEMMA ReturnsKeeps == ASSUME FeedInv, NEW c \in Client, SnapshotReturns(c)  PROVE FeedInv'
<1>0. /\ TypeOK /\ Snapped /\ snap[c].ver >= 0 /\ UNCHANGED <<server, sub, faults>>
      /\ version \in Nat /\ inst \in 1..MaxFaults + 1
  BY TypesGive DEF FeedInv, SnapshotReturns, TypeOK
<1>1. CASE snap[c].ver = version
  <2> DEFINE got == [inst |-> inst, ver |-> snap[c].ver, jobs |-> snap[c].jobs]
             new == snapshotState(view[c], got)
  <2>1. /\ view' = [view EXCEPT ![c] = new] /\ snap' = [snap EXCEPT ![c] = NoSnap]
        /\ UNCHANGED <<wire, stream>>
        /\ phase' \in [Client -> {"snapshot", "connect", "live", "wait"}]
    BY <1>0, <1>1 DEF SnapshotReturns, Goto, TypeOK
  <2>2. snap[c].jobs = Scoped(c, At(version)) /\ snap[c].jobs \in [Job -> Revision]
        /\ version \in Revision
    BY <1>0, <1>1 DEF Snapped, TypeOK
  <2>3. /\ got \in [inst : 0..MaxFaults + 1, ver : Revision, jobs : [Job -> Revision]]
        /\ got.inst = inst /\ got.ver = version /\ got.jobs = Scoped(c, At(version))
    BY <1>0, <1>1, <2>2, FeedAssumption
  <2>. HIDE DEF got
  <2>4. new = view[c] \/ new = got
    BY DEF snapshotState
  <2>5. /\ view[c] \in [inst : 0..MaxFaults + 1, ver : Revision, jobs : [Job -> Revision]]
        /\ view[c].ver \in Nat /\ view[c].ver <= version
        /\ view[c].inst > 0 => view[c].jobs = Scoped(c, At(view[c].ver))
    BY <1>0, TypesGive DEF FeedInv, Behind, ViewIsCommitted, TypeOK
  <2>. HIDE DEF new
  <2>6. /\ new \in [inst : 0..MaxFaults + 1, ver : Revision, jobs : [Job -> Revision]]
        /\ \/ new.inst = view[c].inst /\ new.ver >= view[c].ver
           \/ new.inst = inst /\ new.ver = version
        /\ new.ver <= version /\ (new.inst > 0 => new.jobs = Scoped(c, At(new.ver)))
    BY <1>0, <2>3, <2>4, <2>5
  <2>7. /\ snap' \in [Client -> [try : 0..3, ver : Revision \cup {-1}, jobs : [Job -> Revision]]]
        /\ \A d \in Client : snap'[d] \in {snap[d], NoSnap}
    BY <1>0, <2>1, NoSnapIs DEF TypeOK
  <2>8. wire' \in [Client -> Seq(Events)]
    BY <1>0, <2>1 DEF TypeOK
  <2>. QED  BY <1>0, <2>1, <2>6, <2>7, <2>8, StreamsUnmoved, ViewStep
<1>2. CASE snap[c].ver # version /\ snap[c].try < Attempts
  <2> DEFINE new == [snap[c] EXCEPT !.ver = -1]
  <2>1. snap' = [snap EXCEPT ![c] = new] /\ UNCHANGED <<view, phase, wire, stream>>
    BY <1>2 DEF SnapshotReturns
  <2>2. snap[c] \in [try : 0..3, ver : Revision \cup {-1}, jobs : [Job -> Revision]]
    BY <1>0 DEF TypeOK
  <2>3. /\ new \in [try : 0..3, ver : Revision \cup {-1}, jobs : [Job -> Revision]]
        /\ new.ver = -1 /\ new.try < Attempts
    BY <1>2, <2>2
  <2>. HIDE DEF new
  <2>4. /\ snap' \in [Client -> [try : 0..3, ver : Revision \cup {-1}, jobs : [Job -> Revision]]]
        /\ \A d \in Client : snap'[d] = IF d = c THEN new ELSE snap[d]
    BY <1>0, <2>1, <2>3 DEF TypeOK
  <2>5. \A d \in Client :
          /\ snap'[d].ver = -1 => snap'[d].try < Attempts
          /\ snap'[d].ver >= 0 => /\ snap'[d].ver <= version
                                  /\ snap'[d].jobs = Scoped(d, At(snap'[d].ver))
    BY <2>3, <2>4, Unmoved
  <2>6. TypeOK'
    BY <1>0, <2>1, <2>4 DEF TypeOK, server, version
  <2>7. faults' >= faults
    BY <1>0, TypesGive
  <2>. QED  BY <1>0, <2>1, <2>5, <2>6, <2>7, Unmoved, StreamsUnmoved, PageStep
<1>3. CASE snap[c].ver # version /\ ~(snap[c].try < Attempts)
  <2>1. retryLater(c) /\ UNCHANGED <<server, sub, view>>
    BY <1>3 DEF SnapshotReturns
  <2>2. faults' \in 0..MaxFaults /\ faults' >= faults
    BY <1>0, TypesGive DEF TypeOK
  <2>. QED  BY <2>1, <2>2, GiveUpKeeps
<1>. QED  BY <1>1, <1>2, <1>3

LEMMA SubscribeKeeps == ASSUME FeedInv, NEW c \in Client, SubscribeChanges(c)  PROVE FeedInv'
<1>0. /\ TypeOK /\ Journalled /\ Telling /\ ReplayFits
      /\ UNCHANGED <<server, view, faults>> /\ view[c].ver \in Nat
      /\ faults' \in 0..MaxFaults /\ faults' >= faults
  BY TypesGive DEF FeedInv, SubscribeChanges, TypeOK
<1>1. CASE retryLater(c) /\ UNCHANGED sub
  BY <1>0, <1>1, GiveUpKeeps
<1>2. ASSUME NEW s \in Slot,
             sub' = [sub EXCEPT ![s] = [client |-> c, chan |-> replay(view[c])]],
             stream' = [stream EXCEPT ![c] = s], Goto(c, "live"), UNCHANGED <<wire, snap>>
      PROVE  FeedInv'
  <2>1. PICK ch \in Seq(Events) :
          /\ ch = replay(view[c]) /\ Len(ch) <= Buffer
          /\ \A i \in 1..Len(ch) : Tells(Job, ch[i])
    BY <1>0, ReplayIs
  <2>2. [client |-> c, chan |-> ch] \in [client : Client \cup {NoClient}, chan : Seq(Events)]
    OBVIOUS
  <2>3. /\ sub' \in [Slot -> [client : Client \cup {NoClient}, chan : Seq(Events)]]
        /\ \A t \in Slot : sub'[t].chan = IF t = s THEN ch ELSE sub[t].chan
    BY <1>0, <1>2, <2>1, <2>2 DEF TypeOK
  <2>4. \A t \in Slot : /\ Len(sub'[t].chan) <= Buffer
                        /\ \A i \in 1..Len(sub'[t].chan) : Tells(Job, sub'[t].chan[i])
    BY <1>0, <2>1, <2>3 DEF Telling, ReplayFits
  <2>5. TypeOK'
    BY <1>0, <1>2, <2>3 DEF TypeOK, Goto, server, version
  <2>. QED  BY <1>0, <1>2, <2>4, <2>5, Unmoved, StreamsUnmoved, PageStep
<1>. QED  BY <1>1, <1>2 DEF SubscribeChanges

\* What a page makes of the next change of its instance is what the change's version left.
LEMMA AppliedIs ==
  ASSUME FeedInv, NEW c \in Client, NEW e \in Events, Tells(Scope[c], e), view[c].inst > 0,
         e.type \in Change, e.inst = view[c].inst, e.ver = view[c].ver + 1
  PROVE  [j \in Job |-> IF j = e.job THEN e.rev ELSE view[c].jobs[j]] = Scoped(c, At(e.ver))
<1>0. /\ TypeOK /\ view[c].ver \in Nat /\ view[c].jobs = Scoped(c, At(view[c].ver))
      /\ Scope[c] \subseteq Job /\ NoJob \notin Job
  BY TypesGive, FeedAssumption DEF FeedInv, ViewIsCommitted
<1>1. /\ e.job \in Scope[c] \cup {NoJob}
      /\ \A j \in Scope[c] : At(e.ver)[j] = IF j = e.job THEN e.rev ELSE At(e.ver - 1)[j]
  BY <1>0 DEF Tells
<1>2. e.ver - 1 = view[c].ver
  BY <1>0
<1>3. ASSUME NEW j \in Job
      PROVE  (IF j = e.job THEN e.rev ELSE view[c].jobs[j]) = Scoped(c, At(e.ver))[j]
  <2>1. view[c].jobs[j] = IF j \in Scope[c] THEN At(view[c].ver)[j] ELSE 0
    BY <1>0 DEF Scoped
  <2>2. Scoped(c, At(e.ver))[j] = IF j \in Scope[c] THEN At(e.ver)[j] ELSE 0
    BY DEF Scoped
  <2>. QED  BY <1>0, <1>1, <1>2, <2>1, <2>2
<1>4. Scoped(c, At(e.ver)) = [j \in Job |-> Scoped(c, At(e.ver))[j]]
  BY DEF Scoped
<1>. QED  BY <1>3, <1>4

LEMMA ApplyKeeps == ASSUME FeedInv, NEW c \in Client, applyJobChange(c)  PROVE FeedInv'
<1> DEFINE e == Head(wire[c])
<1>0. /\ TypeOK /\ Telling /\ wire[c] \in Seq(Events) /\ wire[c] # <<>>
      /\ UNCHANGED <<server, sub, faults>> /\ view[c].ver \in Nat /\ view[c].inst \in Nat
      /\ faults' \in 0..MaxFaults /\ faults' >= faults
  BY TypesGive DEF FeedInv, applyJobChange, TypeOK
<1>1. CASE NeedsSnapshot(view[c], e)
  <2>1. restore(c) /\ UNCHANGED view
    BY <1>1 DEF applyJobChange
  <2>. QED  BY <1>0, <2>1, GiveUpKeeps
<1>2. CASE ~NeedsSnapshot(view[c], e)
  <2> DEFINE new == Applied(view[c], e)
  <2>1. /\ view' = [view EXCEPT ![c] = new] /\ wire' = [wire EXCEPT ![c] = Tail(wire[c])]
        /\ UNCHANGED <<phase, snap, stream>>
    BY <1>2 DEF applyJobChange
  <2>2. e \in Events /\ e = wire[c][1] /\ 1 \in 1..Len(wire[c])
    BY <1>0
  <2>3. Tells(Scope[c], e)
    BY <1>0, <2>2 DEF Telling
  <2>. HIDE DEF e
  <2>4. /\ view[c] \in [inst : 0..MaxFaults + 1, ver : Revision, jobs : [Job -> Revision]]
        /\ view[c].ver <= version
        /\ view[c].inst > 0 => view[c].jobs = Scoped(c, At(view[c].ver))
    BY <1>0 DEF FeedInv, Behind, ViewIsCommitted, TypeOK
  <2>5. /\ new \in [inst : 0..MaxFaults + 1, ver : Revision, jobs : [Job -> Revision]]
        /\ new.inst = view[c].inst /\ new.ver >= view[c].ver /\ new.ver <= version
        /\ new.inst > 0 => new.jobs = Scoped(c, At(new.ver))
    <3>1. CASE new = view[c]
      <4>1. view[c].ver >= view[c].ver
        BY <1>0
      <4>. QED  BY <2>4, <3>1, <4>1
    <3>2. CASE ~(e.type = "observation" \/ e.ver <= view[c].ver)
      <4> DEFINE js == [j \in Job |-> IF j = e.job THEN e.rev ELSE view[c].jobs[j]]
      <4>1. /\ e.ver \in Nat /\ e.inst \in Nat \ {0} /\ e.rev \in Revision
            /\ e.ver \in Revision
        BY <2>2, EventIs DEF Events
      <4>2. e.type \in Change /\ e.inst = view[c].inst /\ e.ver = view[c].ver + 1
        <5>1. e.type \in {"job_changed", "version_changed", "resync_required", "observation"}
          BY <2>2 DEF Events
        <5>2. e.type # "resync_required" /\ e.inst = view[c].inst
              /\ ~(e.ver > view[c].ver + 1)
          BY <1>2, <3>2 DEF NeedsSnapshot
        <5>. QED  BY <1>0, <3>2, <4>1, <5>1, <5>2 DEF Change
      <4>3. js = Scoped(c, At(e.ver))
        BY <2>2, <2>3, <4>1, <4>2, AppliedIs
      <4>4. js \in [Job -> Revision]
        BY <2>4, <4>1
      <4>5. e.ver <= version
        BY <1>0, <2>3, <4>2, TypesGive DEF Tells
      <4>6. new = [view[c] EXCEPT !.ver = e.ver, !.jobs = js]
        BY <3>2 DEF Applied
      <4>. HIDE DEF js, new
      <4>7. /\ new \in [inst : 0..MaxFaults + 1, ver : Revision, jobs : [Job -> Revision]]
            /\ new.inst = view[c].inst /\ new.ver = e.ver /\ new.jobs = js
        BY <2>4, <4>1, <4>4, <4>6
      <4>8. e.ver >= view[c].ver
        BY <1>0, <4>1, <4>2
      <4>. QED  BY <4>3, <4>5, <4>7, <4>8
    <3>. QED  BY <3>1, <3>2 DEF Applied
  <2>6. /\ wire' \in [Client -> Seq(Events)]
        /\ \A d \in Client : wire'[d] = IF d = c THEN Tail(wire[c]) ELSE wire[d]
    <3>1. Tail(wire[c]) \in Seq(Events)
      BY <1>0
    <3>. QED  BY <1>0, <2>1, <3>1 DEF TypeOK
  <2>7. \A d \in Client : \A i \in 1..Len(wire'[d]) : Tells(Scope[d], wire'[d][i])
    <3>1. ASSUME NEW i \in 1..Len(Tail(wire[c]))  PROVE Tells(Scope[c], Tail(wire[c])[i])
      <4>1. i + 1 \in 1..Len(wire[c]) /\ Tail(wire[c])[i] = wire[c][i + 1]
        BY <1>0
      <4>. QED  BY <1>0, <4>1 DEF Telling
    <3>. QED  BY <1>0, <2>6, <3>1 DEF Telling
  <2>. HIDE DEF new
  <2>8. /\ snap' \in [Client -> [try : 0..3, ver : Revision \cup {-1}, jobs : [Job -> Revision]]]
        /\ phase' \in [Client -> {"snapshot", "connect", "live", "wait"}]
        /\ \A d \in Client : snap'[d] \in {snap[d], NoSnap}
    BY <1>0, <2>1 DEF TypeOK
  <2>. QED  BY <1>0, <2>1, <2>5, <2>6, <2>7, <2>8, ViewStep
<1>. QED  BY <1>1, <1>2

\* One more change is on disk.
LEMMA Grows ==
  ASSUME TypeOK, Bounded, NEW x \in [Job -> Revision], audit' = Append(audit, x),
         \A j \in Job : x[j] <= version + 1
  PROVE  /\ version' = version + 1 /\ audit' \in Seq([Job -> Revision])
         /\ \A v \in 0..version : At(v)' = At(v)
         /\ \A n : n = version + 1 => At(n)' = x
         /\ \A v \in 1..version' : \A j \in Job : audit'[v][j] <= v
<1>0. audit \in Seq([Job -> Revision]) /\ version = Len(audit) /\ version \in Nat
  BY TypesGive DEF TypeOK, version
<1>1. version' = version + 1 /\ audit' \in Seq([Job -> Revision]) /\ audit'[version + 1] = x
      /\ \A v \in 1..version : audit'[v] = audit[v]
  BY <1>0 DEF version
<1>2. \A v \in 0..version : At(v)' = At(v)
  BY AtStays
<1>3. ASSUME NEW n, n = version + 1  PROVE At(n)' = x
  <2>1. n # 0 /\ audit'[n] = x
    BY <1>0, <1>1, <1>3
  <2>. QED  BY <2>1 DEF At
<1>4. ASSUME NEW v \in 1..version', NEW j \in Job  PROVE audit'[v][j] <= v
  <2>1. CASE v = version + 1
    BY <1>1, <2>1
  <2>2. CASE v # version + 1
    <3>1. v \in 1..version
      BY <1>0, <1>1, <2>2
    <3>. QED  BY <1>1, <3>1 DEF Bounded
  <2>. QED  BY <2>1, <2>2
<1>. QED  BY <1>1, <1>2, <1>3, <1>4

LEMMA JobsBound ==
  ASSUME TypeOK, Bounded
  PROVE  jobs \in [Job -> Revision] /\ \A j \in Job : jobs[j] \in Nat /\ jobs[j] <= version
<1>0. version \in Nat /\ version \in 0..version
  BY TypesGive
<1>1. jobs \in [Job -> Revision]
  BY <1>0, AtIs DEF jobs
<1>2. \A j \in Job : jobs[j] \in Nat
  BY <1>1, Numbers
<1>3. ASSUME NEW j \in Job  PROVE jobs[j] <= version
  <2>1. CASE version = 0
    BY <1>0, <2>1 DEF jobs, At, NoJobs
  <2>2. CASE version # 0
    <3>1. version \in 1..version /\ jobs = audit[version]
      BY <1>0, <2>2 DEF jobs, At
    <3>. QED  BY <3>1 DEF Bounded
  <2>. QED  BY <2>1, <2>2
<1>. QED  BY <1>1, <1>2, <1>3

\* The journal with one more change: that one is its last.
LEMMA JournalGrows ==
  ASSUME TypeOK, Journalled, NEW e \in Events, journal' = trimmed(Append(journal, e))
  PROVE  /\ journal' \in Seq(Events) /\ Len(journal') \in Nat
         /\ Len(journal') <= Buffer /\ Len(journal') <= Len(journal) + 1
         /\ \A i \in 1..Len(journal') :
              \/ i = Len(journal') /\ journal'[i] = e
              \/ \E k \in 1..Len(journal) : /\ journal'[i] = journal[k]
                                            /\ k = i + Len(journal) + 1 - Len(journal')
<1>0. journal \in Seq(Events)
  BY TypesGive
<1>1. PICK es \in Seq(Events) : es = Append(journal, e)
  <2>1. Append(journal, e) \in Seq(Events)
    BY <1>0
  <2>. QED  BY <2>1
<1>2. /\ Len(es) = Len(journal) + 1 /\ es[Len(journal) + 1] = e
      /\ \A k \in 1..Len(journal) : es[k] = journal[k]
  BY <1>0, <1>1
<1>3. /\ journal' \in Seq(Events)
      /\ Len(journal') = IF Len(es) > Buffer THEN Buffer ELSE Len(es)
      /\ \A i \in 1..Len(journal') : journal'[i] = es[i + Len(es) - Len(journal')]
  BY <1>1, TrimmedIs
<1>4. PICK l \in Nat, m \in Nat, b \in Nat :
        l = Len(journal) /\ m = Len(journal') /\ b = Buffer /\ Len(es) = l + 1
  BY <1>0, <1>2, <1>3, FeedAssumption
<1>5. m <= b /\ m <= l + 1
  BY <1>3, <1>4
<1>6. ASSUME NEW i \in 1..m
      PROVE  \/ i = m /\ journal'[i] = e
             \/ \E k \in 1..l : journal'[i] = journal[k] /\ k = i + l + 1 - m
  <2>1. PICK k \in 1..l + 1 : k = i + l + 1 - m
    BY <1>5
  <2>2. journal'[i] = es[k]
    <3>1. journal'[i] = es[i + (l + 1) - m]
      BY <1>3, <1>4
    <3>2. i + (l + 1) - m = k
      BY <2>1
    <3>. QED  BY <3>1, <3>2
  <2>3. CASE k = l + 1
    <3>1. i = m
      BY <2>1, <2>3
    <3>. QED  BY <1>2, <1>4, <2>2, <2>3, <3>1
  <2>4. CASE k # l + 1
    <3>1. k \in 1..l
      BY <2>4
    <3>. QED  BY <1>2, <1>4, <2>1, <2>2, <3>1
  <2>. QED  BY <2>3, <2>4
<1>. QED  BY <1>3, <1>4, <1>5, <1>6

\* What the pages show and the snapshots under way stay true when more is committed.
LEMMA PagesStay ==
  ASSUME TypeOK, Snapped, Behind, ViewIsCommitted, view' = view,
         version' \in Nat, version' >= version, inst' \in Nat, inst' >= inst,
         \A v \in 0..version : At(v)' = At(v),
         \A c \in Client : snap'[c] \in {snap[c], NoSnap}
  PROVE  Snapped' /\ Behind' /\ ViewIsCommitted'
<1>0. version \in Nat /\ inst \in Nat
  BY TypesGive
<1>1. ASSUME NEW c \in Client, snap'[c].ver >= 0
      PROVE  snap'[c].ver <= version' /\ snap'[c].jobs = Scoped(c, At(snap[c].ver))'
  <2>0. snap'[c] = snap[c]
    BY <1>1 DEF NoSnap
  <2>1. snap[c].ver \in Revision \cup {-1}
    BY DEF TypeOK
  <2>2. snap[c].ver \in Nat
    <3>1. CASE snap[c].ver = -1
      BY <1>1, <2>0, <3>1
    <3>2. CASE snap[c].ver \in Revision
      BY <3>2, Numbers
    <3>. QED  BY <2>1, <3>1, <3>2
  <2>3. snap[c].ver <= version /\ snap[c].jobs = Scoped(c, At(snap[c].ver))
    BY <1>1, <2>0 DEF Snapped
  <2>4. PICK v \in 0..version : v = snap[c].ver
    BY <1>0, <2>2, <2>3
  <2>5. At(v)' = At(v) /\ v <= version'
    BY <1>0, <2>4
  <2>6. At(snap[c].ver)' = At(v)'
    BY <2>0, <2>4 DEF At
  <2>. QED  BY <2>0, <2>3, <2>4, <2>5, <2>6 DEF Scoped
<1>2. ASSUME NEW c \in Client
      PROVE  /\ view[c].inst <= inst' /\ view[c].ver <= version'
             /\ view[c].inst > 0 => view[c].jobs = Scoped(c, At(view[c].ver))'
  <2>0. view[c].inst \in Nat /\ view[c].ver \in Nat /\ view[c].inst <= inst
        /\ view[c].ver <= version
    BY TypesGive DEF Behind
  <2>1. PICK v \in 0..version : v = view[c].ver
    BY <1>0, <2>0
  <2>2. At(v)' = At(v) /\ v <= version' /\ view[c].inst <= inst'
    BY <1>0, <2>0, <2>1
  <2>3. At(view[c].ver)' = At(v)'
    BY <2>1 DEF At
  <2>4. view[c].inst > 0 => view[c].jobs = Scoped(c, At(v))
    BY <2>1 DEF ViewIsCommitted
  <2>. QED  BY <2>1, <2>2, <2>3, <2>4 DEF Scoped
<1>. QED  BY <1>1, <1>2 DEF Snapped, Behind, ViewIsCommitted

LEMMA CommitKeeps ==
  ASSUME FeedInv, NEW j \in Job \cup {NoJob}, commit(j)
  PROVE  FeedInv'
<1>0. /\ TypeOK /\ Bounded /\ Journalled /\ Telling /\ Snapped /\ Behind /\ ViewIsCommitted
      /\ ReplayFits /\ version \in Nat /\ version < MaxVersion
      /\ UNCHANGED <<inst, wire, phase, view, snap, stream, faults>>
      /\ NoJob \notin Job /\ faults \in Nat /\ faults <= MaxFaults
  BY TypesGive, FeedAssumption DEF FeedInv, commit, TypeOK
<1>1. PICK new : /\ new = [k \in Job |-> IF k = j THEN jobs[k] + 1 ELSE jobs[k]]
                 /\ audit' = Append(audit, new)
                 /\ recordJobChange(IF j \in Job THEN Event("job_changed", version + 1, j, new[j])
                                    ELSE Event("version_changed", version + 1, NoJob, 0))
  BY DEF commit
<1>2. PICK n \in Nat : n = version + 1 /\ n >= 1
  BY <1>0
<1>3. n \in Revision /\ 0 \in Revision /\ n <= MaxVersion
  BY <1>0, <1>2, FeedAssumption DEF Revision
<1>4. new \in [Job -> Revision] /\ \A k \in Job : new[k] <= version + 1
  <2>1. ASSUME NEW k \in Job  PROVE new[k] \in Nat /\ new[k] <= n
    BY <1>0, <1>1, <1>2, JobsBound
  <2>2. ASSUME NEW m \in Nat, m <= n  PROVE m \in Revision
    BY <1>3, <2>2, FeedAssumption DEF Revision
  <2>3. \A k \in Job : new[k] \in Revision
    BY <2>1, <2>2
  <2>. QED  BY <1>1, <1>2, <2>1, <2>3
<1>5. /\ version' = n /\ audit' \in Seq([Job -> Revision])
      /\ \A v \in 0..version : At(v)' = At(v)
      /\ At(n)' = new
      /\ \A v \in 1..version' : \A k \in Job : audit'[v][k] <= v
  BY <1>0, <1>1, <1>2, <1>4, Grows
<1>6. PICK e \in Events :
        /\ recordJobChange(e)
        /\ e.type \in Change /\ e.ver = n /\ e.inst = inst
        /\ e.job = j /\ (j \in Job => e.rev = new[j])
  <2>1. CASE j \in Job
    <3>1. PICK r \in Revision : r = new[j]
      BY <1>4, <2>1
    <3>2. PICK e : e = Event("job_changed", n, j, r)
      OBVIOUS
    <3>3. e \in Events /\ e.type = "job_changed" /\ e.ver = n /\ e.job = j
          /\ e.rev = r /\ e.inst = inst
      BY <1>0, <1>3, <3>2, EventTyped
    <3>4. recordJobChange(e)
      BY <1>1, <1>2, <2>1, <3>1, <3>2
    <3>. QED  BY <3>1, <3>3, <3>4 DEF Change
  <2>2. CASE j \notin Job
    <3>2. PICK e : e = Event("version_changed", n, NoJob, 0)
      OBVIOUS
    <3>3. e \in Events /\ e.type = "version_changed" /\ e.ver = n /\ e.job = NoJob
          /\ e.inst = inst
      BY <1>0, <1>3, <3>2, EventTyped
    <3>4. recordJobChange(e)
      BY <1>1, <1>2, <2>2, <3>2
    <3>. QED  BY <2>2, <3>3, <3>4 DEF Change
  <2>. QED  BY <2>1, <2>2
<1>7. Tells(Job, e)'
  <2>1. At(n - 1)' = jobs
    <3>1. n - 1 = version /\ version \in 0..version
      BY <1>0, <1>2
    <3>2. \A v \in 0..version : v = version => At(v)' = jobs
      BY <1>5 DEF jobs
    <3>3. PICK v \in 0..version : v = n - 1
      BY <3>1
    <3>4. At(v)' = jobs
      BY <3>1, <3>2, <3>3
    <3>. QED  BY <3>3, <3>4 DEF At
  <2>2. \A k \in Job : At(n)'[k] = IF k = e.job THEN e.rev ELSE At(n - 1)'[k]
    BY <1>0, <1>1, <1>5, <1>6, <2>1
  <2>3. e.ver \in 1..version' /\ e.inst <= inst'
    BY <1>0, <1>2, <1>5, <1>6, TypesGive
  <2>4. e.job \in Job \cup {NoJob}
    BY <1>6
  <2>. QED  BY <1>6, <2>2, <2>3, <2>4 DEF Tells
<1>8. \A c \in Client : Onward(c)
  BY <1>0, TypesGive DEF Onward
<1>9. ASSUME NEW S, NEW f \in Events, Tells(S, f)  PROVE Tells(S, f)'
  <2>1. version' >= version /\ version' \in Nat /\ inst' \in Nat /\ inst' >= inst
    BY <1>0, <1>2, <1>5, TypesGive
  <2>. QED  BY <1>0, <1>5, <1>8, <1>9, <2>1, TellsStays
<1>10. /\ journal' \in Seq(Events) /\ Len(journal') \in Nat
       /\ Len(journal') <= Buffer /\ Len(journal') <= Len(journal) + 1
       /\ \A i \in 1..Len(journal') :
            \/ i = Len(journal') /\ journal'[i] = e
            \/ \E k \in 1..Len(journal) : /\ journal'[i] = journal[k]
                                          /\ k = i + Len(journal) + 1 - Len(journal')
  <2>1. journal' = trimmed(Append(journal, e))
    BY <1>6 DEF recordJobChange
  <2>. QED  BY <1>0, <2>1, JournalGrows
<1>12. Journalled'
  <2>1. PICK l \in Nat, m \in Nat, b \in Nat, v \in Nat :
          l = Len(journal) /\ m = Len(journal') /\ b = Buffer /\ v = version
    BY <1>0, <1>10, TypesGive, FeedAssumption
  <2>2. l <= v /\ m <= b /\ m <= l + 1 /\ version' = v + 1 /\ n = v + 1
    BY <1>0, <1>2, <1>5, <1>10, <2>1 DEF Journalled
  <2>3. m <= v + 1
    BY <2>2
  <2>4. ASSUME NEW i \in 1..m
        PROVE  journal'[i].type \in Change /\ journal'[i].ver = v + 1 - m + i
    <3>1. CASE i = m /\ journal'[i] = e
      <4>1. v + 1 - m + i = n
        BY <2>2, <3>1
      <4>. QED  BY <1>6, <3>1, <4>1
    <3>2. ASSUME NEW k \in 1..l, journal'[i] = journal[k], k = i + l + 1 - m
          PROVE  journal'[i].type \in Change /\ journal'[i].ver = v + 1 - m + i
      <4>1. journal[k].type \in Change /\ journal[k].ver = v - l + k
        BY <1>0, <2>1 DEF Journalled
      <4>2. v - l + k = v + 1 - m + i
        BY <3>2
      <4>. QED  BY <3>2, <4>1, <4>2
    <3>. QED  BY <1>10, <2>1, <3>1, <3>2
  <2>. QED  BY <2>1, <2>2, <2>3, <2>4 DEF Journalled
<1>13. ASSUME NEW s \in Slot
       PROVE  /\ sub'[s] \in [client : Client \cup {NoClient}, chan : Seq(Events)]
              /\ Len(sub'[s].chan) <= Buffer
              /\ \A i \in 1..Len(sub'[s].chan) :
                   sub'[s].chan[i] = e \/ Tells(Job, sub'[s].chan[i])
  <2>0. /\ sub[s] \in [client : Client \cup {NoClient}, chan : Seq(Events)]
        /\ sub[s].chan \in Seq(Events) /\ Len(sub[s].chan) <= Buffer /\ Buffer \in Nat
        /\ \A i \in 1..Len(sub[s].chan) : Tells(Job, sub[s].chan[i])
    BY <1>0, Numbers DEF TypeOK, ReplayFits, Telling
  <2>1. CASE sub'[s] = sub[s]
    BY <2>0, <2>1
  <2>2. CASE Len(sub[s].chan) < Buffer /\ sub'[s] = [sub[s] EXCEPT !.chan = Append(@, e)]
    <3>1. PICK ch \in Seq(Events) : ch = Append(sub[s].chan, e)
      <4>1. Append(sub[s].chan, e) \in Seq(Events)
        BY <2>0
      <4>. QED  BY <4>1
    <3>0. PICK x \in [client : Client \cup {NoClient}, chan : Seq(Events)] : x = sub[s]
      BY <2>0
    <3>2. /\ sub'[s] \in [client : Client \cup {NoClient}, chan : Seq(Events)]
          /\ sub'[s].chan = ch
      <4>1. sub'[s] = [x EXCEPT !.chan = ch]
        BY <2>2, <3>0, <3>1
      <4>. QED  BY <4>1
    <3>3. Len(ch) <= Buffer /\ \A i \in 1..Len(ch) : ch[i] = e \/ Tells(Job, ch[i])
      BY <2>0, <2>2, <3>1
    <3>. QED  BY <3>2, <3>3
  <2>. QED  BY <1>6, <2>1, <2>2 DEF recordJobChange
<1>14. Telling'
  <2>1. ASSUME NEW i \in 1..Len(journal')  PROVE Tells(Job, journal[i])'
    <3>1. PICK f \in Events : f = journal'[i] /\ (f = e \/ Tells(Job, f))
      BY <1>0, <1>10 DEF Telling
    <3>2. Tells(Job, f)'
      BY <1>7, <1>9, <3>1
    <3>. QED  BY <3>1, <3>2 DEF Tells
  <2>2. ASSUME NEW s \in Slot, NEW i \in 1..Len(sub'[s].chan)  PROVE Tells(Job, sub[s].chan[i])'
    <3>1. PICK f \in Events : f = sub'[s].chan[i] /\ (f = e \/ Tells(Job, f))
      BY <1>13
    <3>2. Tells(Job, f)'
      BY <1>7, <1>9, <3>1
    <3>. QED  BY <3>1, <3>2 DEF Tells
  <2>3. ASSUME NEW c \in Client, NEW i \in 1..Len(wire'[c])  PROVE Tells(Scope[c], wire[c][i])'
    <3>1. PICK f \in Events : f = wire'[c][i] /\ Tells(Scope[c], f)
      BY <1>0 DEF TypeOK, Telling
    <3>2. Tells(Scope[c], f)'
      BY <1>9, <3>1
    <3>. QED  BY <3>1, <3>2 DEF Tells
  <2>. QED  BY <2>1, <2>2, <2>3 DEF Telling
<1>15. TypeOK'
  <2>1. sub' \in [Slot -> [client : Client \cup {NoClient}, chan : Seq(Events)]]
    <3>1. sub' = [s \in Slot |-> sub'[s]]
      BY <1>6 DEF recordJobChange
    <3>. QED  BY <1>13, <3>1
  <2>2. version' \in Revision
    BY <1>3, <1>5
  <2>. QED  BY <1>0, <1>5, <1>10, <2>1, <2>2 DEF TypeOK
<1>16. Bounded'
  <2>1. version' <= MaxVersion + faults' /\ inst' <= faults' + 1
    BY <1>0, <1>3, <1>5, FeedAssumption DEF Bounded
  <2>. QED  BY <1>0, <1>5, <2>1 DEF Bounded
<1>17. Snapped' /\ Behind' /\ ViewIsCommitted'
  <2>1. version' \in Nat /\ version' >= version /\ inst' \in Nat /\ inst' >= inst
    BY <1>0, <1>2, <1>5, TypesGive
  <2>. QED  BY <1>0, <1>5, <2>1, PagesStay
<1>18. ReplayFits'
  BY <1>13 DEF ReplayFits
<1>. QED  BY <1>12, <1>14, <1>15, <1>16, <1>17, <1>18 DEF FeedInv

\* Of what a restart commits nobody was told, so its one change may name no job: a page
\* of the instance it carries has it already.
LEMMA OpenKeeps ==
  ASSUME FeedInv, NEW I \in SUBSET Job, OpenWebJobs(I)
  PROVE  FeedInv'
<1>0. /\ TypeOK /\ Bounded /\ Journalled /\ Telling /\ Snapped /\ Behind /\ ViewIsCommitted
      /\ ReplayFits
  BY DEF FeedInv
<1>1. /\ faults < MaxFaults /\ faults' = faults + 1 /\ inst' = inst + 1
      /\ Interrupts(I) /\ Disconnects /\ UNCHANGED <<wire, view, stream>>
  BY DEF OpenWebJobs, Fault
<1>2. PICK v \in Nat, n \in Nat, f \in Nat, g \in Nat :
        v = version /\ n = v + 1 /\ f = faults /\ g = inst
  BY <1>0, TypesGive
<1>3. /\ n \in Revision /\ 0 \in Revision /\ n <= MaxVersion + faults'
      /\ v <= MaxVersion + faults' /\ f + 1 \in 0..MaxFaults
      /\ g + 1 \in 1..MaxFaults + 1 /\ g + 1 <= faults' + 1
  <2>1. v <= MaxVersion + f /\ g <= f + 1 /\ f < MaxFaults
    BY <1>0, <1>1, <1>2 DEF Bounded
  <2>. QED  BY <1>1, <1>2, <2>1, FeedAssumption DEF Revision
<1>4. /\ version' \in {v, n} /\ audit' \in Seq([Job -> Revision])
      /\ \A w \in 0..version : At(w)' = At(w)
      /\ \A w \in 1..version' : \A k \in Job : audit'[w][k] <= w
      /\ \/ journal' = <<>>
         \/ /\ version' = n
            /\ journal' = <<[Event("version_changed", n, NoJob, 0) EXCEPT !.inst = inst + 1]>>
  <2>1. CASE I = {}
    <3>1. audit' = audit /\ journal' = <<>>
      BY <1>1, <2>1 DEF Interrupts
    <3>2. version' = version /\ audit' \in Seq([Job -> Revision])
          /\ \A w \in 0..version : At(w)' = At(w)
      BY <1>0, <3>1 DEF version, At, TypeOK
    <3>3. \A w \in 1..version' : \A k \in Job : audit'[w][k] <= w
      BY <1>0, <3>1, <3>2 DEF Bounded
    <3>. QED  BY <1>2, <3>1, <3>2, <3>3
  <2>2. CASE I # {}
    <3>1. PICK new : /\ new = [k \in Job |-> IF k \in I THEN jobs[k] + 1 ELSE jobs[k]]
                     /\ audit' = Append(audit, new)
      BY <1>1, <2>2 DEF Interrupts
    <3>2. journal' = <<[Event("version_changed", n, NoJob, 0) EXCEPT !.inst = inst + 1]>>
      BY <1>1, <1>2, <2>2 DEF Interrupts
    <3>3. new \in [Job -> Revision] /\ \A k \in Job : new[k] <= version + 1
      <4>1. ASSUME NEW k \in Job  PROVE new[k] \in Nat /\ new[k] <= n
        <5>1. jobs[k] \in Nat /\ jobs[k] <= v
          BY <1>0, <1>2, JobsBound
        <5>2. new[k] = jobs[k] + 1 \/ new[k] = jobs[k]
          BY <3>1
        <5>. QED  BY <1>2, <5>1, <5>2
      <4>2. ASSUME NEW m \in Nat, m <= n  PROVE m \in Revision
        BY <1>3, <4>2, FeedAssumption DEF Revision
      <4>3. \A k \in Job : new[k] \in Revision
        BY <4>1, <4>2
      <4>. QED  BY <1>2, <3>1, <4>1, <4>3
    <3>4. /\ version' = version + 1 /\ audit' \in Seq([Job -> Revision])
          /\ \A w \in 0..version : At(w)' = At(w)
          /\ \A w \in 1..version' : \A k \in Job : audit'[w][k] <= w
      BY <1>0, <3>1, <3>3, Grows
    <3>. QED  BY <1>2, <3>2, <3>4
  <2>. QED  BY <2>1, <2>2
<1>5. /\ version' \in Nat /\ version' >= version /\ version' \in Revision
      /\ version' <= MaxVersion + faults'
      /\ inst' \in Nat /\ inst' >= inst /\ inst' \in 1..MaxFaults + 1
      /\ faults' \in 0..MaxFaults /\ inst' <= faults' + 1
  <2>1. version \in Revision
    BY <1>0 DEF TypeOK
  <2>. QED  BY <1>1, <1>2, <1>3, <1>4, <2>1
<1>6. /\ journal' \in Seq(Events) /\ Len(journal') <= version' /\ Len(journal') <= Buffer
      /\ \A i \in 1..Len(journal') :
           /\ journal'[i].type \in Change /\ journal'[i].ver = version' - Len(journal') + i
           /\ Tells(Job, journal[i])'
  <2>1. CASE journal' = <<>>
    BY <1>5, <2>1, FeedAssumption
  <2>2. CASE version' = n /\
             journal' = <<[Event("version_changed", n, NoJob, 0) EXCEPT !.inst = inst + 1]>>
    <3>1. PICK x : x = [Event("version_changed", n, NoJob, 0) EXCEPT !.inst = inst + 1]
      OBVIOUS
    <3>2. x = [type |-> "version_changed", inst |-> g + 1, ver |-> n, job |-> NoJob, rev |-> 0]
      BY <1>2, <3>1 DEF Event
    <3>3. x \in Events /\ x.type \in Change /\ x.ver = n /\ x.inst = inst' /\ x.job = NoJob
      BY <1>1, <1>2, <1>3, <3>2 DEF Events, Change
    <3>4. Tells(Job, x)'
      <4>1. \A c \in Client : view'[c].inst # x.inst
        <5>1. ASSUME NEW c \in Client  PROVE view[c].inst # g + 1
          <6>1. view[c].inst \in Nat /\ view[c].inst <= g
            BY <1>0, <1>2, TypesGive DEF Behind
          <6>. QED  BY <6>1
        <5>. QED  BY <1>1, <1>2, <3>3, <5>1
      <4>2. x.ver \in 1..version' /\ x.inst <= inst'
        BY <1>2, <1>5, <2>2, <3>3
      <4>. QED  BY <3>3, <4>1, <4>2 DEF Tells
    <3>5. journal' = <<x>>
      BY <2>2, <3>1
    <3>6. journal' \in Seq(Events) /\ Len(journal') = 1 /\ journal'[1] = x
      BY <3>3, <3>5
    <3>7. \A i \in 1..Len(journal') : i = 1 /\ version' - Len(journal') + i = n
      BY <1>2, <2>2, <3>6
    <3>8. 1 <= version' /\ 1 <= Buffer
      BY <1>2, <2>2, FeedAssumption
    <3>9. \A i \in 1..Len(journal') : Tells(Job, journal[i])'
      BY <3>4, <3>6, <3>7 DEF Tells
    <3>. QED  BY <3>3, <3>6, <3>7, <3>8, <3>9
  <2>. QED  BY <1>4, <2>1, <2>2
<1>7. /\ sub' \in [Slot -> [client : Client \cup {NoClient}, chan : Seq(Events)]]
      /\ \A s \in Slot : sub'[s].chan = <<>> /\ Len(sub'[s].chan) = 0
      /\ phase' \in [Client -> {"snapshot", "connect", "live", "wait"}]
      /\ snap' \in [Client -> [try : 0..3, ver : Revision \cup {-1}, jobs : [Job -> Revision]]]
      /\ \A c \in Client : snap'[c] = NoSnap
  <2>1. sub' = [s \in Slot |-> Free] /\ snap' = [c \in Client |-> NoSnap]
        /\ phase' = [c \in Client |-> IF phase[c] = "snapshot" THEN "wait" ELSE phase[c]]
    BY <1>1 DEF Disconnects
  <2>2. Free.chan = <<>>
    BY DEF Free
  <2>3. phase \in [Client -> {"snapshot", "connect", "live", "wait"}]
    BY <1>0 DEF TypeOK
  <2>. QED  BY <2>1, <2>2, <2>3, FreeIs, NoSnapIs
<1>8. \A c \in Client : Onward(c)
  BY <1>0, <1>1, TypesGive DEF Onward
<1>9. ASSUME NEW S, NEW x \in Events, Tells(S, x)  PROVE Tells(S, x)'
  BY <1>0, <1>4, <1>5, <1>8, <1>9, TellsStays
<1>10. Telling'
  <2>1. ASSUME NEW c \in Client, NEW i \in 1..Len(wire'[c])  PROVE Tells(Scope[c], wire[c][i])'
    <3>1. PICK x \in Events : x = wire'[c][i] /\ Tells(Scope[c], x)
      BY <1>0, <1>1 DEF TypeOK, Telling
    <3>2. Tells(Scope[c], x)'
      BY <1>9, <3>1
    <3>. QED  BY <3>1, <3>2 DEF Tells
  <2>2. ASSUME NEW s \in Slot, NEW i \in 1..Len(sub'[s].chan)  PROVE Tells(Job, sub[s].chan[i])'
    BY <1>7
  <2>. QED  BY <1>6, <2>1, <2>2 DEF Telling
<1>11. TypeOK'
  BY <1>0, <1>1, <1>4, <1>5, <1>6, <1>7 DEF TypeOK
<1>12. Bounded'
  <2>1. \A c \in Client : snap'[c].try < Attempts
    BY <1>7 DEF NoSnap, Attempts
  <2>. QED  BY <1>4, <1>5, <2>1 DEF Bounded
<1>13. Journalled'
  BY <1>6 DEF Journalled
<1>14. Snapped' /\ Behind' /\ ViewIsCommitted'
  BY <1>0, <1>1, <1>4, <1>5, <1>7, PagesStay
<1>15. ReplayFits'
  BY <1>7, FeedAssumption DEF ReplayFits
<1>. QED  BY <1>10, <1>11, <1>12, <1>13, <1>14, <1>15 DEF FeedInv

LEMMA StepKeeps == FeedInv /\ [Next]_vars => FeedInv'
<1> SUFFICES ASSUME FeedInv, [Next]_vars  PROVE FeedInv'
  OBVIOUS
<1>0. TypeOK /\ faults \in 0..MaxFaults /\ faults \in Nat
  BY TypesGive DEF FeedInv, TypeOK
<1>1. ASSUME NEW j \in Job \cup {NoJob}, commit(j)  PROVE FeedInv'
  BY <1>1, CommitKeeps
<1>2. ASSUME NEW I \in SUBSET Job, OpenWebJobs(I)  PROVE FeedInv'
  BY <1>2, OpenKeeps
<1>3. ASSUME NEW s \in Slot, unsubscribe(s) \/ Unauthorized(s)  PROVE FeedInv'
  BY <1>3, LeaveKeeps
<1>4. ASSUME NEW c \in Client, Stream(c)  PROVE FeedInv'
  <2>1. CASE \E s \in Slot : Forward(s, c) \/ Heartbeat(s, c)
    BY <2>1, ForwardKeeps, HeartbeatKeeps
  <2>2. CASE SnapshotReads(c)
    BY <2>2, ReadsKeeps
  <2>3. CASE SnapshotReturns(c)
    BY <2>3, ReturnsKeeps
  <2>4. CASE SubscribeChanges(c)
    BY <2>4, SubscribeKeeps
  <2>5. CASE applyJobChange(c)
    BY <2>5, ApplyKeeps
  <2>6. CASE onerror(c) \/ Retry(c)
    <3>1. /\ restore(c) \/ retryLater(c)
          /\ UNCHANGED <<server, sub, view>> /\ faults' = faults
      BY <2>6 DEF onerror, Retry
    <3>2. faults' \in 0..MaxFaults /\ faults' >= faults
      BY <1>0, <3>1
    <3>. QED  BY <3>1, <3>2, GiveUpKeeps
  <2>. QED  BY <1>4, <2>1, <2>2, <2>3, <2>4, <2>5, <2>6 DEF Stream
<1>5. ASSUME NEW c \in Client, Break(c) \/ refresh(c)  PROVE FeedInv'
  <2>1. /\ restore(c) \/ retryLater(c)
        /\ UNCHANGED <<server, sub, view>> /\ faults' = faults + 1 /\ faults < MaxFaults
    BY <1>5 DEF Break, refresh, Fault
  <2>2. faults' \in 0..MaxFaults /\ faults' >= faults
    BY <1>0, <2>1, FeedAssumption
  <2>. QED  BY <2>1, <2>2, GiveUpKeeps
<1>6. CASE UNCHANGED vars
  <2>1. TypeOK'
    BY <1>0, <1>6 DEF vars, TypeOK, version
  <2>2. UNCHANGED <<server, view, sub, wire, snap>> /\ faults' >= faults
    BY <1>0, <1>6 DEF vars, server
  <2>. QED  BY <2>1, <2>2, Retreat
<1>. QED  BY <1>1, <1>2, <1>3, <1>4, <1>5, <1>6 DEF Next

LEMMA FeedInvariant == Spec => []FeedInv
BY InvAtFirst, StepKeeps, PTL DEF Spec

-----------------------------------------------------------------------------
(* The results. *)

\* The types, and with them the bounds on versions, instances and revisions.
THEOREM FeedTyped == Spec => []TypeOK
<1>1. FeedInv => TypeOK
  BY DEF FeedInv
<1>. QED  BY <1>1, FeedInvariant, PTL

\* Whatever was dropped, replayed, delayed or resubscribed, and however often the server
\* ended (WebJobs.SubscribeChanges, recordJobChangeLocked and the page's applyJobChange):
\* what a page shows is, whole, what the version it is at had committed.
THEOREM ViewsAreCommitted == Spec => []ViewIsCommitted
<1>1. FeedInv => ViewIsCommitted
  BY DEF FeedInv
<1>. QED  BY <1>1, FeedInvariant, PTL

\* SubscribeChanges never blocks on the channel it fills with the lock held.
THEOREM ReplaysFit == Spec => []ReplayFits
<1>1. FeedInv => ReplayFits
  BY DEF FeedInv
<1>. QED  BY <1>1, FeedInvariant, PTL

\* A snapshot of the current instance is of the last version, and no page is past that:
\* so a page that changes instances does not go back either.
LEMMA ViewsAdvance ==
  FeedInv /\ [Next]_vars => [\A c \in Client : view'[c].ver >= view[c].ver]_vars
<1> SUFFICES ASSUME FeedInv, Next, NEW d \in Client  PROVE view'[d].ver >= view[d].ver
  BY DEF vars
<1>0. /\ TypeOK /\ Behind /\ version \in Nat /\ view[d].ver \in Nat /\ view[d].ver <= version
      /\ view \in [Client -> [inst : 0..MaxFaults + 1, ver : Revision, jobs : [Job -> Revision]]]
  BY TypesGive DEF FeedInv, Behind, TypeOK
<1>1. CASE view' = view
  BY <1>0, <1>1
<1>2. ASSUME NEW c \in Client, SnapshotReturns(c)  PROVE view'[d].ver >= view[d].ver
  <2> DEFINE got == [inst |-> inst, ver |-> snap[c].ver, jobs |-> snap[c].jobs]
  <2>1. CASE view' = view
    BY <1>0, <2>1
  <2>2. CASE snap[c].ver = version /\ view' = [view EXCEPT ![c] = snapshotState(@, got)]
    <3>1. view'[d] \in {view[d], got}
      BY <1>0, <2>2 DEF snapshotState
    <3>2. got.ver = version
      BY <2>2
    <3>. QED  BY <1>0, <3>1, <3>2
  <2>. QED  BY <1>2, <2>1, <2>2 DEF SnapshotReturns
<1>3. ASSUME NEW c \in Client, applyJobChange(c)  PROVE view'[d].ver >= view[d].ver
  <2> DEFINE e == Head(wire[c])
  <2>1. CASE view' = view
    BY <1>0, <2>1
  <2>2. CASE view' = [view EXCEPT ![c] = Applied(@, e)]
    <3>1. wire[c] \in Seq(Events) /\ wire[c] # <<>>
      BY <1>0, <1>3 DEF TypeOK, applyJobChange
    <3>2. e.ver \in Nat
      BY <3>1, EventIs
    <3>. HIDE DEF e
    <3>3. view'[d] = view[d] \/ view'[d] = Applied(view[d], e)
      BY <1>0, <2>2
    <3>4. Applied(view[d], e).ver >= view[d].ver
      <4>1. CASE e.type = "observation" \/ e.ver <= view[d].ver
        BY <1>0, <4>1 DEF Applied
      <4>2. CASE ~(e.type = "observation" \/ e.ver <= view[d].ver)
        <5>1. view[d] \in [inst : 0..MaxFaults + 1, ver : Revision, jobs : [Job -> Revision]]
          BY <1>0
        <5>2. Applied(view[d], e).ver = e.ver
          BY <4>2, <5>1 DEF Applied
        <5>. QED  BY <1>0, <3>2, <4>2, <5>2
      <4>. QED  BY <4>1, <4>2
    <3>5. view[d].ver >= view[d].ver
      BY <1>0
    <3>. QED  BY <3>3, <3>4, <3>5
  <2>. QED  BY <1>3, <2>1, <2>2 DEF applyJobChange
<1>4. \/ view' = view
      \/ \E c \in Client : SnapshotReturns(c) \/ applyJobChange(c)
  BY DEF Next, commit, OpenWebJobs, unsubscribe, Unauthorized, Stream, Forward, Heartbeat,
         SnapshotReads, SubscribeChanges, onerror, Retry, Break, refresh
<1>. QED  BY <1>1, <1>2, <1>3, <1>4

\* A page never goes back to an older version, a server restart included.
THEOREM NeverGoesBack == Spec => NeverBack
BY FeedInvariant, ViewsAdvance, PTL DEF Spec, NeverBack
=============================================================================
