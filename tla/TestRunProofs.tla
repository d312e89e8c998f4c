--------------------------- MODULE TestRunProofs ---------------------------
(***************************************************************************)
(* For any suites, presets and faults: a run takes down what it brought up *)
(* or says so, after it has gathered what the nodes say; a run that is     *)
(* done has one verdict for each case; and a case that passed had what it  *)
(* imports from one that passed.                                           *)
(***************************************************************************)
EXTENDS TestRun, TLAPS

\* Which state sends which message.
Sendings ==
    {<<"reading", "declarationRead">>, <<"opening", "sessionOpened">>,
     <<"reaching", "networkWayChosen">>, <<"composing", "networkReached">>,
     <<"attaching", "networkReached">>, <<"preparing", "chainPrepared">>,
     <<"running", "casesRun">>, <<"collecting", "collected">>}
    \cup ({"reading", "opening", "composing", "attaching", "preparing", "running"}
              \X {"stageStopped"})

\* The states before the first case, and the steps of a case.
Before == {"reading", "opening", "reaching", "composing", "attaching", "preparing"}
Ready == {"environment", "runtime", "gate", "before", "body"}
Open == {"applicable", "inputs"} \cup Ready

\* The machine's state, how far its Enter has come and what it sent go together.
Walks ==
    /\ msg # "none" => <<at, msg>> \in Sendings
    /\ at \in {"done", "failed", "interrupted"} <=> step = "over"
    /\ step = "over" => msg = "none"
    /\ at = "running" => step \in {"start", "next"} \cup Open
    /\ at = "collecting" => step \in {"start", "teardown"}
    /\ msg = "collected" => step = "teardown"
    /\ msg = "stageStopped" => failure = "some"
    /\ at = "done" => failure = "none"
    /\ sampling # {} => at = "running" /\ msg = "none" /\ step # "start"

\* What a run that can take its network down has got, and what it does with it: it has
\* somewhere to put the evidence, and gathers before it tears down.
Holds ==
    /\ keepUp = "no" => mode = "compose"
    /\ at \in {"composing", "preparing"} => mode = "compose"
    /\ at = "attaching" => mode = "attach"
    /\ at \in {"reaching", "composing"} \/ msg = "sessionOpened" => mode = "attach" \/ sess = "open"
    /\ teardown = "known" => networkUp = "yes" /\ (mode = "attach" \/ sess = "open")
    /\ at = "collecting" /\ step = "teardown" /\ msg = "none" /\ Takesdown /\ failure = "some"
           => net = "down" \/ gathered = "yes"
    /\ (msg = "collected" \/ at \in {"done", "failed"}) /\ Takesdown
           => net = "down" \/ cleanupFailed = "yes"
    /\ stopped = "yes" => msg = "collected" \/ step = "over"

\* Before the first case nothing is recorded.
Blank ==
    at \in Before \/ (at = "running" /\ step = "start") =>
        case = 0 /\ tests = <<>> /\ werr = "no" /\ published = {}

\* The cases so far have a record each, in order, and all but the open one a verdict,
\* which its file has too unless a write was lost.
Recorded ==
    at = "running" =>
        /\ Len(tests) = case /\ (step # "start" => case > 0)
        /\ \A c \in 1..case : tests[c].case = c
        /\ step \in Open => tests[case].status = "none"
        /\ \A c \in 1..case : c < case \/ step = "next" =>
              tests[c].status # "none" /\ (werr = "no" => disk[c] = tests[c].status)

\* What a case that is let through imports is there, and what it exports is not.
Supplied == at = "running" /\ step \in Ready => InputsReady

\* What was published is of a case that passed.
Sourced ==
    \A p \in published : \E j \in DOMAIN tests :
        LET d == suite[tests[j].case] IN
        p = <<d.id, d.fp>> /\ d.exports = "yes" /\ tests[j].status = "pass"

\* What a case that passed exports was published.
Listed ==
    \A j \in DOMAIN tests :
        LET d == suite[tests[j].case] IN
        tests[j].status = "pass" /\ d.exports = "yes" => <<d.id, d.fp>> \in published

\* Once its cases have run, a run that has not failed has a verdict for each.
Settled ==
    failure = "none" /\ (at \in {"collecting", "done"} \/ msg = "casesRun") =>
        /\ Len(tests) = Len(suite)
        /\ saved = Statuses(tests)
        /\ \A c \in DOMAIN suite :
              /\ tests[c].case = c
              /\ tests[c].status # "none"
              /\ disk[c] = tests[c].status

RunInv ==
    /\ TypeOK /\ Walks /\ Holds
    /\ Blank /\ Recorded /\ Supplied /\ Sourced /\ Settled /\ ImportsHaveASource
    /\ Listed /\ PublishedOnce

-----------------------------------------------------------------------------
(* Facts about the pieces.                                                 *)

Entry == [case : DOMAIN suite, status : Status, evidence : YesNo]

LEMMA SuiteIs ==
    ASSUME suite \in Suites
    PROVE  /\ suite \in Seq(Case) /\ Len(suite) \in Nat /\ Len(suite) > 0
           /\ DOMAIN suite = 1..Len(suite)
<1>1. suite \in Seq(Case) /\ suite # <<>>
    BY TestRunAssumption
<1>. QED  BY <1>1

LEMMA InvAtFirst == Init => RunInv
<1> SUFFICES ASSUME Init  PROVE RunInv
    OBVIOUS
<1>0. suite \in Suites /\ Len(suite) \in Nat /\ MaxFaults \in Nat /\ Targets \in Nat \ {0}
    BY SuiteIs, TestRunAssumption DEF Init
<1>1. TypeOK
    <2>1. /\ target \in 1..Targets /\ left \subseteq 1..Targets /\ faults \in 0..MaxFaults
          /\ case \in 0..Len(suite) /\ stmt \in Nat
        BY <1>0 DEF Init
    <2>2. /\ tests \in Seq(Entry) /\ saved \in Seq(Status) /\ disk \in [DOMAIN suite -> Status]
        BY DEF Init, Status
    <2>3. mode \in {"compose", "attach"} /\ keepUp \in {"yes", "no"} /\ net \in {"up", "down"}
        BY DEF Init
    <2>. QED  BY <1>0, <2>1, <2>2, <2>3 DEF Init, TypeOK, Entry, YesNo
<1>2. Walks /\ Holds
    BY DEF Init, Walks, Holds, Takesdown
<1>3. Blank /\ Recorded /\ Supplied /\ Sourced /\ Settled /\ ImportsHaveASource
    BY DEF Init, Blank, Recorded, Supplied, Sourced, Settled, ImportsHaveASource
<1>4. Listed /\ PublishedOnce
    BY DEF Init, Listed, PublishedOnce
<1>. QED  BY <1>1, <1>2, <1>3, <1>4 DEF RunInv

\* No case passes in the step.
LEMMA PassesStay ==
    ASSUME Listed, PublishedOnce, suite' = suite,
           \A j \in DOMAIN tests' : tests'[j].status = "pass" =>
               j \in DOMAIN tests /\ tests'[j] = tests[j],
           published \subseteq published' \/ tests' = <<>>
    PROVE  Listed' /\ PublishedOnce'
<1>1. Listed'
    BY DEF Listed
<1>2. PublishedOnce'
    BY DEF PublishedOnce
<1>. QED  BY <1>1, <1>2

\* The machine moves on and the records are left alone.
LEMMA RecordsStay ==
    ASSUME RunInv, TypeOK', Walks', Holds',
           UNCHANGED <<suite, case, tests, disk, saved, werr, published>>,
           at' \in Before \/ (at' = "running" /\ step' = "start")
               => at \in Before \/ (at = "running" /\ step = "start"),
           at' = "running" /\ step' # "start"
               => at = "running" /\ (step' = step \/ {step, step'} \subseteq Open),
           at' = "running" /\ step' \in Ready
               => step \in Ready \/ InputsReady,
           failure' = "none" /\ (at' \in {"collecting", "done"} \/ msg' = "casesRun")
               => failure = "none" /\ (at \in {"collecting", "done"} \/ msg = "casesRun")
    PROVE  RunInv'
<1>0. TypeOK /\ Blank /\ Recorded /\ Supplied /\ Sourced /\ Settled /\ ImportsHaveASource
    BY DEF RunInv
<1>1. Blank'
    BY <1>0 DEF Blank
<1>2. Recorded'
    <2> SUFFICES ASSUME at' = "running"
                 PROVE  /\ Len(tests) = case /\ (step' # "start" => case > 0)
                        /\ \A c \in 1..case : tests[c].case = c
                        /\ step' \in Open => tests[case].status = "none"
                        /\ \A c \in 1..case : c < case \/ step' = "next" =>
                              tests[c].status # "none" /\ (werr = "no" => disk[c] = tests[c].status)
        BY DEF Recorded
    <2>1. CASE step' = "start"
        <3>1. case = 0 /\ tests = <<>>
            BY <1>0, <2>1 DEF Blank
        <3>. QED  BY <2>1, <3>1 DEF Open, Ready
    <2>2. CASE step' # "start" /\ step' = step
        BY <1>0, <2>2 DEF Recorded
    <2>3. CASE step' # "start" /\ {step, step'} \subseteq Open
        <3>1. at = "running" /\ step # "start" /\ step # "next" /\ step' # "next"
            BY <2>3 DEF Open, Ready
        <3>. QED  BY <1>0, <2>3, <3>1 DEF Recorded
    <2>. QED  BY <2>1, <2>2, <2>3
<1>3. Supplied'
    <2>1. at' = "running" /\ step' \in Ready => at = "running"
        BY DEF Ready
    <2>. QED  BY <1>0, <2>1 DEF Supplied, InputsReady, This
<1>4. Sourced' /\ ImportsHaveASource'
    BY <1>0 DEF Sourced, ImportsHaveASource
<1>5. Settled'
    BY <1>0 DEF Settled, Statuses
<1>6. Listed' /\ PublishedOnce'
    BY PassesStay DEF RunInv
<1>. QED  BY <1>1, <1>2, <1>3, <1>4, <1>5, <1>6 DEF RunInv

LEMMA FaultsAre == ASSUME TypeOK, Fails \/ Works  PROVE faults' \in 0..MaxFaults
<1>1. faults \in 0..MaxFaults
    BY DEF TypeOK
<1>. QED  BY <1>1, TestRunAssumption DEF Fails, Works

-----------------------------------------------------------------------------
(* Every step keeps RunInv.  The stages on the way to the cases and the    *)
(* tear down leave the records alone.                                      *)

Stays ==
    /\ TypeOK' /\ Walks' /\ Holds'
    /\ UNCHANGED <<suite, case, tests, disk, saved, werr, published>>
    /\ at' = at /\ at \in Before \cup {"collecting"}
    /\ msg' # "casesRun" /\ (failure' = "none" => failure = "none")

LEMMA StayingKeeps == ASSUME RunInv, Stays  PROVE RunInv'
BY RecordsStay DEF Stays, Before

LEMMA StagesStay ==
    ASSUME RunInv,
           \/ readingDeclaration \/ openingSession \/ reachingNetwork \/ composingNetwork
           \/ readWorkspaceComposed \/ gatingNetwork \/ attachingToNetwork \/ verifyAgainstPlan
           \/ preparingRun \/ tearingDown
    PROVE  Stays
<1>0. TypeOK /\ Walks /\ Holds
    BY DEF RunInv
<1>. USE DEF TypeOK, YesNo, Walks, Sendings, Holds, Takesdown, Stays, Before,
             Entering, Goes, Sends, Goeson, fail, outside, runner, engine, session
<1>1. CASE readingDeclaration
    <2>1. faults' \in 0..MaxFaults
        BY <1>0, <1>1, FaultsAre DEF readingDeclaration
    <2>. QED  BY <1>0, <1>1, <2>1 DEF readingDeclaration
<1>2. CASE openingSession
    <2>1. faults' \in 0..MaxFaults
        BY <1>0, <1>2, FaultsAre DEF openingSession
    <2>. QED  BY <1>0, <1>2, <2>1 DEF openingSession
<1>3. CASE reachingNetwork
    <2>1. faults' \in 0..MaxFaults
        BY <1>0, <1>3 DEF reachingNetwork
    <2>. QED  BY <1>0, <1>3, <2>1 DEF reachingNetwork
<1>4. CASE composingNetwork
    <2>1. faults' \in 0..MaxFaults
        BY <1>0, <1>4, FaultsAre DEF composingNetwork, composeWorkspace
    <2>. QED  BY <1>0, <1>4, <2>1 DEF composingNetwork, composeWorkspace
<1>5. CASE readWorkspaceComposed
    <2>1. faults' \in 0..MaxFaults
        BY <1>0, <1>5, FaultsAre DEF readWorkspaceComposed
    <2>. QED  BY <1>0, <1>5, <2>1 DEF readWorkspaceComposed
<1>6. CASE gatingNetwork
    <2>1. faults' \in 0..MaxFaults
        BY <1>0, <1>6 DEF gatingNetwork
    <2>. QED  BY <1>0, <1>6, <2>1 DEF gatingNetwork, GatePasses, GateRefuses
<1>7. CASE attachingToNetwork
    <2>1. faults' \in 0..MaxFaults
        BY <1>0, <1>7 DEF attachingToNetwork
    <2>. QED  BY <1>0, <1>7, <2>1 DEF attachingToNetwork, GatePasses, GateRefuses
<1>8. CASE verifyAgainstPlan
    <2>1. faults' \in 0..MaxFaults
        BY <1>0, <1>8, FaultsAre DEF verifyAgainstPlan
    <2>. QED  BY <1>0, <1>8, <2>1 DEF verifyAgainstPlan
<1>9. CASE preparingRun
    <2>1. faults' \in 0..MaxFaults
        BY <1>0, <1>9, FaultsAre DEF preparingRun, prepareChain
    <2>. QED  BY <1>0, <1>9, <2>1 DEF preparingRun, prepareChain, GatePasses, GateRefuses
<1>10. CASE tearingDown
    <2>1. faults' \in 0..MaxFaults
        BY <1>0, <1>10, FaultsAre DEF tearingDown
    <2>. QED  BY <1>0, <1>10, <2>1 DEF tearingDown
<1>. QED  BY <1>1, <1>2, <1>3, <1>4, <1>5, <1>6, <1>7, <1>8, <1>9, <1>10

LEMMA DispatchKeeps == ASSUME RunInv, dispatch  PROVE RunInv'
<1>0. TypeOK /\ Walks /\ Holds
    BY DEF RunInv
<1>. USE DEF TypeOK, Walks, Sendings, dispatch, outside, runner, engine, session
<1>1. \/ at' = "interrupted" /\ step' = "over"
      \/ at' = NextState /\ step' = IF NextState \in {"done", "failed"} THEN "over" ELSE "start"
    OBVIOUS
<1>2. CASE at' = "interrupted" /\ step' = "over"
    <2>1. TypeOK' /\ Walks' /\ Holds'
        BY <1>0, <1>2 DEF Holds, Takesdown
    <2>. QED  BY <1>2, <2>1, RecordsStay DEF Before
<1>3. CASE at' = NextState /\ step' = IF NextState \in {"done", "failed"} THEN "over" ELSE "start"
    <2>1. /\ msg = "stageStopped" => NextState = "collecting" /\ failure = "some"
          /\ msg = "declarationRead" => NextState = "opening" /\ at = "reading"
          /\ msg = "sessionOpened" => NextState = "reaching" /\ at = "opening"
          /\ msg = "networkWayChosen" => /\ at = "reaching"
                                         /\ NextState = IF mode = "attach" THEN "attaching" ELSE "composing"
          /\ msg = "networkReached" => /\ at \in {"composing", "attaching"}
                                       /\ NextState = IF mode = "attach" THEN "running" ELSE "preparing"
          /\ msg = "chainPrepared" => NextState = "running" /\ at = "preparing"
          /\ msg = "casesRun" => NextState = "collecting" /\ at = "running"
          /\ msg = "collected" => /\ at = "collecting"
                                  /\ NextState = IF failure = "some" THEN "failed" ELSE "done"
        BY <1>0 DEF NextState
    <2>2. \/ msg = "stageStopped" \/ msg = "declarationRead" \/ msg = "sessionOpened"
          \/ msg = "networkWayChosen" \/ msg = "networkReached" \/ msg = "chainPrepared"
          \/ msg = "casesRun" \/ msg = "collected"
        BY <1>0
    <2>3. TypeOK' /\ Walks' /\ Holds'
        BY <1>0, <1>3, <2>1, <2>2 DEF Holds, Takesdown
    <2>4. /\ at' # "running" \/ step' = "start"
          /\ at' \in Before \cup {"running"} => at \in Before
          /\ failure' = "none" /\ at' \in {"collecting", "done"}
                 => failure = "none" /\ (at = "collecting" \/ msg = "casesRun")
        BY <1>0, <1>3, <2>1, <2>2 DEF Before
    <2>. QED  BY <2>3, <2>4, RecordsStay DEF Before, Ready
<1>. QED  BY <1>1, <1>2, <1>3

LEMMA RefusedKeeps == ASSUME RunInv, engineRefused  PROVE RunInv'
<1>0. TypeOK /\ Walks /\ Holds
    BY DEF RunInv
<1>1. faults' \in 0..MaxFaults
    BY <1>0, FaultsAre DEF engineRefused
<1>2. TypeOK' /\ Walks' /\ Holds'
    BY <1>0, <1>1 DEF TypeOK, Walks, Sendings, Holds, Takesdown, engineRefused, Running, Entering,
                      fail, Sends, outside, runner, engine, session
<1>3. /\ UNCHANGED <<suite, case, tests, disk, saved, werr, published>>
      /\ at = "running" /\ at' = at /\ step' = step /\ step = "start" /\ msg' # "casesRun"
    BY DEF engineRefused, Running, Entering, fail, Sends, outside, engine, session
<1>. QED  BY <1>2, <1>3, RecordsStay DEF Ready

LEMMA NothingKeeps ==
    ASSUME RunInv, Interrupt \/ Mute \/ UNCHANGED vars
    PROVE  RunInv'
<1>0. TypeOK /\ Walks /\ Holds
    BY DEF RunInv
<1>1. /\ UNCHANGED <<target, left, suite, mode, keepUp, machine, faults, net, runner, engine, session>>
      /\ ctx' \in {"live", "cancelled"} /\ mute' \in YesNo
    BY <1>0 DEF Interrupt, Mute, vars, outside, TypeOK, YesNo
<1>2. TypeOK' /\ Walks' /\ Holds'
    BY <1>0, <1>1 DEF TypeOK, Walks, Holds, Takesdown, outside, machine, runner, engine, session
<1>. QED  BY <1>1, <1>2, RecordsStay DEF outside, machine, runner, engine, session

-----------------------------------------------------------------------------
(* The cases.                                                              *)

\* What the engine leaves alone while it is at a case.
Inside ==
    /\ at = "running" /\ msg = "none" /\ UNCHANGED <<at, msg>>
    /\ UNCHANGED <<target, left, suite, mode, keepUp, mute, ctx, table, teardown, networkUp, sess,
                   failure, stopped, cleanupFailed, gathered, saved>>
    /\ faults' \in 0..MaxFaults /\ net' \in {"up", "down"}
    /\ stmt' \in Nat /\ good' \in YesNo

\* The case goes on.
LEMMA StepKeeps ==
    ASSUME RunInv, Inside, {step, step'} \subseteq Open,
           UNCHANGED <<case, tests, disk, werr, published>>,
           step' \in Ready =>
               step \in Ready \/ InputsReady
    PROVE  RunInv'
<1>0. TypeOK /\ Walks /\ Holds
    BY DEF RunInv
<1>1. TypeOK' /\ Walks' /\ Holds'
    BY <1>0 DEF TypeOK, Walks, Holds, Takesdown, Inside, Open, Ready
<1>. QED  BY <1>1, RecordsStay DEF Inside, Open, Ready

\* The case ends with the verdict st.
Judged(st) ==
    /\ st \in Status \ {"none"} /\ (st = "pass" => step \in Ready)
    /\ step \in Open /\ step' = "next" /\ UNCHANGED case
    /\ \E x \in Entry : x.case = case /\ x.status = st /\ tests' = [tests EXCEPT ![case] = x]
    /\ \/ disk' = [disk EXCEPT ![case] = st] /\ werr' = werr
       \/ disk' = disk /\ werr' = "yes"
    /\ \/ published' = published /\ (st = "pass" => This.exports # "yes")
       \/ /\ st = "pass" /\ This.exports = "yes"
          /\ published' = published \cup {<<This.id, This.fp>>}

LEMMA JudgedKeeps ==
    ASSUME RunInv, Inside, NEW st, Judged(st)
    PROVE  RunInv'
<1>0. /\ TypeOK /\ Walks /\ Holds /\ Recorded /\ Supplied /\ Sourced /\ ImportsHaveASource
      /\ at = "running" /\ step \in Open /\ suite' = suite /\ case' = case /\ step' = "next"
    BY DEF RunInv, Inside, Judged
<1>1. /\ DOMAIN suite = 1..Len(suite) /\ Len(suite) \in Nat
      /\ tests \in Seq(Entry) /\ Len(tests) = case /\ case \in 1..Len(suite) /\ case \in Nat
    <2>1. DOMAIN suite = 1..Len(suite) /\ Len(suite) \in Nat
        BY <1>0, SuiteIs DEF TypeOK
    <2>2. tests \in Seq(Entry) /\ case \in 0..Len(suite)
        BY <1>0 DEF TypeOK, Entry
    <2>3. Len(tests) = case /\ case > 0
        BY <1>0 DEF Recorded, Open, Ready
    <2>. QED  BY <2>1, <2>2, <2>3
<1>2. PICK x \in Entry : x.case = case /\ x.status = st /\ tests' = [tests EXCEPT ![case] = x]
    BY DEF Judged
<1>3. /\ tests' \in Seq(Entry) /\ Len(tests') = case /\ tests'[case] = x
      /\ \A c \in 1..case : c # case => tests'[c] = tests[c]
      /\ DOMAIN tests = 1..case /\ DOMAIN tests' = 1..case
    BY <1>1, <1>2
<1>4. st \in Status /\ st # "none" /\ tests[case].status = "none"
    BY <1>0 DEF Judged, Recorded
<1>5. TypeOK'
    <2>1. disk' \in [DOMAIN suite -> Status] /\ werr' \in YesNo
        BY <1>0, <1>1, <1>4 DEF Judged, TypeOK, YesNo
    <2>2. tests' \in Seq([case : DOMAIN suite, status : Status, evidence : YesNo])
        BY <1>3 DEF Entry
    <2>. QED  BY <1>0, <2>1, <2>2 DEF TypeOK, Inside
<1>6. Walks' /\ Holds'
    BY <1>0 DEF Walks, Holds, Takesdown, Inside, Open, Ready
<1>7. Blank' /\ Supplied' /\ Settled'
    BY <1>0 DEF Blank, Supplied, Settled, Inside, Before, Ready
<1>8. Recorded'
    <2>1. ASSUME NEW c \in 1..case
          PROVE  /\ tests'[c].case = c /\ tests'[c].status # "none"
                 /\ werr' = "no" => disk'[c] = tests'[c].status
        <3>0. disk \in [DOMAIN suite -> Status] /\ c \in DOMAIN suite /\ case \in DOMAIN suite
            BY <1>0, <1>1 DEF TypeOK
        <3>1. CASE c = case
            BY <1>2, <1>3, <1>4, <3>0, <3>1 DEF Judged
        <3>2. CASE c # case
            <4>1. c < case
                BY <1>1, <3>2
            <4>2. tests'[c] = tests[c] /\ tests[c].case = c /\ tests[c].status # "none"
                  /\ (werr = "no" => disk[c] = tests[c].status)
                BY <1>0, <1>3, <3>2, <4>1 DEF Recorded
            <4>3. disk'[c] = disk[c] /\ (werr' = "no" => werr = "no")
                BY <3>0, <3>2 DEF Judged
            <4>. QED  BY <4>2, <4>3
        <3>. QED  BY <3>1, <3>2
    <2>2. Len(tests') = case /\ case > 0
        BY <1>1, <1>3
    <2>. QED  BY <1>0, <2>1, <2>2 DEF Recorded, Open, Ready
<1>9. ASSUME NEW j \in DOMAIN tests, tests[j].status = "pass"
      PROVE  j \in 1..case /\ j # case /\ tests'[j] = tests[j]
    BY <1>3, <1>4, <1>9
<1>10. Sourced'
    <2> SUFFICES ASSUME NEW p \in published'
                 PROVE  \E j \in DOMAIN tests' :
                          /\ p = <<suite[tests'[j].case].id, suite[tests'[j].case].fp>>
                          /\ suite[tests'[j].case].exports = "yes" /\ tests'[j].status = "pass"
        BY <1>0 DEF Sourced
    <2>1. CASE p \in published
        <3>1. PICK j \in DOMAIN tests :
                /\ p = <<suite[tests[j].case].id, suite[tests[j].case].fp>>
                /\ suite[tests[j].case].exports = "yes" /\ tests[j].status = "pass"
            BY <1>0, <2>1 DEF Sourced
        <3>2. j \in DOMAIN tests' /\ tests'[j] = tests[j]
            BY <1>3, <1>9, <3>1
        <3>. QED  BY <3>1, <3>2
    <2>2. CASE st = "pass" /\ This.exports = "yes" /\ p = <<This.id, This.fp>>
        <3>1. case \in DOMAIN tests' /\ tests'[case].status = "pass" /\ suite[tests'[case].case] = This
            BY <1>1, <1>2, <1>3, <2>2 DEF This
        <3>. QED  BY <2>2, <3>1
    <2>. QED  BY <2>1, <2>2 DEF Judged
<1>11. ImportsHaveASource'
    <2> SUFFICES ASSUME NEW i \in DOMAIN tests', tests'[i].status = "pass",
                        suite[tests'[i].case].imports # "none"
                 PROVE  \E j \in 1 .. i - 1 :
                          /\ suite[tests'[j].case].id = suite[tests'[i].case].imports
                          /\ suite[tests'[j].case].fp = suite[tests'[i].case].fp
                          /\ suite[tests'[j].case].exports = "yes" /\ tests'[j].status = "pass"
        BY <1>0 DEF ImportsHaveASource
    <2>1. CASE i # case
        <3>0. i \in DOMAIN tests /\ i \in Nat /\ tests'[i] = tests[i] /\ i < case
            BY <1>1, <1>3, <2>1
        <3>1. PICK j \in 1 .. i - 1 :
                /\ suite[tests[j].case].id = suite[tests[i].case].imports
                /\ suite[tests[j].case].fp = suite[tests[i].case].fp
                /\ suite[tests[j].case].exports = "yes" /\ tests[j].status = "pass"
            BY <1>0, <3>0 DEF ImportsHaveASource
        <3>2. j \in DOMAIN tests
            BY <1>1, <1>3, <3>0
        <3>3. tests'[j] = tests[j]
            BY <1>9, <3>1, <3>2
        <3>. QED  BY <3>0, <3>1, <3>3
    <2>2. CASE i = case
        <3>1. st = "pass" /\ suite[tests'[i].case] = This
            BY <1>2, <1>3, <2>2 DEF This
        <3>2. <<This.imports, This.fp>> \in published
            BY <1>0, <3>1, <2>2 DEF Judged, Supplied, InputsReady
        <3>3. PICK j \in DOMAIN tests :
                /\ <<This.imports, This.fp>> = <<suite[tests[j].case].id, suite[tests[j].case].fp>>
                /\ suite[tests[j].case].exports = "yes" /\ tests[j].status = "pass"
            BY <1>0, <3>2 DEF Sourced
        <3>4. j \in 1 .. i - 1 /\ tests'[j] = tests[j]
            <4>1. j \in 1..case /\ j # case /\ tests'[j] = tests[j]
                BY <1>9, <3>3
            <4>. QED  BY <1>1, <2>2, <4>1
        <3>. QED  BY <3>1, <3>3, <3>4
    <2>. QED  BY <2>1, <2>2
<1>12. \A j \in DOMAIN tests' : tests'[j].status = "pass" /\ j # case =>
          j \in DOMAIN tests /\ tests'[j] = tests[j]
    BY <1>3
<1>13. suite[tests'[case].case] = This /\ tests'[case].status = st
    BY <1>2, <1>3 DEF This
<1>14. Listed'
    <2> SUFFICES ASSUME NEW j \in DOMAIN tests', tests'[j].status = "pass",
                        suite[tests'[j].case].exports = "yes"
                 PROVE  <<suite[tests'[j].case].id, suite[tests'[j].case].fp>> \in published'
        BY <1>0 DEF Listed
    <2>1. CASE j = case
        BY <1>13, <2>1 DEF Judged
    <2>2. CASE j # case
        BY <1>12, <2>2 DEF RunInv, Listed, Judged
    <2>. QED  BY <2>1, <2>2
<1>15. PublishedOnce'
    <2>1. ASSUME NEW j \in DOMAIN tests', j # case, tests'[j].status = "pass",
                 suite[tests'[j].case].exports = "yes", st = "pass", This.exports = "yes"
          PROVE  suite[tests'[j].case].id # This.id
        <3>1. <<suite[tests'[j].case].id, suite[tests'[j].case].fp>> \in published
            BY <1>12, <2>1 DEF RunInv, Listed
        <3>2. \A p \in published : p[1] # This.id
            BY <1>0, <2>1 DEF Judged, Supplied, InputsReady
        <3>. QED  BY <3>1, <3>2
    <2> SUFFICES ASSUME NEW i \in DOMAIN tests', NEW j \in DOMAIN tests',
                        tests'[i].status = "pass", suite[tests'[i].case].exports = "yes",
                        tests'[j].status = "pass", suite[tests'[j].case].exports = "yes",
                        suite[tests'[i].case].id = suite[tests'[j].case].id
                 PROVE  i = j
        BY <1>0 DEF PublishedOnce
    <2>2. CASE i # case /\ j # case
        BY <1>12, <2>2 DEF RunInv, PublishedOnce
    <2>3. CASE i = case /\ j # case
        BY <1>13, <2>1, <2>3
    <2>4. CASE i # case /\ j = case
        BY <1>13, <2>1, <2>4
    <2>. QED  BY <2>2, <2>3, <2>4
<1>. QED  BY <1>5, <1>6, <1>7, <1>8, <1>10, <1>11, <1>14, <1>15 DEF RunInv

LEMMA ConcludesKeeps ==
    ASSUME RunInv, NEW st \in Status \ {"none"}, NEW ev \in YesNo, Concludes(st, ev),
           step \in Open, st = "pass" => step \in Ready, case' = case,
           \/ published' = published /\ (st = "pass" => This.exports # "yes")
           \/ st = "pass" /\ This.exports = "yes" /\ published' = published \cup {<<This.id, This.fp>>},
           at = "running", msg = "none", net' \in {"up", "down"}, stmt' \in Nat, good' \in YesNo,
           UNCHANGED <<target, left, suite, mode, keepUp, mute, ctx, table, teardown, networkUp, sess,
                       failure, stopped, cleanupFailed, gathered, saved>>
    PROVE  RunInv'
<1>0. TypeOK /\ Recorded
    BY DEF RunInv
<1>1. faults' \in 0..MaxFaults
    BY <1>0, FaultsAre DEF Concludes, Writes
<1>2. Inside
    BY <1>1 DEF Inside, Concludes, Goes
<1>3. Len(tests) = case /\ case > 0 /\ case \in 0..Len(suite) /\ Len(suite) \in Nat
      /\ tests \in Seq(Entry) /\ tests[case].case = case
    <2>1. Len(tests) = case /\ case > 0 /\ \A c \in 1..case : tests[c].case = c
        BY <1>0 DEF Recorded, Open, Ready
    <2>2. case \in 0..Len(suite) /\ Len(suite) \in Nat /\ tests \in Seq(Entry)
        BY <1>0, SuiteIs DEF TypeOK, Entry
    <2>3. case \in 1..case
        BY <2>1, <2>2
    <2>. QED  BY <2>1, <2>2, <2>3
<1>4. tests[case] \in Entry
    BY <1>3
<1>5. PICK x : x = [tests[case] EXCEPT !.status = st, !.evidence = ev]
    OBVIOUS
<1>6. x \in Entry /\ x.case = case /\ x.status = st
    BY <1>3, <1>4, <1>5 DEF Entry
<1>7. tests' = [tests EXCEPT ![case] = x]
    BY <1>3, <1>4, <1>5 DEF Concludes, Record
<1>8. Judged(st)
    BY <1>6, <1>7 DEF Judged, Concludes, Writes, Goes
<1>. QED  BY <1>2, <1>8, JudgedKeeps

\* Between the top of the loop and the verdict.
LEMMA CaseKeeps ==
    ASSUME RunInv, \/ checkingApplicable \/ takingInputs \/ findingEnvironment \/ runtimeGate
                   \/ preSpec \/ runningPreActions \/ runningStatement \/ concludingCase
    PROVE  RunInv'
<1>0. /\ TypeOK /\ Recorded /\ net \in {"up", "down"} /\ stmt \in Nat /\ good \in YesNo
      /\ faults \in 0..MaxFaults
    BY DEF RunInv, TypeOK
<1>. USE DEF Running, Entering, Goes, Works, outside, runner, engine
<1>1. CASE checkingApplicable
    <2>1. /\ step = "applicable" /\ at = "running" /\ msg = "none"
          /\ UNCHANGED <<outside, ctx, net, runner, engine, saved>>
        BY <1>1 DEF checkingApplicable
    <2>2. \/ Concludes("fail", "no") \/ Concludes("skip", "no")
          \/ Goes("inputs") /\ Works /\ UNCHANGED <<tests, disk, werr>>
        BY <1>1 DEF checkingApplicable
    <2>3. CASE Concludes("fail", "no") \/ Concludes("skip", "no")
        BY <1>0, <2>1, <2>3, ConcludesKeeps DEF Status, YesNo, Open
    <2>4. CASE Goes("inputs") /\ Works /\ UNCHANGED <<tests, disk, werr>>
        BY <1>0, <2>1, <2>4, StepKeeps DEF Inside, Open, Ready
    <2>. QED  BY <2>2, <2>3, <2>4
<1>2. CASE takingInputs
    <2>1. /\ step = "inputs" /\ at = "running" /\ msg = "none"
          /\ UNCHANGED <<outside, ctx, net, runner, engine, saved>>
        BY <1>2 DEF takingInputs
    <2>2. CASE Concludes("blocked", "no")
        BY <1>0, <2>1, <2>2, ConcludesKeeps DEF Status, YesNo, Open
    <2>3. CASE InputsReady /\ Goes("environment") /\ Works /\ UNCHANGED <<tests, disk, werr>>
        BY <1>0, <2>1, <2>3, StepKeeps DEF Inside, Open, Ready, InputsReady
    <2>. QED  BY <1>2, <2>2, <2>3 DEF takingInputs
<1>3. CASE findingEnvironment
    <2>1. /\ step = "environment" /\ at = "running" /\ msg = "none"
          /\ UNCHANGED <<outside, ctx, net, runner, case, stmt, good, published, saved>>
        BY <1>3 DEF findingEnvironment
    <2>2. CASE Goes("runtime") /\ Works /\ UNCHANGED <<tests, disk, werr>>
        BY <1>0, <2>1, <2>2, StepKeeps DEF Inside, Open, Ready
    <2>3. CASE /\ faults < MaxFaults /\ faults' = faults + 1 /\ Goes("next")
               /\ tests' = [tests EXCEPT ![Record].status = "blocked"]
               /\ disk' = [disk EXCEPT ![case] = "blocked"] /\ UNCHANGED werr
        <3>1. faults' \in 0..MaxFaults
            BY <1>0, <2>3, TestRunAssumption
        <3>2. Inside
            BY <1>0, <2>1, <2>3, <3>1 DEF Inside
        <3>3. Len(tests) = case /\ case > 0 /\ case \in 0..Len(suite) /\ Len(suite) \in Nat
              /\ tests \in Seq(Entry)
            <4>1. Len(tests) = case /\ case > 0
                BY <1>0, <2>1 DEF Recorded
            <4>. QED  BY <1>0, <4>1, SuiteIs DEF TypeOK, Entry
        <3>4. tests[case] \in Entry /\ tests[case].case = case
            <4>1. case \in 1..case
                BY <3>3
            <4>. QED  BY <1>0, <2>1, <3>3, <4>1 DEF Recorded
        <3>5. PICK x : x = [tests[case] EXCEPT !.status = "blocked"]
            OBVIOUS
        <3>6. x \in Entry /\ x.case = case /\ x.status = "blocked"
            BY <3>4, <3>5 DEF Entry, Status
        <3>7. tests' = [tests EXCEPT ![case] = x]
            BY <2>3, <3>3, <3>4, <3>5 DEF Record
        <3>8. Judged("blocked")
            BY <2>1, <2>3, <3>6, <3>7 DEF Judged, Status, Open, Ready
        <3>. QED  BY <3>2, <3>8, JudgedKeeps
    <2>. QED  BY <1>3, <2>2, <2>3 DEF findingEnvironment
<1>4. CASE runtimeGate
    <2>1. /\ step = "runtime" /\ at = "running" /\ msg = "none"
          /\ UNCHANGED <<outside, ctx, net, runner, engine, saved>>
        BY <1>4 DEF runtimeGate
    <2>2. ASSUME NEW st \in {"fail", "skip", "blocked"}, Concludes(st, "no")  PROVE RunInv'
        BY <1>0, <2>1, <2>2, ConcludesKeeps DEF Status, YesNo, Open, Ready
    <2>3. CASE Goes("gate") /\ Works /\ UNCHANGED <<tests, disk, werr>>
        BY <1>0, <2>1, <2>3, StepKeeps DEF Inside, Open, Ready
    <2>. QED  BY <1>4, <2>2, <2>3 DEF runtimeGate, identityAndCapabilityGate
<1>5. CASE preSpec
    <2>1. /\ step = "gate" /\ at = "running" /\ msg = "none" /\ net' \in {"up", "down"}
          /\ UNCHANGED <<outside, ctx, runner, engine, saved>>
        BY <1>0, <1>5 DEF preSpec, GatePasses, GateRefuses
    <2>2. CASE Concludes("blocked", "no")
        BY <1>0, <2>1, <2>2, ConcludesKeeps DEF Status, YesNo, Open, Ready
    <2>3. CASE Goes("before") /\ Works /\ UNCHANGED <<tests, disk, werr>>
        BY <1>0, <2>1, <2>3, StepKeeps DEF Inside, Open, Ready
    <2>. QED  BY <1>5, <2>2, <2>3 DEF preSpec
<1>6. CASE runningPreActions
    <2>1. /\ step = "before" /\ at = "running" /\ msg = "none"
          /\ UNCHANGED <<outside, ctx, net, runner, engine, saved>>
        BY <1>6 DEF runningPreActions
    <2>2. ASSUME NEW st \in {"fail", "blocked"}, Concludes(st, "yes")  PROVE RunInv'
        BY <1>0, <2>1, <2>2, ConcludesKeeps DEF Status, YesNo, Open, Ready
    <2>3. CASE Goes("body") /\ Works /\ UNCHANGED <<tests, disk, werr>>
        BY <1>0, <2>1, <2>3, StepKeeps DEF Inside, Open, Ready
    <2>. QED  BY <1>6, <2>2, <2>3 DEF runningPreActions
<1>7. CASE runningStatement
    <2>1. /\ step = "body" /\ at = "running" /\ msg = "none"
          /\ UNCHANGED <<outside, ctx, net, runner, case, published, envs, sampling, saved>>
          /\ stmt' \in Nat /\ good' \in YesNo
        BY <1>0, <1>7 DEF runningStatement, runStep, runAssertion, YesNo
    <2>2. CASE Concludes("fail", "yes")
        BY <1>0, <2>1, <2>2, ConcludesKeeps DEF Status, YesNo, Open, Ready
    <2>3. CASE Goes("body") /\ Works /\ UNCHANGED <<tests, disk, werr>>
        BY <1>0, <2>1, <2>3, StepKeeps DEF Inside, Open, Ready
    <2>. QED  BY <1>7, <2>2, <2>3 DEF runningStatement, runStep, runAssertion
<1>8. CASE concludingCase
    <2>1. /\ step = "body" /\ at = "running" /\ msg = "none"
          /\ UNCHANGED <<outside, ctx, net, runner, case, stmt, good, envs, sampling, saved>>
        BY <1>8 DEF concludingCase
    <2>2. CASE Concludes("fail", "yes") /\ UNCHANGED published
        BY <1>0, <2>1, <2>2, ConcludesKeeps DEF Status, YesNo, Open, Ready
    <2>3. CASE Concludes("pass", "no") /\ publish
        BY <1>0, <2>1, <2>3, ConcludesKeeps DEF Status, YesNo, Open, Ready, publish
    <2>. QED  BY <1>8, <2>2, <2>3 DEF concludingCase
<1>. QED  BY <1>1, <1>2, <1>3, <1>4, <1>5, <1>6, <1>7, <1>8

\* The next case has its record.
LEMMA RecordOpens ==
    ASSUME RunInv, openingRecord
    PROVE  RunInv'
<1>0. /\ TypeOK /\ Walks /\ Holds /\ Blank /\ Recorded /\ Sourced /\ ImportsHaveASource
      /\ at = "running" /\ msg = "none" /\ step \in {"next", "start"}
      /\ UNCHANGED <<at, msg, target, left, suite, mode, keepUp, mute, ctx, net, runner, published, envs,
                     sampling, saved>>
      /\ case' = case + 1 /\ stmt' = 0 /\ good' = "yes" /\ case < Len(suite)
    BY DEF RunInv, openingRecord, Running, Entering, Goes, outside
<1>1. /\ DOMAIN suite = 1..Len(suite) /\ Len(suite) \in Nat /\ case \in Nat
      /\ tests \in Seq(Entry) /\ Len(tests) = case
      /\ disk \in [DOMAIN suite -> Status]
    BY <1>0, SuiteIs DEF TypeOK, Entry, Recorded
<1>2. PICK n \in DOMAIN suite : n = case + 1 /\ n \in Nat /\ n \in 1..Len(suite)
    BY <1>0, <1>1
<1>3. \E st \in {"blocked", "none"} :
        /\ tests' = Opens(n, st)
        /\ st = "blocked" => step' = "next" /\ Writes(n, st)
        /\ st = "none" => step' = "applicable" /\ Works /\ UNCHANGED <<disk, werr>>
    BY <1>2 DEF openingRecord, Goes
<1>4. PICK st \in {"blocked", "none"} :
        /\ tests' = Opens(n, st)
        /\ st = "blocked" => step' = "next" /\ Writes(n, st)
        /\ st = "none" => step' = "applicable" /\ Works /\ UNCHANGED <<disk, werr>>
    BY <1>3
<1>5. PICK x : x = [case |-> n, status |-> st, evidence |-> "no"]
    OBVIOUS
<1>51. x.case = n /\ x.status = st
    BY <1>5
<1>52. x \in Entry
    <2>1. st \in Status /\ n \in DOMAIN suite
        BY <1>2 DEF Status
    <2>. QED  BY <1>5, <2>1 DEF Entry, YesNo
<1>6. /\ tests' \in Seq(Entry) /\ Len(tests') = n /\ tests'[n] = x
      /\ DOMAIN tests' = 1..n /\ DOMAIN tests = 1..case
      /\ \A c \in 1..case : tests'[c] = tests[c]
    BY <1>1, <1>2, <1>4, <1>5, <1>52 DEF Opens
<1>7. TypeOK'
    <2>1. faults' \in 0..MaxFaults
        BY <1>0, <1>4, FaultsAre DEF Writes
    <2>2. disk' \in [DOMAIN suite -> Status] /\ werr' \in YesNo
        BY <1>0, <1>1, <1>2, <1>4 DEF TypeOK, Writes, Status, YesNo
    <2>3. case' \in 0..Len(suite)
        BY <1>0, <1>1
    <2>4. tests' \in Seq([case : DOMAIN suite, status : Status, evidence : YesNo])
        BY <1>6 DEF Entry
    <2>5. step' \in {"next", "applicable"}
        BY <1>4
    <2>. QED  BY <1>0, <2>1, <2>2, <2>3, <2>4, <2>5 DEF TypeOK, runner, YesNo
<1>8. Walks' /\ Holds'
    <2>1. step' \in {"next", "applicable"}
        BY <1>4
    <2>. QED  BY <1>0, <2>1 DEF Walks, Holds, Takesdown, runner, Open, Ready
<1>9. Blank' /\ Supplied' /\ Settled'
    <2>1. step' \in {"next", "applicable"}
        BY <1>4
    <2>. QED  BY <1>0, <2>1 DEF Blank, Supplied, Settled, Before, Ready
<1>10. Recorded'
    <2>1. ASSUME NEW c \in 1..case
          PROVE  /\ c \in 1..Len(suite) /\ c # n
                 /\ tests[c].case = c /\ tests[c].status # "none"
                 /\ werr = "no" => disk[c] = tests[c].status
        <3>0. c \in 1..Len(suite) /\ c # n /\ step = "next"
            BY <1>0, <1>1, <1>2 DEF Blank
        <3>. QED  BY <1>0, <3>0 DEF Recorded
    <2>2. ASSUME NEW c \in 1..case
          PROVE  /\ tests'[c].case = c /\ tests'[c].status # "none"
                 /\ werr' = "no" => disk'[c] = tests'[c].status
        <3>1. disk'[c] = disk[c] /\ (werr' = "no" => werr = "no")
            BY <1>1, <1>2, <1>4, <2>1 DEF Writes
        <3>. QED  BY <1>6, <2>1, <3>1
    <2>3. tests'[n].case = n /\ (step' = "applicable" => tests'[n].status = "none")
          /\ (step' = "next" => /\ tests'[n].status # "none"
                                /\ werr' = "no" => disk'[n] = tests'[n].status)
        BY <1>1, <1>2, <1>4, <1>5, <1>6 DEF Writes
    <2>4. \A c \in 1..n : c = n \/ c \in 1..case
        BY <1>1, <1>2
    <2>5. \A c \in 1..n : c < n => c \in 1..case
        BY <1>1, <1>2
    <2>6. step' \in {"next", "applicable"} /\ case' = n /\ n > 0
        BY <1>0, <1>1, <1>2, <1>4
    <2>. QED  BY <1>0, <1>6, <2>2, <2>3, <2>4, <2>5, <2>6 DEF Recorded, Open, Ready
<1>11. Sourced'
    <2> SUFFICES ASSUME NEW p \in published
                 PROVE  \E j \in DOMAIN tests' :
                          /\ p = <<suite[tests'[j].case].id, suite[tests'[j].case].fp>>
                          /\ suite[tests'[j].case].exports = "yes" /\ tests'[j].status = "pass"
        BY <1>0 DEF Sourced
    <2>1. PICK j \in DOMAIN tests :
            /\ p = <<suite[tests[j].case].id, suite[tests[j].case].fp>>
            /\ suite[tests[j].case].exports = "yes" /\ tests[j].status = "pass"
        BY <1>0 DEF Sourced
    <2>2. j \in DOMAIN tests' /\ tests'[j] = tests[j]
        BY <1>1, <1>2, <1>6
    <2>. QED  BY <2>1, <2>2
<1>12. ImportsHaveASource'
    <2> SUFFICES ASSUME NEW i \in DOMAIN tests', tests'[i].status = "pass",
                        suite[tests'[i].case].imports # "none"
                 PROVE  \E j \in 1 .. i - 1 :
                          /\ suite[tests'[j].case].id = suite[tests'[i].case].imports
                          /\ suite[tests'[j].case].fp = suite[tests'[i].case].fp
                          /\ suite[tests'[j].case].exports = "yes" /\ tests'[j].status = "pass"
        BY <1>0 DEF ImportsHaveASource
    <2>0. i # n
        BY <1>5, <1>6
    <2>1. i \in DOMAIN tests /\ i \in Nat /\ i <= case /\ tests'[i] = tests[i]
        BY <1>1, <1>2, <1>6, <2>0
    <2>2. PICK j \in 1 .. i - 1 :
            /\ suite[tests[j].case].id = suite[tests[i].case].imports
            /\ suite[tests[j].case].fp = suite[tests[i].case].fp
            /\ suite[tests[j].case].exports = "yes" /\ tests[j].status = "pass"
        BY <1>0, <2>1 DEF ImportsHaveASource
    <2>3. tests'[j] = tests[j]
        BY <1>1, <1>6, <2>1
    <2>. QED  BY <2>1, <2>2, <2>3
<1>13. Listed' /\ PublishedOnce'
    <2>1. \A j \in DOMAIN tests' : tests'[j].status = "pass" =>
              j \in DOMAIN tests /\ tests'[j] = tests[j]
        BY <1>1, <1>2, <1>5, <1>6
    <2>. QED  BY <1>0, <2>1, PassesStay DEF RunInv
<1>. QED  BY <1>7, <1>8, <1>9, <1>10, <1>11, <1>12, <1>13 DEF RunInv

\* The engine returns.
LEMMA SavingKeeps ==
    ASSUME RunInv, savingSession
    PROVE  RunInv'
<1>0. /\ TypeOK /\ Walks /\ Holds /\ Blank /\ Recorded /\ Sourced /\ ImportsHaveASource
      /\ at = "running" /\ step = "next" /\ case = Len(suite) /\ UNCHANGED <<at, step>>
      /\ UNCHANGED <<outside, ctx, net, table, teardown, networkUp, sess, stopped, cleanupFailed,
                     gathered, case, stmt, good, published, envs, tests, disk, werr>>
      /\ sampling' = {}
    BY DEF RunInv, savingSession, Running, Entering, Goeson, fail, Sends
<1>1. \/ msg' = "casesRun" /\ failure' = failure /\ werr = "no" /\ saved' = Statuses(tests)
      \/ msg' = "stageStopped" /\ failure' = "some"
    BY DEF savingSession, Save, Goeson, fail, Sends
<1>2. faults' \in 0..MaxFaults
    BY <1>0, FaultsAre DEF savingSession
<1>3. /\ DOMAIN suite = 1..Len(suite) /\ Len(suite) \in Nat
      /\ tests \in Seq(Entry) /\ Len(tests) = case
    BY <1>0, SuiteIs DEF TypeOK, Entry, Recorded
<1>4. saved' \in Seq(Status)
    <2>1. Statuses(tests) \in Seq(Status)
        <3>1. ASSUME NEW i \in DOMAIN tests  PROVE tests[i].status \in Status
            <4>1. tests[i] \in Entry
                BY <1>3
            <4>. QED  BY <4>1 DEF Entry
        <3>2. DOMAIN tests = 1..Len(tests)
            BY <1>3
        <3>3. Statuses(tests) \in [1..Len(tests) -> Status] /\ Len(tests) \in Nat
            BY <1>3, <3>1, <3>2 DEF Statuses
        <3>. QED  BY <3>3
    <2>. QED  BY <1>0, <2>1 DEF savingSession, Save, TypeOK
<1>5. TypeOK'
    BY <1>0, <1>1, <1>2, <1>4 DEF TypeOK, outside
<1>6. Walks' /\ Holds'
    BY <1>0, <1>1 DEF Walks, Sendings, Holds, Takesdown, outside
<1>7. Blank' /\ Recorded' /\ Supplied' /\ Sourced' /\ ImportsHaveASource'
    BY <1>0 DEF Blank, Recorded, Supplied, Sourced, ImportsHaveASource, Before, Ready, Open, outside
<1>8. Settled'
    <2>1. CASE msg' = "casesRun" /\ failure' = failure /\ werr = "no" /\ saved' = Statuses(tests)
        <3>1. \A c \in 1..case : /\ tests[c].case = c /\ tests[c].status # "none"
                                 /\ disk[c] = tests[c].status
            BY <1>0, <2>1 DEF Recorded
        <3>. QED  BY <1>0, <1>3, <2>1, <3>1 DEF Settled, Statuses, outside
    <2>2. CASE msg' = "stageStopped" /\ failure' = "some"
        BY <2>2 DEF Settled
    <2>. QED  BY <1>1, <2>1, <2>2
<1>9. Listed' /\ PublishedOnce'
    BY <1>0, PassesStay DEF RunInv, outside
<1>. QED  BY <1>5, <1>6, <1>7, <1>8, <1>9 DEF RunInv

\* A failed run's cases are blocked, after what was recorded of them.
LEMMA BlockingKeeps ==
    ASSUME RunInv, recordBlockedBySetup
    PROVE  RunInv'
<1>0. /\ TypeOK /\ Walks /\ Holds /\ Sourced /\ Settled /\ ImportsHaveASource
      /\ at = "collecting" /\ step = "start" /\ msg = "none" /\ step' = "teardown"
      /\ UNCHANGED <<at, msg, outside, ctx, faults, net, table, teardown, networkUp, sess, failure,
                     stopped, cleanupFailed, engine, werr>>
    BY DEF RunInv, recordBlockedBySetup, Entering, Goes
<1>1. gathered' \in YesNo /\ (Takesdown /\ failure = "some" => net = "down" \/ gathered' = "yes")
    BY <1>0 DEF recordBlockedBySetup, Gathers, gatherFailureData, Takesdown, Holds, TypeOK, YesNo
<1>2. Walks' /\ Holds'
    BY <1>0, <1>1 DEF Walks, Sendings, Holds, Takesdown, outside, engine
<1>3. CASE ~Gathers
    <2>1. UNCHANGED <<tests, disk, saved, gathered>>
        BY <1>3 DEF recordBlockedBySetup
    <2>2. TypeOK'
        BY <1>0, <2>1 DEF TypeOK, outside, engine
    <2>. QED  BY <1>0, <1>2, <2>1, <2>2, RecordsStay DEF outside, engine, Before
<1>4. CASE Gathers
    <2> DEFINE more == [c \in DOMAIN suite |-> [case |-> c, status |-> "blocked", evidence |-> "yes"]]
    <2>1. /\ tests' = tests \o more /\ disk' = [c \in DOMAIN suite |-> "blocked"]
          /\ saved' = Statuses(tests') /\ failure = "some"
        BY <1>4 DEF recordBlockedBySetup, Gathers
    <2>2. DOMAIN suite = 1..Len(suite) /\ Len(suite) \in Nat /\ tests \in Seq(Entry)
        BY <1>0, SuiteIs DEF TypeOK, Entry
    <2>3. more \in Seq(Entry) /\ \A i \in 1..Len(more) : more[i].status = "blocked"
        <3>1. \A c \in DOMAIN suite :
                [case |-> c, status |-> "blocked", evidence |-> "yes"] \in Entry
            BY DEF Entry, Status, YesNo
        <3>. QED  BY <2>2, <3>1
    <2>. HIDE DEF more
    <2>4. /\ tests' \in Seq(Entry) /\ Len(tests') = Len(tests) + Len(more)
          /\ Len(tests) \in Nat /\ Len(more) \in Nat
          /\ \A i \in 1..Len(tests) : tests'[i] = tests[i]
          /\ \A i \in 1..Len(tests') : i \notin 1..Len(tests) => tests'[i].status = "blocked"
        <3>1. /\ tests' \in Seq(Entry) /\ Len(tests') = Len(tests) + Len(more)
              /\ Len(tests) \in Nat /\ Len(more) \in Nat
              /\ \A i \in 1..Len(tests) : tests'[i] = tests[i]
            BY <2>1, <2>2, <2>3
        <3>2. ASSUME NEW i \in 1..Len(tests'), i \notin 1..Len(tests)
              PROVE  tests'[i].status = "blocked"
            <4>1. i - Len(tests) \in 1..Len(more)
                BY <3>1, <3>2
            <4>2. tests'[i] = more[i - Len(tests)]
                BY <2>1, <2>2, <2>3, <3>1, <3>2
            <4>. QED  BY <2>3, <4>1, <4>2
        <3>. QED  BY <3>1, <3>2
    <2>5. saved' \in Seq(Status)
        <3>1. ASSUME NEW i \in DOMAIN tests'  PROVE tests'[i].status \in Status
            <4>1. tests'[i] \in Entry
                BY <2>4
            <4>. QED  BY <4>1 DEF Entry
        <3>2. DOMAIN tests' = 1..Len(tests') /\ Len(tests') \in Nat
            BY <2>4
        <3>3. saved' \in [1..Len(tests') -> Status]
            BY <2>1, <3>1, <3>2 DEF Statuses
        <3>. QED  BY <3>2, <3>3
    <2>6. TypeOK'
        <3>1. disk' \in [DOMAIN suite -> Status]
            BY <2>1 DEF Status
        <3>2. tests' \in Seq([case : DOMAIN suite, status : Status, evidence : YesNo])
            BY <2>4 DEF Entry
        <3>. QED  BY <1>0, <1>1, <2>5, <3>1, <3>2 DEF TypeOK, outside, engine
    <2>7. Blank' /\ Recorded' /\ Supplied' /\ Settled'
        BY <1>0, <2>1 DEF Blank, Recorded, Supplied, Settled, Before
    <2>8. Sourced'
        <3> SUFFICES ASSUME NEW p \in published
                     PROVE  \E j \in DOMAIN tests' :
                              /\ p = <<suite[tests'[j].case].id, suite[tests'[j].case].fp>>
                              /\ suite[tests'[j].case].exports = "yes" /\ tests'[j].status = "pass"
            BY <1>0 DEF Sourced, outside, engine
        <3>1. PICK j \in DOMAIN tests :
                /\ p = <<suite[tests[j].case].id, suite[tests[j].case].fp>>
                /\ suite[tests[j].case].exports = "yes" /\ tests[j].status = "pass"
            BY <1>0 DEF Sourced
        <3>2. j \in 1..Len(tests) /\ j \in DOMAIN tests'
            BY <2>2, <2>4
        <3>. QED  BY <2>4, <3>1, <3>2
    <2>9. ImportsHaveASource'
        <3> SUFFICES ASSUME NEW i \in DOMAIN tests', tests'[i].status = "pass",
                            suite[tests'[i].case].imports # "none"
                     PROVE  \E j \in 1 .. i - 1 :
                              /\ suite[tests'[j].case].id = suite[tests'[i].case].imports
                              /\ suite[tests'[j].case].fp = suite[tests'[i].case].fp
                              /\ suite[tests'[j].case].exports = "yes" /\ tests'[j].status = "pass"
            BY <1>0 DEF ImportsHaveASource, outside
        <3>1. i \in DOMAIN tests /\ i \in 1..Len(tests) /\ tests'[i] = tests[i]
            BY <2>2, <2>4
        <3>2. PICK j \in 1 .. i - 1 :
                /\ suite[tests[j].case].id = suite[tests[i].case].imports
                /\ suite[tests[j].case].fp = suite[tests[i].case].fp
                /\ suite[tests[j].case].exports = "yes" /\ tests[j].status = "pass"
            BY <1>0, <3>1 DEF ImportsHaveASource
        <3>3. j \in 1..Len(tests)
            BY <2>4, <3>1
        <3>. QED  BY <2>4, <3>1, <3>2, <3>3
    <2>10. Listed' /\ PublishedOnce'
        <3>1. \A j \in DOMAIN tests' : tests'[j].status = "pass" =>
                  j \in DOMAIN tests /\ tests'[j] = tests[j]
            BY <2>2, <2>4
        <3>. QED  BY <1>0, <3>1, PassesStay DEF RunInv, outside, engine
    <2>. QED  BY <1>2, <2>6, <2>7, <2>8, <2>9, <2>10 DEF RunInv
<1>. QED  BY <1>3, <1>4

\* The batch goes on to the next preset.
LEMMA NextTargetKeeps ==
    ASSUME RunInv, nextTarget
    PROVE  RunInv'
<1>0. TypeOK /\ Walks /\ Holds
    BY DEF RunInv
<1>1. /\ target < Targets /\ target' = target + 1 /\ mode = "compose" /\ step = "over"
      /\ left' \subseteq left \cup {target}
      /\ at' = "reading" /\ step' = "start" /\ msg' = msg /\ net' = "down" /\ mute' = "no" /\ newRunner
      /\ case' = 0 /\ stmt' = 0 /\ good' = "yes"
      /\ tests' = <<>> /\ disk' = [c \in DOMAIN suite |-> "none"] /\ saved' = <<>> /\ werr' = "no"
      /\ published' = {}
      /\ UNCHANGED <<suite, mode, keepUp, ctx, faults, cleanupFailed, sampling>>
    BY DEF nextTarget, Continues
<1>2. TypeOK'
    <2>1. target' \in 1..Targets /\ left' \subseteq 1..Targets
        BY <1>0, <1>1, TestRunAssumption DEF TypeOK
    <2>2. case' \in 0..Len(suite)
        BY <1>0, <1>1, SuiteIs DEF TypeOK
    <2>3. disk' \in [DOMAIN suite -> Status] /\ saved' \in Seq(Status)
          /\ tests' \in Seq([case : DOMAIN suite, status : Status, evidence : YesNo])
        BY <1>1 DEF Status
    <2>. QED  BY <1>0, <1>1, <2>1, <2>2, <2>3 DEF TypeOK, newRunner, YesNo
<1>3. Walks' /\ Holds'
    BY <1>0, <1>1 DEF Walks, Sendings, Holds, Takesdown, newRunner
<1>4. Blank' /\ Recorded' /\ Supplied' /\ Sourced' /\ Settled' /\ ImportsHaveASource'
    <2>1. msg' = "none"
        BY <1>0, <1>1 DEF Walks
    <2>. QED  BY <1>1, <2>1 DEF Blank, Recorded, Supplied, Sourced, Settled, ImportsHaveASource
<1>5. Listed' /\ PublishedOnce'
    BY <1>1, PassesStay DEF RunInv
<1>. QED  BY <1>2, <1>3, <1>4, <1>5 DEF RunInv

LEMMA EveryStepKeeps == RunInv /\ [Next]_vars => RunInv'
<1> SUFFICES ASSUME RunInv, [Next]_vars  PROVE RunInv'
    OBVIOUS
<1>1. CASE Stage
    BY <1>1, DispatchKeeps, StagesStay, StayingKeeps, RefusedKeeps, BlockingKeeps DEF Stage
<1>2. CASE RunCase
    BY <1>2, RecordOpens, CaseKeeps, SavingKeeps DEF RunCase
<1>3. CASE nextTarget
    BY <1>3, NextTargetKeeps
<1>4. CASE Interrupt \/ Mute \/ UNCHANGED vars
    BY <1>4, NothingKeeps
<1>. QED  BY <1>1, <1>2, <1>3, <1>4 DEF Next, Ended

LEMMA RunInvariant == Spec => []RunInv
BY InvAtFirst, EveryStepKeeps, PTL DEF Spec

-----------------------------------------------------------------------------
(* The results.                                                            *)

\* The types.
THEOREM RunTyped == Spec => []TypeOK
<1>1. RunInv => TypeOK
    BY DEF RunInv
<1>. QED  BY <1>1, RunInvariant, PTL

\* Whatever failed on the way, a run that could take its network down has, or says that
\* it may still be up; and no collector runs on (runmachine.go, collecting).
THEOREM TornDown == Spec => []TornDownOrSaid
<1>1. RunInv => TornDownOrSaid
    <2> SUFFICES ASSUME RunInv, Over  PROVE TornDownOrSaid
        BY DEF TornDownOrSaid
    <2>1. Walks /\ Holds /\ TypeOK
        BY DEF RunInv
    <2>. QED  BY <2>1 DEF TornDownOrSaid, Over, Walks, Holds, Takesdown
<1>. QED  BY <1>1, RunInvariant, PTL

\* What takes a failed run's network down came after its evidence (runmachine.go,
\* collecting): only the teardown says it stopped anything, and it is reached with what
\* the nodes say gathered.
THEOREM EvidenceBeforeTeardown == Spec => EvidenceFirst
<1> DEFINE TakesDown == net = "up" /\ net' = "down" /\ stopped' = "yes" /\ failure = "some"
<1>1. RunInv /\ [Next]_vars => (TakesDown => gathered = "yes") \/ UNCHANGED vars
    <2> SUFFICES ASSUME RunInv, Next, TakesDown  PROVE gathered = "yes"
        OBVIOUS
    <2>0. Holds /\ (stopped = "yes" => msg = "collected" \/ step = "over")
        BY DEF RunInv, Holds
    <2>1. ~UNCHANGED net
        OBVIOUS
    <2>2. CASE tearingDown
        BY <2>0, <2>1, <2>2 DEF tearingDown, Entering, Holds
    <2>3. CASE composingNetwork
        BY <2>0, <2>3 DEF composingNetwork, Entering, Holds, Walks, RunInv
    <2>4. CASE gatingNetwork \/ attachingToNetwork \/ preparingRun \/ preSpec
        BY <2>1, <2>4 DEF gatingNetwork, attachingToNetwork, preparingRun, prepareChain, preSpec,
                     GatePasses, GateRefuses
    <2>5. CASE nextTarget
        BY <2>5 DEF nextTarget, newRunner
    <2>6. CASE \/ dispatch \/ readingDeclaration \/ openingSession \/ reachingNetwork
               \/ readWorkspaceComposed \/ verifyAgainstPlan \/ engineRefused
               \/ recordBlockedBySetup
        BY <2>1, <2>6 DEF dispatch, readingDeclaration, openingSession, reachingNetwork,
                     readWorkspaceComposed, verifyAgainstPlan, engineRefused, recordBlockedBySetup
    <2>7. CASE \/ openingRecord \/ checkingApplicable \/ takingInputs \/ findingEnvironment
               \/ runtimeGate \/ runningPreActions \/ runningStatement \/ concludingCase
               \/ savingSession
        BY <2>1, <2>7 DEF openingRecord, checkingApplicable, takingInputs, findingEnvironment,
                     runtimeGate, runningPreActions, runningStatement, concludingCase, savingSession
    <2>8. CASE Interrupt \/ Mute \/ Ended
        BY <2>1, <2>8 DEF Interrupt, Mute, Ended, vars
    <2>. QED  BY <2>2, <2>3, <2>4, <2>5, <2>6, <2>7, <2>8 DEF Next, Stage, RunCase
<1>2. RunInv /\ [Next]_vars => [TakesDown => gathered = "yes"]_vars
    BY <1>1
<1>. QED  BY <1>2, RunInvariant, PTL DEF Spec, EvidenceFirst

\* A run that is done has one verdict for each case, in memory, in the summary and in
\* the case's own file (engine_impl.go, Run; session_impl.go, Save).
THEOREM OneVerdict == Spec => []OneVerdictEach
<1>1. RunInv => OneVerdictEach
    <2> SUFFICES ASSUME RunInv, at = "done"  PROVE OneVerdictEach
        BY DEF OneVerdictEach
    <2>1. failure = "none"
        BY DEF RunInv, Walks
    <2>. QED  BY <2>1 DEF RunInv, Settled, OneVerdictEach
<1>. QED  BY <1>1, RunInvariant, PTL

\* A case that passed had what it imports from an earlier one that passed in the same
\* environment, the only one that did under its id (prepared.go, inputs and publish).
THEOREM ImportsFromPassed == Spec => []ImportsAreFromPassed
<1>1. RunInv => ImportsAreFromPassed
    BY DEF RunInv, ImportsAreFromPassed
<1>. QED  BY <1>1, RunInvariant, PTL
=============================================================================
