------------------------------ MODULE TestRun ------------------------------
(***************************************************************************)
(* A test run: the machine that walks it                                   *)
(* (internal/testengine/runmachine.go), the engine that runs its cases     *)
(* (engine_impl.go), the interpreter that runs one case                    *)
(* (internal/dsl/interp/run.go) and the session that records them          *)
(* (internal/core/session); and the batch that runs one suite on several   *)
(* chain presets, a run and a workspace each (internal/app/runmatrix.go).  *)
(*                                                                         *)
(* The run reaches a network, by composing it or by attaching to one, lets *)
(* every case have its verdict, gathers what is left and takes down what   *)
(* it brought up.  Any stage may fail, any write of evidence may fail, the *)
(* readiness gate may refuse (ReadinessContract.tla says what its "ok" is  *)
(* worth), and the operator may interrupt at any moment.                   *)
(*                                                                         *)
(* A stage is entered, does its work and sends itself a message; the       *)
(* machine looks at the context before it handles that message and moves.  *)
(***************************************************************************)
EXTENDS Naturals, Sequences

CONSTANTS
    Suites,     \* the suites a run may be given: sequences of cases
    Targets,    \* the most chain presets a batch has
    MaxFaults   \* bound: how many operations fail in one batch

\* A case: whether its document parses, its id, how it applies to the target,
\* the environment it fingerprints to, the case it imports a result from (or
\* "none"), whether it exports one, and its statements.
Case == [doc : {"good", "bad"}, id : STRING, applies : {"runs", "skips", "undeclared", "stale"},
         fp : STRING, imports : STRING, exports : {"yes", "no"}, body : Seq({"do", "expect"})]

ASSUME TestRunAssumption ==
    /\ \A s \in Suites : s \in Seq(Case) /\ s # <<>>
    /\ Targets \in Nat \ {0}
    /\ MaxFaults \in Nat

VARIABLES
    target,     \* the batch's current preset
    left,       \* the earlier ones whose owned network still runs
    suite, mode, keepUp,    \* the request: its cases, "compose" or "attach", KeepUp
    at,         \* the machine's state
    step,       \* how far the state's Enter has come
    msg,        \* the message the state sent itself, "none" while Enter works
    ctx,        \* "live", or "cancelled" by an interrupt
    faults,
    mute,       \* whether a node of the network takes calls and never answers them
    net,        \* whether any node of the network runs, "up" or "down"
    table,      \* whether the run holds a node table to gate, "yes" or "no"
    teardown,   \* whether the run knows how to take the network down
    networkUp, sess, failure, failedIn,     \* the runner's own record
    stopped, cleanupFailed,                 \* what it reports
    gathered,   \* whether a failed run's evidence was gathered from a running network
    case, stmt, good,       \* the engine's case, the interpreter's statement and verdict so far
    tests,      \* the session's records, in the order they were opened
    disk,       \* each case's status.json
    saved,      \* the statuses in session.json, <<>> before the first Save
    werr,       \* whether a record holds a write error for Save to report
    published,  \* the results cases have published: <<id, fingerprint>>
    envs,       \* the environments registered in the session
    sampling    \* the environments whose collector runs

outside == <<target, left, suite, mode, keepUp, mute>>
machine == <<at, step, msg>>
runner == <<table, teardown, networkUp, sess, failure, failedIn, stopped, cleanupFailed, gathered>>
engine == <<case, stmt, good, published, envs, sampling>>
session == <<tests, disk, saved, werr>>
vars == <<outside, machine, ctx, faults, net, runner, engine, session>>

Init ==
    /\ target = 1 /\ left = {}
    /\ suite \in Suites
    /\ mode \in {"compose", "attach"}
    /\ keepUp \in (IF mode = "attach" THEN {"yes"} ELSE {"yes", "no"})
    /\ at = "reading" /\ step = "start" /\ msg = "none"
    /\ ctx = "live" /\ faults = 0 /\ mute = "no"
    /\ net \in (IF mode = "attach" THEN {"up", "down"} ELSE {"down"})
    /\ table = "no" /\ teardown = "unknown" /\ networkUp = "no" /\ sess = "none"
    /\ failure = "none" /\ failedIn = "none"
    /\ stopped = "no" /\ cleanupFailed = "no" /\ gathered = "no"
    /\ case = 0 /\ stmt = 0 /\ good = "yes"
    /\ tests = <<>> /\ disk = [c \in DOMAIN suite |-> "none"] /\ saved = <<>> /\ werr = "no"
    /\ published = {} /\ envs = {} /\ sampling = {}

-----------------------------------------------------------------------------
(* The machine.                                                            *)

Entering(s, st) == at = s /\ step = st /\ msg = "none"

Goes(st) == step' = st /\ UNCHANGED <<at, msg>>
Sends(m) == msg' = m /\ UNCHANGED <<at, step>>

\* runner.fail
fail ==
    /\ failure' = "some" /\ failedIn' = at
    /\ Sends("stageStopped")

Goeson(m) == Sends(m) /\ UNCHANGED <<failure, failedIn>>

\* An operation that fails: by itself, within the bound, or because the run was
\* interrupted.
Fails == \/ ctx = "cancelled" /\ UNCHANGED faults
         \/ faults < MaxFaults /\ faults' = faults + 1

\* Under a cancelled context an operation may still succeed when it does not
\* look at it.
Works == UNCHANGED faults

\* Mutant: a failed run goes back to collecting until it is clean.
NextStateRetries ==
    CASE msg = "stageStopped" -> "collecting"
      [] msg = "declarationRead" -> "opening"
      [] msg = "sessionOpened" -> "reaching"
      [] msg = "networkWayChosen" -> IF mode = "attach" THEN "attaching" ELSE "composing"
      [] msg = "networkReached" -> IF mode = "attach" THEN "running" ELSE "preparing"
      [] msg = "chainPrepared" -> "running"
      [] msg = "casesRun" -> "collecting"
      [] msg = "collected" -> IF failure = "some" THEN "collecting" ELSE "done"

\* Who handles which message, and where it leads.
NextState ==
    CASE msg = "stageStopped" -> "collecting"
      [] msg = "declarationRead" -> "opening"
      [] msg = "sessionOpened" -> "reaching"
      [] msg = "networkWayChosen" -> IF mode = "attach" THEN "attaching" ELSE "composing"
      [] msg = "networkReached" -> IF mode = "attach" THEN "running" ELSE "preparing"
      [] msg = "chainPrepared" -> "running"
      [] msg = "casesRun" -> "collecting"
      [] msg = "collected" -> IF failure = "some" THEN "failed" ELSE "done"

\* Machine.dispatch: a cancelled context ends the Send before the message is
\* handled, and Run returns what it has.
dispatch ==
    /\ msg # "none"
    /\ IF ctx = "cancelled"
       THEN at' = "interrupted" /\ step' = "over"
       ELSE at' = NextState /\ step' = (IF NextState \in {"done", "failed"} THEN "over" ELSE "start")
    /\ msg' = "none"
    /\ UNCHANGED <<outside, ctx, faults, net, runner, engine, session>>

\* The first interrupt (cmd/chainbench/interrupt.go).
Interrupt ==
    /\ ctx = "live" /\ step # "over"
    /\ ctx' = "cancelled"
    /\ UNCHANGED <<outside, machine, faults, net, runner, engine, session>>

\* A node goes on taking calls and stops answering them.
Mute ==
    /\ mute = "no" /\ step # "over"
    /\ mute' = "yes"
    /\ UNCHANGED <<target, left, suite, mode, keepUp, machine, ctx, faults, net, runner, engine,
                   session>>

-----------------------------------------------------------------------------
(* Reading the declaration and opening the session.                        *)

\* Every document is parsed, and they have to name one network, before anything
\* is written.
resolveComposition == \A c \in DOMAIN suite : suite[c].doc = "good"

\* An attaching run parses none of them yet and reads its target from the
\* workspace.
readingDeclaration ==
    /\ Entering("reading", "start")
    /\ \/ /\ mode = "attach" \/ resolveComposition
          /\ Works /\ Goeson("declarationRead")
       \/ /\ mode = "compose" /\ ~resolveComposition
          /\ Works /\ fail
       \/ Fails /\ fail
    /\ UNCHANGED <<outside, ctx, net, table, teardown, networkUp, sess, stopped, cleanupFailed,
                   gathered, engine, session>>

\* An attaching run leaves its session to the engine.
openingSession ==
    /\ Entering("opening", "start")
    /\ \/ /\ Works /\ Goeson("sessionOpened")
          /\ sess' = IF mode = "compose" THEN "open" ELSE sess
       \/ Fails /\ fail /\ UNCHANGED sess
    /\ UNCHANGED <<outside, ctx, net, table, teardown, networkUp, stopped, cleanupFailed, gathered,
                   engine, session>>

reachingNetwork ==
    /\ Entering("reaching", "start")
    /\ Sends("networkWayChosen")
    /\ UNCHANGED <<outside, ctx, faults, net, runner, engine, session>>

-----------------------------------------------------------------------------
(* Reaching the network: composeWorkspace and readWorkspaceComposed.       *)

\* A composition that fails may leave nodes running, and its result carries no
\* way to take them down.
composeWorkspace ==
    \/ /\ Works /\ net' = "up"
       /\ Goes("endpoints") /\ UNCHANGED <<failure, failedIn, networkUp>>
    \/ /\ Fails /\ net' \in {"up", "down"}
       /\ networkUp' = "yes" /\ fail

composingNetwork ==
    /\ Entering("composing", "start")
    /\ composeWorkspace
    /\ UNCHANGED <<outside, ctx, table, teardown, sess, stopped, cleanupFailed, gathered,
                   engine, session>>

\* The endpoints have to be readable; the node table is kept if it is.  The way
\* to take the network down is made here.
readWorkspaceComposed ==
    /\ \/ Entering("composing", "endpoints")
       \/ Entering("attaching", "start")
    /\ \/ /\ Works /\ table' = "yes" /\ Goes("gate")
          /\ UNCHANGED <<failure, failedIn, networkUp>>
       \/ /\ Fails /\ table' = "no" /\ Goes("gate")
          /\ UNCHANGED <<failure, failedIn, networkUp>>
       \/ /\ Fails /\ fail /\ UNCHANGED table
          /\ networkUp' = IF mode = "compose" THEN "yes" ELSE networkUp
    /\ UNCHANGED <<outside, ctx, net, teardown, sess, stopped, cleanupFailed, gathered,
                   engine, session>>

\* What the gate's contract leaves open: it passes a network that runs, perhaps
\* after restarting what was down; it may restart and still refuse; it refuses a
\* cancelled run.  Without a node table there is nothing to gate.
GatePasses == \/ table = "no" /\ UNCHANGED net
              \/ table = "yes" /\ ctx = "live" /\ net' = "up"
GateRefuses == table = "yes" /\ net' \in {net, "up"}

\* A composing run keeps the way to take its network down whether or not the
\* gate passes.
gatingNetwork ==
    /\ Entering("composing", "gate")
    /\ \/ GatePasses /\ Goes("verify") /\ UNCHANGED <<failure, failedIn>>
       \/ GateRefuses /\ fail
    /\ teardown' = "known" /\ networkUp' = "yes"
    /\ UNCHANGED <<outside, ctx, faults, table, sess, stopped, cleanupFailed, gathered,
                   engine, session>>

\* An attaching one keeps what it read only when the gate passes.
attachingToNetwork ==
    /\ Entering("attaching", "gate")
    /\ \/ /\ GatePasses /\ Goeson("networkReached")
          /\ teardown' = "known" /\ networkUp' = "yes"
       \/ GateRefuses /\ fail /\ UNCHANGED <<teardown, networkUp>>
    /\ UNCHANGED <<outside, ctx, faults, table, sess, stopped, cleanupFailed, gathered,
                   engine, session>>

\* The launched network has to be the one planned.
verifyAgainstPlan ==
    /\ Entering("composing", "verify")
    /\ \/ Works /\ Goeson("networkReached")
       \/ Fails /\ fail
    /\ UNCHANGED <<outside, ctx, net, table, teardown, networkUp, sess, stopped, cleanupFailed,
                   gathered, engine, session>>

\* Cross the declared fork and gate again, wait for the height, fund accounts.
prepareChain ==
    \/ Works /\ GatePasses /\ Goeson("chainPrepared")
    \/ Works /\ GateRefuses /\ fail
    \/ Fails /\ fail /\ UNCHANGED net

preparingRun ==
    /\ Entering("preparing", "start")
    /\ prepareChain
    /\ UNCHANGED <<outside, ctx, table, teardown, networkUp, sess, stopped, cleanupFailed, gathered,
                   engine, session>>

-----------------------------------------------------------------------------
(* The engine: one case after the other.                                   *)

This == suite[case]
Record == Len(tests)

\* Opening a record, and writing a verdict into it.  A write that fails is kept
\* for Save; the verdict itself is not lost.
Opens(c, status) == Append(tests, [case |-> c, status |-> status, evidence |-> "no"])
Writes(c, status) ==
    \/ Works /\ disk' = [disk EXCEPT ![c] = status] /\ UNCHANGED werr
    \/ Fails /\ werr' = "yes" /\ UNCHANGED disk

\* The case ends with this verdict.  Evidence is gathered from the network when
\* it was the interpreter that failed it.
Concludes(status, evidence) ==
    /\ tests' = [tests EXCEPT ![Record].status = status, ![Record].evidence = evidence]
    /\ Writes(case, status)
    /\ Goes("next")

Running(st) == Entering("running", st)

\* The top of the loop: the document is parsed and the record opened.
openingRecord ==
    /\ Running("next") \/ Running("start")
    /\ case < Len(suite)
    /\ case' = case + 1
    /\ stmt' = 0 /\ good' = "yes"
    /\ IF suite[case + 1].doc = "bad"
       THEN /\ tests' = Opens(case + 1, "blocked")
            /\ Writes(case + 1, "blocked")
            /\ Goes("next")
       ELSE /\ tests' = Opens(case + 1, "none")
            /\ Works /\ UNCHANGED <<disk, werr>>
            /\ Goes("applicable")
    /\ UNCHANGED <<outside, ctx, net, runner, published, envs, sampling, saved>>

\* Mutant: a declared skip goes on to the next case with no verdict.
checkingApplicableSilently ==
    /\ Running("applicable")
    /\ CASE This.applies = "undeclared" -> Concludes("fail", "no")
         [] This.applies = "skips" -> Goes("next") /\ Works /\ UNCHANGED <<tests, disk, werr>>
         [] OTHER -> Goes("inputs") /\ Works /\ UNCHANGED <<tests, disk, werr>>
    /\ UNCHANGED <<outside, ctx, net, runner, engine, saved>>

\* A declared skip is a skip; an undeclared one is a failure.  A stale
\* declaration waits for the runtime gate.
checkingApplicable ==
    /\ Running("applicable")
    /\ CASE This.applies = "undeclared" -> Concludes("fail", "no")
         [] This.applies = "skips" -> Concludes("skip", "no")
         [] OTHER -> Goes("inputs") /\ Works /\ UNCHANGED <<tests, disk, werr>>
    /\ UNCHANGED <<outside, ctx, net, runner, engine, saved>>

\* Mutant: the environment a result was published in is not compared.
InputsReadyAnywhere ==
    /\ This.exports = "yes" => \A p \in published : p[1] # This.id
    /\ This.imports # "none" => \E p \in published : p[1] = This.imports

\* preparedScope.inputs: nothing is published twice under one id, and what is
\* imported was published in the same environment.
InputsReady ==
    /\ This.exports = "yes" => \A p \in published : p[1] # This.id
    /\ This.imports # "none" => <<This.imports, This.fp>> \in published

takingInputs ==
    /\ Running("inputs")
    /\ IF InputsReady
       THEN Goes("environment") /\ Works /\ UNCHANGED <<tests, disk, werr>>
       ELSE Concludes("blocked", "no")
    /\ UNCHANGED <<outside, ctx, net, runner, engine, saved>>

\* Building an environment starts its collector, which runs until the engine
\* returns.
withCollection == sampling' = sampling \cup {This.fp}

\* An environment is built once per fingerprint.  Its directory may not be made,
\* and it may not be built: then it is registered all the same, and the cases
\* after this one find it and go on with it.
findingEnvironment ==
    /\ Running("environment")
    /\ \/ /\ This.fp \in envs
          /\ Goes("runtime") /\ Works
          /\ UNCHANGED <<envs, sampling, tests, disk, werr>>
       \/ /\ This.fp \notin envs
          /\ envs' = envs \cup {This.fp} /\ withCollection
          /\ Goes("runtime") /\ Works
          /\ UNCHANGED <<tests, disk, werr>>
       \/ /\ This.fp \notin envs /\ faults < MaxFaults
          /\ tests' = [tests EXCEPT ![Record].status = "blocked"]
          /\ faults' = faults + 1 /\ disk' = [disk EXCEPT ![case] = "blocked"] /\ UNCHANGED werr
          /\ Goes("next")
          /\ envs' \in {envs, envs \cup {This.fp}} /\ UNCHANGED sampling
    /\ UNCHANGED <<outside, ctx, net, runner, case, stmt, good, published, saved>>

\* What the probes of the running network may say against a case: another chain,
\* a capability it lacks, or no answer.
identityAndCapabilityGate == {"fail", "skip", "blocked"}

\* A stale declaration fails only once the probes say the case would run.
runtimeGate ==
    /\ Running("runtime")
    /\ \/ \E s \in identityAndCapabilityGate : Concludes(s, "no")
       \/ This.applies = "stale" /\ Concludes("fail", "no")
       \/ This.applies # "stale" /\ Goes("gate") /\ Works /\ UNCHANGED <<tests, disk, werr>>
    /\ UNCHANGED <<outside, ctx, net, runner, engine, saved>>

preSpec ==
    /\ Running("gate")
    /\ \/ GatePasses /\ Goes("before") /\ Works /\ UNCHANGED <<tests, disk, werr>>
       \/ GateRefuses /\ Concludes("blocked", "no")
    /\ UNCHANGED <<outside, ctx, runner, engine, saved>>

-----------------------------------------------------------------------------
(* The interpreter: one case.                                              *)

\* Declared accounts, imported values and pre-actions come before the first
\* statement; a failure of the last two blocks the case.
runningPreActions ==
    /\ Running("before")
    /\ \/ Goes("body") /\ Works /\ UNCHANGED <<tests, disk, werr>>
       \/ \E s \in {"fail", "blocked"} : Concludes(s, "yes")
    /\ UNCHANGED <<outside, ctx, net, runner, engine, saved>>

\* A do statement fails fast.
runStep ==
    /\ This.body[stmt + 1] = "do"
    /\ \/ stmt' = stmt + 1 /\ Goes("body") /\ Works /\ UNCHANGED <<good, tests, disk, werr>>
       \/ Concludes("fail", "yes") /\ UNCHANGED <<stmt, good>>

\* An expect statement that fails is counted and the case goes on.
runAssertion ==
    /\ This.body[stmt + 1] = "expect"
    /\ good' \in {good, "no"}
    /\ stmt' = stmt + 1 /\ Goes("body") /\ Works
    /\ UNCHANGED <<tests, disk, werr>>

runningStatement ==
    /\ Running("body")
    /\ stmt < Len(This.body)
    /\ runStep \/ runAssertion
    /\ UNCHANGED <<outside, ctx, net, runner, case, published, envs, sampling, saved>>

\* What a passed case exports is published for the cases after it.
publish ==
    published' = IF This.exports = "yes" THEN published \cup {<<This.id, This.fp>>} ELSE published

\* On-fail hooks and post-actions leave the verdict alone; a case that passes
\* has to produce what it exports.
concludingCase ==
    /\ Running("body")
    /\ stmt = Len(This.body)
    /\ \/ good = "yes" /\ Concludes("pass", "no") /\ publish
       \/ good = "yes" /\ This.exports = "yes" /\ Concludes("fail", "yes") /\ UNCHANGED published
       \/ good = "no" /\ Concludes("fail", "yes") /\ UNCHANGED published
    /\ UNCHANGED <<outside, ctx, net, runner, case, stmt, good, envs, sampling, saved>>

Statuses(ts) == [i \in DOMAIN ts |-> ts[i].status]

\* The summary of every record.  A write error a record kept is reported once
\* the summary is written.
Save == saved' = Statuses(tests)

\* Either Save's error or the report's ends the engine's run with an error.  The
\* collectors are stopped either way.
savingSession ==
    /\ Running("next")
    /\ case = Len(suite)
    /\ \/ Save /\ werr = "no" /\ Works /\ Goeson("casesRun")
       \/ Save /\ werr = "yes" /\ Works /\ fail
       \/ (Save \/ UNCHANGED saved) /\ Fails /\ fail
    /\ sampling' = {}
    /\ UNCHANGED <<outside, ctx, net, table, teardown, networkUp, sess, stopped, cleanupFailed,
                   gathered, case, stmt, good, published, envs, tests, disk, werr>>

\* The engine could not be wired, or had no session to write to.
engineRefused ==
    /\ Running("start")
    /\ Fails /\ fail
    /\ UNCHANGED <<outside, ctx, net, table, teardown, networkUp, sess, stopped, cleanupFailed,
                   gathered, engine, session>>

-----------------------------------------------------------------------------
(* Collecting, which every run goes through.                               *)

\* Mutant: a run whose cases already have records gathers nothing.
GathersOnce == failure = "some" /\ networkUp = "yes" /\ sess = "open" /\ tests = <<>>

\* Whether a failed run has something to gather from and somewhere to put it.
Gathers == failure = "some" /\ networkUp = "yes" /\ sess = "open"

\* What the nodes still say is there to be gathered while they run.
gatherFailureData == gathered' = IF net = "up" THEN "yes" ELSE gathered

\* A failed run's cases are each given a blocked record with that evidence.
recordBlockedBySetup ==
    /\ Entering("collecting", "start")
    /\ IF Gathers
       THEN /\ tests' = tests \o [c \in DOMAIN suite |->
                          [case |-> c, status |-> "blocked", evidence |-> "yes"]]
            /\ disk' = [c \in DOMAIN suite |-> "blocked"]
            /\ saved' = Statuses(tests')
            /\ gatherFailureData
       ELSE UNCHANGED <<tests, disk, saved, gathered>>
    /\ Goes("teardown")
    /\ UNCHANGED <<outside, ctx, faults, net, table, teardown, networkUp, sess, failure, failedIn,
                   stopped, cleanupFailed, engine, werr>>

\* Mutant: a failed run leaves its network for the operator to look at.
TakesdownClean == keepUp = "no" /\ teardown = "known" /\ failure = "none"

\* A run takes down what it knows how to take down, unless told to keep it.
Takesdown == keepUp = "no" /\ teardown = "known"

\* verb.ChainStop, through which the network comes down; what it cannot stop
\* stays up and is said.
tearingDown ==
    /\ Entering("collecting", "teardown")
    /\ \/ /\ Takesdown /\ ctx = "live" /\ Works
          /\ net' = "down" /\ stopped' = "yes"
          /\ Goeson("collected") /\ UNCHANGED cleanupFailed
       \/ /\ Takesdown /\ Fails
          /\ cleanupFailed' = "yes" /\ failure' = "some"
          /\ Sends("collected") /\ UNCHANGED <<net, stopped, failedIn>>
       \/ /\ ~Takesdown /\ Works
          /\ Goeson("collected") /\ UNCHANGED <<net, stopped, cleanupFailed>>
    /\ UNCHANGED <<outside, ctx, table, teardown, networkUp, sess, gathered, engine, session>>

-----------------------------------------------------------------------------
(* The batch.                                                              *)

\* A batch is prepared for every preset before its first run: one document that
\* does not parse and nothing runs.
prepareMatrix == resolveComposition

\* runMatrix: the next preset is run, in a workspace of its own, unless the
\* batch was interrupted or the last run said it could not clean up.
Continues ==
    /\ target < Targets /\ mode = "compose" /\ prepareMatrix
    /\ ctx = "live" /\ cleanupFailed = "no"

\* A run starts with nothing reached, written or failed.
newRunner ==
    /\ table' = "no" /\ teardown' = "unknown" /\ networkUp' = "no" /\ sess' = "none"
    /\ failure' = "none" /\ failedIn' = "none"
    /\ stopped' = "no" /\ gathered' = "no"

nextTarget ==
    /\ step = "over" /\ Continues
    /\ target' = target + 1
    /\ left' = IF net = "up" THEN left \cup {target} ELSE left
    /\ at' = "reading" /\ step' = "start" /\ UNCHANGED msg
    /\ net' = "down" /\ mute' = "no"
    /\ newRunner
    /\ case' = 0 /\ stmt' = 0 /\ good' = "yes"
    /\ tests' = <<>> /\ disk' = [c \in DOMAIN suite |-> "none"] /\ saved' = <<>> /\ werr' = "no"
    /\ published' = {} /\ envs' = {}
    /\ UNCHANGED <<suite, mode, keepUp, ctx, faults, cleanupFailed, sampling>>

Ended == step = "over" /\ ~Continues /\ UNCHANGED vars

Stage == \/ dispatch \/ readingDeclaration \/ openingSession \/ reachingNetwork
         \/ composingNetwork \/ readWorkspaceComposed \/ gatingNetwork
         \/ attachingToNetwork \/ verifyAgainstPlan \/ preparingRun \/ engineRefused \/ recordBlockedBySetup \/ tearingDown

RunCase == \/ openingRecord \/ checkingApplicable \/ takingInputs \/ findingEnvironment
           \/ runtimeGate \/ preSpec \/ runningPreActions \/ runningStatement
           \/ concludingCase \/ savingSession

Next == Stage \/ RunCase \/ nextTarget \/ Interrupt \/ Mute \/ Ended

\* Where the code calls a node with nothing to end the call but an interrupt: the
\* RPC client has no timeout of its own.  A composition asks what runs already, the
\* preparation asks for heads and sends the funds, pre-actions and statements ask
\* and send (a case that declares a deadline ends them, and then gathers evidence
\* with none), a failed run gathers evidence, and the collectors are waited for
\* while they ask.  The gate and the probes before a case have their own deadlines.
CallsUnbounded ==
    /\ msg = "none"
    /\ \/ at = "composing" /\ step = "start"
       \/ at = "preparing"
       \/ at = "running" /\ step \in {"before", "body"}
       \/ at = "running" /\ step = "next" /\ case = Len(suite) /\ sampling # {}
       \/ at = "collecting" /\ step = "start" /\ Gathers /\ table = "yes"

Unanswered == mute = "yes" /\ ctx = "live" /\ CallsUnbounded

\* What the run calls returns, except a call that no one answers: the gate ends
\* (Gate.tla), the probes, a stop and a launch are bounded by their own timeouts.
Spec == Init /\ [][Next]_vars /\ WF_vars(~Unanswered /\ (Stage \/ RunCase \/ nextTarget))

-----------------------------------------------------------------------------
(* Properties.                                                             *)

YesNo == {"yes", "no"}
Status == {"none", "pass", "fail", "skip", "blocked"}

TypeOK ==
    /\ target \in 1..Targets /\ left \subseteq 1..Targets
    /\ suite \in Suites /\ mode \in {"compose", "attach"} /\ keepUp \in YesNo
    /\ mute \in YesNo
    /\ at \in {"reading", "opening", "reaching", "composing", "attaching", "preparing", "running",
              "collecting", "done", "failed", "interrupted"}
    /\ step \in {"start", "endpoints", "gate", "verify", "next", "applicable", "inputs",
                "environment", "runtime", "before", "body", "teardown", "over"}
    /\ msg \in {"none", "stageStopped", "declarationRead", "sessionOpened", "networkWayChosen",
               "networkReached", "chainPrepared", "casesRun", "collected"}
    /\ ctx \in {"live", "cancelled"} /\ faults \in 0..MaxFaults /\ net \in {"up", "down"}
    /\ teardown \in {"known", "unknown"} /\ sess \in {"none", "open"}
    /\ failure \in {"none", "some"} /\ good \in YesNo /\ werr \in YesNo
    /\ table \in YesNo /\ networkUp \in YesNo
    /\ stopped \in YesNo /\ cleanupFailed \in YesNo /\ gathered \in YesNo
    /\ case \in 0..Len(suite) /\ stmt \in Nat
    /\ tests \in Seq([case : DOMAIN suite, status : Status, evidence : YesNo])
    /\ disk \in [DOMAIN suite -> Status] /\ saved \in Seq(Status)

Over == step = "over"

\* A run that composed its network and was not told to keep it ends with the
\* network down, or says it may still be up: whichever stage failed, whatever the
\* cases did and whichever write was lost, once it knew how to take the network
\* down.  And no collector outlives the engine (runmachine.go, collecting).
TornDownOrSaid ==
    Over => /\ sampling = {}
            /\ at # "interrupted" /\ mode = "compose" /\ keepUp = "no" /\ teardown = "known"
                  => net = "down" \/ cleanupFailed = "yes"

\* A failed run takes nothing down before it has gathered what the nodes say:
\* taking them down is what stops them answering (runmachine.go, collecting).
EvidenceFirst ==
    [][ net = "up" /\ net' = "down" /\ stopped' = "yes" /\ failure = "some"
            => gathered = "yes" ]_vars

\* A run that is done has recorded each case once, in order, with a verdict; the
\* summary it saved and each case's own status file say the same
\* (engine_impl.go, Run; session_impl.go, Save).
OneVerdictEach ==
    at = "done" =>
        /\ Len(tests) = Len(suite)
        /\ saved = Statuses(tests)
        /\ \A c \in DOMAIN suite :
              /\ tests[c].case = c
              /\ tests[c].status # "none"
              /\ disk[c] = tests[c].status

\* A case that passed on an imported result had it from an earlier case that
\* passed in the same environment.
ImportsHaveASource ==
    \A i \in DOMAIN tests :
        LET c == suite[tests[i].case] IN
        tests[i].status = "pass" /\ c.imports # "none" =>
            \E j \in 1 .. i - 1 :
                LET d == suite[tests[j].case] IN
                /\ d.id = c.imports /\ d.fp = c.fp /\ d.exports = "yes"
                /\ tests[j].status = "pass"

\* Of the cases that passed, no two export under one id.
PublishedOnce ==
    \A i, j \in DOMAIN tests :
        LET c == suite[tests[i].case]  d == suite[tests[j].case] IN
        /\ tests[i].status = "pass" /\ c.exports = "yes"
        /\ tests[j].status = "pass" /\ d.exports = "yes"
        /\ c.id = d.id
        => i = j

\* What a case that passed imports is the result of one case, which ran before it in
\* the same environment and passed: no other passed under that id (prepared.go,
\* inputs and publish).
ImportsAreFromPassed == ImportsHaveASource /\ PublishedOnce

\* A batch comes to an end whatever fails, unless it waits for ever, uninterrupted,
\* for a node that took its call and never answers, in one of the calls that have
\* no deadline (runmachine.go, Run; runmatrix.go; rpc/client.go, Dial).
RunEnds == <>(Over /\ ~Continues) \/ <>[]Unanswered

\* What RunMatrix says of a batch that was not told to keep its networks: "each
\* suite finishes and stops before the next begins".
OneNetworkAtATime == keepUp = "no" /\ net = "up" => left = {}

\* What engine_impl.go says of a verdict once it is written: it stands.
VerdictStands ==
    [][ target' = target =>
            \A c \in DOMAIN suite : disk[c] # "none" => disk'[c] = disk[c] ]_vars
=============================================================================
