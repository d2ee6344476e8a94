----------------------------- MODULE JobManager -----------------------------
(***************************************************************************)
(* The one job a supervisor runs at a time: apps/supervisor/src/jobs.ts,   *)
(* with the agent process of packages/agents, the verifier container of    *)
(* packages/verification, and the two human actions run.start and          *)
(* run.cancel of actions.ts.                                               *)
(*                                                                         *)
(* Every action runs from one await to the next.  The database outlives a  *)
(* restart; the job, the calls under way and nothing else are lost with    *)
(* the supervisor.  Processes and containers belong to the host and may    *)
(* outlive the supervisor that started them.                               *)
(***************************************************************************)
EXTENDS Naturals, Sequences, FiniteSets

CONSTANTS
  Plain,        \* orders started by run.start
  Managed,      \* orders prepared and dispatched over a connection
  Starts,       \* run.start calls that may be under way
  Producer,     \* TRUE iff results are signed (JobManager has a ProducerResults)
  Metered,      \* TRUE iff a dispatched run has a spend gateway
  Injected,     \* TRUE iff the agent was injected by the backend
  MaxRestarts,  \* bound: restarts of the supervisor
  MaxAttempts,  \* bound of the model, above the limit of run.start
  NoJob, NoCall, NoHold

ASSUME OrdersDisjoint == Plain \cap Managed = {}
ASSUME Bounds == MaxRestarts \in Nat /\ MaxAttempts \in Nat
ASSUME Switches == {Producer, Metered, Injected} \subseteq BOOLEAN

VARIABLES
  order,      \* [Orders -> state of the WorkOrder]
  runs,       \* [Orders -> sequence of its runs]
  hold,       \* [Orders -> its last run.recovery_hold that was not cleared]
  job,        \* #active
  starts,     \* [Starts -> run.start waiting for the device owner]
  paused,     \* policy.dispatchPaused
  alive,      \* processes whose group is not absent
  containers, \* <<order, n>> with a labelled verifier container
  restarts

dbVars  == <<order, runs, hold>>
jobVars == <<order, runs, hold, job, starts, paused, alive, containers, restarts>>

Orders    == Plain \cup Managed
Steps     == {"first", "repair", "completion"}
Process   == Orders \X (1..MaxAttempts) \X Steps
Open      == {"planning", "implementing", "verifying"}
Closed    == {"ready_for_review", "failed", "interrupted", "cancelled"}
Startable == {"queued", "failed", "interrupted", "awaiting_environment"}
OrderState == Open \cup Closed \cup {"absent", "queued", "needs_investigation", "awaiting_environment"}
Run  == [state : Open \cup Closed, kind : {"started", "prepared", "claimed"},
         recorded : SUBSET Steps, verifier : BOOLEAN, recovered : BOOLEAN,
         result : {"none", "ready_for_review", "failed", "cancelled"}]
Hold == [clearable : BOOLEAN, pids : SUBSET Process]
Pcs  == {"resolve", "register", "begin", "reproduce", "preflight", "spawn", "agent", "checkpoint",
         "open", "complete", "commit", "verify", "closing"}
Job  == [order : Orders, n : 0..MaxAttempts, prepare : BOOLEAN, gated : BOOLEAN, pc : Pcs,
         abort : {"none", "user_cancel", "service_shutdown"}, step : {"first", "repair"}]

ASSUME Sentinels == NoJob \notin Job /\ NoHold \notin Hold /\ NoCall \notin [order : Orders, fresh : BOOLEAN]

Init ==
  /\ order = [o \in Orders |-> IF o \in Plain THEN "queued" ELSE "absent"]
  /\ runs = [o \in Orders |-> <<>>]
  /\ hold = [o \in Orders |-> NoHold]
  /\ job = NoJob
  /\ starts = [c \in Starts |-> NoCall]
  /\ paused = FALSE /\ alive = {} /\ containers = {} /\ restarts = 0
-----------------------------------------------------------------------------
Busy         == job # NoJob
At(pc)       == Busy /\ job.pc = pc
Aborted      == job.abort # "none"
Attempt      == <<job.order, job.n>>
Agent(step)  == <<job.order, job.n, step>>
ThisRun      == runs[job.order][job.n]
Goto(pc)     == job' = [job EXCEPT !.pc = pc]
ProcsOf(o, n) == {<<o, n, s>> : s \in runs[o][n].recorded}
Awaiting(c)  == starts[c] # NoCall

\* Saving an order moves its updatedAt, which the calls that read it compare.
Outdated(o) == [c \in Starts |-> IF Awaiting(c) /\ starts[c].order = o
                                 THEN [starts[c] EXCEPT !.fresh = FALSE] ELSE starts[c]]

\* One transaction saves the run, its order and the event.
Transition(run, orderState) ==
  /\ runs' = [runs EXCEPT ![job.order][job.n] = run]
  /\ order' = [order EXCEPT ![job.order] = orderState]
  /\ starts' = Outdated(job.order)

\* A run that is over gets one signed result, unless its artifacts cannot be attested.
Ended(state) == state \in {"ready_for_review", "failed", "cancelled"}
Finalize(run) == {run} \cup IF Producer /\ Ended(run.state) /\ run.result = "none"
                           THEN {[run EXCEPT !.result = run.state]} ELSE {}

\* #execute is over: a dispatched job still has to close its gateway and settle.
Conclude(state, orderState) ==
  /\ \E run \in Finalize([ThisRun EXCEPT !.state = state, !.recovered = @ \/ state = "interrupted"]) :
       Transition(run, orderState)
  /\ job' = IF ThisRun.kind = "claimed" THEN [job EXCEPT !.pc = "closing"] ELSE NoJob

\* A run that may have left something running holds its order (run.recovery_hold).
Unresolved(pids, clearable) ==
  /\ Conclude("interrupted", "awaiting_environment")
  /\ hold' = [hold EXCEPT ![job.order] = [clearable |-> clearable, pids |-> pids]]

Fail(orderState) == Conclude("failed", orderState) /\ UNCHANGED hold

\* The catch block of #execute.
Throw ==
  LET state == CASE job.abort = "user_cancel"      -> "cancelled"
                 [] job.abort = "service_shutdown" -> "interrupted"
                 [] OTHER                          -> "failed"
  IN Conclude(state, state) /\ UNCHANGED hold

\* An unavailable verifier holds the order only if results are signed.
Unavailable == IF Producer THEN Unresolved({}, FALSE) ELSE Fail("awaiting_environment")

\* Slip: a hold without recorded processes has nothing to wait for.
ClearableUnrecorded(o) == hold[o] # NoHold =>
  hold[o].clearable /\ hold[o].pids \cap alive = {}

\* clearRecoveryHold: only recorded processes of a run that was implementing, all absent.
Clearable(o) == hold[o] # NoHold =>
  hold[o].clearable /\ hold[o].pids # {} /\ hold[o].pids \cap alive = {}
-----------------------------------------------------------------------------
(* run.start and run.cancel *)

Start(c, o) ==
  /\ ~Awaiting(c) /\ ~paused
  /\ order[o] \in Startable /\ Len(runs[o]) < 2
  /\ starts' = [starts EXCEPT ![c] = [order |-> o, fresh |-> TRUE]]
  /\ UNCHANGED <<dbVars, job, paused, alive, containers, restarts>>

\* The device owner declines, or the start is refused after the confirmation.
StartRefused(c) ==
  /\ Awaiting(c)
  /\ starts' = [starts EXCEPT ![c] = NoCall]
  /\ UNCHANGED <<dbVars, job, paused, alive, containers, restarts>>

NewJob(o, n, prepare, gated, pc) == [order |-> o, n |-> n, prepare |-> prepare, gated |-> gated,
                                     pc |-> pc, abort |-> "none", step |-> "first"]

\* initialize up to its first await: one job, no hold that cannot be cleared.
Initialize(o) ==
  /\ ~Busy /\ Clearable(o)
  /\ job' = NewJob(o, 0, FALSE, FALSE, "resolve")
  /\ hold' = [hold EXCEPT ![o] = NoHold]
  /\ order' = IF hold[o] = NoHold THEN order ELSE [order EXCEPT ![o] = "interrupted"]
  /\ UNCHANGED runs

\* Managed orders are refused here: they need their bound dispatch.
StartConfirmed(c) ==
  /\ Awaiting(c) /\ starts[c].fresh /\ ~paused /\ starts[c].order \in Plain
  /\ LET o == starts[c].order IN
       /\ Initialize(o)
       /\ starts' = [c2 \in Starts |-> IF c2 = c THEN NoCall
                                       ELSE IF hold[o] = NoHold THEN starts[c2] ELSE Outdated(o)[c2]]
  /\ UNCHANGED <<paused, alive, containers, restarts>>

\* The confirmation comes before the job is looked up.
CancelRun(o) ==
  /\ Busy /\ job.order = o /\ ~Aborted
  /\ job' = [job EXCEPT !.abort = "user_cancel"]
  /\ UNCHANGED <<dbVars, starts, paused, alive, containers, restarts>>

SetPaused(p) ==
  /\ paused # p /\ paused' = p
  /\ UNCHANGED <<dbVars, job, starts, alive, containers, restarts>>
-----------------------------------------------------------------------------
(* #initializeRun *)

\* The executor version and the input commit are read, then the worktree is made.
Resolve ==
  /\ At("resolve") /\ ~Aborted /\ Goto("register")
  /\ UNCHANGED <<dbVars, starts, paused, alive, containers, restarts>>

\* A failed start leaves no run: its worktree is removed again.
StartFails ==
  /\ At("resolve") \/ At("register")
  /\ job' = NoJob
  /\ UNCHANGED <<dbVars, starts, paused, alive, containers, restarts>>

\* The order is saved as it was read before the worktree was made.
Register ==
  /\ At("register") /\ ~Aborted /\ ~paused
  /\ Len(runs[job.order]) < MaxAttempts
  /\ runs' = [runs EXCEPT ![job.order] =
       Append(@, [state |-> "planning", kind |-> IF job.prepare THEN "prepared" ELSE "started",
                  recorded |-> {}, verifier |-> FALSE, recovered |-> FALSE, result |-> "none"])]
  /\ order' = [order EXCEPT ![job.order] = "planning"]
  /\ starts' = Outdated(job.order)
  /\ job' = IF job.prepare THEN NoJob ELSE [job EXCEPT !.pc = "begin", !.n = Len(runs[job.order]) + 1]
  /\ UNCHANGED <<hold, paused, alive, containers, restarts>>
-----------------------------------------------------------------------------
(* #execute *)

\* A container that runs to its end is removed; after an abort or a timeout its removal
\* may fail, and the check is unavailable.
VerifierEnds(available) ==
  containers' \in {containers \ {Attempt}} \cup (IF available THEN {} ELSE {containers})

Reproduce ==
  /\ At("begin") /\ Goto("reproduce")
  /\ runs' = [runs EXCEPT ![job.order][job.n].verifier = TRUE]
  /\ containers' = containers \cup {Attempt}
  /\ UNCHANGED <<order, hold, starts, paused, alive, restarts>>

\* No defect to reproduce.
NothingToReproduce ==
  /\ At("begin") /\ Goto("preflight")
  /\ UNCHANGED <<dbVars, starts, paused, alive, containers, restarts>>

Reproduced ==
  /\ At("reproduce") /\ ~Aborted
  /\ Goto("preflight") /\ VerifierEnds(TRUE)
  /\ UNCHANGED <<dbVars, starts, paused, alive, restarts>>

\* The defect was not there, or failed in another way.
NotReproduced ==
  /\ At("reproduce") /\ ~Aborted
  /\ Fail("needs_investigation") /\ VerifierEnds(TRUE)
  /\ UNCHANGED <<paused, alive, restarts>>

ReproductionUnavailable ==
  /\ At("reproduce") /\ VerifierEnds(FALSE)
  /\ IF Aborted THEN Throw ELSE Unavailable
  /\ UNCHANGED <<paused, alive, restarts>>

\* Paid execution without a gateway, and a missing agent, end the run.
Unqualified ==
  /\ At("preflight") /\ Fail("awaiting_environment")
  /\ UNCHANGED <<paused, alive, containers, restarts>>

Implement ==
  /\ At("preflight") /\ ~Aborted /\ (job.gated \/ Injected)
  /\ Transition([ThisRun EXCEPT !.state = "implementing"], "implementing")
  /\ Goto("spawn")
  /\ UNCHANGED <<hold, paused, alive, containers, restarts>>

\* The process starts and its pid is recorded before anything else happens here, unless
\* the supervisor dies between the two (Restart).
Recorded(step) ==
  /\ alive' = alive \cup {Agent(step)}
  /\ runs' = [runs EXCEPT ![job.order][job.n].recorded = @ \cup {step}]

Spawn ==
  /\ At("spawn") /\ Recorded(job.step) /\ Goto("agent")
  /\ UNCHANGED <<order, hold, starts, paused, containers, restarts>>

\* runCodex kills the whole group before it returns.
Reaped(step) == alive' = alive \ {Agent(step)}

\* The agent completed, or yielded at the productive boundary of its gateway; the tree it
\* left is checked, with a gateway, before completion.
Produced ==
  /\ At("agent") /\ ~Aborted /\ Reaped(job.step)
  /\ IF job.gated
     THEN Goto("checkpoint") /\ containers' = containers \cup {Attempt}
     ELSE Goto("commit") /\ UNCHANGED containers
  /\ UNCHANGED <<dbVars, starts, paused, restarts>>

TimedOut ==
  /\ At("agent") /\ ~Aborted /\ Reaped(job.step)
  /\ Unresolved({Agent(job.step)}, TRUE)
  /\ UNCHANGED <<paused, containers, restarts>>

\* Slip: nobody listens to the abort while the agent runs.
AgentFailsUnasked ==
  /\ At("agent") /\ ~Aborted /\ Reaped(job.step) /\ Throw
  /\ UNCHANGED <<paused, containers, restarts>>

\* The agent failed, or the abort ended it.
AgentFails ==
  /\ At("agent") /\ Reaped(job.step) /\ Throw
  /\ UNCHANGED <<paused, containers, restarts>>

CheckpointPasses ==
  /\ At("checkpoint") /\ ~Aborted /\ Goto("open") /\ VerifierEnds(TRUE)
  /\ UNCHANGED <<dbVars, starts, paused, alive, restarts>>

\* One repair, by a second process behind a new gateway.
CheckpointRepairs ==
  /\ At("checkpoint") /\ ~Aborted /\ job.step = "first" /\ VerifierEnds(TRUE)
  /\ job' = [job EXCEPT !.pc = "spawn", !.step = "repair"]
  /\ UNCHANGED <<dbVars, starts, paused, alive, restarts>>

CheckpointFails ==
  /\ At("checkpoint") /\ Throw /\ VerifierEnds(FALSE)
  /\ UNCHANGED <<paused, alive, restarts>>

\* The ledger moves to its completion phase and the read-only process starts.
OpenCompletion ==
  /\ At("open") /\ Recorded("completion") /\ Goto("complete")
  /\ UNCHANGED <<order, hold, starts, paused, containers, restarts>>

Completed ==
  /\ At("complete") /\ ~Aborted /\ Reaped("completion") /\ Goto("commit")
  /\ UNCHANGED <<dbVars, starts, paused, containers, restarts>>

CompletionFails ==
  /\ At("complete") /\ Reaped("completion") /\ Throw
  /\ UNCHANGED <<paused, containers, restarts>>

\* The candidate is committed whatever was asked meanwhile, and verified.
Commit ==
  /\ At("commit") /\ Goto("verify")
  /\ Transition([ThisRun EXCEPT !.state = "verifying", !.verifier = TRUE], "verifying")
  /\ containers' = containers \cup {Attempt}
  /\ UNCHANGED <<hold, paused, alive, restarts>>

\* Slip: the abort is not looked at after verification.
VerifiedAnyway ==
  /\ At("verify") /\ VerifierEnds(TRUE)
  /\ Conclude("ready_for_review", "ready_for_review")
  /\ UNCHANGED <<hold, paused, alive, restarts>>

Verified ==
  /\ At("verify") /\ ~Aborted /\ VerifierEnds(TRUE)
  /\ Conclude("ready_for_review", "ready_for_review")
  /\ UNCHANGED <<hold, paused, alive, restarts>>

ChecksFail ==
  /\ At("verify") /\ ~Aborted /\ VerifierEnds(TRUE) /\ Fail("failed")
  /\ UNCHANGED <<paused, alive, restarts>>

VerificationUnavailable ==
  /\ At("verify") /\ VerifierEnds(FALSE)
  /\ IF Aborted THEN Throw ELSE Unavailable
  /\ UNCHANGED <<paused, alive, restarts>>

\* Anything else that throws between two steps of #execute.
StepThrows ==
  /\ At("begin") \/ At("preflight") \/ At("spawn") \/ At("open") \/ At("commit")
  /\ Throw
  /\ UNCHANGED <<paused, alive, containers, restarts>>
-----------------------------------------------------------------------------
(* Results, the host, and the supervisor's own end *)

\* Reading the result of a run that is over makes up for one that was not signed.
ReadResult(o) ==
  /\ \E n \in DOMAIN runs[o] : \E run \in Finalize(runs[o][n]) :
       run # runs[o][n] /\ runs' = [runs EXCEPT ![o][n] = run]
  /\ UNCHANGED <<order, hold, job, starts, paused, alive, containers, restarts>>

\* A process or a container nobody waits for any more comes to its end.
Exit(p) ==
  /\ p \in alive /\ ~(Busy /\ p[1] = job.order /\ p[2] = job.n)
  /\ alive' = alive \ {p}
  /\ UNCHANGED <<dbVars, job, starts, paused, containers, restarts>>

ExitContainer(a) ==
  /\ a \in containers /\ ~(Busy /\ a = Attempt)
  /\ containers' = containers \ {a}
  /\ UNCHANGED <<dbVars, job, starts, paused, alive, restarts>>

\* The server closes and waits for the job.
Shutdown ==
  /\ Busy /\ ~Aborted
  /\ job' = [job EXCEPT !.abort = "service_shutdown"]
  /\ UNCHANGED <<dbVars, starts, paused, alive, containers, restarts>>

\* A process that was started and not yet recorded.
Unrecorded == CASE At("spawn") -> {{}, {Agent(job.step)}}
                [] At("open")  -> {{}, {Agent("completion")}}
                [] OTHER       -> {{}}

NeedsRecovery(r) == r.state \in Open /\ r.kind # "prepared"

\* Every recorded process group of a run that was implementing is absent.
WorkerGone(o, n) ==
  /\ runs[o][n].state = "implementing" /\ runs[o][n].recorded # {}
  /\ \A p \in ProcsOf(o, n) : p \notin alive

\* #recoverInterrupted, in the constructor.
RecoverInterrupted ==
  LET open(o) == {n \in DOMAIN runs[o] : NeedsRecovery(runs[o][n])}
      gone(o) == \A n \in open(o) : WorkerGone(o, n)
  IN /\ runs' = [o \in Orders |-> [n \in DOMAIN runs[o] |->
            IF n \in open(o) THEN [runs[o][n] EXCEPT !.state = "interrupted", !.recovered = TRUE]
            ELSE runs[o][n]]]
     /\ order' = [o \in Orders |-> IF open(o) = {} THEN order[o]
                                   ELSE IF gone(o) THEN "interrupted" ELSE "awaiting_environment"]
     /\ hold' = [o \in Orders |-> IF open(o) = {} \/ gone(o) THEN hold[o]
            ELSE [clearable |-> \A n \in open(o) : runs[o][n].state = "implementing",
                  pids |-> UNION {ProcsOf(o, n) : n \in open(o)}]]

\* The supervisor dies, anywhere, and starts again.
Restart ==
  /\ restarts < MaxRestarts /\ restarts' = restarts + 1
  /\ \E spawned \in Unrecorded : alive' = alive \cup spawned
  /\ RecoverInterrupted
  /\ job' = NoJob /\ starts' = [c \in Starts |-> NoCall]
  /\ UNCHANGED <<paused, containers>>
-----------------------------------------------------------------------------
Execute ==
  \/ Reproduce \/ NothingToReproduce \/ Reproduced \/ NotReproduced \/ ReproductionUnavailable
  \/ Unqualified \/ Implement \/ Spawn \/ Produced \/ TimedOut \/ AgentFails
  \/ CheckpointPasses \/ CheckpointRepairs \/ CheckpointFails
  \/ OpenCompletion \/ Completed \/ CompletionFails
  \/ Commit \/ Verified \/ ChecksFail \/ VerificationUnavailable \/ StepThrows

InitializeRun == Resolve \/ StartFails \/ Register

Host == \/ \E p \in Process : Exit(p)
        \/ \E a \in Orders \X (1..MaxAttempts) : ExitContainer(a)

Human == \/ \E c \in Starts : StartRefused(c) \/ StartConfirmed(c) \/ \E o \in Plain : Start(c, o)
         \/ \E o \in Orders : CancelRun(o)
         \/ \E p \in BOOLEAN : SetPaused(p)
         \/ \E o \in Orders : ReadResult(o)

JobStep == Execute \/ InitializeRun

Next == JobStep \/ Host \/ Human \/ Shutdown \/ Restart

Spec     == Init /\ [][Next]_jobVars
\* Awaits of the job end: its processes and containers have time limits of their own.
FairSpec == Spec /\ WF_jobVars(JobStep)
-----------------------------------------------------------------------------
JobTypeOK ==
  /\ order \in [Orders -> OrderState] /\ runs \in [Orders -> Seq(Run)]
  /\ hold \in [Orders -> Hold \cup {NoHold}]
  /\ job \in Job \cup {NoJob}
  /\ starts \in [Starts -> [order : Orders, fresh : BOOLEAN] \cup {NoCall}]
  /\ paused \in BOOLEAN /\ alive \subseteq Process
  /\ containers \subseteq Orders \X (1..MaxAttempts) /\ restarts \in 0..MaxRestarts

\* A run that is not over is the one the job is at, or was prepared and not claimed: a
\* restart leaves none behind (#recoverInterrupted).
Attended == \A o \in Orders : \A n \in DOMAIN runs[o] :
  runs[o][n].state \in Open => (Busy /\ Attempt = <<o, n>>) \/ runs[o][n].kind = "prepared"

\* While a later run of an order is executed, no process of an earlier one is left: the
\* recovery hold of a run whose worker was not seen to end keeps the order from starting.
OneWorker == \A p \in alive :
  Busy /\ job.order = p[1] /\ job.n > 0 => p[2] = job.n

\* An order has at most two runs, whatever was confirmed late (run.start), and each is
\* attended to, alone.
RunsBounded == Attended /\ OneWorker /\ \A o \in Orders : Len(runs[o]) <= 2

\* What an order says is what its last run says, whoever saved it last: jobs.ts saves a copy
\* of the order it read before two awaits.
OrderFollowsRun == \A o \in Orders : runs[o] # <<>> =>
  LET state == runs[o][Len(runs[o])].state
  IN order[o] \in CASE state = "failed"      -> {"failed", "needs_investigation", "awaiting_environment"}
                    [] state = "interrupted" -> {"interrupted", "awaiting_environment"}
                    [] OTHER                 -> {state}

\* A signed result is frozen: neither a restart, a late transition nor a reconciliation may
\* make the run something else afterwards (producer-results.ts, jobs.ts).
ResultTrue == \A o \in Orders : \A n \in DOMAIN runs[o] :
  runs[o][n].result # "none" => runs[o][n].result = runs[o][n].state

\* The three records of an attempt, saved at different times, agree.
RecordsAgree == OrderFollowsRun /\ ResultTrue

\* A run that was asked to end, by its owner or by the server, never becomes ready.
AbortWins == [][\A o \in Orders : \A n \in DOMAIN runs[o] :
  runs'[o][n].state = "ready_for_review" /\ runs[o][n].state # "ready_for_review" => ~Aborted]_jobVars

\* A run that was aborted comes to its end and frees the slot.
AbortEnds == (Busy /\ Aborted) ~> ~Busy
=============================================================================
