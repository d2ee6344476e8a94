-------------------------- MODULE FactoryDispatch --------------------------
(***************************************************************************)
(* Prepared attempts of a connection:                                      *)
(* apps/supervisor/src/dispatch-control.ts over local-execution-provider.ts*)
(* and the JobManager, with the paid authority of the Work in the ledger.  *)
(*                                                                         *)
(* A request belongs to one order with one run.  Its events (bound,        *)
(* claimed, stop requested, settled, terminal) are only ever appended.     *)
(* The ledger is a second database connection: a call of it may fail after *)
(* the transaction before it committed, as it does when the supervisor     *)
(* dies between the two.                                                   *)
(***************************************************************************)
EXTENDS JobManager

CONSTANTS
  Dispatchers,  \* handlers of dispatch that may be under way
  Readers       \* handlers of read that may be under way

VARIABLES
  log,        \* [Managed -> the events of the request]
  authority,  \* [Managed -> authority_state of its generation in the ledger]
  late,       \* requests past their deadline
  calls       \* [Callers -> handler state]

dispatchVars == <<order, runs, hold, job, starts, paused, alive, containers, restarts,
                  log, authority, late, calls>>

Callers   == Dispatchers \cup Readers
Requests  == Managed
Outcome   == {"none", "NOT_DISPATCHED", "COMPLETED", "FAILED", "CANCELLED"}
Log       == [bound : BOOLEAN, claimed : BOOLEAN, stopped : BOOLEAN, settled : BOOLEAN,
              terminal : Outcome]
\* "gone": another generation of the Work took its place in the ledger.
Authority == {"none", "prepared", "active", "fenced", "cancelled", "gone"}
Call      == [kind : {"dispatch", "probe", "decide"}, order : Managed, ripe : BOOLEAN,
              claimed : BOOLEAN, state : Open \cup Closed, absent : BOOLEAN]

ASSUME CallSentinel == NoCall \notin Call

DispatchInit ==
  /\ Init
  /\ log = [o \in Managed |-> [bound |-> FALSE, claimed |-> FALSE, stopped |-> FALSE,
                               settled |-> FALSE, terminal |-> "none"]]
  /\ authority = [o \in Managed |-> "none"]
  /\ late = {}
  /\ calls = [c \in Callers |-> NoCall]

Calling(c, kind) == calls[c] # NoCall /\ calls[c].kind = kind
Done(c)          == calls' = [calls EXCEPT ![c] = NoCall]
HasRun(o)        == runs[o] # <<>>
TheRun(o)        == runs[o][1]
ActiveRun(o)     == Busy /\ job.order = o /\ job.n = 1
Answered(o)      == log[o].claimed \/ log[o].stopped \/ log[o].terminal # "none"

\* fenceAuthority leaves the budget of another generation alone; cancelled stays cancelled.
Fence(o) == authority' = [authority EXCEPT ![o] = IF @ \in {"prepared", "active"} THEN "fenced" ELSE @]

Payable(o) == authority[o] = "active" /\ o \notin late
-----------------------------------------------------------------------------
(* prepare *)

\* Intake, order and request are one transaction.  The budget, and after it the worktree
\* and the run, may fail: the request then stays without a run.
Prepare(o) ==
  /\ order[o] = "absent" /\ o \notin late
  /\ order' = [order EXCEPT ![o] = "queued"]
  /\ \/ /\ authority' = [authority EXCEPT ![o] = "prepared"]
        /\ job' = IF Busy THEN job ELSE NewJob(o, 0, TRUE, FALSE, "resolve")
     \/ UNCHANGED <<authority, job>>
  /\ UNCHANGED <<runs, hold, starts, paused, alive, containers, restarts, log, late, calls>>

\* A repeated prepare only makes up for a missing budget.
PrepareAgain(o) ==
  /\ order[o] # "absent" /\ authority[o] = "none"
  /\ authority' = [authority EXCEPT ![o] = "prepared"]
  /\ UNCHANGED <<jobVars, log, late, calls>>
-----------------------------------------------------------------------------
(* dispatch *)

\* Binding the authority precedes the await on the gateway's port; the claim follows it.
Dispatch(c, o) ==
  /\ calls[c] = NoCall /\ HasRun(o) /\ ~Answered(o)
  /\ Metered \/ Injected
  /\ IF Metered
     THEN /\ authority[o] \in {"prepared", "active"} /\ o \notin late
          /\ authority' = [authority EXCEPT ![o] = "active"]
     ELSE UNCHANGED authority
  /\ calls' = [calls EXCEPT ![c] = [kind |-> "dispatch", order |-> o, ripe |-> FALSE,
                                    claimed |-> FALSE, state |-> "planning", absent |-> FALSE]]
  /\ UNCHANGED <<jobVars, log, late>>

\* Slip: the events are not read again inside the claim.
ClaimOnce(o) == o \notin late /\ ~paused

\* The claim transaction, inside executePrepared.
Claimable(o) == ~Answered(o) /\ o \notin late /\ ~paused

Claim(c) ==
  /\ Calling(c, "dispatch") /\ ~Busy
  /\ LET o == calls[c].order IN
       /\ Claimable(o)
       /\ log' = [log EXCEPT ![o] = [@ EXCEPT !.bound = TRUE, !.claimed = TRUE]]
       /\ runs' = [runs EXCEPT ![o][1].kind = "claimed"]
       /\ job' = NewJob(o, 1, FALSE, Metered, "begin")
  /\ Done(c)
  /\ UNCHANGED <<order, hold, starts, paused, alive, containers, restarts, authority, late>>

\* Another run is active, the claim was refused, or the gateway did not open.
DispatchRefused(c) ==
  /\ Calling(c, "dispatch") /\ Done(c)
  /\ UNCHANGED <<jobVars, log, authority, late>>

\* The deadline passes; the timer of executePrepared aborts what is executed.
Deadline(o) ==
  /\ o \notin late /\ late' = late \cup {o}
  /\ job' = IF ActiveRun(o) THEN [job EXCEPT !.abort = "user_cancel"] ELSE job
  /\ UNCHANGED <<dbVars, starts, paused, alive, containers, restarts, log, authority, calls>>

\* The gateway is closed, the authority fenced, and the slot is free.  A fence that fails is
\* noted as a hold, and the attempt is settled all the same: a reader fences again.
FenceFails == UNCHANGED authority /\ hold' = [hold EXCEPT ![job.order] = [clearable |-> FALSE, pids |-> {}]]

Settle ==
  /\ At("closing")
  /\ \/ job.gated /\ Fence(job.order) /\ UNCHANGED hold
     \/ job.gated /\ FenceFails
     \/ ~job.gated /\ UNCHANGED <<authority, hold>>
  /\ log' = [log EXCEPT ![job.order].settled = TRUE]
  /\ job' = NoJob
  /\ UNCHANGED <<order, runs, starts, paused, alive, containers, restarts, late, calls>>

\* Another generation of the Work is prepared, by an order this model does not follow.
Supersede(o) ==
  /\ authority[o] \in {"prepared", "active", "fenced"}
  /\ authority' = [authority EXCEPT ![o] = "gone"]
  /\ UNCHANGED <<jobVars, log, late, calls>>
-----------------------------------------------------------------------------
(* stop *)

\* The tombstone is one transaction; the budget is cancelled after it, which fails for a
\* generation that is gone, and only then the execution.
Stop(o) ==
  /\ HasRun(o)
  /\ log' = [log EXCEPT ![o] = [@ EXCEPT !.bound = TRUE, !.stopped = TRUE]]
  /\ \/ /\ authority[o] \notin {"none", "gone"}
        /\ authority' = [authority EXCEPT ![o] = "cancelled"]
        /\ job' = IF ActiveRun(o) /\ ~Aborted THEN [job EXCEPT !.abort = "user_cancel"] ELSE job
     \/ UNCHANGED <<authority, job>>
  /\ UNCHANGED <<dbVars, starts, paused, alive, containers, restarts, late, calls>>
-----------------------------------------------------------------------------
(* read: the only place where a request becomes terminal *)

\* A restart proves the end of a run only through its recorded processes.
Recoverable(o) == TheRun(o).recovered /\ TheRun(o).recorded # {}

\* Slip: the completion process is not looked for.
RipeProductive(o) ==
  /\ log[o].bound
  /\ \A p \in ProcsOf(o, 1) : p[3] # "completion" => p \notin alive
  /\ \/ ~log[o].claimed /\ log[o].stopped
     \/ log[o].settled /\ Ended(TheRun(o).state)
     \/ Recoverable(o)

\* Slip: a stop that came before the claim waits for a settlement as well.
RipeSettled(o) ==
  /\ log[o].bound
  /\ \A p \in ProcsOf(o, 1) : p \notin alive
  /\ \/ log[o].settled /\ Ended(TheRun(o).state)
     \/ Recoverable(o)

\* What read finds in the events before it asks for containers.
Ripe(o) ==
  /\ log[o].bound
  /\ \A p \in ProcsOf(o, 1) : p \notin alive
  /\ \/ ~log[o].claimed /\ log[o].stopped
     \/ log[o].settled /\ Ended(TheRun(o).state)
     \/ Recoverable(o)

\* The authority is fenced, then one transaction writes the outcome, with the run and the
\* order as they were read.
Terminal(o, claimed, state) ==
  /\ Fence(o)
  /\ IF log[o].terminal # "none" \/ (~claimed /\ log[o].claimed) THEN UNCHANGED <<log, runs, order>>
     ELSE /\ log' = [log EXCEPT ![o].terminal =
               IF ~claimed THEN "NOT_DISPATCHED"
               ELSE CASE state = "ready_for_review" -> "COMPLETED"
                      [] state = "failed"           -> "FAILED"
                      [] OTHER                      -> "CANCELLED"]
          /\ IF Ended(state) THEN UNCHANGED <<runs, order>>
             ELSE /\ runs' = [runs EXCEPT ![o][1].state = "cancelled"]
                  /\ order' = [order EXCEPT ![o] = "cancelled"]

\* Without a verifier to look for there is nothing to wait for.
ReadNow(o) ==
  /\ HasRun(o) /\ log[o].terminal = "none" /\ ~TheRun(o).verifier
  /\ ~ActiveRun(o) /\ Ripe(o)
  /\ Terminal(o, log[o].claimed, TheRun(o).state)
  /\ UNCHANGED <<hold, job, starts, paused, alive, containers, restarts, late, calls>>

\* A read that finds the outcome fences again.
ReadTerminal(o) ==
  /\ log[o].terminal # "none" /\ Fence(o)
  /\ UNCHANGED <<jobVars, log, late, calls>>

ReadProbe(c, o) ==
  /\ calls[c] = NoCall /\ HasRun(o) /\ log[o].terminal = "none" /\ TheRun(o).verifier
  /\ calls' = [calls EXCEPT ![c] = [kind |-> "probe", order |-> o, ripe |-> Ripe(o),
                 claimed |-> log[o].claimed, state |-> TheRun(o).state, absent |-> FALSE]]
  /\ UNCHANGED <<jobVars, log, authority, late>>

\* docker ps: containers are absent, or present, or the daemon does not say.
ProbeContainers(c) ==
  /\ Calling(c, "probe")
  /\ \E absent \in {FALSE} \cup (IF <<calls[c].order, 1>> \in containers THEN {} ELSE {TRUE}) :
       calls' = [calls EXCEPT ![c] = [@ EXCEPT !.kind = "decide", !.absent = absent]]
  /\ UNCHANGED <<jobVars, log, authority, late>>

\* Whether the job is at this run is asked now, everything else was read before.
ReadDecide(c) ==
  /\ Calling(c, "decide") /\ Done(c)
  /\ LET call == calls[c]  o == call.order IN
       IF call.ripe /\ call.absent /\ ~ActiveRun(o)
       THEN Terminal(o, call.claimed, call.state)
       ELSE UNCHANGED <<log, runs, order, authority>>
  /\ UNCHANGED <<hold, job, starts, paused, alive, containers, restarts, late>>
-----------------------------------------------------------------------------
\* Completion and repair go through the ledger: they need the paid authority.
PaidSteps == {<<"checkpoint", "spawn">>, <<"open", "complete">>, <<"complete", "commit">>}

ExecuteDispatched ==
  /\ Execute
  /\ Busy' /\ job.gated /\ <<job.pc, job'.pc>> \in PaidSteps => Payable(job.order)

JobAction ==
  /\ ExecuteDispatched \/ InitializeRun \/ Host \/ Human \/ Shutdown
  /\ UNCHANGED <<log, authority, late, calls>>

\* The spend ledger is recovered as well; it keeps the authority of every Work.
RestartSupervisor ==
  /\ Restart /\ calls' = [c \in Callers |-> NoCall]
  /\ UNCHANGED <<log, authority, late>>

Connection ==
  \/ \E o \in Managed : Prepare(o) \/ PrepareAgain(o) \/ Deadline(o) \/ Supersede(o) \/ Stop(o)
                        \/ ReadNow(o) \/ ReadTerminal(o)
  \/ \E c \in Dispatchers : Claim(c) \/ DispatchRefused(c) \/ \E o \in Managed : Dispatch(c, o)
  \/ \E c \in Readers : ProbeContainers(c) \/ ReadDecide(c) \/ \E o \in Managed : ReadProbe(c, o)

DispatchNext == JobAction \/ RestartSupervisor \/ Connection \/ Settle

DispatchSpec == DispatchInit /\ [][DispatchNext]_dispatchVars

\* The job goes on, what is left on the host ends, and the connection keeps reading, with
\* a daemon that answers in the end.
Reading(o) == ReadNow(o) \/ \E c \in Readers : ReadProbe(c, o)
FairDispatchSpec ==
  /\ DispatchSpec
  /\ WF_dispatchVars((ExecuteDispatched \/ InitializeRun \/ Host) /\ UNCHANGED <<log, authority, late, calls>>)
  /\ WF_dispatchVars(Settle)
  /\ \A o \in Managed : WF_dispatchVars(Reading(o))
  /\ WF_dispatchVars(\E c \in Readers : ProbeContainers(c) \/ ReadDecide(c))
  /\ SF_dispatchVars(\E c \in Readers : ProbeContainers(c) /\ calls'[c].absent)
-----------------------------------------------------------------------------
DispatchTypeOK ==
  /\ JobTypeOK
  /\ log \in [Managed -> Log] /\ authority \in [Managed -> Authority]
  /\ late \subseteq Managed /\ calls \in [Callers -> Call \cup {NoCall}]

IsTerminal(o) == log[o].terminal # "none"

\* A terminal answer comes after the paid authority was fenced, also when a dispatch had
\* bound it and was waiting for its port (read).
TerminalFenced == \A o \in Managed : IsTerminal(o) => authority[o] \in {"fenced", "cancelled", "gone"}

\* Once an attempt is terminal, none of its recorded processes runs and the job is not at
\* it (local-execution-provider.ts).
TerminalQuiet == \A o \in Managed : IsTerminal(o) =>
  ~ActiveRun(o) /\ \A p \in ProcsOf(o, 1) : p \notin alive

\* The outcome a connection reads is the state the run and the order are left in.
TerminalTruth == \A o \in Managed : IsTerminal(o) =>
  /\ TheRun(o).state = CASE log[o].terminal = "COMPLETED"  -> "ready_for_review"
                         [] log[o].terminal = "FAILED" -> "failed"
                         [] OTHER                      -> "cancelled"
  /\ log[o].terminal = "NOT_DISPATCHED" => TheRun(o).recorded = {}

\* A terminal answer is final in all that it says: nothing can still be paid for, nothing
\* it knows of still runs, and run, order and result will stay as it tells them
\* (dispatch-control.ts, jobs.ts).
DispatchSound == DispatchTypeOK /\ TerminalFenced /\ TerminalQuiet /\ TerminalTruth /\ RecordsAgree

\* Every connection gets what BoundAttempt promises.
BA == INSTANCE BoundAttempt WITH
  phase <- [o \in Managed |-> IF IsTerminal(o) THEN log[o].terminal
                              ELSE IF log[o].claimed THEN "claimed" ELSE "open"],
  stopping <- {o \in Managed : log[o].stopped},
  executing <- {o \in Managed : ActiveRun(o)}
ImplementsBoundAttempt == BA!Spec

\* Nothing proves the end of a claimed run whose supervisor died before it recorded a
\* process, or after the outcome of the run and before its settlement.
Unprovable(o) == log[o].claimed /\ ~log[o].settled /\ ~ActiveRun(o) /\
  (TheRun(o).recorded = {} \/ Ended(TheRun(o).state))

\* A run that ended without a process, by a shutdown or because a verifier was unavailable,
\* is held as well.
HeldEarly(o) == TheRun(o).state = "interrupted" /\ TheRun(o).recorded = {}

\* A stopped attempt becomes terminal, unless a crash or a hold left nothing that proves
\* its end: those stay fenced (docs/factory-dispatch.md).
StopEnds == \A o \in Managed :
  log[o].stopped ~> HasRun(o) /\ (IsTerminal(o) \/ Unprovable(o) \/ HeldEarly(o))

\* docs/factory-dispatch.md:7: running attempts remain STOPPING until any labeled verifier
\* containers are absent.
VerifiersAbsent == \A o \in Managed : IsTerminal(o) => <<o, 1>> \notin containers
=============================================================================
