------------------------------ MODULE CloudWork ------------------------------
(***************************************************************************)
(* Hosted execution of a run: cloud-work-control.mjs dispatches it,        *)
(* cloud-queue-consumer.mjs receives its deliveries, and                   *)
(* cloud-work-lifecycle.mjs and cloud-verification.mjs execute, verify and *)
(* reconcile it on the rows of CloudStore.                                 *)
(*                                                                         *)
(* The claim makes one delivery the executor of a run.  Every other        *)
(* delivery (queues deliver at least once), the delayed recovery delivery  *)
(* and every stop request is an observer, which reads the run once and     *)
(* acts on what it read.  Each walks its awaits one by one and may die at  *)
(* any of them.                                                            *)
(*                                                                         *)
(* The sandbox provider is external: a create that was asked for may land  *)
(* later, or never, but not after the deadline plus Grace.                 *)
(***************************************************************************)
EXTENDS CloudStore

CONSTANTS Observers, Nobody

ASSUME CloudAssumption == Nobody \notin Runs \cup (Runs \X {"produce", "verify"})

VARIABLES message,    \* runs whose work message is in the queue
          exec,       \* [Runs -> the executor of the run]
          observer,   \* [Observers -> a delivery or stop handler that reconciles]
          machine     \* [Runs \X Tasks -> the provider's sandbox]

hostVars  == <<message, exec, observer, machine>>
cloudVars == <<budget, op, now, run, resource, verifier, custody, message, exec, observer, machine>>

Tasks    == {"produce", "verify"}
Machines == {"none", "asked", "running", "gone"}
ExecPcs  == {"none", "schedule", "allocate", "create", "receipt", "PREPARING", "READY", "RUNNING",
             "execute", "QUIESCING", "COLLECTING", "collect", "retain", "checks", "caught", "destroy",
             "confirm", "observe", "vclaim", "vallocate", "vcreate", "vreceipt", "verify", "vfailed",
             "vdestroy", "vrecord", "vcleanup", "vread", "finalize", "done"}
Exec     == [pc : ExecPcs, sandbox : BOOLEAN, vsandbox : BOOLEAN,
             status : {"COMPLETED", "FAILED", "THROWN"}]
Observer == [pc : {"idle", "expire", "destroy", "confirm", "verifier", "vdestroy", "vcleanup", "note", "finalize"},
             run : Runs \cup {Nobody}, session : BOOLEAN, vsession : BOOLEAN, clean : BOOLEAN,
             requested : Outcomes]
Idle     == [pc |-> "idle", run |-> Nobody, session |-> FALSE, vsession |-> FALSE, clean |-> FALSE,
             requested |-> "FAILED"]

Trying   == {"schedule", "allocate", "create", "receipt", "PREPARING", "READY", "RUNNING", "execute",
             "QUIESCING", "COLLECTING", "collect", "retain", "checks"}
Verifying == {"vallocate", "vcreate", "vreceipt", "verify"}

In(r, pc)      == exec[r].pc = pc
Step(r, pc)    == exec' = [exec EXCEPT ![r].pc = pc]
Seeing(c, pc)  == observer[c].pc = pc
Then(c, pc)    == observer' = [observer EXCEPT ![c].pc = pc]
Quit(c)        == observer' = [observer EXCEPT ![c] = Idle]
WindowOver(t)  == now >= t + Grace
Set(m, s)      == machine' = [machine EXCEPT ![m] = s]
-----------------------------------------------------------------------------
(* CloudWorkControl: prepare, dispatch and the stop route *)

PrepareBudget(r) ==
  /\ Admitted(r)
  /\ \E c \in Ceilings, p \in Plans :
       CreateBudget(WorkOf(r), BindingOf[r].generation, BindingOf[r].order, c, WorkDeadline, p)
  /\ UNCHANGED <<storeVars, hostVars>>

\* The host looked for a stop or a terminal before this call, which does not.
BindRun(r) == Admitted(r) /\ BindAuthority(BindingOf[r]) /\ UNCHANGED <<storeVars, hostVars>>

\* The send may be accepted, or reach the queue and be reported as failed, or be lost.
Send(r) ==
  /\ Admitted(r) /\ run[r].intent = "SENDING" /\ r \notin message
  /\ message' = message \cup {r}
  /\ UNCHANGED <<storeVars, ledgerVars, exec, observer, machine>>
Reported(r) == /\ \/ r \in message /\ RecordSent(r)
                  \/ RecordUnsent(r)
               /\ UNCHANGED hostVars

\* accept, read and claim of a delivery; the claim decides who executes.
Accept(r)  == r \in message /\ AcceptDelivery(r) /\ UNCHANGED hostVars
Execute(r) ==
  /\ r \in message /\ run[r].intent = "DELIVERED"
  /\ Claim(r)
  /\ Step(r, "schedule")
  /\ UNCHANGED <<message, observer, machine>>
-----------------------------------------------------------------------------
(* executeCloudWork *)

\* The recovery delivery is accepted by the queue, then the sandbox is asked for.
Schedule(r) == In(r, "schedule") /\ Step(r, "allocate")
               /\ UNCHANGED <<storeVars, ledgerVars, message, observer, machine>>

Allocate(r) ==
  /\ In(r, "allocate") /\ Step(r, "create")
  /\ Heartbeat(r) /\ Set(<<r, "produce">>, "asked")
  /\ UNCHANGED <<message, observer>>

Created(r) ==
  /\ In(r, "create") /\ machine[<<r, "produce">>] \in {"running", "gone"}
  /\ exec' = [exec EXCEPT ![r] = [@ EXCEPT !.pc = "receipt", !.sandbox = TRUE]]
  /\ UNCHANGED <<storeVars, ledgerVars, message, observer, machine>>

Receipt(r) == In(r, "receipt") /\ Step(r, "PREPARING") /\ RecordAllocation(r)
              /\ UNCHANGED <<message, observer, machine>>

\* active(), the provider's step and advanceResource.
Progress(r) ==
  /\ exec[r].pc \in {"PREPARING", "READY", "RUNNING", "QUIESCING", "COLLECTING"}
  /\ machine[<<r, "produce">>] = "running"
  /\ Advance(r, exec[r].pc)
  /\ Step(r, CASE exec[r].pc = "PREPARING"  -> "READY"
               [] exec[r].pc = "READY"      -> "RUNNING"
               [] exec[r].pc = "RUNNING"    -> "execute"
               [] exec[r].pc = "QUIESCING"  -> "COLLECTING"
               [] exec[r].pc = "COLLECTING" -> "collect")
  /\ UNCHANGED <<message, observer, machine>>

\* The gateway of executeCloudHarness: every ledger call fenced by the execution lease; its
\* failures as in SpendGateway.  Bound: an operation per phase, whereas the gateway goes on
\* while slots are left (SpendGateway takes several).
Pay(r) ==
  /\ In(r, "execute")
  /\ \E ph \in Phases : LET o == <<r, ph>> IN
       \/ /\ LeaseRunning(r) /\ machine[<<r, "produce">>] = "running"
          /\ \E p \in Plans : Reserve(o, BindingOf[r], p.card, p.perOp, ph)
       \/ LeaseRunning(r) /\ MarkDispatched(o)
       \/ Exists(o) /\ \E p \in Receipts : Settle(o, op[o].reserved, p)
       \/ ReleaseUndispatched(o)
       \/ MarkUnknown(o)
  /\ UNCHANGED <<storeVars, hostVars>>

StartCompletion(r) == /\ In(r, "execute") /\ LeaseRunning(r) /\ BeginCompletion(BindingOf[r])
                      /\ UNCHANGED <<storeVars, hostVars>>

Executed(r) ==
  /\ In(r, "execute") /\ LeaseRunning(r) /\ Completed(BindingOf[r])
  /\ Step(r, "QUIESCING")
  /\ UNCHANGED <<storeVars, ledgerVars, message, observer, machine>>

\* The candidate is read from the sandbox, stored and read back.
Collect(r) ==
  /\ In(r, "collect") /\ machine[<<r, "produce">>] = "running" /\ Step(r, "retain")
  /\ UNCHANGED <<storeVars, ledgerVars, message, observer, machine>>

Retain(r) == In(r, "retain") /\ Step(r, "checks") /\ RetainCustody(r)
             /\ UNCHANGED <<message, observer, machine>>

Checks(r) ==
  /\ In(r, "checks")
  /\ \E passed \in BOOLEAN :
       /\ NoteChecks(r, passed)
       /\ exec' = [exec EXCEPT ![r] = [@ EXCEPT !.pc = "destroy",
                                                 !.status = IF passed THEN "COMPLETED" ELSE "FAILED"]]
  /\ UNCHANGED <<message, observer, machine>>

\* Anything in the try block throws; a failed harness phase fences its authority.
Throw(r) ==
  /\ exec[r].pc \in Trying /\ Step(r, "caught")
  /\ \/ In(r, "execute") /\ FenceAuthority(BindingOf[r])
     \/ UNCHANGED ledgerVars
  /\ UNCHANGED <<storeVars, message, observer, machine>>

\* The catch block records the failure, or throws itself.
Caught(r) ==
  /\ In(r, "caught")
  /\ \/ NoteFailure(r) /\ Step(r, "destroy")
     \/ /\ exec' = [exec EXCEPT ![r] = [@ EXCEPT !.pc = "destroy", !.status = "THROWN"]]
        /\ UNCHANGED <<storeVars, ledgerVars>>
  /\ UNCHANGED <<message, observer, machine>>

\* The finally block: without a sandbox, or when teardown is not proven, the row stays unclean.
Destroy(r) ==
  /\ In(r, "destroy")
  /\ \/ exec[r].sandbox /\ Set(<<r, "produce">>, "gone") /\ Step(r, "confirm")
     \/ UNCHANGED machine /\ Step(r, "observe")
  /\ UNCHANGED <<storeVars, ledgerVars, message, observer>>
Confirm(r) ==
  /\ In(r, "confirm") /\ Step(r, "observe")
  /\ ConfirmCleanup(r, TRUE) \/ UNCHANGED <<storeVars, ledgerVars>>
  /\ UNCHANGED <<message, observer, machine>>

Observed(r) ==
  /\ In(r, "observe")
  /\ Step(r, IF exec[r].status = "THROWN" \/ ~resource[r].clean THEN "done"
             ELSE IF exec[r].status = "COMPLETED" THEN "vclaim" ELSE "finalize")
  /\ UNCHANGED <<storeVars, ledgerVars, message, observer, machine>>

FinalizeRun(r) ==
  /\ In(r, "finalize") /\ Step(r, "done")
  /\ Finalize(r, exec[r].status) \/ UNCHANGED <<storeVars, ledgerVars>>
  /\ UNCHANGED <<message, observer, machine>>

\* While the callback lives a timer extends the lease.
Pulse(r) == exec[r].pc \in Trying \cup {"caught"} /\ Heartbeat(r) /\ UNCHANGED hostVars

\* The callback is killed, or an exception leaves it.
Die(r) == /\ exec[r].pc \notin {"none", "done"} /\ Step(r, "done")
          /\ UNCHANGED <<storeVars, ledgerVars, message, observer, machine>>
-----------------------------------------------------------------------------
(* verifyCloudCandidate.  Only the executor calls it, so its claim is always new. *)

Claimed(r) == In(r, "vclaim") /\ ClaimVerifier(r) /\ Step(r, "vallocate")
              /\ UNCHANGED <<message, observer, machine>>

AllocateVerifier(r) ==
  /\ In(r, "vallocate") /\ VerifierActive(r, "ALLOCATING")
  /\ Set(<<r, "verify">>, "asked") /\ Step(r, "vcreate")
  /\ UNCHANGED <<storeVars, ledgerVars, message, observer>>

CreatedVerifier(r) ==
  /\ In(r, "vcreate") /\ machine[<<r, "verify">>] \in {"running", "gone"}
  /\ exec' = [exec EXCEPT ![r] = [@ EXCEPT !.pc = "vreceipt", !.vsandbox = TRUE]]
  /\ UNCHANGED <<storeVars, ledgerVars, message, observer, machine>>

ReceiptVerifier(r) == In(r, "vreceipt") /\ VerifierAllocated(r) /\ Step(r, "verify")
                      /\ UNCHANGED <<message, observer, machine>>

\* finish may commit and still throw, and is then overwritten by failed.
Verify(r) ==
  /\ In(r, "verify") /\ machine[<<r, "verify">>] = "running"
  /\ \E outcome \in {"PASS", "FAIL"} : FinishVerifier(r, outcome)
  /\ Step(r, "vdestroy") \/ Step(r, "vfailed")
  /\ UNCHANGED <<message, observer, machine>>

ThrowVerifier(r) == /\ exec[r].pc \in Verifying /\ Step(r, "vfailed")
                    /\ UNCHANGED <<storeVars, ledgerVars, message, observer, machine>>

\* The catch block records the failure, or throws itself: the finally block runs all the same.
FailedVerifier(r) ==
  /\ In(r, "vfailed")
  /\ \/ FailVerifier(r) /\ Step(r, "vdestroy")
     \/ /\ exec' = [exec EXCEPT ![r] = [@ EXCEPT !.pc = "vdestroy", !.status = "THROWN"]]
        /\ UNCHANGED <<storeVars, ledgerVars>>
  /\ UNCHANGED <<message, observer, machine>>

DestroyVerifier(r) ==
  /\ In(r, "vdestroy") /\ exec[r].vsandbox
  /\ Set(<<r, "verify">>, "gone") /\ Step(r, "vrecord")
  /\ UNCHANGED <<storeVars, ledgerVars, message, observer>>
RecordVerifier(r) == In(r, "vrecord") /\ VerifierAllocated(r) /\ Step(r, "vcleanup")
                     /\ UNCHANGED <<message, observer, machine>>
CleanupVerifier(r) == /\ In(r, "vcleanup") /\ CleanVerifier(r, TRUE)
                      /\ Step(r, IF exec[r].status = "THROWN" THEN "done" ELSE "vread")
                      /\ UNCHANGED <<message, observer, machine>>

Verified(r) ==
  /\ In(r, "vread")
  /\ exec' = [exec EXCEPT ![r] = [@ EXCEPT !.pc = "finalize",
                 !.status = IF verifier[r].outcome = "UNKNOWN" THEN "FAILED" ELSE exec[r].status]]
  /\ UNCHANGED <<storeVars, ledgerVars, message, observer, machine>>
-----------------------------------------------------------------------------
(* reconcileCloudWork and reconcileCloudVerification *)

\* The read everything after it relies on.
Read(c, r) ==
  /\ Seeing(c, "idle") /\ Admitted(r) /\ run[r].terminal = "none"
  /\ IF Has(r)
     THEN observer' = [observer EXCEPT ![c] =
            [Idle EXCEPT !.pc = IF resource[r].clean THEN "verifier" ELSE "expire", !.run = r,
                         !.session = resource[r].session, !.clean = resource[r].clean,
                         !.requested = IF resource[r].clean /\ r \in custody /\ resource[r].passed
                                       THEN "COMPLETED" ELSE "FAILED"]]
     ELSE /\ run[r].stopped
          /\ observer' = [observer EXCEPT ![c] =
               [Idle EXCEPT !.pc = "finalize", !.run = r, !.requested = "CANCELLED"]]
  /\ UNCHANGED <<storeVars, ledgerVars, message, exec, machine>>

Expire(c) ==
  /\ Seeing(c, "expire")
  /\ ReconcileExpired(observer[c].run)
  /\ IF observer[c].session \/ WindowOver(WorkDeadline) THEN Then(c, "destroy") ELSE Quit(c)
  /\ UNCHANGED <<message, exec, machine>>

\* Slip: deletion is asked for, and taken for done.
RemoveUnconfirmed(m) == m \in DOMAIN machine /\ UNCHANGED machine

\* By name: what runs is deleted, and absence is confirmed.  A create still under way is not seen.
Remove(m) == machine' = [machine EXCEPT ![m] = IF @ = "running" THEN "gone" ELSE @]

DestroyStale(c) ==
  /\ Seeing(c, "destroy") /\ Then(c, "confirm")
  /\ Remove(<<observer[c].run, "produce">>)
  /\ UNCHANGED <<storeVars, ledgerVars, message, exec>>

ConfirmStale(c) ==
  /\ Seeing(c, "confirm")
  /\ ConfirmCleanup(observer[c].run, observer[c].session)
  /\ Then(c, "verifier")
  /\ UNCHANGED <<message, exec, machine>>

\* reconcileVerification: a verifier that may still run is left alone until its window is over.
AfterVerifier(c) == IF observer[c].clean THEN "finalize" ELSE "note"
Reconcile(c) ==
  /\ Seeing(c, "verifier")
  /\ LET v == verifier[observer[c].run] IN
       IF v = NoVerifier THEN Then(c, AfterVerifier(c))
       ELSE IF v.clean THEN Then(c, AfterVerifier(c))
       ELSE /\ WindowOver(v.deadline)
            /\ observer' = [observer EXCEPT ![c] = [@ EXCEPT !.pc = "vdestroy", !.vsession = v.session]]
  /\ UNCHANGED <<storeVars, ledgerVars, message, exec, machine>>
DestroyStaleVerifier(c) ==
  /\ Seeing(c, "vdestroy") /\ Then(c, "vcleanup")
  /\ Remove(<<observer[c].run, "verify">>)
  /\ UNCHANGED <<storeVars, ledgerVars, message, exec>>
CleanStaleVerifier(c) ==
  /\ Seeing(c, "vcleanup") /\ CleanVerifier(observer[c].run, observer[c].vsession)
  /\ Then(c, AfterVerifier(c))
  /\ UNCHANGED <<message, exec, machine>>

NoteInterrupted(c) == Seeing(c, "note") /\ NoteFailure(observer[c].run) /\ Then(c, "finalize")
                      /\ UNCHANGED <<message, exec, machine>>

FinalizeStale(c) ==
  /\ Seeing(c, "finalize") /\ Quit(c)
  /\ Finalize(observer[c].run, observer[c].requested)
  /\ UNCHANGED <<message, exec, machine>>

\* A refused or failed call, or a crash: the next delivery starts from a new read.
GiveUp(c) == /\ ~Seeing(c, "idle") /\ Quit(c)
             /\ UNCHANGED <<storeVars, ledgerVars, message, exec, machine>>

Reconciling(c) == \/ Expire(c) \/ DestroyStale(c) \/ ConfirmStale(c) \/ Reconcile(c)
                  \/ DestroyStaleVerifier(c) \/ CleanStaleVerifier(c) \/ NoteInterrupted(c)
                  \/ FinalizeStale(c)
-----------------------------------------------------------------------------
(* The sandbox provider, external *)

CreateLimit(m) == (IF m[2] = "produce" THEN WorkDeadline ELSE verifier[m[1]].deadline) + Grace
Lands(m) == /\ machine[m] = "asked" /\ now < CreateLimit(m) /\ Set(m, "running")
            /\ UNCHANGED <<storeVars, ledgerVars, message, exec, observer>>
TimesOut(m) == /\ machine[m] = "running" /\ now >= CreateLimit(m) /\ Set(m, "gone")
               /\ UNCHANGED <<storeVars, ledgerVars, message, exec, observer>>
-----------------------------------------------------------------------------
CloudInit == /\ LedgerInit /\ StoreInit
             /\ message = {}
             /\ exec = [r \in Runs |-> [pc |-> "none", sandbox |-> FALSE, vsandbox |-> FALSE,
                                        status |-> "FAILED"]]
             /\ observer = [c \in Observers |-> Idle]
             /\ machine = [m \in Runs \X Tasks |-> "none"]

Dispatching(r) == \/ Admit(r) /\ UNCHANGED hostVars
                  \/ PrepareBudget(r) \/ BindRun(r)
                  \/ ReserveDelivery(r) /\ UNCHANGED hostVars
                  \/ Send(r) \/ Reported(r) \/ Accept(r) \/ Execute(r)
                  \/ StopRun(r) /\ UNCHANGED hostVars
Executing(r) == \/ Schedule(r) \/ Allocate(r) \/ Created(r) \/ Receipt(r) \/ Progress(r) \/ Pay(r)
                \/ StartCompletion(r) \/ Executed(r) \/ Collect(r) \/ Retain(r) \/ Checks(r)
                \/ Throw(r) \/ Caught(r) \/ Destroy(r) \/ Confirm(r) \/ Observed(r) \/ FinalizeRun(r)
                \/ Pulse(r) \/ Die(r)
VerifyingRun(r) == \/ Claimed(r) \/ AllocateVerifier(r) \/ CreatedVerifier(r) \/ ReceiptVerifier(r)
                   \/ Verify(r) \/ ThrowVerifier(r) \/ FailedVerifier(r) \/ DestroyVerifier(r)
                   \/ RecordVerifier(r) \/ CleanupVerifier(r) \/ Verified(r)
CloudTick == Tick /\ UNCHANGED <<storeVars, hostVars>>

CloudNext == \/ \E r \in Runs : Dispatching(r) \/ Executing(r) \/ VerifyingRun(r)
             \/ \E c \in Observers : Reconciling(c) \/ GiveUp(c) \/ \E r \in Runs : Read(c, r)
             \/ \E m \in Runs \X Tasks : Lands(m) \/ TimesOut(m)
             \/ CloudTick

CloudSpec == CloudInit /\ [][CloudNext]_cloudVars

\* Time passes; a delivery is retried (every 15 seconds, retained for longer than a deadline
\* and Grace) until the run ends, and its calls do not fail for ever, although some are
\* refused.  Nothing is assumed of an executor, which may die at any await.
FairCloudSpec ==
  /\ CloudSpec /\ WF_cloudVars(CloudTick)
  /\ \A c \in Observers : /\ \A r \in Runs : SF_cloudVars(Read(c, r))
                          /\ WF_cloudVars(Reconciling(c) \/ GiveUp(c))
  /\ <>[][\A c \in Observers : GiveUp(c) => ~ENABLED Reconciling(c)]_cloudVars
-----------------------------------------------------------------------------
(* Properties. *)

\* Rows and processes keep their shape, and every process is where its rows say: an
\* executor exists only for a claimed run, an observer past its read names its run, and no
\* late write revives a row that was cleaned (the CHECK of execution_resources; failed).
CloudTypeOK ==
  /\ run \in [Runs -> Run \cup {NoRun}] /\ resource \in [Runs -> Resource \cup {NoResource}]
  /\ verifier \in [Runs -> Verifier \cup {NoVerifier}] /\ custody \subseteq Runs
  /\ message \subseteq Runs /\ exec \in [Runs -> Exec] /\ observer \in [Observers -> Observer]
  /\ machine \in [Runs \X Tasks -> Machines]
  /\ \A r \in Runs : Has(r) <=> ~In(r, "none")
  /\ \A r \in Runs : Has(r) => (resource[r].clean <=> resource[r].state = "DESTROYED")
  /\ \A r \in Runs : verifier[r] # NoVerifier => (verifier[r].clean <=> verifier[r].state = "DESTROYED")
  /\ \A c \in Observers : Seeing(c, "idle") <=> observer[c].run = Nobody

\* A run is reported complete only if its paid phases were settled, its candidate is in
\* custody and was judged by a verifier that is gone, and nobody stopped it before
\* (executeCloudHarness, retainCustody, verifyCloudCandidate, finalize).
CompletedProven ==
  \A r \in Runs : Admitted(r) /\ run[r].terminal = "COMPLETED" =>
    /\ ~run[r].stopped /\ run[r].candidate /\ r \in custody
    /\ resource[r].clean /\ resource[r].passed
    /\ verifier[r] # NoVerifier /\ verifier[r].clean /\ verifier[r].outcome \in {"PASS", "FAIL"}
    /\ \A ph \in Phases : op[<<r, ph>>] # NoOp /\ op[<<r, ph>>].state = "settled"

\* The types of the store and of its actors, and what a completed run has shown.
CloudSound == CloudTypeOK /\ CompletedProven

\* Once teardown is confirmed, every operation of the run has been accounted for: none is
\* waiting to be dispatched or to be answered, now or later (confirmCleanup, reserve,
\* markDispatched).
TeardownAccounts ==
  \A r \in Runs : Has(r) /\ resource[r].clean =>
    \A o \in OpsOfRun(r) : op[o].state \in Final \cup {"unknown"}

\* The provider boundary is crossed only for a run that has not been stopped and whose
\* machine runs: an observer fences before it deletes (reconcileExpired, stop).
NoPaymentAfterTeardown ==
  [][\A r \in Runs, ph \in Phases :
       op'[<<r, ph>>] # op[<<r, ph>>] /\ op'[<<r, ph>>].state = "dispatched"
         => ~run[r].stopped /\ machine[<<r, "produce">>] = "running"]_cloudVars

\* A claim is never left open, however its executor ended: while deliveries are retried,
\* the run gets an outcome (claim, reconcileCloudWork).
Terminates == \A r \in Runs : Has(r) ~> Admitted(r) /\ run[r].terminal # "none"

\* A stop that was recorded before the outcome decides it: "Late cancellation wins terminal
\* classification" (stop, finalize, docs/cloud-execution/phase-3).
CancellationWins ==
  \A r \in Runs : Admitted(r) /\ run[r].stopped => run[r].terminal \in {"none", "CANCELLED"}

\* One slot: see WorkerSlot.  The holder is the run with an unclean resource row.
Holder == IF \E r \in Runs : Unclean(r) THEN <<CHOOSE r \in Runs : Unclean(r), "produce">>
          ELSE IF \E r \in Runs : UncleanVerifier(r)
               THEN <<CHOOSE r \in Runs : UncleanVerifier(r), "verify">> ELSE Nobody
Slot == INSTANCE WorkerSlot WITH
  holder   <- Holder,
  used     <- {<<r, "produce">> : r \in {q \in Runs : Has(q)}}
                \cup {<<r, "verify">> : r \in {q \in Runs : verifier[q] # NoVerifier}},
  machines <- {m \in Runs \X Tasks : machine[m] = "running"},
  closed   <- {r \in Runs : Admitted(r) /\ run[r].terminal # "none"}
ImplementsWorkerSlot == Slot!Spec

\* What the Result is built from agrees with the outcome: a run has a candidate in custody
\* exactly if its terminal names one (the assertion RESULT_CUSTODY_MISMATCH of cloudResult).
ResultBound ==
  \A r \in Runs : Admitted(r) /\ run[r].terminal # "none" => (run[r].candidate <=> r \in custody)

\* A checked candidate whose executor is about to claim the sole verifier, within its
\* original lease, is pending: no other delivery decides its outcome
\* (validationResourceState: "bounded handoff to the sole verifier").
HandoffPending ==
  [][\A r \in Runs :
       /\ In(r, "vclaim") /\ ~run[r].stopped /\ run[r].terminal = "none"
       /\ resource[r].passed /\ ~resource[r].failure /\ resource[r].lease > now
       => run'[r].terminal = "none"]_cloudVars
=============================================================================
