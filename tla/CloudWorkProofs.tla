-------------------------- MODULE CloudWorkProofs --------------------------
(***************************************************************************)
(* Proofs about the rows of hosted execution, for every set of runs,       *)
(* observers and Works and every bound.                                    *)
(*                                                                         *)
(* A stop that was recorded decides the outcome.  Finalize reads the stop  *)
(* in its own transaction; what has to be shown is that no stop is         *)
(* recorded after another outcome.  stop looks for an outcome first.       *)
(* recordDeliverySend does not when it stops a validation run whose send   *)
(* failed: it is safe because a run that was claimed has been delivered,   *)
(* and a delivered run is never again one whose send may fail.             *)
(*                                                                         *)
(* The paid calls of a run are steps of the ledger and end with its        *)
(* machine.  A machine and a verifier exist only while their run holds the *)
(* one slot, which is what WorkerSlot promises.  A run that completed has  *)
(* shown it: its executor wrote the candidate, its verifier passed it, and *)
(* what each process remembers of its run agrees with the rows.            *)
(***************************************************************************)
EXTENDS CloudWork, SpendLedgerProofs

RowsTyped ==
  /\ now \in Nat
  /\ run \in [Runs -> Run \cup {NoRun}]
  /\ resource \in [Runs -> Resource \cup {NoResource}]

\* A claim is made for a delivered run only, and delivery is for good.
ClaimedDelivered == \A r \in Runs : Has(r) => Admitted(r) /\ run[r].intent = "DELIVERED"

\* A run that ends without a stop was claimed.
EndedDelivered == \A r \in Runs :
  Admitted(r) /\ run[r].terminal # "none" /\ ~run[r].stopped => run[r].intent = "DELIVERED"

StopInv == RowsTyped /\ ClaimedDelivered /\ EndedDelivered /\ CancellationWins

\* Whatever moves neither a run nor its resource.
RowsKept == UNCHANGED <<run, resource>> /\ now' \in {now, now + 1}

\* A method that writes a resource only, of a run that has one.
ResourceWritten(r) ==
  /\ Has(r) /\ UNCHANGED <<run, now>>
  /\ \E row \in Resource : resource' = [resource EXCEPT ![r] = row]

RunMethod(r) ==
  \/ Admit(r) \/ ReserveDelivery(r) \/ StopRun(r) \/ RecordSent(r) \/ RecordUnsent(r) \/ AcceptDelivery(r)
  \/ run[r].intent = "DELIVERED" /\ Claim(r)
  \/ \E v \in Outcomes : Finalize(r, v)

\* The executor notes its checks, once.
Checked(r) == In(r, "checks") /\ exec'[r].pc = "destroy"

ResourceMethod(r) ==
  \/ Heartbeat(r) \/ RecordAllocation(r) \/ NoteFailure(r)
  \/ Checked(r) /\ \E passed \in BOOLEAN : NoteChecks(r, passed)
  \/ \E state \in {"PREPARING", "READY", "RUNNING", "QUIESCING", "COLLECTING"} : In(r, state) /\ Advance(r, state)
  \/ \E session \in BOOLEAN : ConfirmCleanup(r, session)

LEMMA SentinelsApart == NoRun \notin Run /\ NoResource \notin Resource /\ WorkDeadline \in Nat
BY StoreAssumption, LedgerAssumption DEF Deadlines

LEMMA SoonerTyped ==
  ASSUME NEW t \in Nat
  PROVE  Sooner(t) \in Nat
BY SentinelsApart DEF Sooner

LEMMA RowsStay ==
  ASSUME StopInv, RowsKept
  PROVE  StopInv'
<1>1. RowsTyped' BY DEF StopInv, RowsTyped, RowsKept
<1> QED BY <1>1 DEF StopInv, RowsKept, ClaimedDelivered, EndedDelivered, CancellationWins, Has, Admitted

LEMMA Written ==
  ASSUME StopInv, NEW r \in Runs, ResourceWritten(r)
  PROVE  StopInv'
<1> PICK row \in Resource : resource' = [resource EXCEPT ![r] = row] BY DEF ResourceWritten
<1>1. RowsTyped' BY DEF StopInv, RowsTyped, ResourceWritten
<1>2. \A q \in Runs : Has(q)' => Has(q)
  BY DEF Has, ResourceWritten, StopInv, RowsTyped
<1> QED BY <1>1, <1>2 DEF StopInv, ResourceWritten, ClaimedDelivered, EndedDelivered, CancellationWins, Admitted

LEMMA ResourceMethodWrites ==
  ASSUME StopInv, NEW r \in Runs, ResourceMethod(r)
  PROVE  ResourceWritten(r)
<1> USE SentinelsApart DEF StopInv, RowsTyped, ResourceWritten
<1>1. Has(r) => resource[r] \in Resource BY DEF Has
<1>2. CASE Heartbeat(r)
  <2>1. Sooner(now + 1) \in Nat BY SoonerTyped
  <2> QED BY <1>1, <1>2, <2>1 DEF Heartbeat, Leased, Unclean, Resource, ledgerVars
<1>3. CASE RecordAllocation(r)
  BY <1>1, <1>3 DEF RecordAllocation, Unclean, Resource, ledgerVars
<1>4. CASE NoteFailure(r)
  BY <1>1, <1>4 DEF NoteFailure, Resource, ledgerVars
<1>5. ASSUME NEW passed \in BOOLEAN, NoteChecks(r, passed) PROVE ResourceWritten(r)
  BY <1>1, <1>5 DEF NoteChecks, Resource, ledgerVars
<1>6. ASSUME NEW state \in {"PREPARING", "READY", "RUNNING", "QUIESCING", "COLLECTING"}, Advance(r, state)
      PROVE  ResourceWritten(r)
  BY <1>1, <1>6 DEF Advance, Leased, Unclean, Resource, ledgerVars
<1>7. ASSUME NEW session \in BOOLEAN, ConfirmCleanup(r, session) PROVE ResourceWritten(r)
  BY <1>1, <1>7 DEF ConfirmCleanup, Resource
<1> QED BY <1>2, <1>3, <1>4, <1>5, <1>6, <1>7 DEF ResourceMethod

\* What has to be shown of the row that is written.
LEMMA RunWritten ==
  ASSUME StopInv, NEW r \in Runs, NEW row \in Run,
         run' = [run EXCEPT ![r] = row],
         resource' \in [Runs -> Resource \cup {NoResource}], now' = now,
         \A q \in Runs : Has(q)' => Has(q),
         Has(r) => row.intent = "DELIVERED",
         row.terminal # "none" => row.stopped \/ row.intent = "DELIVERED",
         row.stopped => row.terminal \in {"none", "CANCELLED"}
  PROVE  StopInv'
<1>1. \A q \in Runs : run'[q] = IF q = r THEN row ELSE run[q]
  BY DEF StopInv, RowsTyped
<1>2. row # NoRun BY SentinelsApart
<1>3. RowsTyped' BY DEF StopInv, RowsTyped
<1>4. ClaimedDelivered'
  BY <1>1, <1>2 DEF StopInv, ClaimedDelivered, Admitted
<1>5. ASSUME NEW q \in Runs, Admitted(q)'
      PROVE  /\ run'[q].terminal # "none" /\ ~run'[q].stopped => run'[q].intent = "DELIVERED"
             /\ run'[q].stopped => run'[q].terminal \in {"none", "CANCELLED"}
  <2>1. CASE q = r BY <1>1, <2>1
  <2>2. CASE q # r BY <1>1, <1>5, <2>2 DEF StopInv, EndedDelivered, CancellationWins, Admitted
  <2> QED BY <2>1, <2>2
<1> QED BY <1>3, <1>4, <1>5 DEF StopInv, EndedDelivered, CancellationWins

\* A row of one run is written, and its resource only if it has one.
LEMMA RunMethodKeeps ==
  ASSUME StopInv, NEW r \in Runs, RunMethod(r)
  PROVE  StopInv'
<1> USE SentinelsApart DEF StopInv, RowsTyped, ClaimedDelivered, EndedDelivered, CancellationWins
<1>0. Admitted(r) => run[r] \in Run BY DEF Admitted
<1>1. CASE Admit(r)
  BY <1>1, <1>0 DEF Admit, Admitted, Has, Run, Intents, Outcomes, ledgerVars
<1>2. CASE ReserveDelivery(r)
  BY <1>2, <1>0 DEF ReserveDelivery, Open, Admitted, Has, Run, Intents, Outcomes, ledgerVars
<1>3. CASE RecordSent(r)
  BY <1>3, <1>0 DEF RecordSent, Admitted, Has, Run, Intents, Outcomes, ledgerVars
<1>4. CASE AcceptDelivery(r)
  BY <1>4, <1>0 DEF AcceptDelivery, Admitted, Has, Run, Intents, Outcomes, ledgerVars
<1>5. ASSUME Stopped(r)
      PROVE  resource' \in [Runs -> Resource \cup {NoResource}] /\ now' = now
             /\ \A q \in Runs : Has(q)' => Has(q)
  BY ZenonT(60), <1>5 DEF Stopped, Has, Resource
<1>6. CASE StopRun(r)
  <2> DEFINE row == [run[r] EXCEPT !.stopped = TRUE]
  <2>1. Admitted(r) /\ run[r].terminal = "none" /\ run' = [run EXCEPT ![r] = row] /\ Stopped(r)
    BY <1>6 DEF StopRun, Open
  <2>2. row \in Run /\ row.intent = run[r].intent /\ row.terminal = "none"
    BY <1>0, <2>1 DEF Run
  <2>3. Has(r) => row.intent = "DELIVERED" BY <2>2
  <2> HIDE DEF row
  <2> QED BY <1>5, <2>1, <2>2, <2>3, RunWritten
<1>7. CASE RecordUnsent(r)
  <2>1. Admitted(r) /\ run[r].intent = "SENDING" /\ run[r] \in Run /\ ~Has(r)
    BY <1>0, <1>7 DEF RecordUnsent
  <2>2. CASE run[r].validation
    <3> DEFINE row == [run[r] EXCEPT !.intent = "UNKNOWN", !.stopped = TRUE]
    <3>1. ~run[r].stopped /\ Stopped(r) /\ run' = [run EXCEPT ![r] = row]
      BY <1>7, <2>2 DEF RecordUnsent
    <3>2. row \in Run /\ row.terminal = run[r].terminal /\ row.stopped
      BY <2>1 DEF Run, Intents
    <3>3. row.terminal = "none" BY <2>1, <3>1, <3>2
    <3> HIDE DEF row
    <3> QED BY <1>5, <2>1, <3>1, <3>2, <3>3, RunWritten
  <2>3. CASE ~run[r].validation
    <3> DEFINE row == [run[r] EXCEPT !.intent = "UNKNOWN"]
    <3>1. run' = [run EXCEPT ![r] = row] /\ UNCHANGED <<resource, now>>
      BY <1>7, <2>3 DEF RecordUnsent, ledgerVars
    <3>2. row \in Run /\ row.terminal = run[r].terminal /\ row.stopped = run[r].stopped
      BY <2>1 DEF Run, Intents
    <3>3. row.terminal # "none" => row.stopped BY <2>1, <3>2
    <3>4. row.stopped => row.terminal \in {"none", "CANCELLED"} BY <2>1, <3>2
    <3>5. \A q \in Runs : Has(q)' => Has(q) BY <3>1 DEF Has
    <3> HIDE DEF row
    <3> QED BY <2>1, <3>1, <3>2, <3>3, <3>4, <3>5, RunWritten
  <2> QED BY <2>2, <2>3
<1>8. CASE run[r].intent = "DELIVERED" /\ Claim(r)
  <2>1. Sooner(now + 1) \in Nat BY SoonerTyped
  <2> DEFINE row == [state |-> "ALLOCATING", session |-> FALSE, lease |-> Sooner(now + 1), cancelled |-> FALSE,
                     clean |-> FALSE, collected |-> FALSE, passed |-> FALSE, failure |-> FALSE]
  <2>2. row \in Resource BY <2>1 DEF Resource
  <2>3. resource' = [resource EXCEPT ![r] = row] /\ UNCHANGED <<run, now>> /\ Admitted(r)
    BY <1>8 DEF Claim, Open, ledgerVars
  <2> HIDE DEF row
  <2> QED BY <1>8, <2>2, <2>3 DEF Has, Admitted
<1>9. ASSUME NEW v \in Outcomes, Finalize(r, v) PROVE StopInv'
  <2> DEFINE kept == r \in custody
             row  == [run[r] EXCEPT !.terminal = Verdict(r, v), !.candidate = kept]
  <2>1. Verdict(r, v) \in Outcomes /\ (run[r].stopped => Verdict(r, v) = "CANCELLED")
    BY DEF Verdict, Outcomes
  <2>2. Admitted(r) /\ UNCHANGED <<resource, now>> /\ (run[r].stopped \/ run[r].intent = "DELIVERED")
    BY <1>9 DEF Finalize
  <2>3. run' = [run EXCEPT ![r] = row] BY <1>9 DEF Finalize
  <2>4. kept \in BOOLEAN OBVIOUS
  <2> HIDE DEF kept
  <2>5. /\ row \in Run /\ row.intent = run[r].intent /\ row.stopped = run[r].stopped
        /\ row.terminal = Verdict(r, v)
    BY <1>0, <2>1, <2>2, <2>4 DEF Run
  <2>6. Has(r) => row.intent = "DELIVERED" BY <2>5
  <2>7. \A q \in Runs : Has(q)' => Has(q) BY <2>2 DEF Has
  <2> HIDE DEF row
  <2> QED BY <2>1, <2>2, <2>3, <2>5, <2>6, <2>7, RunWritten
<1> QED BY <1>1, <1>2, <1>3, <1>4, <1>6, <1>7, <1>8, <1>9 DEF RunMethod
-----------------------------------------------------------------------------
(* The verifiers *)

VerifiersTyped == now \in Nat /\ verifier \in [Runs -> Verifier \cup {NoVerifier}]

VerifierMethod(r) ==
  \/ ClaimVerifier(r) \/ VerifierAllocated(r) \/ FailVerifier(r)
  \/ \E outcome \in {"PASS", "FAIL"} : FinishVerifier(r, outcome)
  \/ \E session : CleanVerifier(r, session)

LEMMA VerifierMethodTyped ==
  ASSUME VerifiersTyped, NEW r \in Runs, VerifierMethod(r)
  PROVE  verifier' \in [Runs -> Verifier \cup {NoVerifier}]
<1> USE SentinelsApart DEF VerifiersTyped
<1>1. verifier[r] # NoVerifier => verifier[r] \in Verifier OBVIOUS
<1>2. CASE ClaimVerifier(r)
  <2>1. Sooner(now + 1) \in 0..WorkDeadline BY DEF Sooner
  <2> QED BY <1>2, <2>1 DEF ClaimVerifier, Verifier
<1>3. CASE VerifierAllocated(r)
  <2> DEFINE row == [verifier[r] EXCEPT !.session = TRUE, !.state = IF verifier[r].state = "ALLOCATING" THEN "RUNNING" ELSE verifier[r].state]
  <2>1. verifier' = [verifier EXCEPT ![r] = row] /\ verifier[r] # NoVerifier
    BY <1>3 DEF VerifierAllocated, UncleanVerifier
  <2>2. row \in Verifier BY <1>1, <2>1 DEF Verifier
  <2> HIDE DEF row
  <2> QED BY <2>1, <2>2
<1>4. CASE FailVerifier(r) BY <1>1, <1>4 DEF FailVerifier, UncleanVerifier, Verifier
<1>5. ASSUME NEW outcome \in {"PASS", "FAIL"}, FinishVerifier(r, outcome)
      PROVE  verifier' \in [Runs -> Verifier \cup {NoVerifier}]
  BY <1>1, <1>5 DEF FinishVerifier, VerifierActive, UncleanVerifier, Verifier
<1>6. ASSUME NEW session, CleanVerifier(r, session)
      PROVE  verifier' \in [Runs -> Verifier \cup {NoVerifier}]
  BY <1>1, <1>6 DEF CleanVerifier, Verifier
<1> QED BY <1>2, <1>3, <1>4, <1>5, <1>6 DEF VerifierMethod
-----------------------------------------------------------------------------
(* The hosts *)

\* Past its try block an executor that goes on has an outcome to report, except where it only
\* cleans up after an exception.
Deciding == {"vclaim", "vallocate", "vcreate", "vreceipt", "verify", "vfailed", "vread", "finalize"}
Decided  == {"COMPLETED", "FAILED"}

HostsTyped ==
  /\ exec \in [Runs -> Exec] /\ observer \in [Observers -> Observer]
  /\ \A r \in Runs : exec[r].pc \in Deciding => exec[r].status \in Decided
  /\ \A c \in Observers : Seeing(c, "idle") \/ observer[c].run \in Runs

LEMMA ExecWritten ==
  ASSUME HostsTyped, NEW r \in Runs, NEW row \in Exec, exec' = [exec EXCEPT ![r] = row],
         row.pc \in Deciding => row.status \in Decided, observer' = observer
  PROVE  HostsTyped'
BY DEF HostsTyped, Seeing

LEMMA Stepped ==
  ASSUME HostsTyped, NEW r \in Runs, NEW pc \in ExecPcs, Step(r, pc), observer' = observer,
         pc \in Deciding => exec[r].pc \in Deciding \/ exec[r].status \in Decided
  PROVE  HostsTyped'
<1> DEFINE row == [exec[r] EXCEPT !.pc = pc]
<1>1. exec' = [exec EXCEPT ![r] = row] BY DEF Step
<1>2. row \in Exec /\ row.pc = pc /\ row.status = exec[r].status BY DEF HostsTyped, Exec
<1>3. row.pc \in Deciding => row.status \in Decided BY <1>2 DEF HostsTyped
<1> HIDE DEF row
<1> QED BY <1>1, <1>2, <1>3, ExecWritten

\* Before the outcome is decided, and after it.
LEMMA SteppedEarly ==
  ASSUME HostsTyped, NEW r \in Runs, NEW pc \in ExecPcs \ Deciding, Step(r, pc), observer' = observer
  PROVE  HostsTyped'
BY Stepped

LEMMA SteppedLate ==
  ASSUME HostsTyped, NEW r \in Runs, exec[r].pc \in Deciding, NEW pc \in ExecPcs, Step(r, pc), observer' = observer
  PROVE  HostsTyped'
BY Stepped

LEMMA ObserverWritten ==
  ASSUME HostsTyped, NEW c \in Observers, NEW row \in Observer, observer' = [observer EXCEPT ![c] = row],
         row.pc = "idle" \/ row.run \in Runs, exec' = exec
  PROVE  HostsTyped'
BY DEF HostsTyped, Seeing

LEMMA ThenWritten ==
  ASSUME HostsTyped, NEW c \in Observers, ~Seeing(c, "idle"), exec' = exec,
         NEW pc \in {"expire", "destroy", "confirm", "verifier", "vdestroy", "vcleanup", "note", "finalize"},
         Then(c, pc)
  PROVE  HostsTyped'
<1> DEFINE row == [observer[c] EXCEPT !.pc = pc]
<1>1. observer' = [observer EXCEPT ![c] = row] BY DEF Then
<1>2. row \in Observer /\ row.run \in Runs BY DEF HostsTyped, Observer, Seeing
<1> HIDE DEF row
<1> QED BY <1>1, <1>2, ObserverWritten

LEMMA QuitWritten ==
  ASSUME HostsTyped, NEW c \in Observers, exec' = exec, Quit(c)
  PROVE  HostsTyped'
<1>1. Idle \in Observer /\ Idle.pc = "idle" BY DEF Idle, Observer, Outcomes
<1>2. observer' = [observer EXCEPT ![c] = Idle] BY DEF Quit
<1> QED BY <1>1, <1>2, ObserverWritten

LEMMA HostsKept ==
  ASSUME HostsTyped, UNCHANGED <<exec, observer>>
  PROVE  HostsTyped'
BY DEF HostsTyped, Seeing

LEMMA DispatchingHosts ==
  ASSUME HostsTyped, NEW r \in Runs, Dispatching(r)
  PROVE  HostsTyped'
<1>1. CASE Execute(r) BY <1>1, SteppedEarly DEF Execute, ExecPcs, Deciding
<1>2. CASE ~Execute(r)
  BY <1>2, HostsKept DEF Dispatching, hostVars, PrepareBudget, BindRun, Send, Reported, Accept
<1> QED BY <1>1, <1>2

LEMMA ExecutingHosts ==
  ASSUME HostsTyped, NEW r \in Runs, Executing(r)
  PROVE  HostsTyped'
<1> USE DEF ExecPcs, Deciding, In
<1>0. exec[r] \in Exec BY DEF HostsTyped
<1>1. CASE Schedule(r) BY <1>1, SteppedEarly DEF Schedule
<1>2. CASE Allocate(r) BY <1>2, SteppedEarly DEF Allocate
<1>3. CASE Created(r)
  <2> DEFINE row == [exec[r] EXCEPT !.pc = "receipt", !.sandbox = TRUE]
  <2>1. row \in Exec /\ row.pc = "receipt" BY <1>0 DEF Exec
  <2>2. exec' = [exec EXCEPT ![r] = row] /\ observer' = observer BY <1>3 DEF Created
  <2> HIDE DEF row
  <2> QED BY <2>1, <2>2, ExecWritten
<1>4. CASE Receipt(r) BY <1>4, SteppedEarly DEF Receipt
<1>5. CASE Progress(r)
  <2>1. \E pc \in {"READY", "RUNNING", "execute", "COLLECTING", "collect"} : Step(r, pc)
    BY <1>5 DEF Progress
  <2>2. observer' = observer BY <1>5 DEF Progress
  <2> QED BY <2>1, <2>2, SteppedEarly
<1>6. CASE Pay(r) BY <1>6, HostsKept DEF Pay, hostVars
<1>7. CASE StartCompletion(r) BY <1>7, HostsKept DEF StartCompletion, hostVars
<1>8. CASE Executed(r) BY <1>8, SteppedEarly DEF Executed
<1>9. CASE Collect(r) BY <1>9, SteppedEarly DEF Collect
<1>10. CASE Retain(r) BY <1>10, SteppedEarly DEF Retain
<1>11. CASE Checks(r)
  <2> PICK passed \in BOOLEAN : exec' = [exec EXCEPT ![r] = [@ EXCEPT !.pc = "destroy",
                                           !.status = IF passed THEN "COMPLETED" ELSE "FAILED"]]
    BY <1>11 DEF Checks
  <2> DEFINE row == [exec[r] EXCEPT !.pc = "destroy", !.status = IF passed THEN "COMPLETED" ELSE "FAILED"]
  <2>1. row \in Exec /\ row.pc = "destroy" BY <1>0 DEF Exec
  <2>2. exec' = [exec EXCEPT ![r] = row] /\ observer' = observer BY <1>11 DEF Checks
  <2> HIDE DEF row
  <2> QED BY <2>1, <2>2, ExecWritten
<1>12. CASE Throw(r) BY <1>12, SteppedEarly DEF Throw
<1>13. CASE Caught(r)
  <2>1. CASE Step(r, "destroy") BY <1>13, <2>1, SteppedEarly DEF Caught
  <2>2. CASE ~Step(r, "destroy")
    <3> DEFINE row == [exec[r] EXCEPT !.pc = "destroy", !.status = "THROWN"]
    <3>1. row \in Exec /\ row.pc = "destroy" BY <1>0 DEF Exec
    <3>2. exec' = [exec EXCEPT ![r] = row] /\ observer' = observer BY <1>13, <2>2 DEF Caught
    <3> HIDE DEF row
    <3> QED BY <3>1, <3>2, ExecWritten
  <2> QED BY <2>1, <2>2
<1>14. CASE Destroy(r) BY <1>14, SteppedEarly DEF Destroy
<1>15. CASE Confirm(r) BY <1>15, SteppedEarly DEF Confirm
<1>16. CASE Observed(r)
  <2>1. observer' = observer BY <1>16 DEF Observed
  <2>2. CASE Step(r, "done") BY <2>1, <2>2, SteppedEarly
  <2>3. CASE exec[r].status \in Decided /\ \E pc \in {"vclaim", "finalize"} : Step(r, pc)
    BY <2>1, <2>3, Stepped
  <2> QED BY <1>0, <1>16, <2>2, <2>3 DEF Observed, Exec, Decided
<1>17. CASE FinalizeRun(r) BY <1>17, SteppedEarly DEF FinalizeRun
<1>18. CASE Pulse(r) BY <1>18, HostsKept DEF Pulse, hostVars
<1>19. CASE Die(r) BY <1>19, SteppedEarly DEF Die
<1> QED BY <1>1, <1>2, <1>3, <1>4, <1>5, <1>6, <1>7, <1>8, <1>9, <1>10, <1>11, <1>12, <1>13, <1>14, <1>15,
           <1>16, <1>17, <1>18, <1>19 DEF Executing

LEMMA VerifyingHosts ==
  ASSUME HostsTyped, NEW r \in Runs, VerifyingRun(r)
  PROVE  HostsTyped'
<1> USE DEF ExecPcs, In
<1>0. exec[r] \in Exec BY DEF HostsTyped
<1>1. CASE CreatedVerifier(r)
  <2> DEFINE row == [exec[r] EXCEPT !.pc = "vreceipt", !.vsandbox = TRUE]
  <2>1. row \in Exec /\ row.status = exec[r].status BY <1>0 DEF Exec
  <2>2. exec' = [exec EXCEPT ![r] = row] /\ observer' = observer BY <1>1 DEF CreatedVerifier
  <2>3. exec[r].status \in Decided BY <1>1 DEF CreatedVerifier, HostsTyped, Deciding
  <2> HIDE DEF row
  <2> QED BY <2>1, <2>2, <2>3, ExecWritten
<1>2. CASE Verified(r)
  <2> DEFINE row == [exec[r] EXCEPT !.pc = "finalize",
                             !.status = IF verifier[r].outcome = "UNKNOWN" THEN "FAILED" ELSE exec[r].status]
  <2>1. exec[r].status \in Decided BY <1>2 DEF Verified, HostsTyped, Deciding
  <2>2. exec' = [exec EXCEPT ![r] = row] /\ observer' = observer BY <1>2 DEF Verified
  <2>3. row \in Exec /\ row.status \in Decided BY <1>0, <2>1 DEF Exec, Decided
  <2> HIDE DEF row
  <2> QED BY <2>2, <2>3, ExecWritten
<1>3. ASSUME NEW pc \in {"vallocate", "vcreate", "verify", "vfailed"}, Step(r, pc), exec[r].pc \in Deciding,
             observer' = observer
      PROVE  HostsTyped'
  BY <1>3, SteppedLate
<1>4. ASSUME NEW pc \in {"vdestroy", "vrecord", "vcleanup"}, Step(r, pc), observer' = observer PROVE HostsTyped'
  BY <1>4, SteppedEarly DEF Deciding
<1>5. CASE Claimed(r) BY <1>3, <1>5 DEF Claimed, Deciding
<1>6. CASE AllocateVerifier(r) BY <1>3, <1>6 DEF AllocateVerifier, Deciding
<1>7. CASE ReceiptVerifier(r) BY <1>3, <1>7 DEF ReceiptVerifier, Deciding
<1>8. CASE Verify(r) BY <1>3, <1>4, <1>8 DEF Verify, Deciding
<1>9. CASE ThrowVerifier(r) BY <1>3, <1>9 DEF ThrowVerifier, Verifying, Deciding
<1>10. CASE FailedVerifier(r)
  <2>1. CASE Step(r, "vdestroy") BY <1>4, <1>10, <2>1 DEF FailedVerifier
  <2>2. CASE ~Step(r, "vdestroy")
    <3> DEFINE row == [exec[r] EXCEPT !.pc = "vdestroy", !.status = "THROWN"]
    <3>1. row \in Exec /\ row.pc \notin Deciding BY <1>0 DEF Exec, Deciding
    <3>2. exec' = [exec EXCEPT ![r] = row] /\ observer' = observer BY <1>10, <2>2 DEF FailedVerifier
    <3> HIDE DEF row
    <3> QED BY <3>1, <3>2, ExecWritten
  <2> QED BY <2>1, <2>2
<1>11. CASE DestroyVerifier(r) BY <1>4, <1>11 DEF DestroyVerifier
<1>12. CASE RecordVerifier(r) BY <1>4, <1>12 DEF RecordVerifier
<1>13. CASE CleanupVerifier(r)
  <2>1. observer' = observer BY <1>13 DEF CleanupVerifier
  <2>2. CASE exec[r].status = "THROWN"
    <3>1. Step(r, "done") BY <1>13, <2>2 DEF CleanupVerifier
    <3> QED BY <2>1, <3>1, SteppedEarly DEF Deciding
  <2>3. CASE exec[r].status # "THROWN"
    <3>1. Step(r, "vread") BY <1>13, <2>3 DEF CleanupVerifier
    <3>2. exec[r].status \in Decided BY <1>0, <2>3 DEF Exec, Decided
    <3> QED BY <2>1, <3>1, <3>2, Stepped
  <2> QED BY <2>2, <2>3
<1> QED BY <1>1, <1>2, <1>5, <1>6, <1>7, <1>8, <1>9, <1>10, <1>11, <1>12, <1>13 DEF VerifyingRun

LEMMA ReconcilingHosts ==
  ASSUME HostsTyped, VerifiersTyped, RowsTyped, NEW c \in Observers,
         Reconciling(c) \/ GiveUp(c) \/ \E r \in Runs : Read(c, r)
  PROVE  HostsTyped'
<1> USE DEF Seeing
<1>0. observer[c] \in Observer BY DEF HostsTyped
<1>1. CASE Expire(c) BY <1>1, ThenWritten, QuitWritten DEF Expire
<1>2. CASE DestroyStale(c) BY <1>2, ThenWritten DEF DestroyStale
<1>3. CASE ConfirmStale(c) BY <1>3, ThenWritten DEF ConfirmStale
<1>4. CASE Reconcile(c)
  <2>1. exec' = exec /\ ~Seeing(c, "idle") BY <1>4 DEF Reconcile
  <2>2. CASE Then(c, AfterVerifier(c)) BY <2>1, <2>2, ThenWritten DEF AfterVerifier
  <2>3. CASE ~Then(c, AfterVerifier(c))
    <3> DEFINE held == verifier[observer[c].run].session
               row  == [observer[c] EXCEPT !.pc = "vdestroy", !.vsession = held]
    <3>1. observer' = [observer EXCEPT ![c] = row] BY <1>4, <2>3 DEF Reconcile
    <3>2. held \in BOOLEAN
      BY <1>4, <2>1, <2>3 DEF Reconcile, HostsTyped, VerifiersTyped, Verifier
    <3>3. row \in Observer /\ row.run \in Runs BY <1>0, <2>1, <3>2 DEF Observer, HostsTyped
    <3> HIDE DEF row
    <3> QED BY <2>1, <3>1, <3>3, ObserverWritten
  <2> QED BY <2>2, <2>3
<1>5. CASE DestroyStaleVerifier(c) BY <1>5, ThenWritten DEF DestroyStaleVerifier
<1>6. CASE CleanStaleVerifier(c) BY <1>6, ThenWritten DEF CleanStaleVerifier, AfterVerifier
<1>7. CASE NoteInterrupted(c) BY <1>7, ThenWritten DEF NoteInterrupted
<1>8. CASE FinalizeStale(c) BY <1>8, QuitWritten DEF FinalizeStale
<1>9. CASE GiveUp(c) BY <1>9, QuitWritten DEF GiveUp
<1>10. ASSUME NEW r \in Runs, Read(c, r) PROVE HostsTyped'
  <2>1. exec' = exec /\ Admitted(r) BY <1>10 DEF Read
  <2>2. CASE Has(r)
    <3> DEFINE next  == IF resource[r].clean THEN "verifier" ELSE "expire"
               held  == resource[r].session
               clean == resource[r].clean
               want  == IF resource[r].clean /\ r \in custody /\ resource[r].passed THEN "COMPLETED" ELSE "FAILED"
               row   == [Idle EXCEPT !.pc = next, !.run = r, !.session = held, !.clean = clean, !.requested = want]
    <3>1. observer' = [observer EXCEPT ![c] = row] BY <1>10, <2>2 DEF Read
    <3>2. held \in BOOLEAN /\ clean \in BOOLEAN BY <2>2 DEF Has, RowsTyped, Resource
    <3>3. want \in Outcomes /\ next \in {"verifier", "expire"} BY DEF Outcomes
    <3> HIDE DEF next, held, clean, want
    <3>4. row \in Observer /\ row.run = r BY <3>2, <3>3 DEF Idle, Observer, Outcomes
    <3> HIDE DEF row
    <3> QED BY <2>1, <3>1, <3>4, ObserverWritten
  <2>3. CASE ~Has(r)
    <3> DEFINE row == [Idle EXCEPT !.pc = "finalize", !.run = r, !.requested = "CANCELLED"]
    <3>1. observer' = [observer EXCEPT ![c] = row] BY <1>10, <2>3 DEF Read
    <3>2. row \in Observer /\ row.run = r BY DEF Idle, Observer, Outcomes
    <3> HIDE DEF row
    <3> QED BY <2>1, <3>1, <3>2, ObserverWritten
  <2> QED BY <2>2, <2>3
<1> QED BY <1>1, <1>2, <1>3, <1>4, <1>5, <1>6, <1>7, <1>8, <1>9, <1>10 DEF Reconciling
-----------------------------------------------------------------------------
HostInv == StopInv /\ VerifiersTyped /\ HostsTyped

\* Every step of the hosts is one of these, whatever else it moves.
LEMMA DispatchingRows ==
  ASSUME NEW r \in Runs, Dispatching(r)
  PROVE  RowsKept \/ RunMethod(r)
<1>1. CASE PrepareBudget(r) \/ BindRun(r) \/ Send(r)
  BY <1>1 DEF PrepareBudget, BindRun, Send, CreateBudget, BindAuthority, storeVars, ledgerVars, RowsKept
<1>2. CASE Execute(r) BY <1>2 DEF Execute, RunMethod
<1> QED BY <1>1, <1>2 DEF Dispatching, Reported, Accept, RunMethod

LEMMA ExecutingRows ==
  ASSUME HostInv, NEW r \in Runs, Executing(r)
  PROVE  RowsKept \/ RunMethod(r) \/ ResourceMethod(r)
<1>1. CASE \/ Schedule(r) \/ Created(r) \/ Pay(r) \/ StartCompletion(r) \/ Executed(r) \/ Collect(r) \/ Retain(r)
           \/ Throw(r) \/ Destroy(r) \/ Observed(r) \/ Die(r)
  BY <1>1 DEF Schedule, Created, Pay, StartCompletion, Executed, Collect, Retain, Throw, Destroy, Observed, Die,
       RetainCustody, Reserve, MarkDispatched, Settle, ReleaseUndispatched, MarkUnknown, BeginCompletion,
       FenceAuthority, storeVars, ledgerVars, RowsKept
<1>2. CASE Allocate(r) \/ Receipt(r) \/ Pulse(r) BY <1>2 DEF Allocate, Receipt, Pulse, ResourceMethod
<1>3. CASE Progress(r) BY <1>3 DEF Progress, In, ResourceMethod
<1>4. CASE Checks(r)
  <2>1. PICK passed \in BOOLEAN :
          /\ NoteChecks(r, passed)
          /\ exec' = [exec EXCEPT ![r] = [@ EXCEPT !.pc = "destroy",
                                                   !.status = IF passed THEN "COMPLETED" ELSE "FAILED"]]
    BY <1>4 DEF Checks
  <2> DEFINE row == [exec[r] EXCEPT !.pc = "destroy", !.status = IF passed THEN "COMPLETED" ELSE "FAILED"]
  <2>2. exec' = [exec EXCEPT ![r] = row] BY <2>1
  <2>3. row.pc = "destroy" /\ exec \in [Runs -> Exec] BY DEF HostInv, HostsTyped, Exec
  <2> HIDE DEF row
  <2>4. exec'[r].pc = "destroy" BY <2>2, <2>3
  <2> QED BY <1>4, <2>1, <2>4 DEF Checks, Checked, ResourceMethod
<1>5. CASE Caught(r) BY <1>5 DEF Caught, ResourceMethod, storeVars, ledgerVars, RowsKept
<1>6. CASE Confirm(r) BY <1>6 DEF Confirm, ResourceMethod, storeVars, ledgerVars, RowsKept
<1>7. CASE FinalizeRun(r)
  <2>1. exec[r].status \in Outcomes
    BY <1>7 DEF FinalizeRun, In, HostInv, HostsTyped, Deciding, Decided, Outcomes
  <2> QED BY <1>7, <2>1 DEF FinalizeRun, RunMethod, storeVars, ledgerVars, RowsKept
<1> QED BY <1>1, <1>2, <1>3, <1>4, <1>5, <1>6, <1>7 DEF Executing

LEMMA VerifyingRows ==
  ASSUME NEW r \in Runs, VerifyingRun(r)
  PROVE  RowsKept
BY DEF VerifyingRun, Claimed, AllocateVerifier, CreatedVerifier, ReceiptVerifier, Verify, ThrowVerifier,
     FailedVerifier, DestroyVerifier, RecordVerifier, CleanupVerifier, Verified, ClaimVerifier,
     VerifierAllocated, FinishVerifier, FailVerifier, CleanVerifier, storeVars, ledgerVars, RowsKept

LEMMA ReconcilingRows ==
  ASSUME HostInv, NEW c \in Observers, Reconciling(c) \/ GiveUp(c) \/ \E r \in Runs : Read(c, r)
  PROVE  RowsKept \/ \E r \in Runs : RunMethod(r) \/ ResourceMethod(r)
<1>1. CASE \/ Expire(c) \/ DestroyStale(c) \/ Reconcile(c) \/ DestroyStaleVerifier(c) \/ CleanStaleVerifier(c)
           \/ GiveUp(c) \/ \E r \in Runs : Read(c, r)
  BY <1>1 DEF Expire, DestroyStale, Reconcile, DestroyStaleVerifier, CleanStaleVerifier, GiveUp, Read,
       ReconcileExpired, CleanVerifier, storeVars, ledgerVars, RowsKept
<1>2. ~Seeing(c, "idle") => /\ observer[c].run \in Runs /\ observer[c].session \in BOOLEAN
                            /\ observer[c].requested \in Outcomes
  BY DEF HostInv, HostsTyped, Observer
<1>3. CASE ConfirmStale(c) BY <1>2, <1>3 DEF ConfirmStale, Seeing, ResourceMethod
<1>4. CASE NoteInterrupted(c) BY <1>2, <1>4 DEF NoteInterrupted, Seeing, ResourceMethod
<1>5. CASE FinalizeStale(c) BY <1>2, <1>5 DEF FinalizeStale, Seeing, RunMethod
<1> QED BY <1>1, <1>3, <1>4, <1>5 DEF Reconciling

LEMMA OutsideRows ==
  ASSUME NEW m \in Runs \X Tasks, Lands(m) \/ TimesOut(m) \/ CloudTick
  PROVE  RowsKept /\ UNCHANGED <<verifier, exec, observer>>
BY DEF Lands, TimesOut, CloudTick, Tick, storeVars, ledgerVars, hostVars, RowsKept

\* Only the handlers of verification write a verifier.
LEMMA ActorVerifiers ==
  ASSUME NEW r \in Runs, Dispatching(r) \/ Executing(r) \/ VerifyingRun(r)
  PROVE  verifier' = verifier \/ (VerifyingRun(r) /\ VerifierMethod(r))
<1>1. CASE Dispatching(r)
  BY <1>1 DEF Dispatching, PrepareBudget, BindRun, Send, Reported, Accept, Execute, Admit, ReserveDelivery,
       StopRun, Stopped, RecordSent, RecordUnsent, AcceptDelivery, Claim, storeVars
<1>2. CASE Executing(r)
  BY <1>2 DEF Executing, Schedule, Allocate, Created, Receipt, Progress, Pay, StartCompletion, Executed, Collect,
       Retain, Checks, Throw, Caught, Destroy, Confirm, Observed, FinalizeRun, Pulse, Die, Heartbeat,
       RecordAllocation, Advance, RetainCustody, NoteChecks, NoteFailure, ConfirmCleanup, Finalize, storeVars
<1>3. CASE VerifyingRun(r)
  BY <1>3 DEF VerifyingRun, Claimed, AllocateVerifier, CreatedVerifier, ReceiptVerifier, Verify, ThrowVerifier,
       FailedVerifier, DestroyVerifier, RecordVerifier, CleanupVerifier, Verified, VerifierMethod, storeVars
<1> QED BY <1>1, <1>2, <1>3

LEMMA StepVerifiers ==
  ASSUME HostInv, CloudNext
  PROVE  verifier' = verifier \/ \E r \in Runs : VerifierMethod(r)
<1>1. ASSUME NEW r \in Runs, Dispatching(r) \/ Executing(r) \/ VerifyingRun(r)
      PROVE  verifier' = verifier \/ VerifierMethod(r)
  BY <1>1, ActorVerifiers
<1>4. ASSUME NEW c \in Observers, Reconciling(c) \/ GiveUp(c) \/ \E r \in Runs : Read(c, r)
      PROVE  verifier' = verifier \/ \E r \in Runs : VerifierMethod(r)
  <2>1. CASE CleanStaleVerifier(c)
    BY <2>1 DEF CleanStaleVerifier, Seeing, VerifierMethod, HostInv, HostsTyped
  <2>2. CASE ~CleanStaleVerifier(c)
    BY <1>4, <2>2 DEF Reconciling, Expire, DestroyStale, ConfirmStale, Reconcile, DestroyStaleVerifier,
         NoteInterrupted, FinalizeStale, GiveUp, Read, ReconcileExpired, ConfirmCleanup, NoteFailure, Finalize,
         storeVars
  <2> QED BY <2>1, <2>2
<1>5. CloudTick => verifier' = verifier BY DEF CloudTick, storeVars
<1> QED BY <1>1, <1>4, <1>5, OutsideRows DEF CloudNext

LEMMA HostInvInit == CloudInit => HostInv
<1> SUFFICES ASSUME CloudInit PROVE HostInv OBVIOUS
<1>1. now = 0 /\ run = [r \in Runs |-> NoRun] /\ resource = [r \in Runs |-> NoResource]
      /\ verifier = [r \in Runs |-> NoVerifier]
  BY DEF CloudInit, LedgerInit, StoreInit
<1>2. StopInv
  BY <1>1 DEF StopInv, RowsTyped, ClaimedDelivered, EndedDelivered, CancellationWins, Has, Admitted
<1>3. HostsTyped
  BY DEF CloudInit, HostsTyped, Exec, ExecPcs, Observer, Idle, Outcomes, Seeing, Deciding
<1> QED BY <1>1, <1>2, <1>3 DEF HostInv, VerifiersTyped

LEMMA HostInvStep == HostInv /\ [CloudNext]_cloudVars => HostInv'
<1> SUFFICES ASSUME HostInv, [CloudNext]_cloudVars PROVE HostInv' OBVIOUS
<1>1. CASE UNCHANGED cloudVars
  BY <1>1, RowsStay, HostsKept DEF cloudVars, HostInv, RowsKept, VerifiersTyped
<1>2. CASE CloudNext
  <2>1. \/ \E r \in Runs : Dispatching(r) \/ Executing(r) \/ VerifyingRun(r)
        \/ \E c \in Observers : Reconciling(c) \/ GiveUp(c) \/ \E r \in Runs : Read(c, r)
        \/ \E m \in Runs \X Tasks : Lands(m) \/ TimesOut(m)
        \/ CloudTick
    BY <1>2 DEF CloudNext
  <2>2. RowsKept \/ \E r \in Runs : RunMethod(r) \/ ResourceMethod(r)
    BY <2>1, DispatchingRows, ExecutingRows, VerifyingRows, ReconcilingRows, OutsideRows
       DEF RowsKept, CloudTick, Tick, storeVars
  <2>3. StopInv'
    BY <2>2, RowsStay, RunMethodKeeps, ResourceMethodWrites, Written DEF HostInv
  <2>4. VerifiersTyped'
    BY <1>2, <2>3, StepVerifiers, VerifierMethodTyped DEF HostInv, VerifiersTyped, StopInv, RowsTyped
  <2>5. HostsTyped'
    <3>1. CASE \E m \in Runs \X Tasks : Lands(m) \/ TimesOut(m)
      BY <3>1, OutsideRows, HostsKept DEF HostInv
    <3>2. CASE CloudTick BY <3>2, HostsKept DEF CloudTick, hostVars, HostInv
    <3> QED BY <2>1, <3>1, <3>2, DispatchingHosts, ExecutingHosts, VerifyingHosts, ReconcilingHosts
            DEF HostInv, StopInv
  <2> QED BY <2>3, <2>4, <2>5 DEF HostInv
<1> QED BY <1>1, <1>2
-----------------------------------------------------------------------------
\* A stop that was recorded decides the outcome, for any number of runs, deliveries and
\* observers (postgres-dispatch.mjs, stop, recordDeliverySend and finalize).
THEOREM CancellationWinsHolds == CloudSpec => []CancellationWins
<1>1. CloudInit => HostInv BY HostInvInit
<1>2. HostInv /\ [CloudNext]_cloudVars => HostInv' BY HostInvStep
<1>3. HostInv => CancellationWins BY DEF HostInv, StopInv
<1> QED BY <1>1, <1>2, <1>3, PTL DEF CloudSpec
-----------------------------------------------------------------------------
(* Teardown *)

Row == [binding : Binding, card : Cards \cup {NoCard}, reserved : Nat, phase : Phases,
        actual : Nat, receipt : Receipts \cup {NoReceipt}, state : Unresolved \cup Final]

OpsTyped == op \in [OpIds -> Row \cup {NoOp}]

\* An operation belongs to one run: prepare admits a later generation of the Work only.
OneGeneration == \A q, r \in Runs :
  q # r /\ Admitted(q) /\ Admitted(r) /\ WorkOf(q) = WorkOf(r) => BindingOf[q].generation # BindingOf[r].generation

AccountInv == HostInv /\ OpsTyped /\ OneGeneration /\ TeardownAccounts

Clean(r)     == Has(r) /\ resource[r].clean
Accounted(o) == op[o].state \in Final \cup {"unknown"}

LEMMA OpsOfRunsTyped == OpIds = Runs \X Phases /\ BindingOf \in [Runs -> Binding] /\ Plans \subseteq PlanType
BY StoreAssumption, LedgerAssumption

\* Nothing that has been accounted for is opened again.
LEMMA AccountsKept ==
  ASSUME TeardownAccounts,
         \A r \in Runs : Clean(r)' => Clean(r),
         \A o \in OpIds : Exists(o)' /\ ~Accounted(o)' => Exists(o) /\ ~Accounted(o) /\ op'[o].binding = op[o].binding
  PROVE  TeardownAccounts'
BY DEF TeardownAccounts, Clean, Accounted, OpsOfRun, Exists

\* A payment is made by a run whose machine is leased, hence not torn down.
LEMMA PayAccounts ==
  ASSUME AccountInv, NEW r \in Runs, Pay(r)
  PROVE  OpsTyped' /\ TeardownAccounts'
<1> USE OpsOfRunsTyped DEF AccountInv, OpsTyped
<1>1. UNCHANGED <<run, resource>> BY DEF Pay, storeVars
<1>2. \A q \in Runs : Clean(q)' => Clean(q) BY <1>1 DEF Clean, Has
<1> PICK ph \in Phases :
      \/ /\ LeaseRunning(r) /\ machine[<<r, "produce">>] = "running"
         /\ \E p \in Plans : Reserve(<<r, ph>>, BindingOf[r], p.card, p.perOp, ph)
      \/ LeaseRunning(r) /\ MarkDispatched(<<r, ph>>)
      \/ Exists(<<r, ph>>) /\ \E p \in Receipts : Settle(<<r, ph>>, op[<<r, ph>>].reserved, p)
      \/ ReleaseUndispatched(<<r, ph>>)
      \/ MarkUnknown(<<r, ph>>)
  BY DEF Pay
<1> DEFINE o == <<r, ph>>
<1>3. o \in OpIds OBVIOUS
<1> HIDE DEF o
<1>4. ASSUME LeaseRunning(r), NEW p \in Plans, Reserve(o, BindingOf[r], p.card, p.perOp, ph)
      PROVE  OpsTyped' /\ TeardownAccounts'
  <2> DEFINE row == [binding |-> BindingOf[r], card |-> p.card, reserved |-> p.perOp, phase |-> ph,
                     actual |-> 0, receipt |-> NoReceipt, state |-> "reserved"]
  <2>1. op' = [op EXCEPT ![o] = row] BY <1>4 DEF Reserve
  <2>2. row \in Row BY DEF Row, PlanType, Unresolved
  <2>3. row.binding = BindingOf[r] OBVIOUS
  <2> HIDE DEF row
  <2>4. OpsTyped' BY <2>1, <2>2
  <2>5. \A q \in OpIds : op'[q] = IF q = o THEN row ELSE op[q] BY <1>3, <2>1
  <2>6. Has(r) /\ ~Clean(r) /\ Admitted(r)
    BY <1>4 DEF LeaseRunning, Leased, Unclean, Clean, HostInv, StopInv, ClaimedDelivered
  <2>7. \A q \in Runs : Clean(q) => Admitted(q) BY DEF Clean, HostInv, StopInv, ClaimedDelivered
  <2>8. \A q \in Runs : Clean(q) => BindingOf[q] # BindingOf[r]
    BY <2>6, <2>7 DEF OneGeneration, WorkOf
  <2> QED BY <1>1, <1>2, <2>3, <2>4, <2>5, <2>8 DEF TeardownAccounts, Clean, OpsOfRun, Exists, Has
<1>5. CASE \/ MarkDispatched(o) \/ ReleaseUndispatched(o) \/ MarkUnknown(o)
           \/ Exists(o) /\ \E p \in Receipts : Settle(o, op[o].reserved, p)
  <2>1. Exists(o) /\ op[o] \in Row
    BY <1>3, <1>5 DEF MarkDispatched, ReleaseUndispatched, MarkUnknown, Exists
  <2>2. PICK row \in Row :
          /\ op' = [op EXCEPT ![o] = row] /\ row.binding = op[o].binding
          /\ row.state \in Final \cup {"unknown"} \/ op[o].state = "reserved"
    <3>1. CASE MarkDispatched(o)
      <4> DEFINE row == [op[o] EXCEPT !.state = "dispatched"]
      <4>1. op' = [op EXCEPT ![o] = row] /\ op[o].state = "reserved" BY <3>1 DEF MarkDispatched
      <4>2. row \in Row /\ row.binding = op[o].binding /\ row.state = "dispatched" BY <2>1 DEF Row, Unresolved, Final
      <4> HIDE DEF row
      <4> QED BY <4>1, <4>2 DEF Final
    <3>2. CASE ReleaseUndispatched(o)
      <4> DEFINE row == [op[o] EXCEPT !.state = "released"]
      <4>1. op' = [op EXCEPT ![o] = row] BY <3>2 DEF ReleaseUndispatched
      <4>2. row \in Row /\ row.binding = op[o].binding /\ row.state = "released" BY <2>1 DEF Row, Unresolved, Final
      <4> HIDE DEF row
      <4> QED BY <4>1, <4>2 DEF Final
    <3>3. CASE MarkUnknown(o)
      <4> DEFINE row == [op[o] EXCEPT !.state = "unknown"]
      <4>1. op' = [op EXCEPT ![o] = row] BY <3>3 DEF MarkUnknown
      <4>2. row \in Row /\ row.binding = op[o].binding /\ row.state = "unknown" BY <2>1 DEF Row, Unresolved, Final
      <4> HIDE DEF row
      <4> QED BY <4>1, <4>2 DEF Final
    <3>4. ASSUME NEW p \in Receipts, Settle(o, op[o].reserved, p)
          PROVE  \E row \in Row : /\ op' = [op EXCEPT ![o] = row] /\ row.binding = op[o].binding
                                  /\ row.state \in Final \cup {"unknown"} \/ op[o].state = "reserved"
      <4> DEFINE row == [op[o] EXCEPT !.actual = op[o].reserved, !.receipt = p, !.state = "settled"]
      <4>1. op' = [op EXCEPT ![o] = row] BY <3>4 DEF Settle
      <4>2. row \in Row /\ row.binding = op[o].binding /\ row.state = "settled" BY <2>1 DEF Row, Unresolved, Final
      <4> HIDE DEF row
      <4> QED BY <4>1, <4>2 DEF Final
    <3> QED BY <1>5, <3>1, <3>2, <3>3, <3>4
  <2>3. OpsTyped' BY <2>2
  <2>4. \A q \in OpIds : op'[q] = IF q = o THEN row ELSE op[q] BY <1>3, <2>2
  <2>5. op[o].state = "reserved" => ~Accounted(o) BY DEF Accounted, Final
  <2>6. \A q \in OpIds : Exists(q)' /\ ~Accounted(q)' => Exists(q) /\ ~Accounted(q) /\ op'[q].binding = op[q].binding
    BY <2>1, <2>2, <2>4, <2>5 DEF Exists, Accounted
  <2> QED BY <1>2, <2>3, <2>6, AccountsKept
<1> QED BY <1>4, <1>5 DEF o

\* confirmCleanup accounts for what was under way.
LEMMA ConfirmAccounts ==
  ASSUME AccountInv, NEW r \in Runs, NEW session, ConfirmCleanup(r, session)
  PROVE  OpsTyped' /\ TeardownAccounts'
<1> USE DEF AccountInv, OpsTyped
<1>1. op' = [o \in OpIds |-> IF o \in OpsOfRun(r) /\ op[o].state \in {"reserved", "dispatched"}
                              THEN [op[o] EXCEPT !.state = "unknown"] ELSE op[o]]
  BY DEF ConfirmCleanup
<1>2. \A o \in OpIds : Exists(o) => op[o] \in Row BY DEF Exists
<1>3. \A o \in OpIds : Exists(o) =>
        [op[o] EXCEPT !.state = "unknown"] \in Row /\ [op[o] EXCEPT !.state = "unknown"].binding = op[o].binding
        /\ [op[o] EXCEPT !.state = "unknown"].state = "unknown"
  BY <1>2 DEF Row, Unresolved
<1>4. OpsTyped' BY <1>1, <1>3 DEF OpsOfRun
<1>5. \A o \in OpIds : Exists(o)' => /\ Exists(o) /\ op'[o].binding = op[o].binding
                                     /\ op'[o].state \in {op[o].state, "unknown"}
                                     /\ op[o].binding = BindingOf[r] => Accounted(o)'
  <2> SUFFICES ASSUME NEW o \in OpIds, Exists(o)'
               PROVE  /\ Exists(o) /\ op'[o].binding = op[o].binding
                      /\ op'[o].state \in {op[o].state, "unknown"}
                      /\ op[o].binding = BindingOf[r] => Accounted(o)'
    OBVIOUS
  <2>1. CASE o \in OpsOfRun(r) /\ op[o].state \in {"reserved", "dispatched"}
    BY <1>1, <1>3, <2>1 DEF OpsOfRun, Accounted
  <2>2. CASE ~(o \in OpsOfRun(r) /\ op[o].state \in {"reserved", "dispatched"})
    BY <1>1, <1>2, <2>2 DEF OpsOfRun, Accounted, Exists, Row, Unresolved, Final
  <2> QED BY <2>1, <2>2
<1>6. \A q \in Runs : q # r => (Clean(q)' => Clean(q))
  BY DEF ConfirmCleanup, Clean, Has, HostInv, StopInv, RowsTyped
<1> QED BY <1>4, <1>5, <1>6 DEF TeardownAccounts, OpsOfRun, Clean, Accounted, Exists

\* A method of a run opens no account: a claim writes a row that is not clean.
LEMMA RunMethodCleans ==
  ASSUME AccountInv, NEW r \in Runs, RunMethod(r)
  PROVE  \A q \in Runs : Clean(q)' => Clean(q)
<1> USE SentinelsApart DEF AccountInv, HostInv, StopInv, RowsTyped
<1>1. CASE UNCHANGED resource BY <1>1 DEF Clean, Has
<1>2. CASE Stopped(r)
  <2>1. Has(r) => [resource[r] EXCEPT !.cancelled = TRUE, !.lease = now] \in Resource
                  /\ [resource[r] EXCEPT !.cancelled = TRUE, !.lease = now].clean = resource[r].clean
    BY DEF Has, Resource
  <2> QED BY <1>2, <2>1 DEF Stopped, Clean, Has
<1>3. CASE Claim(r)
  <2> DEFINE row == [state |-> "ALLOCATING", session |-> FALSE, lease |-> Sooner(now + 1), cancelled |-> FALSE,
                     clean |-> FALSE, collected |-> FALSE, passed |-> FALSE, failure |-> FALSE]
  <2>1. resource' = [resource EXCEPT ![r] = row] /\ ~row.clean BY <1>3 DEF Claim
  <2> HIDE DEF row
  <2> QED BY <2>1 DEF Clean, Has
<1> QED BY <1>1, <1>2, <1>3 DEF RunMethod, Admit, ReserveDelivery, StopRun, RecordSent, RecordUnsent, AcceptDelivery,
             Finalize

\* Admit looks at every run of the Work.
LEMMA RunMethodGenerations ==
  ASSUME AccountInv, NEW r \in Runs, RunMethod(r)
  PROVE  OneGeneration'
<1> USE OpsOfRunsTyped DEF AccountInv, HostInv, StopInv, RowsTyped
<1>1. CASE Admit(r)
  <2>1. \A q \in Runs : q # r => (Admitted(q)' <=> Admitted(q)) BY <1>1 DEF Admit, Admitted
  <2>2. \A q \in Runs : Admitted(q) /\ WorkOf(q) = WorkOf(r) => BindingOf[q].generation < BindingOf[r].generation
    BY <1>1 DEF Admit
  <2>3. \A q \in Runs : BindingOf[q].generation \in Nat BY DEF Binding, Generations
  <2>4. \A q \in Runs : Admitted(q) /\ WorkOf(q) = WorkOf(r) => BindingOf[q].generation # BindingOf[r].generation
    BY <2>2, <2>3
  <2> QED BY <2>1, <2>4 DEF OneGeneration, WorkOf
<1>2. CASE ~Admit(r)
  <2>1. \A q \in Runs : Admitted(q)' => Admitted(q)
    BY <1>2 DEF RunMethod, ReserveDelivery, StopRun, RecordSent, RecordUnsent, AcceptDelivery, Claim, Finalize,
         Open, Admitted
  <2> QED BY <2>1 DEF OneGeneration, WorkOf
<1> QED BY <1>1, <1>2

\* Nothing but confirmCleanup cleans a row.
LEMMA ResourceMethodCleans ==
  ASSUME AccountInv, NEW r \in Runs, ResourceMethod(r), ~\E session \in BOOLEAN : ConfirmCleanup(r, session)
  PROVE  \A q \in Runs : Clean(q)' => Clean(q)
<1> USE SentinelsApart DEF AccountInv, HostInv, StopInv, RowsTyped
<1>1. ASSUME NEW row \in Resource, resource' = [resource EXCEPT ![r] = row], row.clean = resource[r].clean, Has(r)
      PROVE  \A q \in Runs : Clean(q)' => Clean(q)
  BY <1>1 DEF Clean, Has
<1>2. Has(r) => resource[r] \in Resource BY DEF Has
<1>3. CASE Heartbeat(r)
  <2> DEFINE row == [resource[r] EXCEPT !.lease = Sooner(now + 1)]
  <2>1. resource' = [resource EXCEPT ![r] = row] /\ Has(r) BY <1>3 DEF Heartbeat, Leased, Unclean
  <2>2. row \in Resource /\ row.clean = resource[r].clean BY <1>2, <2>1, SoonerTyped DEF Resource
  <2> HIDE DEF row
  <2> QED BY <1>1, <2>1, <2>2
<1>4. CASE RecordAllocation(r)
  <2> DEFINE row == [resource[r] EXCEPT !.session = TRUE]
  <2>1. resource' = [resource EXCEPT ![r] = row] /\ Has(r) BY <1>4 DEF RecordAllocation, Unclean
  <2>2. row \in Resource /\ row.clean = resource[r].clean BY <1>2, <2>1 DEF Resource
  <2> HIDE DEF row
  <2> QED BY <1>1, <2>1, <2>2
<1>5. CASE NoteFailure(r)
  <2> DEFINE row == [resource[r] EXCEPT !.failure = TRUE]
  <2>1. resource' = [resource EXCEPT ![r] = row] /\ Has(r) BY <1>5 DEF NoteFailure
  <2>2. row \in Resource /\ row.clean = resource[r].clean BY <1>2, <2>1 DEF Resource
  <2> HIDE DEF row
  <2> QED BY <1>1, <2>1, <2>2
<1>6. ASSUME NEW passed \in BOOLEAN, NoteChecks(r, passed) PROVE \A q \in Runs : Clean(q)' => Clean(q)
  <2> DEFINE row == [resource[r] EXCEPT !.passed = passed]
  <2>1. resource' = [resource EXCEPT ![r] = row] /\ Has(r) BY <1>6 DEF NoteChecks
  <2>2. row \in Resource /\ row.clean = resource[r].clean BY <1>2, <2>1 DEF Resource
  <2> HIDE DEF row
  <2> QED BY <1>1, <2>1, <2>2
<1>7. ASSUME NEW state \in {"PREPARING", "READY", "RUNNING", "QUIESCING", "COLLECTING"}, Advance(r, state)
      PROVE  \A q \in Runs : Clean(q)' => Clean(q)
  <2> DEFINE row == [resource[r] EXCEPT !.state = state,
                                      !.collected = resource[r].collected \/ state = "COLLECTING"]
  <2>1. resource' = [resource EXCEPT ![r] = row] /\ Has(r) BY <1>7 DEF Advance, Leased, Unclean
  <2>2. row \in Resource /\ row.clean = resource[r].clean BY <1>2, <2>1 DEF Resource
  <2> HIDE DEF row
  <2> QED BY <1>1, <2>1, <2>2
<1> QED BY <1>3, <1>4, <1>5, <1>6, <1>7 DEF ResourceMethod

\* Only a payment and a teardown write an operation.
LEMMA StepOps ==
  ASSUME AccountInv, CloudNext
  PROVE  \/ op' = op \/ \E r \in Runs : Pay(r)
         \/ \E r \in Runs : \E session \in BOOLEAN : ConfirmCleanup(r, session)
<1>1. ASSUME NEW r \in Runs, Dispatching(r) PROVE op' = op
  BY <1>1 DEF Dispatching, PrepareBudget, BindRun, Send, Reported, Accept, Execute, Admit, ReserveDelivery,
       StopRun, Stopped, RecordSent, RecordUnsent, AcceptDelivery, Claim, CreateBudget, BindAuthority, ledgerVars
<1>2. ASSUME NEW r \in Runs, Executing(r)
      PROVE  op' = op \/ Pay(r) \/ \E session \in BOOLEAN : ConfirmCleanup(r, session)
  BY <1>2 DEF Executing, Schedule, Allocate, Created, Receipt, Progress, StartCompletion, Executed, Collect,
       Retain, Checks, Throw, Caught, Destroy, Confirm, Observed, FinalizeRun, Pulse, Die, Heartbeat,
       RecordAllocation, Advance, RetainCustody, NoteChecks, NoteFailure, Finalize, BeginCompletion,
       FenceAuthority, ledgerVars
<1>3. ASSUME NEW r \in Runs, VerifyingRun(r) PROVE op' = op
  BY <1>3 DEF VerifyingRun, Claimed, AllocateVerifier, CreatedVerifier, ReceiptVerifier, Verify, ThrowVerifier,
       FailedVerifier, DestroyVerifier, RecordVerifier, CleanupVerifier, Verified, ClaimVerifier,
       VerifierAllocated, FinishVerifier, FailVerifier, CleanVerifier, ledgerVars
<1>4. ASSUME NEW c \in Observers, Reconciling(c) \/ GiveUp(c) \/ \E r \in Runs : Read(c, r)
      PROVE  op' = op \/ \E r \in Runs : \E session \in BOOLEAN : ConfirmCleanup(r, session)
  <2>1. CASE ConfirmStale(c)
    BY <2>1 DEF ConfirmStale, Seeing, AccountInv, HostInv, HostsTyped, Observer
  <2>2. CASE ~ConfirmStale(c)
    BY <1>4, <2>2 DEF Reconciling, Expire, DestroyStale, Reconcile, DestroyStaleVerifier, CleanStaleVerifier,
         NoteInterrupted, FinalizeStale, GiveUp, Read, ReconcileExpired, NoteFailure, CleanVerifier, Finalize,
         ledgerVars
  <2> QED BY <2>1, <2>2
<1>5. \A m \in Runs \X Tasks : Lands(m) \/ TimesOut(m) => op' = op BY DEF Lands, TimesOut, ledgerVars
<1>6. CloudTick => op' = op BY DEF CloudTick, Tick
<1> QED BY <1>1, <1>2, <1>3, <1>4, <1>5, <1>6 DEF CloudNext

LEMMA StepRows ==
  ASSUME HostInv, CloudNext
  PROVE  RowsKept \/ \E r \in Runs : RunMethod(r) \/ ResourceMethod(r)
<1>1. CASE \E r \in Runs : Dispatching(r) \/ Executing(r) \/ VerifyingRun(r)
  BY <1>1, DispatchingRows, ExecutingRows, VerifyingRows
<1>2. CASE \E c \in Observers : Reconciling(c) \/ GiveUp(c) \/ \E r \in Runs : Read(c, r)
  BY <1>2, ReconcilingRows
<1>3. CASE \E m \in Runs \X Tasks : Lands(m) \/ TimesOut(m) BY <1>3, OutsideRows
<1>4. CASE CloudTick BY <1>4 DEF CloudTick, Tick, storeVars, RowsKept
<1> QED BY <1>1, <1>2, <1>3, <1>4 DEF CloudNext

LEMMA AccountInvInit == CloudInit => AccountInv
<1> SUFFICES ASSUME CloudInit PROVE AccountInv OBVIOUS
<1>1. op = [o \in OpIds |-> NoOp] /\ run = [r \in Runs |-> NoRun] /\ resource = [r \in Runs |-> NoResource]
  BY DEF CloudInit, LedgerInit, StoreInit
<1>2. OpsTyped BY <1>1 DEF OpsTyped
<1>3. OneGeneration /\ TeardownAccounts BY <1>1 DEF OneGeneration, TeardownAccounts, Has, Admitted
<1> QED BY <1>2, <1>3, HostInvInit DEF AccountInv

LEMMA AccountInvStep == AccountInv /\ [CloudNext]_cloudVars => AccountInv'
<1> SUFFICES ASSUME AccountInv, [CloudNext]_cloudVars PROVE AccountInv' OBVIOUS
<1>0. HostInv' BY HostInvStep DEF AccountInv
<1>1. CASE UNCHANGED cloudVars
  BY <1>0, <1>1 DEF cloudVars, AccountInv, OpsTyped, OneGeneration, TeardownAccounts, Admitted, Has, WorkOf,
       OpsOfRun, Exists
<1>2. CASE CloudNext
  <2>1. ASSUME NEW r \in Runs, Pay(r) PROVE AccountInv'
    <3>1. run' = run BY <2>1 DEF Pay, storeVars
    <3>2. OneGeneration' BY <3>1 DEF AccountInv, OneGeneration, Admitted, WorkOf
    <3> QED BY <1>0, <2>1, <3>2, PayAccounts DEF AccountInv
  <2>2. ASSUME NEW r \in Runs, NEW session \in BOOLEAN, ConfirmCleanup(r, session) PROVE AccountInv'
    <3>1. run' = run BY <2>2 DEF ConfirmCleanup
    <3>2. OneGeneration' BY <3>1 DEF AccountInv, OneGeneration, Admitted, WorkOf
    <3> QED BY <1>0, <2>2, <3>2, ConfirmAccounts DEF AccountInv
  <2>3. CASE /\ op' = op
             /\ ~\E r \in Runs : \E session \in BOOLEAN : ConfirmCleanup(r, session)
    <3>1. OpsTyped' BY <2>3 DEF AccountInv, OpsTyped
    <3>2. (\A q \in Runs : Clean(q)' => Clean(q)) /\ OneGeneration'
      <4>1. CASE RowsKept
        BY <4>1 DEF RowsKept, Clean, Has, AccountInv, OneGeneration, Admitted, WorkOf
      <4>2. ASSUME NEW r \in Runs, RunMethod(r)
            PROVE  (\A q \in Runs : Clean(q)' => Clean(q)) /\ OneGeneration'
        BY <4>2, RunMethodCleans, RunMethodGenerations
      <4>3. ASSUME NEW r \in Runs, ResourceMethod(r)
            PROVE  (\A q \in Runs : Clean(q)' => Clean(q)) /\ OneGeneration'
        <5>1. \A q \in Runs : Clean(q)' => Clean(q) BY <2>3, <4>3, ResourceMethodCleans
        <5>2. run' = run
          BY <4>3, ResourceMethodWrites DEF AccountInv, HostInv, ResourceWritten
        <5> QED BY <5>1, <5>2 DEF AccountInv, OneGeneration, Admitted, WorkOf
      <4> QED BY <1>2, <4>1, <4>2, <4>3, StepRows DEF AccountInv
    <3>3. TeardownAccounts'
      BY <2>3, <3>2, AccountsKept DEF AccountInv, Exists, Accounted
    <3> QED BY <1>0, <3>1, <3>2, <3>3 DEF AccountInv
  <2> QED BY <1>2, <2>1, <2>2, <2>3, StepOps
<1> QED BY <1>1, <1>2

\* Teardown accounts for every operation of its run, and none is reserved or dispatched
\* later (confirmCleanup, assertExecutionLease, prepare).
THEOREM TeardownAccountsHolds == CloudSpec => []TeardownAccounts
<1>1. CloudInit => AccountInv BY AccountInvInit
<1>2. AccountInv /\ [CloudNext]_cloudVars => AccountInv' BY AccountInvStep
<1>3. AccountInv => TeardownAccounts BY DEF AccountInv
<1> QED BY <1>1, <1>2, <1>3, PTL DEF CloudSpec
-----------------------------------------------------------------------------
(* The ledger under hosted execution *)

\* Fencing the budget of a run is what the writer it is bound to may ask for.
LEMMA FenceIsLedger ==
  ASSUME LedgerTypeOK, NEW r \in Runs, Fence(r), UNCHANGED <<op, now>>
  PROVE  [LedgerNext]_ledgerVars
<1>1. CASE ~OwnBudget(r) BY <1>1 DEF Fence, ledgerVars
<1>2. CASE OwnBudget(r)
  <2> DEFINE w == WorkOf(r)
             k == IF budget[w].writer = NoWriter THEN BindingOf[r].writer ELSE budget[w].writer
             x == [work |-> w, generation |-> budget[w].generation, order |-> budget[w].order, writer |-> k]
  <2>1. w \in Works /\ BindingOf[r].writer \in Writers BY OpsOfRunsTyped DEF WorkOf, Binding
  <2>2. budget[w] \in Budget BY <1>2, <2>1 DEF OwnBudget, LedgerTypeOK
  <2>3. x \in Binding BY <2>1, <2>2 DEF Binding, Budget
  <2>4. MatchesCurrent(budget[w], x) BY <1>2 DEF OwnBudget, MatchesCurrent, SameGeneration
  <2>5. budget' = [budget EXCEPT ![w].authority = "fenced"] BY <1>2 DEF Fence
  <2>6. FenceAuthority(x) BY <2>4, <2>5 DEF FenceAuthority
  <2> QED BY <2>3, <2>6 DEF LedgerNext
<1> QED BY <1>1, <1>2

\* Teardown retains the one operation that may be under way, or only fences.
LEMMA ConfirmIsLedger ==
  ASSUME LedgerTypeOK, Chargeable, NEW r \in Runs, NEW session, ConfirmCleanup(r, session)
  PROVE  [LedgerNext]_ledgerVars
<1> DEFINE hit == {o \in OpsOfRun(r) : op[o].state \in {"reserved", "dispatched"}}
<1>1. Fence(r) /\ now' = now
      /\ op' = [o \in OpIds |-> IF o \in hit THEN [op[o] EXCEPT !.state = "unknown"] ELSE op[o]]
  BY DEF ConfirmCleanup
<1>2. hit \subseteq OpIds BY DEF OpsOfRun
<1>3. op \in [OpIds -> Operation \cup {NoOp}] BY DEF LedgerTypeOK
<1>4. CASE hit = {}
  <2>1. op' = op BY <1>1, <1>3, <1>4
  <2> QED BY <1>1, <2>1, FenceIsLedger
<1>5. CASE hit # {}
  <2>1. PICK o \in hit : TRUE BY <1>5
  <2>2. /\ o \in OpIds /\ Exists(o) /\ op[o].binding = BindingOf[r]
        /\ op[o].state \in {"reserved", "dispatched"}
    BY <2>1 DEF OpsOfRun
  <2>3. BindingOf[r].work \in Works BY OpsOfRunsTyped DEF Binding
  <2>4. \A q \in hit : q \in UnresolvedOf(BindingOf[r].work)
    BY DEF OpsOfRun, UnresolvedOf, OpsOf, Unresolved
  <2>5. hit = {o} BY <2>1, <2>3, <2>4 DEF Chargeable, OneUnresolved
  <2>6. op' = [op EXCEPT ![o].state = "unknown"] BY <1>1, <1>3, <2>2, <2>5
  <2>7. budget[BindingOf[r].work] # NoBudget /\ SameGeneration(budget[BindingOf[r].work], op[o].binding)
    BY <2>1, <2>3, <2>4 DEF Chargeable, UnresolvedIsCurrent
  <2>8. OwnBudget(r) BY <2>2, <2>7 DEF OwnBudget, WorkOf, SameGeneration
  <2>9. budget' = [budget EXCEPT ![op[o].binding.work].authority = "fenced"]
    BY <1>1, <2>2, <2>8 DEF Fence, WorkOf
  <2>10. MarkUnknown(o) BY <1>1, <2>2, <2>6, <2>9 DEF MarkUnknown, Final
  <2> QED BY <2>2, <2>10 DEF LedgerNext
<1> QED BY <1>4, <1>5

LEMMA StoppedIsLedger ==
  ASSUME NEW r \in Runs, Stopped(r)
  PROVE  [LedgerNext]_ledgerVars
<1>1. WorkOf(r) \in Works BY OpsOfRunsTyped DEF WorkOf, Binding
<1>2. CASE OwnBudget(r)
  <2>1. Cancel(WorkOf(r)) BY <1>2 DEF Stopped, OwnBudget, Cancel
  <2> QED BY <1>1, <2>1 DEF LedgerNext
<1>3. CASE ~OwnBudget(r) BY <1>3 DEF Stopped, ledgerVars
<1> QED BY <1>2, <1>3

LEMMA PayIsLedger ==
  ASSUME LedgerTypeOK, NEW r \in Runs, Pay(r)
  PROVE  [LedgerNext]_ledgerVars
<1> PICK ph \in Phases :
      \/ /\ LeaseRunning(r) /\ machine[<<r, "produce">>] = "running"
         /\ \E p \in Plans : Reserve(<<r, ph>>, BindingOf[r], p.card, p.perOp, ph)
      \/ LeaseRunning(r) /\ MarkDispatched(<<r, ph>>)
      \/ Exists(<<r, ph>>) /\ \E p \in Receipts : Settle(<<r, ph>>, op[<<r, ph>>].reserved, p)
      \/ ReleaseUndispatched(<<r, ph>>)
      \/ MarkUnknown(<<r, ph>>)
  BY DEF Pay
<1> DEFINE o == <<r, ph>>
<1>1. o \in OpIds /\ BindingOf[r] \in Binding BY OpsOfRunsTyped
<1> HIDE DEF o
<1>2. CASE MarkDispatched(o) \/ ReleaseUndispatched(o) \/ MarkUnknown(o) BY <1>1, <1>2 DEF LedgerNext
<1>3. ASSUME NEW p \in Plans, Reserve(o, BindingOf[r], p.card, p.perOp, ph)
      PROVE  LedgerNext
  <2>1. p.card \in Cards /\ p.perOp \in {q.perOp : q \in Plans} BY LedgerAssumption
  <2> QED BY <1>1, <1>3, <2>1 DEF LedgerNext
<1>4. ASSUME Exists(o), NEW p \in Receipts, Settle(o, op[o].reserved, p)
      PROVE  LedgerNext
  <2>1. op[o].reserved \in Nat BY <1>1, <1>4, RowTyped DEF Operation
  <2>2. op[o].reserved \in 0..(op[o].reserved + 1) BY <2>1
  <2> QED BY <1>1, <1>4, <2>2 DEF LedgerNext
<1> QED BY <1>2, <1>3, <1>4 DEF o

LEMMA DispatchingIsLedger ==
  ASSUME LedgerTypeOK, NEW r \in Runs, Dispatching(r)
  PROVE  [LedgerNext]_ledgerVars
<1>1. CASE PrepareBudget(r)
  <2>1. WorkDeadline \in Deadlines BY StoreAssumption
  <2>2. BindingOf[r].work \in Works /\ BindingOf[r].generation \in Generations /\ BindingOf[r].order \in Orders
    BY OpsOfRunsTyped DEF Binding
  <2> QED BY <1>1, <2>1, <2>2 DEF PrepareBudget, WorkOf, LedgerNext
<1>2. CASE BindRun(r) BY <1>2, OpsOfRunsTyped DEF BindRun, LedgerNext
<1>3. CASE StopRun(r) BY <1>3, StoppedIsLedger DEF StopRun
<1>4. CASE RecordUnsent(r) BY <1>4, StoppedIsLedger DEF RecordUnsent
<1>5. CASE ~PrepareBudget(r) /\ ~BindRun(r) /\ ~StopRun(r) /\ ~RecordUnsent(r)
  BY <1>5 DEF Dispatching, Admit, ReserveDelivery, Send, Reported, RecordSent, Accept, AcceptDelivery, Execute,
              Claim, ledgerVars
<1> QED BY <1>1, <1>2, <1>3, <1>4, <1>5

LEMMA ExecutingIsLedger ==
  ASSUME LedgerTypeOK, Chargeable, NEW r \in Runs, Executing(r)
  PROVE  [LedgerNext]_ledgerVars
<1>1. CASE Pay(r) BY <1>1, PayIsLedger
<1>2. CASE StartCompletion(r) BY <1>2, OpsOfRunsTyped DEF StartCompletion, LedgerNext
<1>3. CASE Throw(r) BY <1>3, OpsOfRunsTyped DEF Throw, LedgerNext
<1>4. CASE Confirm(r) BY <1>4, ConfirmIsLedger DEF Confirm
<1>5. CASE FinalizeRun(r) BY <1>5, FenceIsLedger DEF FinalizeRun, Finalize
<1>6. CASE ~Pay(r) /\ ~StartCompletion(r) /\ ~Throw(r) /\ ~Confirm(r) /\ ~FinalizeRun(r)
  BY <1>6 DEF Executing, Schedule, Allocate, Created, Receipt, Progress, Executed, Collect, Retain, Checks, Caught,
              Destroy, Observed, Pulse, Die, Heartbeat, RecordAllocation, Advance, RetainCustody, NoteChecks,
              NoteFailure, ledgerVars
<1> QED BY <1>1, <1>2, <1>3, <1>4, <1>5, <1>6

LEMMA VerifyingIsLedger ==
  ASSUME NEW r \in Runs, VerifyingRun(r)
  PROVE  UNCHANGED ledgerVars
BY DEF VerifyingRun, Claimed, AllocateVerifier, CreatedVerifier, ReceiptVerifier, Verify, ThrowVerifier,
       FailedVerifier, DestroyVerifier, RecordVerifier, CleanupVerifier, Verified, ClaimVerifier,
       VerifierAllocated, FinishVerifier, FailVerifier, CleanVerifier

LEMMA ReconcilingIsLedger ==
  ASSUME LedgerTypeOK, Chargeable, HostsTyped, NEW c \in Observers,
         Reconciling(c) \/ GiveUp(c) \/ \E r \in Runs : Read(c, r)
  PROVE  [LedgerNext]_ledgerVars
<1>1. ~Seeing(c, "idle") => observer[c].run \in Runs BY DEF HostsTyped
<1>2. CASE Expire(c)
  <2> DEFINE r == observer[c].run
  <2>1. r \in Runs BY <1>1, <1>2 DEF Expire, Seeing
  <2>2. (Fence(r) \/ UNCHANGED budget) /\ UNCHANGED <<op, now>> BY <1>2 DEF Expire, ReconcileExpired
  <2> QED BY <2>1, <2>2, FenceIsLedger DEF ledgerVars
<1>3. CASE ConfirmStale(c) BY <1>1, <1>3, ConfirmIsLedger DEF ConfirmStale, Seeing
<1>4. CASE FinalizeStale(c) BY <1>1, <1>4, FenceIsLedger DEF FinalizeStale, Finalize, Seeing
<1>5. CASE ~Expire(c) /\ ~ConfirmStale(c) /\ ~FinalizeStale(c)
  BY <1>5 DEF Reconciling, DestroyStale, Reconcile, DestroyStaleVerifier, CleanStaleVerifier, NoteInterrupted,
              GiveUp, Read, CleanVerifier, NoteFailure, ledgerVars
<1> QED BY <1>2, <1>3, <1>4, <1>5

LEMMA CloudStepsLedger ==
  ASSUME LedgerTypeOK, Chargeable, HostsTyped, [CloudNext]_cloudVars
  PROVE  [LedgerNext]_ledgerVars
<1>1. CASE UNCHANGED cloudVars BY <1>1 DEF cloudVars, ledgerVars
<1>2. CASE CloudNext
  <2>1. \A m \in Runs \X Tasks : Lands(m) \/ TimesOut(m) => UNCHANGED ledgerVars BY DEF Lands, TimesOut
  <2>2. CloudTick => LedgerNext BY DEF CloudTick, LedgerNext
  <2> QED BY <1>2, <2>1, <2>2, DispatchingIsLedger, ExecutingIsLedger, VerifyingIsLedger, ReconcilingIsLedger
          DEF CloudNext
<1> QED BY <1>1, <1>2

\* Hosted execution is a history of the ledger: whatever is proved of LedgerSpec holds of it,
\* although teardown, stop and the outcome write the rows of spending themselves
\* (confirmCleanup, stop, finalize and reconcileExpired of postgres-dispatch.mjs).
THEOREM CloudIsLedger == CloudSpec => LedgerSpec
<1>1. CloudInit => LedgerInit /\ LedgerTypeOK /\ HostInv
  BY HostInvInit, LedgerAssumption DEF CloudInit, LedgerInit, LedgerTypeOK, Exists
<1>2. LedgerInit => Chargeable BY ChargeableInit
<1>3. HostInv /\ [CloudNext]_cloudVars => HostInv' BY HostInvStep
<1>4. LedgerTypeOK /\ Chargeable /\ HostInv /\ [CloudNext]_cloudVars => [LedgerNext]_ledgerVars
  BY CloudStepsLedger DEF HostInv
<1>5. LedgerTypeOK /\ [LedgerNext]_ledgerVars => LedgerTypeOK' BY LedgerStepTyped
<1>6. LedgerTypeOK /\ LedgerTypeOK' /\ Chargeable /\ [LedgerNext]_ledgerVars => Chargeable'
  BY LedgerStepChargeable
<1> QED BY <1>1, <1>2, <1>3, <1>4, <1>5, <1>6, PTL DEF CloudSpec, LedgerSpec
-----------------------------------------------------------------------------
(* What one step does to the rows of a run *)

LeasedRow(row) == ~row.clean /\ ~row.cancelled /\ row.lease > now /\ WorkDeadline > now

\* A row is clean exactly if its machine is recorded as destroyed.
Destroyed(row) == row.clean <=> row.state = "DESTROYED"

\* What is recorded of a resource stays recorded, and only a leased one is leased for longer.
Follows(old, new) ==
  /\ old.session => new.session
  /\ old.cancelled => new.cancelled
  /\ old.clean => new.clean
  /\ old.collected => new.collected
  /\ new.cancelled \/ new.lease <= old.lease \/ LeasedRow(old)
  /\ Destroyed(old) => Destroyed(new)

ResourceFollows(r) == \E row \in Resource :
  /\ resource' = [resource EXCEPT ![r] = row] /\ Follows(resource[r], row)
  /\ row.passed = resource[r].passed \/ Checked(r)
  /\ row.collected = resource[r].collected \/ In(r, "COLLECTING")

LEMMA ResourceMethodFollows ==
  ASSUME StopInv, NEW r \in Runs, ResourceMethod(r)
  PROVE  Has(r) /\ ResourceFollows(r)
<1> USE SentinelsApart DEF StopInv, RowsTyped
<1>0. Has(r)
  BY DEF ResourceMethod, Heartbeat, RecordAllocation, NoteFailure, NoteChecks, Advance, ConfirmCleanup, Leased, Unclean
<1>1. resource[r] \in Resource BY <1>0 DEF Has
<1>2. CASE Heartbeat(r)
  <2> DEFINE row == [resource[r] EXCEPT !.lease = Sooner(now + 1)]
  <2>1. resource' = [resource EXCEPT ![r] = row] BY <1>2 DEF Heartbeat
  <2>2. row \in Resource BY <1>1, SoonerTyped DEF Resource
  <2>3. LeasedRow(resource[r]) BY <1>2 DEF Heartbeat, Leased, Unclean, LeasedRow
  <2>4. Follows(resource[r], row) BY <1>1, <2>3 DEF Follows, Destroyed, Resource
  <2>5. row.passed = resource[r].passed /\ row.collected = resource[r].collected BY <1>1 DEF Resource
  <2> HIDE DEF row
  <2> QED BY <1>0, <2>1, <2>2, <2>4, <2>5 DEF ResourceFollows
<1>3. CASE RecordAllocation(r)
  <2> DEFINE row == [resource[r] EXCEPT !.session = TRUE]
  <2>1. resource' = [resource EXCEPT ![r] = row] BY <1>3 DEF RecordAllocation
  <2>2. row \in Resource BY <1>1 DEF Resource
  <2>3. Follows(resource[r], row) BY <1>1 DEF Follows, Destroyed, Resource
  <2>4. row.passed = resource[r].passed /\ row.collected = resource[r].collected BY <1>1 DEF Resource
  <2> HIDE DEF row
  <2> QED BY <1>0, <2>1, <2>2, <2>3, <2>4 DEF ResourceFollows
<1>4. CASE NoteFailure(r)
  <2> DEFINE row == [resource[r] EXCEPT !.failure = TRUE]
  <2>1. resource' = [resource EXCEPT ![r] = row] BY <1>4 DEF NoteFailure
  <2>2. row \in Resource BY <1>1 DEF Resource
  <2>3. Follows(resource[r], row) BY <1>1 DEF Follows, Destroyed, Resource
  <2>4. row.passed = resource[r].passed /\ row.collected = resource[r].collected BY <1>1 DEF Resource
  <2> HIDE DEF row
  <2> QED BY <1>0, <2>1, <2>2, <2>3, <2>4 DEF ResourceFollows
<1>5. ASSUME Checked(r), NEW passed \in BOOLEAN, NoteChecks(r, passed) PROVE ResourceFollows(r)
  <2> DEFINE row == [resource[r] EXCEPT !.passed = passed]
  <2>1. resource' = [resource EXCEPT ![r] = row] BY <1>5 DEF NoteChecks
  <2>2. row \in Resource BY <1>1 DEF Resource
  <2>3. Follows(resource[r], row) BY <1>1 DEF Follows, Destroyed, Resource
  <2>4. row.collected = resource[r].collected BY <1>1 DEF Resource
  <2> HIDE DEF row
  <2> QED BY <1>5, <2>1, <2>2, <2>3, <2>4 DEF ResourceFollows
<1>6. ASSUME NEW state \in {"PREPARING", "READY", "RUNNING", "QUIESCING", "COLLECTING"}, In(r, state), Advance(r, state)
      PROVE  ResourceFollows(r)
  <2> DEFINE reached == resource[r].collected \/ state = "COLLECTING"
             row == [resource[r] EXCEPT !.state = state, !.collected = reached]
  <2>1. resource' = [resource EXCEPT ![r] = row] BY <1>6 DEF Advance
  <2>2. reached \in BOOLEAN /\ (resource[r].collected => reached) BY <1>1 DEF Resource
  <2> HIDE DEF reached
  <2>3. row \in Resource BY <1>1, <2>2 DEF Resource
  <2>4. Follows(resource[r], row) BY <1>1, <1>6, <2>2 DEF Advance, Leased, Unclean, Follows, Destroyed, Resource
  <2>5. row.passed = resource[r].passed /\ row.collected = reached BY <1>1, <2>2 DEF Resource
  <2>6. reached = resource[r].collected \/ In(r, "COLLECTING") BY <1>1, <1>6 DEF reached, Resource
  <2> HIDE DEF row
  <2> QED BY <2>1, <2>3, <2>4, <2>5, <2>6 DEF ResourceFollows
<1>7. ASSUME NEW session \in BOOLEAN, ConfirmCleanup(r, session) PROVE ResourceFollows(r)
  <2> DEFINE row == [resource[r] EXCEPT !.state = "DESTROYED", !.clean = TRUE]
  <2>1. resource' = [resource EXCEPT ![r] = row] BY <1>7 DEF ConfirmCleanup
  <2>2. row \in Resource BY <1>1 DEF Resource
  <2>3. Follows(resource[r], row) BY <1>1 DEF Follows, Destroyed, Resource
  <2>4. row.passed = resource[r].passed /\ row.collected = resource[r].collected BY <1>1 DEF Resource
  <2> HIDE DEF row
  <2> QED BY <2>1, <2>2, <2>3, <2>4 DEF ResourceFollows
<1> QED BY <1>0, <1>2, <1>3, <1>4, <1>5, <1>6, <1>7 DEF ResourceMethod

LEMMA RunMethodFollows ==
  ASSUME StopInv, NEW r \in Runs, RunMethod(r)
  PROVE  \/ UNCHANGED resource
         \/ Claim(r)
         \/ Has(r) /\ ResourceFollows(r)
<1> USE SentinelsApart DEF StopInv, RowsTyped
<1>1. CASE Stopped(r)
  <2>1. CASE Has(r)
    <3> DEFINE row == [resource[r] EXCEPT !.cancelled = TRUE, !.lease = now]
    <3>1. resource' = [resource EXCEPT ![r] = row] BY <1>1, <2>1 DEF Stopped
    <3>2. resource[r] \in Resource BY <2>1 DEF Has
    <3>3. row \in Resource /\ Follows(resource[r], row) /\ row.passed = resource[r].passed /\ row.collected = resource[r].collected
      BY <3>2 DEF Follows, Destroyed, Resource
    <3> HIDE DEF row
    <3> QED BY <2>1, <3>1, <3>3 DEF ResourceFollows
  <2> QED BY <1>1, <2>1 DEF Stopped
<1> QED BY <1>1 DEF RunMethod, Admit, ReserveDelivery, StopRun, RecordSent, RecordUnsent, AcceptDelivery, Finalize

\* What a step leaves of a resource: its record grows, and a lease that is over stays over.
ResourceGrows(r) == Has(r) =>
  /\ Has(r)'
  /\ resource[r].session => resource'[r].session
  /\ resource[r].cancelled => resource'[r].cancelled
  /\ resource[r].clean => resource'[r].clean
  /\ resource[r].collected => resource'[r].collected
  /\ ~Leased(r) => ~Leased(r)'
  /\ Destroyed(resource[r]) => Destroyed(resource'[r])
  /\ resource'[r].passed = resource[r].passed \/ Checked(r)
  /\ resource'[r].collected = resource[r].collected \/ In(r, "COLLECTING")

LEMMA FollowsGrows ==
  ASSUME StopInv, NEW r \in Runs, Has(r), ResourceFollows(r), now' \in {now, now + 1}, NEW q \in Runs
  PROVE  ResourceGrows(q)
<1> USE SentinelsApart DEF StopInv, RowsTyped
<1> PICK row \in Resource : resource' = [resource EXCEPT ![r] = row] /\ Follows(resource[r], row)
      /\ (row.passed = resource[r].passed \/ Checked(r))
      /\ (row.collected = resource[r].collected \/ In(r, "COLLECTING"))
  BY DEF ResourceFollows
<1>1. CASE q = r
  <2>1. resource[r] \in Resource /\ resource'[r] = row BY DEF Has
  <2>2. row # NoResource BY SentinelsApart
  <2>3. ~Leased(r) => ~Leased(r)'
    <3>1. resource[r].lease \in Nat /\ row.lease \in Nat BY <2>1 DEF Resource
    <3>2. Leased(r) <=> LeasedRow(resource[r]) BY DEF Leased, LeasedRow, Unclean
    <3>3. Leased(r)' => ~row.clean /\ ~row.cancelled /\ row.lease > now' /\ WorkDeadline > now'
      BY <2>1 DEF Leased, Unclean
    <3>4. SUFFICES ASSUME Leased(r)', ~LeasedRow(resource[r]) PROVE FALSE BY <3>2
    <3>5. row.lease <= resource[r].lease /\ ~resource[r].clean /\ ~resource[r].cancelled
      BY <2>1, <3>3, <3>4 DEF Follows, Resource
    <3>6. resource[r].lease > now /\ WorkDeadline > now BY <3>1, <3>3, <3>4, <3>5
    <3> QED BY <3>4, <3>5, <3>6 DEF LeasedRow
  <2> QED BY <1>1, <2>1, <2>2, <2>3 DEF Has, ResourceGrows, Follows
<1>2. CASE q # r
  <2>1. resource'[q] = resource[q] BY <1>2
  <2>2. Has(q) => resource[q].lease \in Nat BY DEF Has, Resource
  <2>3. Has(q) /\ resource[q].lease <= now => resource[q].lease <= now' BY <2>2
  <2> QED BY <2>1, <2>2, <2>3 DEF ResourceGrows, Has, Leased, Unclean
<1> QED BY <1>1, <1>2

LEMMA StepResources ==
  ASSUME HostInv, CloudNext
  PROVE  \A q \in Runs : ResourceGrows(q)
<1> USE SentinelsApart DEF HostInv, StopInv, RowsTyped
<1>1. now' \in {now, now + 1}
  <2>1. ASSUME NEW r \in Runs, RunMethod(r) PROVE now' = now
    BY <2>1 DEF RunMethod, Admit, ReserveDelivery, StopRun, RecordSent, RecordUnsent, AcceptDelivery, Claim,
                Finalize, Stopped, ledgerVars
  <2>2. \A r \in Runs : ResourceMethod(r) => now' = now BY ResourceMethodWrites DEF ResourceWritten
  <2> QED BY <2>1, <2>2, StepRows DEF RowsKept
<1>2. ASSUME NEW q \in Runs, UNCHANGED resource PROVE ResourceGrows(q)
  BY <1>1, <1>2 DEF ResourceGrows, Has, Leased, Unclean, Resource
<1>3. ASSUME NEW q \in Runs, NEW r \in Runs, Claim(r) PROVE ResourceGrows(q)
  BY <1>1, <1>3 DEF Claim, ResourceGrows, Has, Leased, Unclean, ledgerVars
<1>4. CASE RowsKept BY <1>2, <1>4 DEF RowsKept
<1>5. ASSUME NEW r \in Runs, RunMethod(r), NEW q \in Runs PROVE ResourceGrows(q)
  BY <1>1, <1>2, <1>3, <1>5, RunMethodFollows, FollowsGrows
<1>6. ASSUME NEW r \in Runs, ResourceMethod(r), NEW q \in Runs PROVE ResourceGrows(q)
  BY <1>1, <1>6, ResourceMethodFollows, FollowsGrows
<1> QED BY <1>4, <1>5, <1>6, StepRows

\* A verifier keeps its window, its record grows, and once it is clean its outcome is final.
VerifierGrows(r) == verifier[r] # NoVerifier =>
  /\ verifier'[r] # NoVerifier /\ verifier'[r].deadline = verifier[r].deadline
  /\ verifier[r].session => verifier'[r].session
  /\ verifier[r].clean => verifier'[r].clean /\ verifier'[r].outcome = verifier[r].outcome
  /\ Destroyed(verifier[r]) => Destroyed(verifier'[r])

LEMMA VerifierWritten ==
  ASSUME VerifiersTyped, NEW r \in Runs, VerifierMethod(r), NEW q \in Runs
  PROVE  VerifierGrows(q)
<1> USE DEF VerifiersTyped
<1>0. NoVerifier \notin Verifier BY StoreAssumption
<1>1. verifier[r] # NoVerifier => verifier[r] \in Verifier OBVIOUS
<1>2. ASSUME NEW row \in Verifier, verifier' = [verifier EXCEPT ![r] = row], verifier[r] # NoVerifier,
             row.deadline = verifier[r].deadline,
             verifier[r].session => row.session,
             verifier[r].clean => row.clean /\ row.outcome = verifier[r].outcome,
             Destroyed(verifier[r]) => Destroyed(row)
      PROVE  VerifierGrows(q)
  <2>1. row # NoVerifier BY <1>0
  <2> QED BY <1>2, <2>1 DEF VerifierGrows
<1>3. CASE ClaimVerifier(r) BY <1>3 DEF ClaimVerifier, VerifierGrows
<1>4. CASE VerifierAllocated(r)
  <2> DEFINE row == [verifier[r] EXCEPT !.session = TRUE, !.state = IF verifier[r].state = "ALLOCATING" THEN "RUNNING" ELSE verifier[r].state]
  <2>1. verifier' = [verifier EXCEPT ![r] = row] /\ verifier[r] # NoVerifier
    BY <1>4 DEF VerifierAllocated, UncleanVerifier
  <2>2. row \in Verifier BY <1>1, <2>1 DEF Verifier
  <2>3. row.deadline = verifier[r].deadline /\ row.session /\ row.clean = verifier[r].clean
    BY <1>1, <2>1 DEF Verifier
  <2>4. ~verifier[r].clean /\ (Destroyed(verifier[r]) => Destroyed(row))
    BY <1>1, <1>4, <2>1 DEF VerifierAllocated, UncleanVerifier, Verifier, Destroyed
  <2> HIDE DEF row
  <2> QED BY <1>2, <2>1, <2>2, <2>3, <2>4
<1>5. CASE FailVerifier(r)
  <2> DEFINE row == [verifier[r] EXCEPT !.state = "FINISHED", !.outcome = "UNKNOWN"]
  <2>1. verifier' = [verifier EXCEPT ![r] = row] /\ verifier[r] # NoVerifier
    BY <1>5 DEF FailVerifier, UncleanVerifier
  <2>2. row \in Verifier BY <1>1, <2>1 DEF Verifier
  <2>3. row.deadline = verifier[r].deadline /\ row.session = verifier[r].session /\ row.clean = verifier[r].clean
    BY <1>1, <2>1 DEF Verifier
  <2>4. ~verifier[r].clean /\ (Destroyed(verifier[r]) => Destroyed(row))
    BY <1>1, <1>5, <2>1 DEF FailVerifier, UncleanVerifier, Verifier, Destroyed
  <2> HIDE DEF row
  <2> QED BY <1>2, <2>1, <2>2, <2>3, <2>4
<1>6. ASSUME NEW outcome \in {"PASS", "FAIL"}, FinishVerifier(r, outcome) PROVE VerifierGrows(q)
  <2> DEFINE row == [verifier[r] EXCEPT !.state = "FINISHED", !.outcome = outcome]
  <2>1. verifier' = [verifier EXCEPT ![r] = row] /\ verifier[r] # NoVerifier
    BY <1>6 DEF FinishVerifier, VerifierActive, UncleanVerifier
  <2>2. row \in Verifier BY <1>1, <2>1 DEF Verifier
  <2>3. row.deadline = verifier[r].deadline /\ row.session = verifier[r].session /\ row.clean = verifier[r].clean
    BY <1>1, <2>1 DEF Verifier
  <2>4. ~verifier[r].clean /\ (Destroyed(verifier[r]) => Destroyed(row))
    BY <1>1, <1>6, <2>1 DEF FinishVerifier, VerifierActive, UncleanVerifier, Verifier, Destroyed
  <2> HIDE DEF row
  <2> QED BY <1>2, <2>1, <2>2, <2>3, <2>4
<1>7. ASSUME NEW session, CleanVerifier(r, session) PROVE VerifierGrows(q)
  <2> DEFINE row == [verifier[r] EXCEPT !.state = "DESTROYED", !.clean = TRUE]
  <2>1. verifier' = [verifier EXCEPT ![r] = row] /\ verifier[r] # NoVerifier BY <1>7 DEF CleanVerifier
  <2>2. row \in Verifier BY <1>1, <2>1 DEF Verifier
  <2>3. row.deadline = verifier[r].deadline /\ row.session = verifier[r].session /\ row.clean
    BY <1>1, <2>1 DEF Verifier
  <2>4. row.outcome = verifier[r].outcome /\ Destroyed(row)
    BY <1>1, <2>1 DEF Verifier, Destroyed
  <2> HIDE DEF row
  <2> QED BY <1>2, <2>1, <2>2, <2>3, <2>4
<1> QED BY <1>3, <1>4, <1>5, <1>6, <1>7 DEF VerifierMethod

LEMMA StepGrows ==
  ASSUME HostInv, CloudNext
  PROVE  \A q \in Runs : VerifierGrows(q)
<1>1. VerifiersTyped BY DEF HostInv
<1>2. verifier' = verifier => \A q \in Runs : VerifierGrows(q) BY DEF VerifierGrows
<1> QED BY <1>1, <1>2, StepVerifiers, VerifierWritten

LEMMA StepClock ==
  ASSUME HostInv, CloudNext
  PROVE  now \in Nat /\ now' \in {now, now + 1}
<1>1. ASSUME NEW r \in Runs, RunMethod(r) PROVE now' = now
  BY <1>1 DEF RunMethod, Admit, ReserveDelivery, StopRun, RecordSent, RecordUnsent, AcceptDelivery, Claim,
              Finalize, Stopped, ledgerVars
<1>2. \A r \in Runs : ResourceMethod(r) => now' = now
  BY ResourceMethodWrites DEF ResourceWritten, HostInv
<1> QED BY <1>1, <1>2, StepRows DEF RowsKept, HostInv, StopInv, RowsTyped

\* The provider alone starts a machine; what a step does to one is otherwise this.
MachinesTyped == machine \in [Runs \X Tasks -> Machines]

MachineStep ==
  \/ machine' = machine
  \/ \E r \in Runs : Allocate(r) \/ Destroy(r) \/ AllocateVerifier(r) \/ DestroyVerifier(r)
  \/ \E c \in Observers : DestroyStale(c) \/ DestroyStaleVerifier(c)
  \/ \E m \in Runs \X Tasks : Lands(m) \/ TimesOut(m)

LEMMA StepMachines ==
  ASSUME CloudNext
  PROVE  MachineStep
<1>1. ASSUME NEW r \in Runs, Dispatching(r) PROVE machine' = machine
  BY <1>1 DEF Dispatching, PrepareBudget, BindRun, Send, Reported, Accept, Execute, hostVars
<1>2. ASSUME NEW r \in Runs, Executing(r) PROVE MachineStep
  BY <1>2 DEF Executing, Schedule, Created, Receipt, Progress, Pay, StartCompletion, Executed, Collect,
              Retain, Checks, Throw, Caught, Confirm, Observed, FinalizeRun, Pulse, Die, hostVars, MachineStep
<1>3. ASSUME NEW r \in Runs, VerifyingRun(r) PROVE MachineStep
  BY <1>3 DEF VerifyingRun, Claimed, CreatedVerifier, ReceiptVerifier, Verify, ThrowVerifier,
              FailedVerifier, RecordVerifier, CleanupVerifier, Verified, MachineStep
<1>4. ASSUME NEW c \in Observers, Reconciling(c) \/ GiveUp(c) \/ \E r \in Runs : Read(c, r) PROVE MachineStep
  BY <1>4 DEF Reconciling, Expire, ConfirmStale, Reconcile, CleanStaleVerifier,
              NoteInterrupted, FinalizeStale, GiveUp, Read, MachineStep
<1>5. CloudTick => machine' = machine BY DEF CloudTick, hostVars
<1> QED BY <1>1, <1>2, <1>3, <1>4, <1>5 DEF CloudNext, MachineStep

\* A machine that starts was asked for, and in time.
Starts(m) == machine'[m] = "running" => machine[m] = "running" \/ (machine[m] = "asked" /\ now < CreateLimit(m))

LEMMA StepStarts ==
  ASSUME MachinesTyped, HostsTyped, CloudNext
  PROVE  MachinesTyped' /\ \A m \in Runs \X Tasks : Starts(m)
<1> USE DEF MachinesTyped, Machines, Tasks
<1>1. CASE machine' = machine BY <1>1 DEF Starts
<1>2. ASSUME NEW r \in Runs, Allocate(r) \/ Destroy(r) \/ AllocateVerifier(r) \/ DestroyVerifier(r)
      PROVE  MachinesTyped' /\ \A m \in Runs \X Tasks : Starts(m)
  BY <1>2 DEF Allocate, Destroy, AllocateVerifier, DestroyVerifier, Set, Starts
<1>3. ASSUME NEW c \in Observers, DestroyStale(c) \/ DestroyStaleVerifier(c)
      PROVE  MachinesTyped' /\ \A m \in Runs \X Tasks : Starts(m)
  <2>1. observer[c].run \in Runs BY <1>3 DEF DestroyStale, DestroyStaleVerifier, Seeing, HostsTyped
  <2> QED BY <1>3, <2>1 DEF DestroyStale, DestroyStaleVerifier, Remove, Starts
<1>4. ASSUME NEW m \in Runs \X Tasks, Lands(m) \/ TimesOut(m)
      PROVE  MachinesTyped' /\ \A n \in Runs \X Tasks : Starts(n)
  BY <1>4 DEF Lands, TimesOut, Set, Starts
<1> QED BY <1>1, <1>2, <1>3, <1>4, StepMachines DEF MachineStep
-----------------------------------------------------------------------------
(* The machine a run produces on *)

Producer(r) == machine[<<r, "produce">>]
Landed      == {"running", "gone"}

\* An executor at one of these has the sandbox it asked for.
Equipped == Trying \ {"schedule", "allocate", "create"}

\* Where the machine of a run is, given where its executor is and what its row says: it is
\* asked for once, it is known to have landed when a session is recorded, it runs only while
\* its row is unclean, it cannot land after the row was cleaned, and whoever takes it away
\* from an executor at work has ended that executor's lease.
ProducerAt(r) ==
  /\ Has(r) <=> exec[r].pc # "none"
  /\ exec[r].pc \in {"none", "schedule", "allocate"} => Producer(r) = "none"
  /\ Has(r) /\ resource[r].session => Producer(r) \in Landed
  /\ exec[r].sandbox => Producer(r) \in Landed
  /\ exec[r].pc \in Equipped => exec[r].sandbox
  /\ exec[r].pc = "confirm" => Producer(r) = "gone"
  /\ Producer(r) = "running" => Unclean(r)
  /\ Clean(r) /\ Producer(r) = "asked" => WindowOver(WorkDeadline)
  /\ Producer(r) = "gone" /\ exec[r].pc \in Trying => ~Leased(r)

\* Seen from the machine, a resource is a session and whether it is clean.
ResourceSame(q) == /\ Has(q)' <=> Has(q)
                   /\ Has(q) => resource'[q].session = resource[q].session /\ resource'[q].clean = resource[q].clean

ClockStep == now \in Nat /\ now' \in {now, now + 1}

LEMMA WindowsStay ==
  ASSUME ClockStep, NEW t \in Nat, WindowOver(t)
  PROVE  WindowOver(t)'
<1>1. Grace \in Nat BY StoreAssumption
<1> QED BY <1>1 DEF ClockStep, WindowOver

\* The executor of a run moves on, and its machine stays.
LEMMA ProducerWalks ==
  ASSUME NEW r \in Runs, ProducerAt(r), ClockStep, ResourceGrows(r), ResourceSame(r),
         Producer(r)' = Producer(r), exec'[r].sandbox = exec[r].sandbox,
         \/ exec'[r].pc = exec[r].pc
         \/ /\ exec[r].pc # "none" /\ exec'[r].pc \notin {"none", "schedule", "allocate", "confirm"}
            /\ exec'[r].pc \in Equipped => exec[r].sandbox
            /\ exec'[r].pc \in Trying => exec[r].pc \in Trying
  PROVE  ProducerAt(r)'
<1>1. Has(r)' <=> exec'[r].pc # "none" BY DEF ProducerAt, ResourceSame
<1>2. exec'[r].pc \in {"none", "schedule", "allocate"} => Producer(r)' = "none" BY DEF ProducerAt
<1>3. Has(r)' /\ resource'[r].session => Producer(r)' \in Landed BY DEF ProducerAt, ResourceSame
<1>4. /\ exec'[r].sandbox => Producer(r)' \in Landed
      /\ exec'[r].pc \in Equipped => exec'[r].sandbox
      /\ exec'[r].pc = "confirm" => Producer(r)' = "gone"
  BY DEF ProducerAt
<1>5. Producer(r)' = "running" => Unclean(r)' BY DEF ProducerAt, ResourceSame, Unclean
<1>6. Clean(r)' /\ Producer(r)' = "asked" => WindowOver(WorkDeadline)'
  BY WindowsStay, SentinelsApart DEF ProducerAt, ResourceSame, Clean
<1>7. Producer(r)' = "gone" /\ exec'[r].pc \in Trying => ~Leased(r)'
  <2>1. SUFFICES ASSUME Producer(r)' = "gone", exec'[r].pc \in Trying PROVE ~Leased(r)'
    OBVIOUS
  <2>2. exec[r].pc \in Trying BY <2>1
  <2>3. ~Leased(r) BY <2>1, <2>2 DEF ProducerAt
  <2>4. Has(r) BY <2>2 DEF ProducerAt, Trying
  <2> QED BY <2>3, <2>4 DEF ResourceGrows
<1> QED BY <1>1, <1>2, <1>3, <1>4, <1>5, <1>6, <1>7 DEF ProducerAt

LEMMA ProducerStays ==
  ASSUME NEW r \in Runs, ProducerAt(r), ClockStep, ResourceGrows(r), ResourceSame(r),
         Producer(r)' = Producer(r), exec'[r] = exec[r]
  PROVE  ProducerAt(r)'
BY ProducerWalks

\* Methods that leave the session and the teardown of every resource alone.
LEMMA MethodsSame ==
  ASSUME StopInv, NEW r \in Runs, NEW q \in Runs,
         \/ Heartbeat(r) \/ NoteFailure(r)
         \/ \E passed \in BOOLEAN : NoteChecks(r, passed)
         \/ \E state \in {"PREPARING", "READY", "RUNNING", "QUIESCING", "COLLECTING"} : Advance(r, state)
         \/ Stopped(r)
  PROVE  ResourceSame(q)
<1> USE SentinelsApart DEF StopInv, RowsTyped
<1>0. Has(r) => resource[r] \in Resource BY DEF Has
<1>1. ASSUME NEW row \in Resource, resource' = [resource EXCEPT ![r] = row], Has(r),
             row.session = resource[r].session, row.clean = resource[r].clean
      PROVE  ResourceSame(q)
  BY <1>1 DEF ResourceSame, Has
<1>2. CASE Heartbeat(r)
  <2> DEFINE row == [resource[r] EXCEPT !.lease = Sooner(now + 1)]
  <2>1. resource' = [resource EXCEPT ![r] = row] /\ Has(r) BY <1>2 DEF Heartbeat, Leased, Unclean
  <2>2. row \in Resource BY <1>0, <2>1, SoonerTyped DEF Resource
  <2>3. row.session = resource[r].session /\ row.clean = resource[r].clean BY <1>0, <2>1 DEF Resource
  <2> HIDE DEF row
  <2> QED BY <1>1, <2>1, <2>2, <2>3
<1>3. CASE NoteFailure(r)
  <2> DEFINE row == [resource[r] EXCEPT !.failure = TRUE]
  <2>1. resource' = [resource EXCEPT ![r] = row] /\ Has(r) BY <1>3 DEF NoteFailure
  <2>2. row \in Resource BY <1>0, <2>1 DEF Resource
  <2>3. row.session = resource[r].session /\ row.clean = resource[r].clean BY <1>0, <2>1 DEF Resource
  <2> HIDE DEF row
  <2> QED BY <1>1, <2>1, <2>2, <2>3
<1>4. ASSUME NEW passed \in BOOLEAN, NoteChecks(r, passed) PROVE ResourceSame(q)
  <2> DEFINE row == [resource[r] EXCEPT !.passed = passed]
  <2>1. resource' = [resource EXCEPT ![r] = row] /\ Has(r) BY <1>4 DEF NoteChecks
  <2>2. row \in Resource BY <1>0, <2>1 DEF Resource
  <2>3. row.session = resource[r].session /\ row.clean = resource[r].clean BY <1>0, <2>1 DEF Resource
  <2> HIDE DEF row
  <2> QED BY <1>1, <2>1, <2>2, <2>3
<1>5. ASSUME NEW state \in {"PREPARING", "READY", "RUNNING", "QUIESCING", "COLLECTING"}, Advance(r, state)
      PROVE  ResourceSame(q)
  <2> DEFINE reached == resource[r].collected \/ state = "COLLECTING"
             row == [resource[r] EXCEPT !.state = state, !.collected = reached]
  <2>1. resource' = [resource EXCEPT ![r] = row] /\ Has(r) BY <1>5 DEF Advance, Leased, Unclean
  <2>2. reached \in BOOLEAN BY <1>0, <2>1 DEF Resource
  <2> HIDE DEF reached
  <2>3. row \in Resource BY <1>0, <2>1, <2>2 DEF Resource
  <2>4. row.session = resource[r].session /\ row.clean = resource[r].clean BY <1>0, <2>1 DEF Resource
  <2> HIDE DEF row
  <2> QED BY <1>1, <2>1, <2>3, <2>4
<1>6. CASE Stopped(r)
  <2>1. CASE Has(r)
    <3> DEFINE row == [resource[r] EXCEPT !.cancelled = TRUE, !.lease = now]
    <3>1. resource' = [resource EXCEPT ![r] = row] BY <1>6, <2>1 DEF Stopped
    <3>2. row \in Resource BY <1>0, <2>1 DEF Resource
    <3>3. row.session = resource[r].session /\ row.clean = resource[r].clean BY <1>0, <2>1 DEF Resource
    <3> HIDE DEF row
    <3> QED BY <1>1, <2>1, <3>1, <3>2, <3>3
  <2> QED BY <1>6, <2>1 DEF Stopped, ResourceSame, Has
<1> QED BY <1>2, <1>3, <1>4, <1>5, <1>6

LEMMA StepContext ==
  ASSUME HostInv, CloudNext
  PROVE  ClockStep /\ \A q \in Runs : ResourceGrows(q) /\ VerifierGrows(q)
BY StepClock, StepResources, StepGrows DEF ClockStep

LEMMA ProducerExecute ==
  ASSUME HostInv, NEW r \in Runs, ProducerAt(r), Execute(r)
  PROVE  ProducerAt(r)'
<1> USE SentinelsApart DEF HostInv, StopInv, RowsTyped, HostsTyped
<1>1. ~Has(r) /\ exec[r].pc = "none" /\ Producer(r) = "none" BY DEF Execute, Claim, ProducerAt
<1>2. exec[r] \in Exec /\ exec' = [exec EXCEPT ![r].pc = "schedule"] BY DEF Execute, Step
<1>3. exec'[r].pc = "schedule" /\ exec'[r].sandbox = exec[r].sandbox BY <1>2 DEF Exec
<1>4. Producer(r)' = "none" BY <1>1 DEF Execute, Producer
<1> DEFINE row == [state |-> "ALLOCATING", session |-> FALSE, lease |-> Sooner(now + 1), cancelled |-> FALSE,
                   clean |-> FALSE, collected |-> FALSE, passed |-> FALSE, failure |-> FALSE]
<1>5. resource' = [resource EXCEPT ![r] = row] BY DEF Execute, Claim
<1>6. row \in Resource /\ ~row.session /\ ~row.clean BY SoonerTyped DEF Resource
<1> HIDE DEF row
<1>7. resource'[r] = row /\ row # NoResource BY <1>5, <1>6
<1> QED BY <1>1, <1>3, <1>4, <1>6, <1>7 DEF ProducerAt, Has, Clean, Unclean, Landed, Equipped, Trying

\* The executor moves on: what ProducerWalks asks of a step.
Walks(r, pcs) ==
  /\ \E pc \in pcs : exec' = [exec EXCEPT ![r].pc = pc]
  /\ Producer(r)' = Producer(r)

LEMMA WalksFrom ==
  ASSUME HostInv, CloudNext, NEW r \in Runs, ProducerAt(r), ResourceSame(r), exec[r].pc # "none",
         NEW pcs, Walks(r, pcs),
         \A pc \in pcs : /\ pc \notin {"none", "schedule", "allocate", "confirm"}
                         /\ pc \in Equipped => exec[r].sandbox
                         /\ pc \in Trying => exec[r].pc \in Trying
  PROVE  ProducerAt(r)'
<1> PICK pc \in pcs : exec' = [exec EXCEPT ![r].pc = pc] BY DEF Walks
<1>1. exec[r] \in Exec BY DEF HostInv, HostsTyped
<1>2. exec'[r].pc = pc /\ exec'[r].sandbox = exec[r].sandbox BY <1>1 DEF Exec, HostInv, HostsTyped
<1>3. ClockStep /\ ResourceGrows(r) /\ Producer(r)' = Producer(r) BY StepContext DEF Walks
<1> QED BY <1>2, <1>3, ProducerWalks

LEMMA ProducerExecuting ==
  ASSUME HostInv, MachinesTyped, CloudNext, NEW r \in Runs, ProducerAt(r), Executing(r)
  PROVE  ProducerAt(r)'
<1> USE DEF In, Step
<1>0. exec[r] \in Exec /\ exec \in [Runs -> Exec] /\ ClockStep /\ ResourceGrows(r) BY StepContext DEF HostInv, HostsTyped
<1>a. UNCHANGED resource => ResourceSame(r) BY DEF ResourceSame, Has
<1>1. CASE Schedule(r)
  <2>1. exec'[r].pc = "allocate" /\ exec'[r].sandbox = exec[r].sandbox /\ exec[r].pc = "schedule"
    BY <1>0, <1>1 DEF Schedule, Exec
  <2>2. UNCHANGED <<resource, machine, now>> BY <1>1 DEF Schedule, storeVars, ledgerVars
  <2> QED BY <2>1, <2>2 DEF ProducerAt, Has, Clean, Unclean, Producer, Equipped, Trying
<1>2. CASE Allocate(r)
  <2>1. exec'[r].pc = "create" /\ exec'[r].sandbox = exec[r].sandbox /\ exec[r].pc = "allocate"
    BY <1>0, <1>2 DEF Allocate, Exec
  <2>2. Producer(r) = "none" /\ Producer(r)' = "asked" /\ ResourceSame(r) /\ Leased(r)
    BY <1>2, <2>1, MethodsSame DEF Allocate, Set, Producer, MachinesTyped, ProducerAt, HostInv, Tasks, Heartbeat
  <2>3. ~exec[r].sandbox /\ Has(r) /\ ~resource[r].session /\ ~resource[r].clean
    BY <2>1, <2>2 DEF ProducerAt, Landed, Leased, Unclean
  <2> QED BY <2>1, <2>2, <2>3 DEF ProducerAt, ResourceSame, Clean, Equipped
<1>3. CASE Created(r)
  <2> DEFINE row == [exec[r] EXCEPT !.pc = "receipt", !.sandbox = TRUE]
  <2>1. exec' = [exec EXCEPT ![r] = row] BY <1>3 DEF Created
  <2>2. row.pc = "receipt" /\ row.sandbox BY <1>0 DEF Exec
  <2> HIDE DEF row
  <2>3. exec'[r].pc = "receipt" /\ exec'[r].sandbox BY <1>0, <2>1, <2>2
  <2>4. UNCHANGED <<resource, machine, now>> /\ Producer(r) \in Landed /\ exec[r].pc = "create"
    BY <1>3 DEF Created, storeVars, ledgerVars, Producer, Landed
  <2>5. Producer(r)' = Producer(r) /\ (Has(r)' <=> Has(r)) /\ (Clean(r)' <=> Clean(r))
        /\ (Unclean(r)' <=> Unclean(r)) /\ (Leased(r)' <=> Leased(r))
    BY <2>4 DEF Producer, Has, Clean, Unclean, Leased
  <2>6. Has(r) /\ Producer(r) # "asked" /\ (Producer(r) = "gone" => ~Leased(r))
    BY <2>4 DEF ProducerAt, Landed, Trying
  <2> QED BY <2>3, <2>4, <2>5, <2>6 DEF ProducerAt, Equipped, Trying
<1>4. CASE Receipt(r)
  <2>1. exec'[r].pc = "PREPARING" /\ exec'[r].sandbox = exec[r].sandbox /\ exec[r].pc = "receipt"
    BY <1>0, <1>4 DEF Receipt, Exec
  <2>2. exec[r].sandbox /\ Producer(r) \in Landed BY <2>1 DEF ProducerAt, Equipped, Trying
  <2> DEFINE row == [resource[r] EXCEPT !.session = TRUE]
  <2>3. resource' = [resource EXCEPT ![r] = row] /\ resource[r] \in Resource /\ ~resource[r].clean
    BY <1>4 DEF Receipt, RecordAllocation, Unclean, Has, HostInv, StopInv, RowsTyped
  <2>4. row \in Resource /\ ~row.clean BY <2>3 DEF Resource
  <2> HIDE DEF row
  <2>5. Has(r)' /\ ~resource'[r].clean BY <2>3, <2>4, SentinelsApart DEF Has, HostInv, StopInv, RowsTyped
  <2>6. Producer(r)' = Producer(r) BY <1>4 DEF Receipt, Producer
  <2>7. Producer(r) = "gone" => ~Leased(r)' BY <1>0, <2>1, <2>3, <1>4
    DEF ProducerAt, ResourceGrows, Trying, Receipt, RecordAllocation, Unclean
  <2> QED BY <2>1, <2>2, <2>5, <2>6, <2>7 DEF ProducerAt, Clean, Unclean, Landed
<1>5. CASE Progress(r)
  <2>1. exec[r].pc \in Equipped /\ exec[r].sandbox /\ exec[r].pc \in Trying /\ exec[r].pc # "none"
    BY <1>5 DEF Progress, ProducerAt, Equipped, Trying
  <2>2. ResourceSame(r) BY <1>5, MethodsSame DEF Progress, HostInv
  <2>3. Walks(r, {"READY", "RUNNING", "execute", "COLLECTING", "collect"}) BY <1>5 DEF Progress, Walks, Producer
  <2> QED BY <2>1, <2>2, <2>3, WalksFrom
<1>6. CASE Pay(r) \/ StartCompletion(r)
  <2>1. UNCHANGED <<exec, resource, machine>> BY <1>6 DEF Pay, StartCompletion, storeVars, hostVars
  <2> QED BY <1>0, <1>a, <2>1, ProducerStays DEF Producer
<1>7. CASE Executed(r) \/ Collect(r) \/ Retain(r)
  <2>1. exec[r].pc \in Equipped /\ exec[r].sandbox /\ exec[r].pc \in Trying /\ exec[r].pc # "none"
    BY <1>7 DEF Executed, Collect, Retain, ProducerAt, Equipped, Trying
  <2>2. ResourceSame(r) BY <1>7, <1>a DEF Executed, Collect, Retain, RetainCustody, storeVars
  <2>3. Walks(r, {"QUIESCING", "retain", "checks"}) BY <1>7 DEF Executed, Collect, Retain, Walks, Producer
  <2> QED BY <2>1, <2>2, <2>3, WalksFrom
<1>8. CASE Checks(r)
  <2> PICK passed \in BOOLEAN :
        /\ NoteChecks(r, passed)
        /\ exec' = [exec EXCEPT ![r] = [@ EXCEPT !.pc = "destroy", !.status = IF passed THEN "COMPLETED" ELSE "FAILED"]]
    BY <1>8 DEF Checks
  <2>1. exec'[r].pc = "destroy" /\ exec'[r].sandbox = exec[r].sandbox BY <1>0 DEF Exec
  <2>2. ResourceSame(r) BY MethodsSame DEF HostInv
  <2>3. Producer(r)' = Producer(r) /\ exec[r].pc # "none" BY <1>8 DEF Checks, Producer
  <2> QED BY <1>0, <2>1, <2>2, <2>3, ProducerWalks DEF Equipped, Trying
<1>9. CASE Throw(r)
  <2>1. exec[r].pc # "none" /\ UNCHANGED resource BY <1>9 DEF Throw, Trying, storeVars
  <2>2. Walks(r, {"caught"}) BY <1>9 DEF Throw, Walks, Producer
  <2> QED BY <1>a, <2>1, <2>2, WalksFrom DEF Equipped, Trying
<1>10. CASE Caught(r)
  <2>0. \/ Step(r, "destroy")
        \/ exec' = [exec EXCEPT ![r] = [@ EXCEPT !.pc = "destroy", !.status = "THROWN"]]
    BY <1>10 DEF Caught
  <2>1. exec'[r].pc = "destroy" /\ exec'[r].sandbox = exec[r].sandbox
    <3>1. CASE Step(r, "destroy") BY <1>0, <3>1 DEF Step, Exec
    <3>2. CASE exec' = [exec EXCEPT ![r] = [@ EXCEPT !.pc = "destroy", !.status = "THROWN"]] BY <1>0, <3>2 DEF Exec
    <3> QED BY <2>0, <3>1, <3>2
  <2>2. ResourceSame(r) BY <1>10, <1>a, MethodsSame DEF Caught, HostInv, storeVars
  <2>3. Producer(r)' = Producer(r) /\ exec[r].pc # "none" BY <1>10 DEF Caught, Producer
  <2> QED BY <1>0, <2>1, <2>2, <2>3, ProducerWalks DEF Equipped, Trying
<1>11. CASE Destroy(r)
  <2>1. exec[r].pc = "destroy" /\ UNCHANGED <<resource, now>> BY <1>11 DEF Destroy, storeVars, ledgerVars
  <2>2. CASE Set(<<r, "produce">>, "gone") /\ exec' = [exec EXCEPT ![r].pc = "confirm"]
    <3>1. exec'[r].pc = "confirm" BY <1>0, <2>2 DEF Exec
    <3>2. Producer(r)' = "gone" BY <2>2 DEF Set, Producer, MachinesTyped, Tasks
    <3> QED BY <2>1, <3>1, <3>2 DEF ProducerAt, Has, Clean, Unclean, Landed, Equipped, Trying
  <2>3. CASE UNCHANGED machine /\ exec' = [exec EXCEPT ![r].pc = "observe"]
    <3>1. Walks(r, {"observe"}) BY <2>3 DEF Walks, Producer
    <3> QED BY <1>a, <2>1, <3>1, WalksFrom DEF Equipped, Trying
  <2> QED BY <1>11, <2>2, <2>3 DEF Destroy
<1>12. CASE Confirm(r)
  <2>1. exec[r].pc = "confirm" /\ exec'[r].pc = "observe" /\ exec'[r].sandbox = exec[r].sandbox
    BY <1>0, <1>12 DEF Confirm, Exec
  <2>2. Producer(r)' = "gone" BY <1>12, <2>1 DEF Confirm, Producer, ProducerAt
  <2>3. Has(r) /\ Has(r)' BY <1>0, <2>1 DEF ProducerAt, ResourceGrows
  <2> QED BY <2>1, <2>2, <2>3 DEF ProducerAt, Landed, Equipped, Trying
<1>13. CASE Observed(r) \/ FinalizeRun(r) \/ Die(r)
  <2>1. exec[r].pc # "none" /\ UNCHANGED resource
    BY <1>13 DEF Observed, FinalizeRun, Die, Finalize, storeVars
  <2>2. Walks(r, {"done", "vclaim", "finalize"}) BY <1>13 DEF Observed, FinalizeRun, Die, Walks, Producer
  <2> QED BY <1>a, <2>1, <2>2, WalksFrom DEF Equipped, Trying
<1>14. CASE Pulse(r)
  <2>1. UNCHANGED <<exec, machine>> /\ ResourceSame(r) BY <1>14, MethodsSame DEF Pulse, hostVars, HostInv
  <2> QED BY <1>0, <2>1, ProducerStays DEF Producer
<1> QED BY <1>1, <1>2, <1>3, <1>4, <1>5, <1>6, <1>7, <1>8, <1>9, <1>10, <1>11, <1>12, <1>13, <1>14 DEF Executing

\* Setting one machine leaves the others.
LEMMA SetOne ==
  ASSUME MachinesTyped, NEW r \in Runs, NEW task \in Tasks, NEW s, Set(<<r, task>>, s)
  PROVE  /\ machine'[<<r, task>>] = s
         /\ \A q \in Runs, other \in Tasks : q # r \/ other # task => machine'[<<q, other>>] = machine[<<q, other>>]
BY DEF Set, MachinesTyped

LEMMA ProducerVerifying ==
  ASSUME HostInv, MachinesTyped, CloudNext, NEW r \in Runs, ProducerAt(r), VerifyingRun(r)
  PROVE  ProducerAt(r)'
<1>0. exec[r] \in Exec /\ exec \in [Runs -> Exec] /\ ClockStep /\ ResourceGrows(r) BY StepContext DEF HostInv, HostsTyped
<1>1. ResourceSame(r) BY VerifyingRows DEF RowsKept, ResourceSame, Has
<1>2. Producer(r)' = Producer(r)
  <2>1. CASE AllocateVerifier(r) \/ DestroyVerifier(r)
    BY <2>1, SetOne DEF AllocateVerifier, DestroyVerifier, Producer, Tasks
  <2>2. CASE ~AllocateVerifier(r) /\ ~DestroyVerifier(r)
    BY <2>2 DEF VerifyingRun, Claimed, CreatedVerifier, ReceiptVerifier, Verify, ThrowVerifier,
                FailedVerifier, RecordVerifier, CleanupVerifier, Verified, Producer
  <2> QED BY <2>1, <2>2
<1>3. exec[r].pc # "none"
  BY DEF VerifyingRun, Claimed, AllocateVerifier, CreatedVerifier, ReceiptVerifier, Verify, ThrowVerifier,
         FailedVerifier, DestroyVerifier, RecordVerifier, CleanupVerifier, Verified, In, Verifying
<1>4. /\ exec'[r].sandbox = exec[r].sandbox
      /\ exec'[r].pc \in {"vallocate", "vcreate", "vreceipt", "verify", "vfailed", "vdestroy", "vrecord", "vcleanup",
                          "vread", "finalize", "done"}
  <2>1. CASE CreatedVerifier(r)
    <3> DEFINE row == [exec[r] EXCEPT !.pc = "vreceipt", !.vsandbox = TRUE]
    <3>1. exec' = [exec EXCEPT ![r] = row] BY <2>1 DEF CreatedVerifier
    <3>2. row.pc = "vreceipt" /\ row.sandbox = exec[r].sandbox BY <1>0 DEF Exec
    <3> HIDE DEF row
    <3> QED BY <1>0, <3>1, <3>2
  <2>2. CASE Verified(r)
    <3> DEFINE row == [exec[r] EXCEPT !.pc = "finalize",
                               !.status = IF verifier[r].outcome = "UNKNOWN" THEN "FAILED" ELSE exec[r].status]
    <3>1. exec' = [exec EXCEPT ![r] = row] BY <2>2 DEF Verified
    <3>2. row.pc = "finalize" /\ row.sandbox = exec[r].sandbox BY <1>0 DEF Exec
    <3> HIDE DEF row
    <3> QED BY <1>0, <3>1, <3>2
  <2>3. CASE FailedVerifier(r) /\ ~Step(r, "vdestroy")
    <3> DEFINE row == [exec[r] EXCEPT !.pc = "vdestroy", !.status = "THROWN"]
    <3>1. exec' = [exec EXCEPT ![r] = row] BY <2>3 DEF FailedVerifier
    <3>2. row.pc = "vdestroy" /\ row.sandbox = exec[r].sandbox BY <1>0 DEF Exec
    <3> HIDE DEF row
    <3> QED BY <1>0, <3>1, <3>2
  <2>4. CASE ~CreatedVerifier(r) /\ ~Verified(r) /\ (FailedVerifier(r) => Step(r, "vdestroy"))
    <3>1. PICK pc \in {"vallocate", "vcreate", "verify", "vdestroy", "vfailed", "vrecord", "vcleanup", "vread", "done"} :
            Step(r, pc)
      BY <2>4 DEF VerifyingRun, Claimed, AllocateVerifier, ReceiptVerifier, Verify, ThrowVerifier,
                  DestroyVerifier, RecordVerifier, CleanupVerifier
    <3> QED BY <1>0, <3>1 DEF Step, Exec
  <2> QED BY <2>1, <2>2, <2>3, <2>4
<1> QED BY <1>0, <1>1, <1>2, <1>3, <1>4, ProducerWalks DEF Equipped, Trying

\* A run's actors write its own rows.
LEMMA ResourceApart ==
  ASSUME HostInv, NEW r \in Runs, Dispatching(r) \/ Executing(r) \/ VerifyingRun(r), NEW q \in Runs, q # r
  PROVE  resource'[q] = resource[q]
<1>1. RowsKept \/ RunMethod(r) \/ ResourceMethod(r) BY DispatchingRows, ExecutingRows, VerifyingRows
<1>2. ResourceFollows(r) \/ Claim(r) => resource'[q] = resource[q]
  BY DEF ResourceFollows, Claim, HostInv, StopInv, RowsTyped
<1> QED BY <1>1, <1>2, RunMethodFollows, ResourceMethodFollows DEF HostInv, RowsKept

LEMMA HostsApart ==
  ASSUME HostInv, MachinesTyped, NEW r \in Runs, Dispatching(r) \/ Executing(r) \/ VerifyingRun(r), NEW q \in Runs, q # r
  PROVE  /\ exec'[q] = exec[q]
         /\ machine'[<<q, "produce">>] = machine[<<q, "produce">>]
         /\ machine'[<<q, "verify">>] = machine[<<q, "verify">>]
         /\ observer' = observer
<1> USE DEF Step, HostInv, HostsTyped
<1>1. CASE Dispatching(r)
  BY <1>1 DEF Dispatching, PrepareBudget, BindRun, Send, Reported, Accept, Execute, hostVars
<1>2. CASE Executing(r)
  <2>1. CASE Progress(r)
    <3>1. \E pc : exec' = [exec EXCEPT ![r].pc = pc] BY <2>1 DEF Progress
    <3> QED BY <2>1, <3>1 DEF Progress
  <2>2. CASE Observed(r)
    <3>1. \E pc : exec' = [exec EXCEPT ![r].pc = pc] BY <2>2 DEF Observed
    <3> QED BY <2>2, <3>1 DEF Observed
  <2>3. CASE Checks(r) \/ Caught(r) \/ Created(r) BY <2>3 DEF Checks, Caught, Created
  <2>4. CASE Destroy(r) \/ Allocate(r) BY <2>4, SetOne DEF Destroy, Allocate, Tasks
  <2>5. CASE \/ Schedule(r) \/ Receipt(r) \/ Pay(r) \/ StartCompletion(r) \/ Executed(r) \/ Collect(r) \/ Retain(r)
             \/ Throw(r) \/ Confirm(r) \/ FinalizeRun(r) \/ Pulse(r) \/ Die(r)
    BY <2>5 DEF Schedule, Receipt, Pay, StartCompletion, Executed, Collect, Retain, Throw, Confirm, FinalizeRun,
                Pulse, Die, hostVars
  <2> QED BY <1>2, <2>1, <2>2, <2>3, <2>4, <2>5 DEF Executing
<1>3. CASE VerifyingRun(r)
  <2>1. CASE AllocateVerifier(r) \/ DestroyVerifier(r)
    BY <2>1, SetOne DEF AllocateVerifier, DestroyVerifier, Tasks
  <2>2. CASE ~AllocateVerifier(r) /\ ~DestroyVerifier(r)
    BY <1>3, <2>2 DEF VerifyingRun, Claimed, CreatedVerifier, ReceiptVerifier, Verify, ThrowVerifier,
                      FailedVerifier, RecordVerifier, CleanupVerifier, Verified
  <2> QED BY <2>1, <2>2
<1> QED BY <1>1, <1>2, <1>3
-----------------------------------------------------------------------------
(* What an observer knows *)

VMachine(r) == machine[<<r, "verify">>]

\* An observer deletes a machine only when no executor can be at work on it any more and no
\* create can land behind its back: it knows the session, or the window is over.
ObserverAt(c) == LET r == observer[c].run IN
  /\ observer[c].pc = "expire" => Has(r) /\ (observer[c].session => resource[r].session)
  /\ observer[c].pc \in {"destroy", "confirm"} =>
       /\ Has(r) /\ ~Leased(r)
       /\ IF observer[c].session THEN resource[r].session ELSE WindowOver(WorkDeadline)
  /\ observer[c].pc = "confirm" => Producer(r) # "running"
  /\ observer[c].pc \in {"vdestroy", "vcleanup"} => verifier[r] # NoVerifier /\ WindowOver(verifier[r].deadline)
  /\ observer[c].pc = "vcleanup" => VMachine(r) # "running"

\* A machine that is not running when its window is over, or was seen and taken away, stays so.
ProducerStill(r) ==
  ProducerAt(r) /\ Has(r) /\ (resource[r].session \/ WindowOver(WorkDeadline)) /\ Producer(r) # "running"
    => Producer(r)' # "running"
VerifierStill(r) ==
  verifier[r] # NoVerifier /\ WindowOver(verifier[r].deadline) /\ VMachine(r) # "running"
    => VMachine(r)' # "running"

LEMMA LateStarts ==
  ASSUME HostInv, MachinesTyped, CloudNext, NEW r \in Runs
  PROVE  ProducerStill(r) /\ VerifierStill(r)
<1> DEFINE p == <<r, "produce">>
           v == <<r, "verify">>
<1>1. p \in Runs \X Tasks /\ v \in Runs \X Tasks BY DEF Tasks
<1>2. Starts(p) /\ Starts(v) BY <1>1, StepStarts DEF HostInv
<1>3. now \in Nat /\ Grace \in Nat BY StepClock, StoreAssumption
<1>4. CreateLimit(p) = WorkDeadline + Grace BY DEF CreateLimit
<1>5. verifier[r] # NoVerifier => CreateLimit(v) = verifier[r].deadline + Grace BY DEF CreateLimit
<1>6. WindowOver(WorkDeadline) => ~(now < CreateLimit(p)) BY <1>3, <1>4, SentinelsApart DEF WindowOver
<1>7. verifier[r] # NoVerifier => verifier[r].deadline \in Nat
  BY SentinelsApart DEF HostInv, VerifiersTyped, Verifier
<1>8. verifier[r] # NoVerifier /\ WindowOver(verifier[r].deadline) => ~(now < CreateLimit(v))
  BY <1>3, <1>5, <1>7 DEF WindowOver
<1>9. ProducerAt(r) /\ Has(r) /\ resource[r].session => Producer(r) # "asked" BY DEF ProducerAt, Landed
<1> QED BY <1>2, <1>6, <1>8, <1>9 DEF Starts, Producer, VMachine, ProducerStill, VerifierStill

LEMMA ObserverStays ==
  ASSUME HostInv, MachinesTyped, CloudNext, \A r \in Runs : ProducerAt(r),
         NEW c \in Observers, ObserverAt(c), observer'[c] = observer[c]
  PROVE  ObserverAt(c)'
<1>1. CASE observer[c].pc = "idle" BY <1>1 DEF ObserverAt
<1>2. CASE observer[c].pc # "idle"
  <2>1. PICK r \in Runs : r = observer[c].run BY <1>2 DEF HostInv, HostsTyped, Seeing
  <2>2. ResourceGrows(r) /\ VerifierGrows(r) /\ ClockStep /\ ProducerAt(r) BY StepContext
  <2>3. WindowOver(WorkDeadline) => WindowOver(WorkDeadline)' BY <2>2, WindowsStay, SentinelsApart
  <2>4. verifier[r] # NoVerifier /\ WindowOver(verifier[r].deadline)
          => verifier'[r] # NoVerifier /\ WindowOver(verifier[r].deadline)'
    <3>1. SUFFICES ASSUME verifier[r] # NoVerifier, WindowOver(verifier[r].deadline)
                   PROVE  verifier'[r] # NoVerifier /\ WindowOver(verifier[r].deadline)'
      OBVIOUS
    <3>2. PICK t \in Nat : t = verifier[r].deadline
      BY <2>1, <3>1, SentinelsApart DEF HostInv, VerifiersTyped, Verifier
    <3>3. WindowOver(t)' BY <2>2, <3>1, <3>2, WindowsStay
    <3>4. verifier'[r] # NoVerifier /\ verifier'[r].deadline = t BY <2>2, <3>1, <3>2 DEF VerifierGrows
    <3> QED BY <3>3, <3>4 DEF WindowOver
  <2>5. Has(r) /\ ~Leased(r) => Has(r)' /\ ~Leased(r)' BY <2>2 DEF ResourceGrows
  <2>6. Has(r) /\ resource[r].session => Has(r)' /\ resource'[r].session BY <2>2 DEF ResourceGrows
  <2>7. Has(r) => Has(r)' BY <2>2 DEF ResourceGrows
  <2>8. ProducerStill(r) /\ VerifierStill(r) BY LateStarts
  <2>9. \/ observer[c].pc \notin {"expire", "destroy", "confirm", "vdestroy", "vcleanup"}
        \/ observer[c].pc = "expire" \/ observer[c].pc = "destroy" \/ observer[c].pc = "confirm"
        \/ observer[c].pc = "vdestroy" \/ observer[c].pc = "vcleanup"
    OBVIOUS
  <2>10. CASE observer[c].pc = "confirm"
    <3>1. Has(r) /\ ~Leased(r) /\ Producer(r) # "running" /\ (resource[r].session \/ WindowOver(WorkDeadline))
      BY <2>1, <2>10 DEF ObserverAt
    <3>2. Producer(r)' # "running" BY <2>2, <2>8, <3>1 DEF ProducerStill
    <3> QED BY <2>1, <2>3, <2>5, <2>6, <2>10, <3>1, <3>2 DEF ObserverAt
  <2>11. CASE observer[c].pc = "vcleanup"
    <3>1. verifier[r] # NoVerifier /\ WindowOver(verifier[r].deadline) /\ VMachine(r) # "running"
      BY <2>1, <2>11 DEF ObserverAt
    <3>2. VMachine(r)' # "running" BY <2>8, <3>1 DEF VerifierStill
    <3> QED BY <2>1, <2>4, <2>11, <3>1, <3>2 DEF ObserverAt
  <2>12. CASE observer[c].pc \notin {"confirm", "vcleanup"}
    BY <2>1, <2>3, <2>4, <2>5, <2>6, <2>7, <2>12 DEF ObserverAt
  <2> QED BY <2>10, <2>11, <2>12
<1> QED BY <1>1, <1>2

LEMMA ObserverMoves ==
  ASSUME HostInv, MachinesTyped, NEW c \in Observers, ObserverAt(c),
         Reconciling(c) \/ GiveUp(c) \/ \E r \in Runs : Read(c, r)
  PROVE  ObserverAt(c)'
<1> USE DEF Seeing
<1>0. observer \in [Observers -> Observer] /\ observer[c] \in Observer BY DEF HostInv, HostsTyped
<1>1. ~Seeing(c, "idle") => observer[c].run \in Runs BY DEF HostInv, HostsTyped
<1>2. ASSUME NEW pc \in {"verifier", "note", "finalize"}, Then(c, pc) PROVE ObserverAt(c)'
  <2>1. observer'[c].pc = pc BY <1>0, <1>2 DEF Then, Observer
  <2> QED BY <2>1 DEF ObserverAt
<1>3. ASSUME Quit(c) PROVE ObserverAt(c)'
  <2>1. observer'[c].pc = "idle" BY <1>0, <1>3 DEF Quit, Idle
  <2> QED BY <2>1 DEF ObserverAt
<1>4. CASE Expire(c)
  <2>1. CASE Quit(c) BY <1>3, <2>1
  <2>2. CASE ~Quit(c)
    <3>1. PICK r \in Runs : r = observer[c].run BY <1>1, <1>4 DEF Expire
    <3>2. observer[c].session \/ WindowOver(WorkDeadline) BY <1>4, <2>2 DEF Expire
    <3>3. observer'[c].pc = "destroy" /\ observer'[c].run = r /\ observer'[c].session = observer[c].session
      BY <1>0, <1>4, <2>2, <3>1 DEF Expire, Then, Observer
    <3>4. Has(r) /\ (observer[c].session => resource[r].session) BY <1>4, <3>1 DEF Expire, ObserverAt
    <3>5. ~Leased(r) /\ UNCHANGED <<resource, now>>
      <4>1. resource[r].lease \in Nat /\ now \in Nat BY <3>4 DEF Has, HostInv, StopInv, RowsTyped, Resource
      <4> QED BY <1>4, <3>1, <4>1 DEF Expire, ReconcileExpired, storeVars, Leased, Unclean
    <3> QED BY <3>2, <3>3, <3>4, <3>5 DEF ObserverAt, Has, Leased, Unclean, WindowOver
  <2> QED BY <2>1, <2>2
<1>5. CASE DestroyStale(c)
  <2>1. PICK r \in Runs : r = observer[c].run BY <1>1, <1>5 DEF DestroyStale
  <2>2. observer'[c].pc = "confirm" /\ observer'[c].run = r /\ observer'[c].session = observer[c].session
    BY <1>0, <1>5, <2>1 DEF DestroyStale, Then, Observer
  <2>3. UNCHANGED <<resource, now>> BY <1>5 DEF DestroyStale, storeVars, ledgerVars
  <2>4. Producer(r)' # "running"
    BY <1>5, <2>1 DEF DestroyStale, Remove, Producer, MachinesTyped, Tasks
  <2>5. /\ Has(r) /\ ~Leased(r)
        /\ IF observer[c].session THEN resource[r].session ELSE WindowOver(WorkDeadline)
    BY <1>5, <2>1 DEF DestroyStale, ObserverAt
  <2> QED BY <2>2, <2>3, <2>4, <2>5 DEF ObserverAt, Has, Leased, Unclean, WindowOver
<1>6. CASE Reconcile(c)
  <2>1. CASE Then(c, AfterVerifier(c)) BY <1>2, <2>1 DEF AfterVerifier
  <2>2. CASE ~Then(c, AfterVerifier(c))
    <3>1. PICK r \in Runs : r = observer[c].run BY <1>1, <1>6 DEF Reconcile
    <3>2. verifier[r] # NoVerifier /\ WindowOver(verifier[r].deadline) /\ UNCHANGED <<verifier, now>>
      BY <1>6, <2>2, <3>1 DEF Reconcile, storeVars, ledgerVars
    <3> DEFINE held == verifier[observer[c].run].session
               row  == [observer[c] EXCEPT !.pc = "vdestroy", !.vsession = held]
    <3>3. observer' = [observer EXCEPT ![c] = row] BY <1>6, <2>2 DEF Reconcile
    <3>4. row.pc = "vdestroy" /\ row.run = r BY <1>0, <3>1 DEF Observer
    <3> HIDE DEF row
    <3>5. observer'[c].pc = "vdestroy" /\ observer'[c].run = r BY <1>0, <3>3, <3>4
    <3> QED BY <3>2, <3>5 DEF ObserverAt, WindowOver
  <2> QED BY <2>1, <2>2
<1>7. CASE DestroyStaleVerifier(c)
  <2>1. PICK r \in Runs : r = observer[c].run BY <1>1, <1>7 DEF DestroyStaleVerifier
  <2>2. observer'[c].pc = "vcleanup" /\ observer'[c].run = r
    BY <1>0, <1>7, <2>1 DEF DestroyStaleVerifier, Then, Observer
  <2>3. verifier[r] # NoVerifier /\ WindowOver(verifier[r].deadline) /\ UNCHANGED <<verifier, now>>
    BY <1>7, <2>1 DEF DestroyStaleVerifier, ObserverAt, storeVars, ledgerVars
  <2>4. VMachine(r)' # "running"
    BY <1>7, <2>1 DEF DestroyStaleVerifier, Remove, VMachine, MachinesTyped, Tasks
  <2> QED BY <2>2, <2>3, <2>4 DEF ObserverAt, WindowOver
<1>8. CASE ConfirmStale(c) BY <1>2, <1>8 DEF ConfirmStale
<1>9. CASE CleanStaleVerifier(c) BY <1>2, <1>9 DEF CleanStaleVerifier, AfterVerifier
<1>10. CASE NoteInterrupted(c) BY <1>2, <1>10 DEF NoteInterrupted
<1>11. CASE FinalizeStale(c) \/ GiveUp(c) BY <1>3, <1>11 DEF FinalizeStale, GiveUp
<1>12. ASSUME NEW r \in Runs, Read(c, r) PROVE ObserverAt(c)'
  <2>1. CASE Has(r)
    <3> DEFINE next  == IF resource[r].clean THEN "verifier" ELSE "expire"
               held  == resource[r].session
               clean == resource[r].clean
               want  == IF resource[r].clean /\ r \in custody /\ resource[r].passed THEN "COMPLETED" ELSE "FAILED"
               row   == [Idle EXCEPT !.pc = next, !.run = r, !.session = held, !.clean = clean, !.requested = want]
    <3>1. observer' = [observer EXCEPT ![c] = row] /\ UNCHANGED resource
      BY <1>12, <2>1 DEF Read, storeVars
    <3>2. row.pc = next /\ row.run = r /\ row.session = held BY DEF Idle
    <3> HIDE DEF row
    <3>3. observer'[c].pc = next /\ observer'[c].run = r /\ observer'[c].session = held BY <1>0, <3>1, <3>2
    <3>4. next \in {"verifier", "expire"} OBVIOUS
    <3>5. Has(r)' /\ resource'[r].session = held BY <2>1, <3>1 DEF Has
    <3> HIDE DEF next, held, want, clean
    <3> QED BY <3>3, <3>4, <3>5 DEF ObserverAt
  <2>2. CASE ~Has(r)
    <3> DEFINE row == [Idle EXCEPT !.pc = "finalize", !.run = r, !.requested = "CANCELLED"]
    <3>1. observer' = [observer EXCEPT ![c] = row] BY <1>12, <2>2 DEF Read
    <3>2. row.pc = "finalize" BY DEF Idle
    <3> HIDE DEF row
    <3>3. observer'[c].pc = "finalize" BY <1>0, <3>1, <3>2
    <3> QED BY <3>3 DEF ObserverAt
  <2> QED BY <2>1, <2>2
<1> QED BY <1>4, <1>5, <1>6, <1>7, <1>8, <1>9, <1>10, <1>11, <1>12 DEF Reconciling

\* A delivery writes the process of its own observer only, and leaves every executor alone.
LEMMA ReconcilingApart ==
  ASSUME HostInv, NEW c \in Observers, Reconciling(c) \/ GiveUp(c) \/ \E r \in Runs : Read(c, r)
  PROVE  exec' = exec /\ \A d \in Observers : d # c => observer'[d] = observer[d]
<1>1. exec' = exec
  BY DEF Reconciling, Expire, DestroyStale, ConfirmStale, Reconcile, DestroyStaleVerifier, CleanStaleVerifier,
         NoteInterrupted, FinalizeStale, GiveUp, Read
<1>2. \E row : observer' = [observer EXCEPT ![c] = row]
  BY DEF Reconciling, Expire, DestroyStale, ConfirmStale, Reconcile, DestroyStaleVerifier, CleanStaleVerifier,
         NoteInterrupted, FinalizeStale, GiveUp, Read, Then, Quit
<1> QED BY <1>1, <1>2 DEF HostInv, HostsTyped

LEMMA ProducerReconciling ==
  ASSUME HostInv, MachinesTyped, CloudNext, NEW c \in Observers, ObserverAt(c),
         Reconciling(c) \/ GiveUp(c) \/ \E r \in Runs : Read(c, r), NEW q \in Runs, ProducerAt(q)
  PROVE  ProducerAt(q)'
<1> USE DEF Seeing
<1>0. ClockStep /\ ResourceGrows(q) /\ exec' = exec BY StepContext, ReconcilingApart
<1>1. ~Seeing(c, "idle") => observer[c].run \in Runs BY DEF HostInv, HostsTyped
<1>2. CASE DestroyStale(c)
  <2>1. PICK r \in Runs : r = observer[c].run BY <1>1, <1>2 DEF DestroyStale
  <2>2. UNCHANGED <<resource, now>> BY <1>2 DEF DestroyStale, storeVars, ledgerVars
  <2>3. CASE r = q
    <3>1. Producer(q)' = IF Producer(q) = "running" THEN "gone" ELSE Producer(q)
      BY <1>2, <2>1, <2>3 DEF DestroyStale, Remove, Producer, MachinesTyped, Tasks
    <3>2. Has(q) /\ ~Leased(q) BY <1>2, <2>1, <2>3 DEF DestroyStale, ObserverAt
    <3>3. (Has(q)' <=> Has(q)) /\ (Clean(q)' <=> Clean(q)) /\ (Unclean(q)' <=> Unclean(q))
          /\ (Leased(q)' <=> Leased(q)) /\ WindowOver(WorkDeadline)' = WindowOver(WorkDeadline)
      BY <2>2 DEF Has, Clean, Unclean, Leased, WindowOver
    <3> QED BY <1>0, <2>2, <3>1, <3>2, <3>3 DEF ProducerAt, Landed
  <2>4. CASE r # q
    <3>1. Producer(q)' = Producer(q)
      BY <1>2, <2>1, <2>4 DEF DestroyStale, Remove, Producer, MachinesTyped, Tasks
    <3> QED BY <1>0, <2>2, <3>1, ProducerStays DEF ResourceSame, Has
  <2> QED BY <2>3, <2>4
<1>3. CASE ConfirmStale(c)
  <2>1. PICK r \in Runs : r = observer[c].run BY <1>1, <1>3 DEF ConfirmStale
  <2>2. Producer(q)' = Producer(q) BY <1>3 DEF ConfirmStale, Producer
  <2> DEFINE row == [resource[r] EXCEPT !.state = "DESTROYED", !.clean = TRUE]
  <2>3. resource' = [resource EXCEPT ![r] = row] /\ Has(r) /\ resource[r] \in Resource /\ now' = now
    BY <1>3, <2>1 DEF ConfirmStale, ConfirmCleanup, Has, HostInv, StopInv, RowsTyped
  <2>4. row \in Resource /\ row.clean /\ row.session = resource[r].session BY <2>3 DEF Resource
  <2> HIDE DEF row
  <2>5. CASE r = q
    <3>1. Has(q)' /\ Clean(q)' /\ ~Unclean(q)' /\ ~Leased(q)' /\ resource'[q].session = resource[q].session
      BY <2>3, <2>4, <2>5, SentinelsApart DEF Has, Clean, Unclean, Leased, HostInv, StopInv, RowsTyped
    <3>2. Producer(q) # "running" /\ (resource[q].session \/ WindowOver(WorkDeadline))
      BY <1>3, <2>1, <2>5 DEF ConfirmStale, ObserverAt
    <3>3. WindowOver(WorkDeadline)' = WindowOver(WorkDeadline) BY <2>3 DEF WindowOver
    <3> QED BY <1>0, <2>2, <2>3, <2>5, <3>1, <3>2, <3>3 DEF ProducerAt, Landed
  <2>6. CASE r # q
    <3>1. resource'[q] = resource[q] BY <2>3, <2>6 DEF HostInv, StopInv, RowsTyped
    <3> QED BY <1>0, <2>2, <3>1, ProducerStays DEF ResourceSame, Has
  <2> QED BY <2>5, <2>6
<1>4. CASE DestroyStaleVerifier(c)
  <2>1. observer[c].run \in Runs /\ UNCHANGED resource BY <1>1, <1>4 DEF DestroyStaleVerifier, storeVars
  <2>2. Producer(q)' = Producer(q)
    BY <1>4, <2>1 DEF DestroyStaleVerifier, Remove, Producer, MachinesTyped, Tasks
  <2> QED BY <1>0, <2>1, <2>2, ProducerStays DEF ResourceSame, Has
<1>5. CASE NoteInterrupted(c)
  <2>1. Producer(q)' = Producer(q) /\ ResourceSame(q)
    BY <1>1, <1>5, MethodsSame DEF NoteInterrupted, Producer, HostInv
  <2> QED BY <1>0, <2>1, ProducerStays
<1>6. CASE \/ Expire(c) \/ Reconcile(c) \/ CleanStaleVerifier(c) \/ FinalizeStale(c) \/ GiveUp(c)
           \/ \E r \in Runs : Read(c, r)
  <2>1. UNCHANGED <<resource, machine>>
    BY <1>6 DEF Expire, ReconcileExpired, Reconcile, CleanStaleVerifier, CleanVerifier, FinalizeStale, Finalize,
                GiveUp, Read, storeVars
  <2> QED BY <1>0, <2>1, ProducerStays DEF ResourceSame, Has, Producer
<1> QED BY <1>2, <1>3, <1>4, <1>5, <1>6 DEF Reconciling

LEMMA ProducerDispatching ==
  ASSUME HostInv, CloudNext, NEW r \in Runs, ProducerAt(r), Dispatching(r)
  PROVE  ProducerAt(r)'
<1>0. ClockStep /\ ResourceGrows(r) BY StepContext
<1>1. CASE Execute(r) BY <1>1, ProducerExecute
<1>2. CASE ~Execute(r)
  <2>1. UNCHANGED <<exec, machine>>
    BY <1>2 DEF Dispatching, PrepareBudget, BindRun, Send, Reported, Accept, hostVars
  <2>2. UNCHANGED resource \/ Stopped(r)
    BY <1>2 DEF Dispatching, PrepareBudget, BindRun, Send, Reported, Accept, Admit, ReserveDelivery, RecordSent,
                RecordUnsent, AcceptDelivery, StopRun, storeVars
  <2>3. ResourceSame(r) BY <2>2, MethodsSame DEF ResourceSame, Has, HostInv
  <2> QED BY <1>0, <2>1, <2>3, ProducerStays DEF Producer
<1> QED BY <1>1, <1>2

LEMMA ProducerOutside ==
  ASSUME HostInv, MachinesTyped, CloudNext, NEW q \in Runs, ProducerAt(q),
         CloudTick \/ \E m \in Runs \X Tasks : Lands(m) \/ TimesOut(m)
  PROVE  ProducerAt(q)'
<1>0. ClockStep /\ ResourceGrows(q) BY StepContext
<1>1. UNCHANGED <<exec, resource>> BY DEF CloudTick, Lands, TimesOut, storeVars, hostVars
<1>2. CASE Producer(q)' = Producer(q)
  BY <1>0, <1>1, <1>2, ProducerStays DEF ResourceSame, Has
<1>3. CASE Producer(q)' # Producer(q)
  <2>1. PICK m \in Runs \X Tasks : Lands(m) \/ TimesOut(m) BY <1>3 DEF CloudTick, hostVars, Producer
  <2>2. m = <<q, "produce">> BY <1>3, <2>1 DEF Lands, TimesOut, Set, Producer, MachinesTyped, Tasks
  <2>3. CreateLimit(m) = WorkDeadline + Grace BY <2>2 DEF CreateLimit
  <2>4. now' = now /\ now \in Nat /\ Grace \in Nat /\ WorkDeadline \in Nat
    BY <1>0, <2>1, StoreAssumption, SentinelsApart DEF Lands, TimesOut, ledgerVars, ClockStep
  <2>5. (Has(q)' <=> Has(q)) /\ (Clean(q)' <=> Clean(q)) /\ (Unclean(q)' <=> Unclean(q)) /\ (Leased(q)' <=> Leased(q))
    BY <1>1, <2>4 DEF Has, Clean, Unclean, Leased
  <2>6. CASE Lands(m)
    <3>1. Producer(q) = "asked" /\ Producer(q)' = "running"
      BY <2>2, <2>6 DEF Lands, Set, Producer, MachinesTyped, Tasks
    <3>2. ~WindowOver(WorkDeadline) BY <2>3, <2>4, <2>6 DEF Lands, WindowOver
    <3>3. Unclean(q) BY <3>1, <3>2 DEF ProducerAt, Clean, Unclean
    <3> QED BY <1>1, <2>5, <3>1, <3>3 DEF ProducerAt, Landed
  <2>7. CASE TimesOut(m)
    <3>1. Producer(q) = "running" /\ Producer(q)' = "gone"
      BY <2>2, <2>7 DEF TimesOut, Set, Producer, MachinesTyped, Tasks
    <3>2. ~(WorkDeadline > now) BY <2>3, <2>4, <2>7 DEF TimesOut
    <3>3. ~Leased(q) BY <3>2 DEF Leased
    <3> QED BY <1>1, <2>5, <3>1, <3>3 DEF ProducerAt, Landed
  <2> QED BY <2>1, <2>6, <2>7
<1> QED BY <1>2, <1>3

LEMMA ActorsObserve ==
  ASSUME NEW r \in Runs, Dispatching(r) \/ Executing(r) \/ VerifyingRun(r)
  PROVE  observer' = observer
<1>1. CASE Dispatching(r)
  BY <1>1 DEF Dispatching, PrepareBudget, BindRun, Send, Reported, Accept, Execute, hostVars
<1>2. CASE Executing(r)
  BY <1>2 DEF Executing, Schedule, Allocate, Created, Receipt, Progress, Pay, StartCompletion, Executed, Collect,
              Retain, Checks, Throw, Caught, Destroy, Confirm, Observed, FinalizeRun, Pulse, Die, hostVars
<1>3. CASE VerifyingRun(r)
  BY <1>3 DEF VerifyingRun, Claimed, AllocateVerifier, CreatedVerifier, ReceiptVerifier, Verify, ThrowVerifier,
              FailedVerifier, DestroyVerifier, RecordVerifier, CleanupVerifier, Verified
<1> QED BY <1>1, <1>2, <1>3

\* Invariant: rows, actors and machines fit together.
MachineInv == /\ HostInv /\ MachinesTyped
              /\ \A r \in Runs : ProducerAt(r)
              /\ \A c \in Observers : ObserverAt(c)

LEMMA MachineInvInit == CloudInit => MachineInv
<1> SUFFICES ASSUME CloudInit PROVE MachineInv OBVIOUS
<1>1. MachinesTyped /\ \A r \in Runs : Producer(r) = "none"
  BY DEF CloudInit, MachinesTyped, Machines, Producer, Tasks
<1>2. \A r \in Runs : ~Has(r) /\ exec[r].pc = "none" /\ ~exec[r].sandbox BY DEF CloudInit, StoreInit, Has
<1>3. \A r \in Runs : ProducerAt(r) BY <1>1, <1>2 DEF ProducerAt, Clean, Equipped, Trying
<1>4. \A c \in Observers : ObserverAt(c) BY DEF CloudInit, Idle, ObserverAt
<1> QED BY <1>1, <1>3, <1>4, HostInvInit DEF MachineInv

LEMMA MachineInvStep == MachineInv /\ [CloudNext]_cloudVars => MachineInv'
<1> SUFFICES ASSUME MachineInv, [CloudNext]_cloudVars PROVE MachineInv' OBVIOUS
<1>0. HostInv' BY HostInvStep DEF MachineInv
<1>1. CASE UNCHANGED cloudVars
  BY <1>0, <1>1 DEF cloudVars, MachineInv, MachinesTyped, ProducerAt, ObserverAt, Has, Clean, Unclean, Leased,
                    Producer, VMachine, WindowOver
<1>2. CASE CloudNext
  <2>1. MachinesTyped' BY <1>2, StepStarts DEF MachineInv, HostInv
  <2>2. ASSUME NEW r \in Runs, Dispatching(r) \/ Executing(r) \/ VerifyingRun(r), NEW q \in Runs
        PROVE  ProducerAt(q)'
    <3>1. CASE q = r
      BY <1>2, <2>2, <3>1, ProducerDispatching, ProducerExecuting, ProducerVerifying DEF MachineInv
    <3>2. CASE q # r
      <4>1. resource'[q] = resource[q] /\ exec'[q] = exec[q] /\ Producer(q)' = Producer(q)
        BY <2>2, <3>2, ResourceApart, HostsApart DEF MachineInv, Producer
      <4>2. ClockStep /\ ResourceGrows(q) BY <1>2, StepContext DEF MachineInv
      <4> QED BY <4>1, <4>2, ProducerStays DEF MachineInv, ResourceSame, Has
    <3> QED BY <3>1, <3>2
  <2>3. ASSUME NEW c \in Observers, Reconciling(c) \/ GiveUp(c) \/ \E r \in Runs : Read(c, r), NEW q \in Runs
        PROVE  ProducerAt(q)'
    BY <1>2, <2>3, ProducerReconciling DEF MachineInv
  <2>4. ASSUME CloudTick \/ \E m \in Runs \X Tasks : Lands(m) \/ TimesOut(m), NEW q \in Runs
        PROVE  ProducerAt(q)'
    BY <1>2, <2>4, ProducerOutside DEF MachineInv
  <2>5. \A q \in Runs : ProducerAt(q)' BY <1>2, <2>2, <2>3, <2>4 DEF CloudNext
  <2>6. ASSUME NEW c \in Observers PROVE ObserverAt(c)'
    <3>1. CASE Reconciling(c) \/ GiveUp(c) \/ \E r \in Runs : Read(c, r)
      BY <3>1, ObserverMoves DEF MachineInv
    <3>2. CASE observer'[c] = observer[c] BY <1>2, <3>2, ObserverStays DEF MachineInv
    <3>3. ASSUME NEW r \in Runs, Dispatching(r) \/ Executing(r) \/ VerifyingRun(r)
          PROVE  observer' = observer
      BY <3>3, ActorsObserve
    <3>4. ASSUME NEW d \in Observers, d # c, Reconciling(d) \/ GiveUp(d) \/ \E r \in Runs : Read(d, r)
          PROVE  observer'[c] = observer[c]
      BY <3>4, ReconcilingApart DEF MachineInv
    <3>5. CloudTick \/ (\E m \in Runs \X Tasks : Lands(m) \/ TimesOut(m)) => observer' = observer
      BY DEF CloudTick, Lands, TimesOut, hostVars
    <3> QED BY <1>2, <3>1, <3>2, <3>3, <3>4, <3>5 DEF CloudNext
  <2> QED BY <1>0, <2>1, <2>5, <2>6 DEF MachineInv
<1> QED BY <1>1, <1>2
-----------------------------------------------------------------------------
(* A stop ends spending *)

\* A stop reaches the resource of its run, whether it was claimed before the stop or not.
StoppedCancelled == \A r \in Runs : Has(r) /\ run[r].stopped => resource[r].cancelled

\* Whoever records a stop of a run with a resource ends its lease.
LEMMA StopsCancel ==
  ASSUME HostInv, CloudNext, NEW r \in Runs, Has(r), ~run[r].stopped, run'[r].stopped
  PROVE  resource'[r].cancelled
<1> USE SentinelsApart DEF HostInv, StopInv, RowsTyped
<1>0. Admitted(r) /\ run[r] \in Run /\ resource[r] \in Resource BY DEF ClaimedDelivered, Admitted, Has
<1>1. PICK q \in Runs : RunMethod(q)
  <2>1. ASSUME NEW q \in Runs, ResourceMethod(q) PROVE run' = run
    BY <2>1, ResourceMethodWrites DEF ResourceWritten
  <2> QED BY <2>1, StepRows DEF RowsKept
<1>2. q = r
  <2>1. ASSUME q # r PROVE run'[r] = run[r]
    BY <1>1, <2>1 DEF RunMethod, Admit, ReserveDelivery, StopRun, RecordSent, RecordUnsent, AcceptDelivery, Claim,
                      Finalize
  <2> QED BY <2>1
<1>3. CASE Stopped(r)
  <2> DEFINE row == [resource[r] EXCEPT !.cancelled = TRUE, !.lease = now]
  <2>1. resource' = [resource EXCEPT ![r] = row] BY <1>3 DEF Stopped
  <2>2. row.cancelled BY <1>0 DEF Resource
  <2> HIDE DEF row
  <2> QED BY <2>1, <2>2
<1>4. CASE ~Stopped(r)
  <2>1. ASSUME NEW intent, run' = [run EXCEPT ![r].intent = intent] PROVE run'[r].stopped = run[r].stopped
    BY <1>0, <2>1 DEF Run
  <2>2. ASSUME NEW v, NEW held, run' = [run EXCEPT ![r] = [@ EXCEPT !.terminal = v, !.candidate = held]]
        PROVE  run'[r].stopped = run[r].stopped
    BY <1>0, <2>2 DEF Run
  <2>3. CASE \E v \in Outcomes : Finalize(r, v) BY <2>2, <2>3 DEF Finalize
  <2>4. CASE Admit(r) \/ Claim(r) BY <1>0, <2>4 DEF Admit, Claim
  <2>5. CASE ReserveDelivery(r) \/ RecordSent(r) \/ RecordUnsent(r) \/ AcceptDelivery(r)
    BY <1>4, <2>1, <2>5 DEF ReserveDelivery, RecordSent, RecordUnsent, AcceptDelivery
  <2> QED BY <1>1, <1>2, <1>4, <2>3, <2>4, <2>5 DEF RunMethod, StopRun
<1> QED BY <1>3, <1>4

\* Only a claim writes a resource for a run that has none.
LEMMA FirstRow ==
  ASSUME HostInv, CloudNext, NEW r \in Runs, ~Has(r), Has(r)'
  PROVE  Claim(r)
<1> USE SentinelsApart DEF HostInv, StopInv, RowsTyped
<1>1. ASSUME NEW q \in Runs, Has(q), ResourceFollows(q) PROVE resource'[r] = resource[r]
  BY <1>1 DEF ResourceFollows
<1>2. ASSUME NEW q \in Runs, Claim(q), q # r PROVE resource'[r] = resource[r]
  BY <1>2 DEF Claim
<1>3. ASSUME NEW q \in Runs, RunMethod(q) PROVE Claim(r)
  BY <1>1, <1>2, <1>3, RunMethodFollows DEF Has
<1>4. ASSUME NEW q \in Runs, ResourceMethod(q) PROVE FALSE
  BY <1>1, <1>4, ResourceMethodFollows DEF Has
<1> QED BY <1>3, <1>4, StepRows DEF RowsKept, Has

SpendInv == MachineInv /\ AccountInv /\ StoppedCancelled

LEMMA SpendInvInit == CloudInit => SpendInv
BY MachineInvInit, AccountInvInit DEF SpendInv, StoppedCancelled, CloudInit, StoreInit, Has

LEMMA SpendInvStep == SpendInv /\ [CloudNext]_cloudVars => SpendInv'
<1> SUFFICES ASSUME SpendInv, [CloudNext]_cloudVars PROVE SpendInv' OBVIOUS
<1>1. MachineInv' /\ AccountInv' BY MachineInvStep, AccountInvStep DEF SpendInv
<1>2. CASE UNCHANGED cloudVars BY <1>1, <1>2 DEF cloudVars, SpendInv, StoppedCancelled, Has
<1>3. CASE CloudNext
  <2>1. HostInv BY DEF SpendInv, MachineInv
  <2>2. SUFFICES ASSUME NEW r \in Runs, Has(r)', run'[r].stopped PROVE resource'[r].cancelled
    BY <1>1 DEF SpendInv, StoppedCancelled
  <2>3. CASE ~Has(r)
    <3>1. Claim(r) BY <1>3, <2>1, <2>2, <2>3, FirstRow
    <3> QED BY <2>2, <3>1 DEF Claim, Open
  <2>4. CASE Has(r) /\ run[r].stopped
    <3>1. ResourceGrows(r) BY <1>3, <2>1, StepContext
    <3> QED BY <2>4, <3>1 DEF ResourceGrows, SpendInv, StoppedCancelled
  <2>5. CASE Has(r) /\ ~run[r].stopped BY <1>3, <2>1, <2>2, <2>5, StopsCancel
  <2> QED BY <2>3, <2>4, <2>5
<1> QED BY <1>2, <1>3

\* An executor whose lease runs has its machine: nobody took it away.
LEMMA LeaseHasMachine ==
  ASSUME SpendInv, NEW r \in Runs, LeaseRunning(r), exec[r].pc \in Trying
  PROVE  Producer(r) = "running" /\ ~run[r].stopped
<1>1. Has(r) /\ Leased(r) /\ resource[r].session /\ ~resource[r].cancelled
  BY DEF LeaseRunning, Leased, Unclean
<1>2. ProducerAt(r) BY DEF SpendInv, MachineInv
<1>3. Producer(r) \in Landed /\ Producer(r) # "gone" BY <1>1, <1>2 DEF ProducerAt
<1> QED BY <1>1, <1>3 DEF Landed, SpendInv, StoppedCancelled

\* A step that writes a dispatched operation is the payment of its run.
LEMMA DispatchPays ==
  ASSUME SpendInv, CloudNext, NEW r \in Runs, NEW ph \in Phases,
         op'[<<r, ph>>] # op[<<r, ph>>], op'[<<r, ph>>].state = "dispatched"
  PROVE  LeaseRunning(r) /\ exec[r].pc = "execute"
<1> USE OpsOfRunsTyped DEF SpendInv, AccountInv, OpsTyped
<1> DEFINE o == <<r, ph>>
<1>1. o \in OpIds OBVIOUS
<1>2. ASSUME NEW q \in Runs, NEW session \in BOOLEAN, ConfirmCleanup(q, session) PROVE FALSE
  <2>1. op'[o] = IF o \in OpsOfRun(q) /\ op[o].state \in {"reserved", "dispatched"}
                 THEN [op[o] EXCEPT !.state = "unknown"] ELSE op[o]
    BY <1>1, <1>2 DEF ConfirmCleanup
  <2>2. o \in OpsOfRun(q) /\ op'[o] = [op[o] EXCEPT !.state = "unknown"] BY <2>1
  <2>3. op[o] \in Row BY <1>1, <2>2 DEF OpsOfRun, Exists
  <2>4. op'[o].state = "unknown" BY <2>2, <2>3 DEF Row
  <2> QED BY <2>4
<1>3. PICK q \in Runs : Pay(q) BY <1>2, StepOps
<1>4. PICK p \in Phases :
        \/ LeaseRunning(q) /\ \E plan \in Plans : Reserve(<<q, p>>, BindingOf[q], plan.card, plan.perOp, p)
        \/ LeaseRunning(q) /\ MarkDispatched(<<q, p>>)
        \/ Exists(<<q, p>>) /\ \E x \in Receipts : Settle(<<q, p>>, op[<<q, p>>].reserved, x)
        \/ ReleaseUndispatched(<<q, p>>)
        \/ MarkUnknown(<<q, p>>)
  BY <1>3 DEF Pay
<1> DEFINE k == <<q, p>>
<1>5. k \in OpIds OBVIOUS
<1>6. exec[q].pc = "execute" BY <1>3 DEF Pay, In
<1> HIDE DEF k
<1>7. ASSUME NEW plan \in Plans, Reserve(k, BindingOf[q], plan.card, plan.perOp, p) PROVE FALSE
  <2> DEFINE row == [binding |-> BindingOf[q], card |-> plan.card, reserved |-> plan.perOp, phase |-> p,
                     actual |-> 0, receipt |-> NoReceipt, state |-> "reserved"]
  <2>1. op' = [op EXCEPT ![k] = row] /\ row.state = "reserved" BY <1>7 DEF Reserve
  <2> HIDE DEF row
  <2> QED BY <1>1, <1>5, <2>1
<1>8. ASSUME NEW s, op' = [op EXCEPT ![k].state = s], Exists(k) PROVE s = "dispatched" /\ k = o
  <2> DEFINE row == [op[k] EXCEPT !.state = s]
  <2>1. op' = [op EXCEPT ![k] = row] BY <1>8
  <2>2. row.state = s BY <1>5, <1>8 DEF Exists, Row
  <2> HIDE DEF row
  <2> QED BY <1>1, <1>5, <2>1, <2>2
<1>9. ~ReleaseUndispatched(k) /\ ~MarkUnknown(k)
  <2>1. ReleaseUndispatched(k) => Exists(k) /\ op' = [op EXCEPT ![k].state = "released"]
    BY DEF ReleaseUndispatched
  <2>2. MarkUnknown(k) => Exists(k) /\ op' = [op EXCEPT ![k].state = "unknown"] BY DEF MarkUnknown
  <2>3. ~(Exists(k) /\ op' = [op EXCEPT ![k].state = "released"]) BY <1>8
  <2>4. ~(Exists(k) /\ op' = [op EXCEPT ![k].state = "unknown"]) BY <1>8
  <2> QED BY <2>1, <2>2, <2>3, <2>4
<1>10. ASSUME Exists(k), NEW x \in Receipts, Settle(k, op[k].reserved, x) PROVE FALSE
  <2> DEFINE row == [op[k] EXCEPT !.actual = op[k].reserved, !.receipt = x, !.state = "settled"]
  <2>1. op' = [op EXCEPT ![k] = row] BY <1>10 DEF Settle
  <2>2. row.state = "settled" BY <1>5, <1>10 DEF Exists, Row
  <2> HIDE DEF row
  <2> QED BY <1>1, <1>5, <2>1, <2>2
<1>11. LeaseRunning(q) /\ MarkDispatched(k) BY <1>4, <1>7, <1>9, <1>10 DEF k
<1>12. k = o BY <1>8, <1>11 DEF MarkDispatched
<1> QED BY <1>6, <1>11, <1>12 DEF k

\* The provider boundary is crossed only for a run nobody stopped, and whose machine runs:
\* observers end the lease before they delete, and a stop ends it at once
\* (assertExecutionLease, reconcileExpired, stop).
THEOREM NoPaymentHolds == CloudSpec => NoPaymentAfterTeardown
<1>1. CloudInit => SpendInv BY SpendInvInit
<1>2. SpendInv /\ [CloudNext]_cloudVars => SpendInv' BY SpendInvStep
<1> DEFINE Paid == \A r \in Runs, ph \in Phases :
       op'[<<r, ph>>] # op[<<r, ph>>] /\ op'[<<r, ph>>].state = "dispatched"
         => ~run[r].stopped /\ machine[<<r, "produce">>] = "running"
<1>3. SpendInv /\ [CloudNext]_cloudVars => [Paid]_cloudVars
  <2>1. SpendInv /\ CloudNext => Paid
    BY DispatchPays, LeaseHasMachine DEF Trying, Producer
  <2> QED BY <2>1
<1> QED BY <1>1, <1>2, <1>3, PTL DEF CloudSpec, NoPaymentAfterTeardown
-----------------------------------------------------------------------------
(* The machine a candidate is judged on *)

\* The executor has claimed a verifier.
Judging == {"vallocate", "vcreate", "vreceipt", "verify", "vfailed", "vdestroy", "vrecord", "vcleanup", "vread"}

\* As for the producer's machine, except that the window of a create is the verifier's own.
VerifierAt(r) ==
  /\ verifier[r] = NoVerifier => VMachine(r) = "none"
  /\ exec[r].pc \in Judging => verifier[r] # NoVerifier
  /\ exec[r].pc = "vallocate" => VMachine(r) = "none"
  /\ verifier[r] # NoVerifier /\ verifier[r].session => VMachine(r) \in Landed
  /\ exec[r].vsandbox => VMachine(r) \in Landed
  /\ exec[r].pc = "vreceipt" => exec[r].vsandbox
  /\ exec[r].pc \in {"vrecord", "vcleanup"} => VMachine(r) = "gone"
  /\ VMachine(r) = "running" => UncleanVerifier(r)
  /\ verifier[r] # NoVerifier /\ verifier[r].clean /\ VMachine(r) = "asked" => WindowOver(verifier[r].deadline)

\* Seen from the machine, a verifier is a window, a session and whether it is clean.
VerifierSame(q) == /\ verifier'[q] # NoVerifier <=> verifier[q] # NoVerifier
                   /\ verifier[q] # NoVerifier => /\ verifier'[q].session = verifier[q].session
                                                  /\ verifier'[q].clean = verifier[q].clean
                                                  /\ verifier'[q].deadline = verifier[q].deadline

LEMMA VWindowStays ==
  ASSUME HostInv, ClockStep, NEW r \in Runs, verifier[r] # NoVerifier, WindowOver(verifier[r].deadline),
         verifier'[r].deadline = verifier[r].deadline
  PROVE  WindowOver(verifier[r].deadline)'
<1>1. PICK t \in Nat : t = verifier[r].deadline BY SentinelsApart DEF HostInv, VerifiersTyped, Verifier
<1>2. WindowOver(t)' BY <1>1, WindowsStay
<1> QED BY <1>1, <1>2 DEF WindowOver

\* The executor of a run moves on, and its verifier and the machine stay.
LEMMA VerifierWalks ==
  ASSUME HostInv, NEW r \in Runs, VerifierAt(r), ClockStep, VerifierSame(r),
         VMachine(r)' = VMachine(r), exec'[r].vsandbox = exec[r].vsandbox,
         \/ exec'[r].pc = exec[r].pc
         \/ /\ exec'[r].pc \notin {"vallocate", "vreceipt", "vrecord", "vcleanup"}
            /\ exec'[r].pc \in Judging => exec[r].pc \in Judging
  PROVE  VerifierAt(r)'
<1>1. verifier'[r] # NoVerifier /\ verifier'[r].clean /\ VMachine(r)' = "asked" => WindowOver(verifier[r].deadline)'
  BY VWindowStays DEF VerifierAt, VerifierSame
<1>2. VMachine(r)' = "running" => UncleanVerifier(r)' BY DEF VerifierAt, VerifierSame, UncleanVerifier
<1>3. /\ verifier'[r] = NoVerifier => VMachine(r)' = "none"
      /\ verifier'[r] # NoVerifier /\ verifier'[r].session => VMachine(r)' \in Landed
      /\ exec'[r].pc \in Judging => verifier'[r] # NoVerifier
  BY DEF VerifierAt, VerifierSame
<1>4. /\ exec'[r].pc = "vallocate" => VMachine(r)' = "none"
      /\ exec'[r].vsandbox => VMachine(r)' \in Landed
      /\ exec'[r].pc = "vreceipt" => exec'[r].vsandbox
      /\ exec'[r].pc \in {"vrecord", "vcleanup"} => VMachine(r)' = "gone"
  BY DEF VerifierAt
<1> QED BY <1>1, <1>2, <1>3, <1>4 DEF VerifierAt

LEMMA VerifierStays ==
  ASSUME HostInv, NEW r \in Runs, VerifierAt(r), ClockStep, VerifierSame(r),
         VMachine(r)' = VMachine(r), exec'[r] = exec[r]
  PROVE  VerifierAt(r)'
BY VerifierWalks

\* The outcome of a verifier is no concern of its machine.
LEMMA JudgedSame ==
  ASSUME VerifiersTyped, NEW r \in Runs, FailVerifier(r) \/ \E outcome \in {"PASS", "FAIL"} : FinishVerifier(r, outcome)
  PROVE  VerifierSame(r)
<1> PICK outcome \in {"PASS", "FAIL", "UNKNOWN"} :
      /\ verifier[r] # NoVerifier
      /\ verifier' = [verifier EXCEPT ![r] = [@ EXCEPT !.state = "FINISHED", !.outcome = outcome]]
  BY DEF FailVerifier, FinishVerifier, VerifierActive, UncleanVerifier
<1> DEFINE row == [verifier[r] EXCEPT !.state = "FINISHED", !.outcome = outcome]
<1>1. verifier[r] \in Verifier BY DEF VerifiersTyped
<1>2. verifier' = [verifier EXCEPT ![r] = row] OBVIOUS
<1>3. /\ row \in Verifier /\ row.session = verifier[r].session /\ row.clean = verifier[r].clean
      /\ row.deadline = verifier[r].deadline
  BY <1>1 DEF Verifier
<1> HIDE DEF row
<1> QED BY <1>2, <1>3, StoreAssumption DEF VerifierSame, VerifiersTyped

LEMMA VerifierVerifying ==
  ASSUME HostInv, MachinesTyped, CloudNext, NEW r \in Runs, VerifierAt(r), VerifyingRun(r)
  PROVE  VerifierAt(r)'
<1> USE DEF In, Step
<1>0. /\ exec[r] \in Exec /\ exec \in [Runs -> Exec] /\ ClockStep
      /\ verifier \in [Runs -> Verifier \cup {NoVerifier}] /\ VerifierGrows(r)
  BY StepContext DEF HostInv, HostsTyped, VerifiersTyped
<1>a. \A pc : exec' = [exec EXCEPT ![r].pc = pc] => exec'[r].pc = pc /\ exec'[r].vsandbox = exec[r].vsandbox
  BY <1>0 DEF Exec
<1>b. NoVerifier \notin Verifier BY StoreAssumption
<1>c. verifier' = verifier => VerifierSame(r) BY DEF VerifierSame
<1>1. CASE Claimed(r)
  <2>1. exec'[r].pc = "vallocate" /\ exec'[r].vsandbox = exec[r].vsandbox BY <1>a, <1>1 DEF Claimed
  <2>2. VMachine(r) = "none" /\ VMachine(r)' = "none"
    BY <1>1 DEF Claimed, ClaimVerifier, VerifierAt, VMachine
  <2> DEFINE row == [state |-> "ALLOCATING", session |-> FALSE, outcome |-> "UNKNOWN", clean |-> FALSE,
                     deadline |-> Sooner(now + 1)]
  <2>3. verifier' = [verifier EXCEPT ![r] = row] BY <1>1 DEF Claimed, ClaimVerifier
  <2>4. Sooner(now + 1) \in 0..WorkDeadline BY <1>0, SentinelsApart DEF Sooner, ClockStep
  <2>5. row \in Verifier /\ ~row.session /\ ~row.clean BY <2>4 DEF Verifier
  <2> HIDE DEF row
  <2>6. verifier'[r] # NoVerifier /\ ~verifier'[r].session /\ ~verifier'[r].clean BY <1>0, <1>b, <2>3, <2>5
  <2> QED BY <2>1, <2>2, <2>6 DEF VerifierAt, Landed
<1>2. CASE AllocateVerifier(r)
  <2>1. exec[r].pc = "vallocate" /\ exec'[r].pc = "vcreate" /\ exec'[r].vsandbox = exec[r].vsandbox
    BY <1>a, <1>2 DEF AllocateVerifier
  <2>2. VMachine(r) = "none" /\ VMachine(r)' = "asked"
    BY <1>2, <2>1, SetOne DEF AllocateVerifier, VerifierAt, VMachine, Tasks
  <2>3. UncleanVerifier(r) /\ verifier' = verifier BY <1>2 DEF AllocateVerifier, VerifierActive, storeVars
  <2>4. ~exec[r].vsandbox /\ ~verifier[r].session /\ ~verifier[r].clean /\ verifier[r] # NoVerifier
    BY <2>2, <2>3 DEF VerifierAt, Landed, UncleanVerifier
  <2> QED BY <2>1, <2>2, <2>3, <2>4 DEF VerifierAt
<1>3. CASE CreatedVerifier(r)
  <2> DEFINE row == [exec[r] EXCEPT !.pc = "vreceipt", !.vsandbox = TRUE]
  <2>1. exec' = [exec EXCEPT ![r] = row] /\ exec[r].pc = "vcreate" BY <1>3 DEF CreatedVerifier
  <2>2. row.pc = "vreceipt" /\ row.vsandbox BY <1>0 DEF Exec
  <2> HIDE DEF row
  <2>3. exec'[r].pc = "vreceipt" /\ exec'[r].vsandbox BY <1>0, <2>1, <2>2
  <2>4. VMachine(r) \in Landed /\ VMachine(r)' = VMachine(r) /\ UNCHANGED <<verifier, now>>
    BY <1>3 DEF CreatedVerifier, VMachine, Landed, storeVars, ledgerVars
  <2>5. verifier[r] # NoVerifier BY <2>1 DEF VerifierAt, Judging
  <2> QED BY <2>3, <2>4, <2>5 DEF VerifierAt, Landed, UncleanVerifier
<1>4. CASE ReceiptVerifier(r) \/ RecordVerifier(r)
  <2>1. exec'[r].pc \in {"verify", "vcleanup"} /\ exec'[r].vsandbox = exec[r].vsandbox
        /\ (exec'[r].pc = "vcleanup" => exec[r].pc = "vrecord") /\ exec[r].pc \in {"vreceipt", "vrecord"}
    BY <1>a, <1>4 DEF ReceiptVerifier, RecordVerifier
  <2>2. VMachine(r)' = VMachine(r) /\ VMachine(r) \in Landed
    BY <1>4, <2>1 DEF ReceiptVerifier, RecordVerifier, VMachine, VerifierAt, Landed
  <2> DEFINE row == [verifier[r] EXCEPT !.session = TRUE, !.state = IF verifier[r].state = "ALLOCATING" THEN "RUNNING" ELSE verifier[r].state]
  <2>3. verifier' = [verifier EXCEPT ![r] = row] /\ verifier[r] # NoVerifier /\ ~verifier[r].clean
    BY <1>4 DEF ReceiptVerifier, RecordVerifier, VerifierAllocated, UncleanVerifier
  <2>4. row \in Verifier /\ ~row.clean BY <1>0, <2>3 DEF Verifier
  <2> HIDE DEF row
  <2>5. verifier'[r] # NoVerifier /\ ~verifier'[r].clean BY <1>0, <1>b, <2>3, <2>4
  <2> QED BY <2>1, <2>2, <2>5 DEF VerifierAt, UncleanVerifier, Landed
<1>5. CASE Verify(r) \/ ThrowVerifier(r) \/ FailedVerifier(r)
  <2>1. exec[r].pc \in Judging BY <1>5 DEF Verify, ThrowVerifier, FailedVerifier, Judging, Verifying
  <2>2. exec'[r].pc \in {"vdestroy", "vfailed"} /\ exec'[r].vsandbox = exec[r].vsandbox
    <3>1. CASE Step(r, "vdestroy") \/ Step(r, "vfailed") BY <1>a, <3>1
    <3>2. CASE FailedVerifier(r) /\ ~Step(r, "vdestroy")
      <4> DEFINE row == [exec[r] EXCEPT !.pc = "vdestroy", !.status = "THROWN"]
      <4>1. exec' = [exec EXCEPT ![r] = row] BY <3>2 DEF FailedVerifier
      <4>2. row.pc = "vdestroy" /\ row.vsandbox = exec[r].vsandbox BY <1>0 DEF Exec
      <4> HIDE DEF row
      <4> QED BY <1>0, <4>1, <4>2
    <3> QED BY <1>5, <3>1, <3>2 DEF Verify, ThrowVerifier
  <2>3. VMachine(r)' = VMachine(r) BY <1>5 DEF Verify, ThrowVerifier, FailedVerifier, VMachine
  <2>4. VerifierSame(r) BY <1>5, <1>c, JudgedSame DEF Verify, ThrowVerifier, FailedVerifier, storeVars, HostInv
  <2> QED BY <1>0, <2>1, <2>2, <2>3, <2>4, VerifierWalks
<1>6. CASE DestroyVerifier(r)
  <2>1. exec[r].pc = "vdestroy" /\ exec'[r].pc = "vrecord" /\ exec'[r].vsandbox = exec[r].vsandbox
    BY <1>a, <1>6 DEF DestroyVerifier
  <2>2. VMachine(r)' = "gone" /\ UNCHANGED <<verifier, now>>
    BY <1>6, SetOne DEF DestroyVerifier, VMachine, Tasks, storeVars, ledgerVars
  <2>3. verifier[r] # NoVerifier BY <2>1 DEF VerifierAt, Judging
  <2> QED BY <2>1, <2>2, <2>3 DEF VerifierAt, Landed
<1>7. CASE CleanupVerifier(r)
  <2>1. exec[r].pc = "vcleanup" /\ exec'[r].pc \in {"vread", "done"} /\ exec'[r].vsandbox = exec[r].vsandbox
    BY <1>a, <1>7 DEF CleanupVerifier
  <2>2. VMachine(r) = "gone" /\ VMachine(r)' = "gone" BY <1>7, <2>1 DEF CleanupVerifier, VMachine, VerifierAt
  <2>3. verifier[r] # NoVerifier BY <2>1 DEF VerifierAt, Judging
  <2>4. verifier'[r] # NoVerifier BY <1>0, <2>3 DEF VerifierGrows
  <2> QED BY <2>1, <2>2, <2>4 DEF VerifierAt, Landed
<1>8. CASE Verified(r)
  <2> DEFINE row == [exec[r] EXCEPT !.pc = "finalize",
                             !.status = IF verifier[r].outcome = "UNKNOWN" THEN "FAILED" ELSE exec[r].status]
  <2>1. exec' = [exec EXCEPT ![r] = row] BY <1>8 DEF Verified
  <2>2. row.pc = "finalize" /\ row.vsandbox = exec[r].vsandbox BY <1>0 DEF Exec
  <2> HIDE DEF row
  <2>3. exec'[r].pc = "finalize" /\ exec'[r].vsandbox = exec[r].vsandbox BY <1>0, <2>1, <2>2
  <2>4. VerifierSame(r) /\ VMachine(r)' = VMachine(r) BY <1>8, <1>c DEF Verified, storeVars, VMachine
  <2> QED BY <1>0, <2>3, <2>4, VerifierWalks DEF Judging
<1> QED BY <1>1, <1>2, <1>3, <1>4, <1>5, <1>6, <1>7, <1>8 DEF VerifyingRun

\* What executeCloudWork leaves alone of its verification.
LEMMA ExecutingJudges ==
  ASSUME HostInv, NEW r \in Runs, Executing(r)
  PROVE  /\ exec'[r].vsandbox = exec[r].vsandbox
         /\ exec'[r].pc = exec[r].pc \/ exec'[r].pc \notin Judging
<1> USE DEF In, Step, Judging
<1>0. exec[r] \in Exec /\ exec \in [Runs -> Exec] BY DEF HostInv, HostsTyped
<1>1. \A pc : exec' = [exec EXCEPT ![r].pc = pc] => exec'[r].pc = pc /\ exec'[r].vsandbox = exec[r].vsandbox
  BY <1>0 DEF Exec
<1>2. CASE Created(r)
  <2> DEFINE row == [exec[r] EXCEPT !.pc = "receipt", !.sandbox = TRUE]
  <2>1. exec' = [exec EXCEPT ![r] = row] BY <1>2 DEF Created
  <2>2. row.pc = "receipt" /\ row.vsandbox = exec[r].vsandbox BY <1>0 DEF Exec
  <2> HIDE DEF row
  <2> QED BY <1>0, <2>1, <2>2
<1>3. ASSUME NEW s, exec' = [exec EXCEPT ![r] = [@ EXCEPT !.pc = "destroy", !.status = s]]
      PROVE  exec'[r].vsandbox = exec[r].vsandbox /\ exec'[r].pc = "destroy"
  <2> DEFINE row == [exec[r] EXCEPT !.pc = "destroy", !.status = s]
  <2>1. exec' = [exec EXCEPT ![r] = row] BY <1>3
  <2>2. row.pc = "destroy" /\ row.vsandbox = exec[r].vsandbox BY <1>0 DEF Exec
  <2> HIDE DEF row
  <2> QED BY <1>0, <2>1, <2>2
<1>4. CASE Checks(r) \/ Caught(r) BY <1>1, <1>3, <1>4 DEF Checks, Caught
<1>5. CASE Pay(r) \/ StartCompletion(r) \/ Pulse(r) BY <1>5 DEF Pay, StartCompletion, Pulse, hostVars
<1>6. CASE Progress(r)
  <2>1. PICK pc \in {"READY", "RUNNING", "execute", "COLLECTING", "collect"} : exec' = [exec EXCEPT ![r].pc = pc]
    BY <1>6 DEF Progress
  <2> QED BY <1>1, <2>1
<1>7. CASE Observed(r)
  <2>1. PICK pc \in {"done", "vclaim", "finalize"} : exec' = [exec EXCEPT ![r].pc = pc] BY <1>7 DEF Observed
  <2> QED BY <1>1, <2>1
<1>8. CASE \/ Schedule(r) \/ Allocate(r) \/ Receipt(r) \/ Executed(r) \/ Collect(r) \/ Retain(r) \/ Throw(r)
           \/ Destroy(r) \/ Confirm(r) \/ FinalizeRun(r) \/ Die(r)
  <2>1. PICK pc \in {"allocate", "create", "PREPARING", "QUIESCING", "retain", "checks", "caught", "confirm",
                     "observe", "done"} : exec' = [exec EXCEPT ![r].pc = pc]
    BY <1>8 DEF Schedule, Allocate, Receipt, Executed, Collect, Retain, Throw, Destroy, Confirm, FinalizeRun, Die
  <2> QED BY <1>1, <2>1
<1> QED BY <1>2, <1>4, <1>5, <1>6, <1>7, <1>8 DEF Executing

LEMMA VerifierExecuting ==
  ASSUME HostInv, MachinesTyped, CloudNext, NEW r \in Runs, VerifierAt(r), Executing(r)
  PROVE  VerifierAt(r)'
<1>1. ClockStep BY StepContext
<1>2. VerifierSame(r)
  <2>1. verifier' = verifier
    BY DEF Executing, Schedule, Allocate, Created, Receipt, Progress, Pay, StartCompletion, Executed, Collect,
           Retain, Checks, Throw, Caught, Destroy, Confirm, Observed, FinalizeRun, Pulse, Die, Heartbeat,
           RecordAllocation, Advance, RetainCustody, NoteChecks, NoteFailure, ConfirmCleanup, Finalize, storeVars
  <2> QED BY <2>1 DEF VerifierSame
<1>3. VMachine(r)' = VMachine(r)
  <2>1. CASE Allocate(r) \/ Destroy(r) BY <2>1, SetOne DEF Allocate, Destroy, VMachine, Tasks
  <2>2. CASE ~Allocate(r) /\ ~Destroy(r)
    BY <2>2 DEF Executing, Schedule, Created, Receipt, Progress, Pay, StartCompletion, Executed, Collect, Retain,
                Checks, Throw, Caught, Confirm, Observed, FinalizeRun, Pulse, Die, hostVars, VMachine
  <2> QED BY <2>1, <2>2
<1> QED BY <1>1, <1>2, <1>3, ExecutingJudges, VerifierWalks DEF Judging

LEMMA VerifierDispatching ==
  ASSUME HostInv, CloudNext, NEW r \in Runs, VerifierAt(r), Dispatching(r)
  PROVE  VerifierAt(r)'
<1>1. ClockStep BY StepContext
<1>2. verifier' = verifier /\ machine' = machine
  BY DEF Dispatching, PrepareBudget, BindRun, Send, Reported, Accept, Execute, Admit, ReserveDelivery,
         StopRun, Stopped, RecordSent, RecordUnsent, AcceptDelivery, Claim, storeVars, hostVars
<1>3. exec'[r] = exec[r] \/ (exec'[r].pc = "schedule" /\ exec'[r].vsandbox = exec[r].vsandbox)
  <2>1. CASE Execute(r)
    <3>1. exec[r] \in Exec /\ exec' = [exec EXCEPT ![r].pc = "schedule"]
      BY <2>1 DEF Execute, Step, HostInv, HostsTyped
    <3> QED BY <3>1 DEF Exec, HostInv, HostsTyped
  <2>2. CASE ~Execute(r) BY <2>2 DEF Dispatching, PrepareBudget, BindRun, Send, Reported, Accept, hostVars
  <2> QED BY <2>1, <2>2
<1> QED BY <1>1, <1>2, <1>3, VerifierWalks DEF VerifierSame, VMachine, Judging

LEMMA VerifierReconciling ==
  ASSUME HostInv, MachinesTyped, CloudNext, NEW c \in Observers, ObserverAt(c),
         Reconciling(c) \/ GiveUp(c) \/ \E r \in Runs : Read(c, r), NEW q \in Runs, VerifierAt(q)
  PROVE  VerifierAt(q)'
<1> USE DEF Seeing
<1>0. ClockStep /\ VerifierGrows(q) /\ exec' = exec BY StepContext, ReconcilingApart
<1>1. ~Seeing(c, "idle") => observer[c].run \in Runs BY DEF HostInv, HostsTyped
<1>2. CASE DestroyStaleVerifier(c)
  <2>1. PICK r \in Runs : r = observer[c].run BY <1>1, <1>2 DEF DestroyStaleVerifier
  <2>2. UNCHANGED <<verifier, now>> BY <1>2 DEF DestroyStaleVerifier, storeVars, ledgerVars
  <2>3. VMachine(q)' = VMachine(q) \/ (VMachine(q) = "running" /\ VMachine(q)' = "gone")
    BY <1>2, <2>1 DEF DestroyStaleVerifier, Remove, VMachine, MachinesTyped, Tasks
  <2>4. CASE VMachine(q)' = VMachine(q) BY <1>0, <2>2, <2>4, VerifierStays DEF VerifierSame
  <2>5. CASE VMachine(q) = "running" /\ VMachine(q)' = "gone"
    BY <1>0, <2>2, <2>5 DEF VerifierAt, Landed
  <2> QED BY <2>3, <2>4, <2>5
<1>3. CASE CleanStaleVerifier(c)
  <2>1. PICK r \in Runs : r = observer[c].run BY <1>1, <1>3 DEF CleanStaleVerifier
  <2>2. VMachine(q)' = VMachine(q) /\ now' = now BY <1>3 DEF CleanStaleVerifier, CleanVerifier, VMachine, ledgerVars
  <2> DEFINE row == [verifier[r] EXCEPT !.state = "DESTROYED", !.clean = TRUE]
  <2>3. verifier' = [verifier EXCEPT ![r] = row] /\ verifier[r] # NoVerifier /\ verifier[r] \in Verifier
    BY <1>3, <2>1 DEF CleanStaleVerifier, CleanVerifier, HostInv, VerifiersTyped
  <2>4. /\ row \in Verifier /\ row.clean /\ row.session = verifier[r].session
        /\ row.deadline = verifier[r].deadline
    BY <2>3 DEF Verifier
  <2> HIDE DEF row
  <2>5. CASE r = q
    <3>1. /\ verifier'[q] # NoVerifier /\ verifier'[q].session = verifier[q].session
          /\ verifier'[q].deadline = verifier[q].deadline
      BY <2>3, <2>4, <2>5, StoreAssumption DEF HostInv, VerifiersTyped
    <3>2. VMachine(q) # "running" /\ WindowOver(verifier[q].deadline)
      BY <1>3, <2>1, <2>5 DEF CleanStaleVerifier, ObserverAt
    <3>3. WindowOver(verifier[q].deadline)' BY <2>2, <3>1, <3>2 DEF WindowOver
    <3> QED BY <1>0, <2>2, <2>3, <2>5, <3>1, <3>2, <3>3 DEF VerifierAt, Landed
  <2>6. CASE r # q
    <3>1. verifier'[q] = verifier[q] BY <2>3, <2>6 DEF HostInv, VerifiersTyped
    <3> QED BY <1>0, <2>2, <3>1, VerifierStays DEF VerifierSame
  <2> QED BY <2>5, <2>6
<1>4. CASE DestroyStale(c)
  <2>1. observer[c].run \in Runs /\ UNCHANGED verifier BY <1>1, <1>4 DEF DestroyStale, storeVars
  <2>2. VMachine(q)' = VMachine(q) BY <1>4, <2>1 DEF DestroyStale, Remove, VMachine, MachinesTyped, Tasks
  <2> QED BY <1>0, <2>1, <2>2, VerifierStays DEF VerifierSame
<1>5. CASE \/ Expire(c) \/ ConfirmStale(c) \/ Reconcile(c) \/ NoteInterrupted(c) \/ FinalizeStale(c) \/ GiveUp(c)
           \/ \E r \in Runs : Read(c, r)
  <2>1. UNCHANGED <<verifier, machine>>
    BY <1>5 DEF Expire, ReconcileExpired, ConfirmStale, ConfirmCleanup, Reconcile, NoteInterrupted, NoteFailure,
                FinalizeStale, Finalize, GiveUp, Read, storeVars
  <2> QED BY <1>0, <2>1, VerifierStays DEF VerifierSame, VMachine
<1> QED BY <1>2, <1>3, <1>4, <1>5 DEF Reconciling

LEMMA VerifierOutside ==
  ASSUME HostInv, MachinesTyped, CloudNext, NEW q \in Runs, VerifierAt(q),
         CloudTick \/ \E m \in Runs \X Tasks : Lands(m) \/ TimesOut(m)
  PROVE  VerifierAt(q)'
<1>0. ClockStep BY StepContext
<1>1. UNCHANGED <<exec, verifier>> BY DEF CloudTick, Lands, TimesOut, storeVars, hostVars
<1>2. CASE VMachine(q)' = VMachine(q)
  BY <1>0, <1>1, <1>2, VerifierStays DEF VerifierSame
<1>3. CASE VMachine(q)' # VMachine(q)
  <2>1. PICK m \in Runs \X Tasks : Lands(m) \/ TimesOut(m) BY <1>3 DEF CloudTick, hostVars, VMachine
  <2>2. m = <<q, "verify">> BY <1>3, <2>1 DEF Lands, TimesOut, Set, VMachine, MachinesTyped, Tasks
  <2>3. CreateLimit(m) = verifier[q].deadline + Grace BY <2>2 DEF CreateLimit
  <2>4. now' = now /\ now \in Nat /\ Grace \in Nat
    BY <1>0, <2>1, StoreAssumption DEF Lands, TimesOut, ledgerVars, ClockStep
  <2>5. CASE Lands(m)
    <3>1. VMachine(q) = "asked" /\ VMachine(q)' = "running"
      BY <2>2, <2>5 DEF Lands, Set, VMachine, MachinesTyped, Tasks
    <3>2. verifier[q] # NoVerifier BY <3>1 DEF VerifierAt
    <3>3. verifier[q].deadline \in Nat BY <3>2, SentinelsApart DEF HostInv, VerifiersTyped, Verifier
    <3>4. ~WindowOver(verifier[q].deadline) BY <2>3, <2>4, <2>5, <3>3 DEF Lands, WindowOver
    <3>5. UncleanVerifier(q) BY <3>1, <3>2, <3>4 DEF VerifierAt, UncleanVerifier
    <3> QED BY <1>1, <3>1, <3>2, <3>5 DEF VerifierAt, Landed, UncleanVerifier
  <2>6. CASE TimesOut(m)
    <3>1. VMachine(q) = "running" /\ VMachine(q)' = "gone"
      BY <2>2, <2>6 DEF TimesOut, Set, VMachine, MachinesTyped, Tasks
    <3> QED BY <1>1, <3>1 DEF VerifierAt, Landed
  <2> QED BY <2>1, <2>5, <2>6
<1> QED BY <1>2, <1>3
-----------------------------------------------------------------------------
(* The slot *)

\* One row at most is unclean, of a run or of its verifier.
OneHolder ==
  /\ \A q, r \in Runs : Unclean(q) /\ Unclean(r) => q = r
  /\ \A q, r \in Runs : UncleanVerifier(q) /\ UncleanVerifier(r) => q = r
  /\ \A q, r \in Runs : ~(Unclean(q) /\ UncleanVerifier(r))

LEMMA FirstVerifier ==
  ASSUME HostInv, CloudNext, NEW r \in Runs, verifier[r] = NoVerifier, verifier'[r] # NoVerifier
  PROVE  ClaimVerifier(r)
<1>1. PICK q \in Runs : VerifierMethod(q) BY StepVerifiers
<1>2. \E row : verifier' = [verifier EXCEPT ![q] = row]
  BY <1>1 DEF VerifierMethod, ClaimVerifier, VerifierAllocated, FailVerifier, FinishVerifier, CleanVerifier
<1>3. q = r BY <1>2 DEF HostInv, VerifiersTyped
<1> QED BY <1>1, <1>3 DEF VerifierMethod, VerifierAllocated, FailVerifier, FinishVerifier, VerifierActive,
             UncleanVerifier, CleanVerifier

\* A row becomes unclean by a claim only.
LEMMA StepUnclean ==
  ASSUME HostInv, CloudNext, NEW r \in Runs
  PROVE  /\ Unclean(r)' => Unclean(r) \/ Claim(r)
         /\ UncleanVerifier(r)' => UncleanVerifier(r) \/ ClaimVerifier(r)
<1>1. ResourceGrows(r) /\ VerifierGrows(r) BY StepContext
<1>2. Unclean(r)' => Unclean(r) \/ Claim(r)
  BY <1>1, FirstRow DEF Unclean, ResourceGrows
<1>3. UncleanVerifier(r)' => UncleanVerifier(r) \/ ClaimVerifier(r)
  BY <1>1, FirstVerifier DEF UncleanVerifier, VerifierGrows
<1> QED BY <1>2, <1>3

LEMMA StepOneHolder ==
  ASSUME HostInv, OneHolder, CloudNext
  PROVE  OneHolder'
<1> USE DEF HostInv, StopInv, RowsTyped, VerifiersTyped
<1>1. CASE \E r \in Runs : Claim(r)
  <2> PICK r \in Runs : Claim(r) BY <1>1
  <2>1. \A q \in Runs : ~Unclean(q) /\ ~UncleanVerifier(q) BY DEF Claim
  <2>2. verifier' = verifier /\ \A q \in Runs : q # r => resource'[q] = resource[q] BY DEF Claim
  <2>3. \A q \in Runs : ~UncleanVerifier(q)' /\ (Unclean(q)' => q = r)
    BY <2>1, <2>2 DEF UncleanVerifier, Unclean, Has
  <2> QED BY <2>3 DEF OneHolder
<1>2. CASE \E r \in Runs : ClaimVerifier(r)
  <2> PICK r \in Runs : ClaimVerifier(r) BY <1>2
  <2>1. \A q \in Runs : ~Unclean(q) /\ ~UncleanVerifier(q) BY DEF ClaimVerifier
  <2>2. resource' = resource /\ \A q \in Runs : q # r => verifier'[q] = verifier[q] BY DEF ClaimVerifier
  <2>3. \A q \in Runs : ~Unclean(q)' /\ (UncleanVerifier(q)' => q = r)
    BY <2>1, <2>2 DEF UncleanVerifier, Unclean, Has
  <2> QED BY <2>3 DEF OneHolder
<1>3. CASE ~\E r \in Runs : Claim(r) \/ ClaimVerifier(r)
  <2>1. \A q \in Runs : (Unclean(q)' => Unclean(q)) /\ (UncleanVerifier(q)' => UncleanVerifier(q))
    BY <1>3, StepUnclean
  <2> QED BY <2>1 DEF OneHolder
<1> QED BY <1>1, <1>2, <1>3

SlotInv == SpendInv /\ OneHolder /\ \A r \in Runs : VerifierAt(r)

LEMMA SlotInvInit == CloudInit => SlotInv
<1> SUFFICES ASSUME CloudInit PROVE SlotInv OBVIOUS
<1>1. \A r \in Runs : ~Has(r) /\ verifier[r] = NoVerifier /\ VMachine(r) = "none" /\ ~exec[r].vsandbox /\ exec[r].pc = "none"
  BY DEF CloudInit, StoreInit, Has, VMachine, Tasks
<1>2. OneHolder BY <1>1 DEF OneHolder, Unclean, UncleanVerifier
<1>3. \A r \in Runs : VerifierAt(r) BY <1>1 DEF VerifierAt, Judging
<1> QED BY <1>2, <1>3, SpendInvInit DEF SlotInv

LEMMA SlotInvStep == SlotInv /\ [CloudNext]_cloudVars => SlotInv'
<1> SUFFICES ASSUME SlotInv, [CloudNext]_cloudVars PROVE SlotInv' OBVIOUS
<1>0. SpendInv' BY SpendInvStep DEF SlotInv
<1>1. CASE UNCHANGED cloudVars
  BY <1>0, <1>1 DEF cloudVars, SlotInv, OneHolder, VerifierAt, Unclean, UncleanVerifier, Has, VMachine, WindowOver
<1>2. CASE CloudNext
  <2>0. HostInv /\ MachinesTyped /\ \A c \in Observers : ObserverAt(c) BY DEF SlotInv, SpendInv, MachineInv
  <2>1. OneHolder' BY <1>2, <2>0, StepOneHolder DEF SlotInv
  <2>2. ASSUME NEW r \in Runs, Dispatching(r) \/ Executing(r) \/ VerifyingRun(r), NEW q \in Runs
        PROVE  VerifierAt(q)'
    <3>1. CASE q = r
      BY <1>2, <2>0, <2>2, <3>1, VerifierDispatching, VerifierExecuting, VerifierVerifying DEF SlotInv
    <3>2. CASE q # r
      <4>1. exec'[q] = exec[q] /\ VMachine(q)' = VMachine(q)
        BY <2>0, <2>2, <3>2, HostsApart DEF VMachine
      <4>2. VerifierSame(q)
        <5>1. verifier' = verifier \/ \E row : verifier' = [verifier EXCEPT ![r] = row]
          BY <2>2, ActorVerifiers DEF VerifierMethod, ClaimVerifier, VerifierAllocated, FailVerifier,
             FinishVerifier, CleanVerifier
        <5>2. verifier'[q] = verifier[q] BY <2>0, <3>2, <5>1 DEF HostInv, VerifiersTyped
        <5> QED BY <5>2 DEF VerifierSame
      <4>3. ClockStep BY <1>2, <2>0, StepContext
      <4> QED BY <2>0, <4>1, <4>2, <4>3, VerifierStays DEF SlotInv
    <3> QED BY <3>1, <3>2
  <2>3. ASSUME NEW c \in Observers, Reconciling(c) \/ GiveUp(c) \/ \E r \in Runs : Read(c, r), NEW q \in Runs
        PROVE  VerifierAt(q)'
    BY <1>2, <2>0, <2>3, VerifierReconciling DEF SlotInv
  <2>4. ASSUME CloudTick \/ \E m \in Runs \X Tasks : Lands(m) \/ TimesOut(m), NEW q \in Runs
        PROVE  VerifierAt(q)'
    BY <1>2, <2>0, <2>4, VerifierOutside DEF SlotInv
  <2>5. \A q \in Runs : VerifierAt(q)' BY <1>2, <2>2, <2>3, <2>4 DEF CloudNext
  <2> QED BY <1>0, <2>1, <2>5 DEF SlotInv
<1> QED BY <1>1, <1>2

\* The state of WorkerSlot, as CloudWork maps it.
Used    == {<<r, "produce">> : r \in {q \in Runs : Has(q)}}
             \cup {<<r, "verify">> : r \in {q \in Runs : verifier[q] # NoVerifier}}
Running == {m \in Runs \X Tasks : machine[m] = "running"}
Ended   == {r \in Runs : Admitted(r) /\ run[r].terminal # "none"}

\* The holder is the run whose row is unclean.
HolderRows ==
  /\ \A r \in Runs : Unclean(r) => Holder = <<r, "produce">>
  /\ \A r \in Runs : UncleanVerifier(r) => Holder = <<r, "verify">>
  /\ (\A r \in Runs : ~Unclean(r) /\ ~UncleanVerifier(r)) => Holder = Nobody

LEMMA HolderIs == OneHolder => HolderRows
<1> SUFFICES ASSUME OneHolder PROVE HolderRows OBVIOUS
<1>1. ASSUME NEW r \in Runs, Unclean(r) PROVE Holder = <<r, "produce">>
  <2>1. (CHOOSE q \in Runs : Unclean(q)) = r BY <1>1 DEF OneHolder
  <2> QED BY <1>1, <2>1 DEF Holder
<1>2. ASSUME NEW r \in Runs, UncleanVerifier(r) PROVE Holder = <<r, "verify">>
  <2>1. (CHOOSE q \in Runs : UncleanVerifier(q)) = r BY <1>2 DEF OneHolder
  <2>2. ~\E q \in Runs : Unclean(q) BY <1>2 DEF OneHolder
  <2> QED BY <1>2, <2>1, <2>2 DEF Holder
<1>3. (\A r \in Runs : ~Unclean(r) /\ ~UncleanVerifier(r)) => Holder = Nobody BY DEF Holder
<1> QED BY <1>1, <1>2, <1>3 DEF HolderRows

\* A machine runs only for the holder.
RunningHeld == \A m \in Running : m = Holder /\ Holder # Nobody

LEMMA MachineHeld == SlotInv => RunningHeld
<1> SUFFICES ASSUME SlotInv, NEW m \in Running PROVE m = Holder /\ Holder # Nobody BY DEF RunningHeld
<1>1. PICK r \in Runs, task \in Tasks : m = <<r, task>> /\ machine[<<r, task>>] = "running" BY DEF Running
<1>2. ProducerAt(r) /\ VerifierAt(r) /\ HolderRows BY HolderIs DEF SlotInv, SpendInv, MachineInv
<1>3. CASE task = "produce"
  <2>1. Unclean(r) BY <1>1, <1>2, <1>3 DEF ProducerAt, Producer
  <2> QED BY <1>1, <1>2, <1>3, <2>1, CloudAssumption DEF HolderRows
<1>4. CASE task = "verify"
  <2>1. UncleanVerifier(r) BY <1>1, <1>2, <1>4 DEF VerifierAt, VMachine
  <2> QED BY <1>1, <1>2, <1>4, <2>1, CloudAssumption DEF HolderRows
<1> QED BY <1>3, <1>4 DEF Tasks

\* Both hold after a step as well.
LEMMA HeldNext == (OneHolder' => HolderRows') /\ (SlotInv' => RunningHeld')
BY HolderIs, MachineHeld, PTL

\* A step that neither claims, cleans nor ends anything.
SlotSame == \A r \in Runs :
  /\ (Has(r)' <=> Has(r)) /\ (Unclean(r)' <=> Unclean(r))
  /\ (verifier'[r] # NoVerifier <=> verifier[r] # NoVerifier) /\ (UncleanVerifier(r)' <=> UncleanVerifier(r))
  /\ ((Admitted(r) /\ run[r].terminal # "none")' <=> (Admitted(r) /\ run[r].terminal # "none"))

LEMMA SameView ==
  ASSUME OneHolder, OneHolder', SlotSame
  PROVE  Holder' = Holder /\ Used' = Used /\ Ended' = Ended
<1>1. Used' = Used /\ Ended' = Ended BY DEF SlotSame, Used, Ended
<1>2. HolderRows /\ HolderRows' BY HolderIs, HeldNext
<1>3. Holder' = Holder
  <2>1. ASSUME NEW r \in Runs, Unclean(r) PROVE Holder' = Holder
    BY <1>2, <2>1 DEF SlotSame, HolderRows
  <2>2. ASSUME NEW r \in Runs, UncleanVerifier(r) PROVE Holder' = Holder
    BY <1>2, <2>2 DEF SlotSame, HolderRows
  <2>3. CASE \A r \in Runs : ~Unclean(r) /\ ~UncleanVerifier(r)
    BY <1>2, <2>3 DEF SlotSame, HolderRows
  <2> QED BY <2>1, <2>2, <2>3
<1> QED BY <1>1, <1>3

\* Then a machine may start or end, which is the provider's or the controller's business.
LEMMA MachinesMove ==
  ASSUME SlotInv, SlotInv', SlotSame
  PROVE  [Slot!Next]_(Slot!slotVars)
<1>1. Holder' = Holder /\ Used' = Used /\ Ended' = Ended BY SameView DEF SlotInv
<1>2. \A m \in Running : m = Holder /\ Holder # Nobody BY MachineHeld DEF RunningHeld
<1>3. \A m \in Running' : m = Holder' /\ Holder' # Nobody BY HeldNext DEF RunningHeld
<1>4. CASE Running' = Running BY <1>1, <1>4 DEF Slot!slotVars, Used, Running, Ended
<1>5. CASE Running' # Running /\ Running' = {}
  <2>1. Slot!Halt BY <1>1, <1>5 DEF Slot!Halt, Used, Running, Ended
  <2> QED BY <2>1 DEF Slot!Next
<1>6. CASE Running' # Running /\ Running' # {}
  <2>1. Running' = {Holder} /\ Holder # Nobody BY <1>1, <1>3, <1>6
  <2>2. Slot!Boot BY <1>1, <2>1 DEF Slot!Boot, Used, Running, Ended
  <2> QED BY <2>2 DEF Slot!Next
<1> QED BY <1>4, <1>5, <1>6

LEMMA RunMethodSlot ==
  ASSUME HostInv, NEW r \in Runs, RunMethod(r), ~Claim(r), ~\E v \in Outcomes : Finalize(r, v)
  PROVE  SlotSame
<1> USE SentinelsApart DEF HostInv, StopInv, RowsTyped
<1>0. Admitted(r) => run[r] \in Run BY DEF Admitted
<1>1. verifier' = verifier
  BY DEF RunMethod, Admit, ReserveDelivery, StopRun, RecordSent, RecordUnsent, AcceptDelivery, Stopped
<1>2. UNCHANGED resource \/ Stopped(r)
  BY DEF RunMethod, Admit, ReserveDelivery, StopRun, RecordSent, RecordUnsent, AcceptDelivery
<1>3. \A q \in Runs : ResourceSame(q) BY <1>2, MethodsSame DEF ResourceSame, Has
<1>4. \E row \in Run : /\ run' = [run EXCEPT ![r] = row]
                       /\ Admitted(r) => row.terminal = run[r].terminal
                       /\ ~Admitted(r) => row.terminal = "none"
  <2>1. CASE Admit(r)
    <3> PICK v \in BOOLEAN : run' = [run EXCEPT ![r] = [stopped |-> FALSE, intent |-> "none", terminal |-> "none",
                                                        candidate |-> FALSE, validation |-> v]]
      BY <2>1 DEF Admit
    <3> DEFINE row == [stopped |-> FALSE, intent |-> "none", terminal |-> "none", candidate |-> FALSE, validation |-> v]
    <3>1. row \in Run /\ row.terminal = "none" /\ run' = [run EXCEPT ![r] = row] BY DEF Run, Intents, Outcomes
    <3>2. ~Admitted(r) BY <2>1 DEF Admit
    <3> HIDE DEF row
    <3> QED BY <3>1, <3>2
  <2>2. ASSUME NEW intent \in Intents, NEW s \in BOOLEAN, Admitted(r),
               run' = [run EXCEPT ![r] = [@ EXCEPT !.intent = intent, !.stopped = s]]
        PROVE  \E row \in Run : run' = [run EXCEPT ![r] = row] /\ row.terminal = run[r].terminal
    <3> DEFINE row == [run[r] EXCEPT !.intent = intent, !.stopped = s]
    <3>1. run' = [run EXCEPT ![r] = row] BY <2>2
    <3>2. row \in Run /\ row.terminal = run[r].terminal BY <1>0, <2>2 DEF Run
    <3> HIDE DEF row
    <3> QED BY <3>1, <3>2
  <2>3. ASSUME NEW intent \in Intents, Admitted(r), run' = [run EXCEPT ![r].intent = intent]
        PROVE  \E row \in Run : run' = [run EXCEPT ![r] = row] /\ row.terminal = run[r].terminal
    <3> DEFINE row == [run[r] EXCEPT !.intent = intent]
    <3>1. run' = [run EXCEPT ![r] = row] BY <2>3
    <3>2. row \in Run /\ row.terminal = run[r].terminal BY <1>0, <2>3 DEF Run
    <3> HIDE DEF row
    <3> QED BY <3>1, <3>2
  <2>4. CASE StopRun(r)
    <3> DEFINE row == [run[r] EXCEPT !.stopped = TRUE]
    <3>1. run' = [run EXCEPT ![r] = row] /\ Admitted(r) BY <2>4 DEF StopRun, Open
    <3>2. row \in Run /\ row.terminal = run[r].terminal BY <1>0, <3>1 DEF Run
    <3> HIDE DEF row
    <3> QED BY <3>1, <3>2
  <2>5. CASE ReserveDelivery(r) \/ RecordSent(r) \/ AcceptDelivery(r)
    <3>1. Admitted(r) /\ \E intent \in Intents : run' = [run EXCEPT ![r].intent = intent]
      BY <2>5 DEF ReserveDelivery, RecordSent, AcceptDelivery, Open, Intents
    <3> QED BY <2>3, <3>1
  <2>6. CASE RecordUnsent(r)
    <3>1. Admitted(r) /\ "UNKNOWN" \in Intents BY <2>6 DEF RecordUnsent, Intents
    <3>2. \/ run' = [run EXCEPT ![r] = [@ EXCEPT !.intent = "UNKNOWN", !.stopped = TRUE]]
          \/ run' = [run EXCEPT ![r].intent = "UNKNOWN"]
      BY <2>6 DEF RecordUnsent
    <3> QED BY <2>2, <2>3, <3>1, <3>2
  <2> QED BY <2>1, <2>4, <2>5, <2>6 DEF RunMethod
<1>5. \A q \in Runs : (Admitted(q) /\ run[q].terminal # "none")' <=> (Admitted(q) /\ run[q].terminal # "none")
  BY <1>4 DEF Admitted
<1> QED BY <1>1, <1>3, <1>5 DEF SlotSame, ResourceSame, Unclean, UncleanVerifier

LEMMA ResourceMethodSlot ==
  ASSUME HostInv, NEW r \in Runs, ResourceMethod(r),
         ~\E session \in BOOLEAN : Unclean(r) /\ ConfirmCleanup(r, session)
  PROVE  SlotSame
<1> USE SentinelsApart DEF HostInv, StopInv, RowsTyped
<1>1. UNCHANGED <<run, verifier>>
  BY DEF ResourceMethod, Heartbeat, RecordAllocation, NoteFailure, NoteChecks, Advance, ConfirmCleanup
<1>2. Has(r) => resource[r] \in Resource BY DEF Has
<1>3. \A q \in Runs : (Has(q)' <=> Has(q)) /\ (Unclean(q)' <=> Unclean(q))
  <2>1. CASE RecordAllocation(r)
    <3> DEFINE row == [resource[r] EXCEPT !.session = TRUE]
    <3>1. resource' = [resource EXCEPT ![r] = row] /\ Has(r) BY <2>1 DEF RecordAllocation, Unclean
    <3>2. row \in Resource /\ row.clean = resource[r].clean BY <1>2, <3>1 DEF Resource
    <3> HIDE DEF row
    <3> QED BY <3>1, <3>2 DEF Has, Unclean
  <2>2. ASSUME NEW session \in BOOLEAN, ConfirmCleanup(r, session)
        PROVE  \A q \in Runs : (Has(q)' <=> Has(q)) /\ (Unclean(q)' <=> Unclean(q))
    <3> DEFINE row == [resource[r] EXCEPT !.state = "DESTROYED", !.clean = TRUE]
    <3>1. resource' = [resource EXCEPT ![r] = row] /\ Has(r) /\ ~Unclean(r) BY <2>2 DEF ConfirmCleanup
    <3>2. row \in Resource /\ row.clean BY <1>2, <3>1 DEF Resource
    <3> HIDE DEF row
    <3> QED BY <3>1, <3>2 DEF Has, Unclean
  <2>3. CASE \/ Heartbeat(r) \/ NoteFailure(r)
             \/ \E passed \in BOOLEAN : NoteChecks(r, passed)
             \/ \E state \in {"PREPARING", "READY", "RUNNING", "QUIESCING", "COLLECTING"} : Advance(r, state)
    BY <2>3, MethodsSame DEF ResourceSame, Unclean
  <2> QED BY <2>1, <2>2, <2>3 DEF ResourceMethod
<1> QED BY <1>1, <1>3 DEF SlotSame, UncleanVerifier, Admitted

LEMMA VerifierMethodSlot ==
  ASSUME HostInv, NEW r \in Runs, VerifierMethod(r), ~ClaimVerifier(r),
         ~\E session : UncleanVerifier(r) /\ CleanVerifier(r, session)
  PROVE  SlotSame
<1> USE DEF HostInv, VerifiersTyped
<1>0. NoVerifier \notin Verifier BY StoreAssumption
<1>1. UNCHANGED <<run, resource>>
  BY DEF VerifierMethod, VerifierAllocated, FailVerifier, FinishVerifier, CleanVerifier
<1>2. verifier[r] # NoVerifier => verifier[r] \in Verifier OBVIOUS
<1>3. \E row \in Verifier : /\ verifier' = [verifier EXCEPT ![r] = row]
                            /\ verifier[r] # NoVerifier /\ row.clean = verifier[r].clean
  <2>1. CASE VerifierAllocated(r)
    <3> DEFINE row == [verifier[r] EXCEPT !.session = TRUE, !.state = IF verifier[r].state = "ALLOCATING" THEN "RUNNING" ELSE verifier[r].state]
    <3>1. verifier' = [verifier EXCEPT ![r] = row] /\ verifier[r] # NoVerifier
      BY <2>1 DEF VerifierAllocated, UncleanVerifier
    <3>2. row \in Verifier /\ row.clean = verifier[r].clean BY <1>2, <3>1 DEF Verifier
    <3> HIDE DEF row
    <3> QED BY <3>1, <3>2
  <2>2. CASE FailVerifier(r)
    <3> DEFINE row == [verifier[r] EXCEPT !.state = "FINISHED", !.outcome = "UNKNOWN"]
    <3>1. verifier' = [verifier EXCEPT ![r] = row] /\ verifier[r] # NoVerifier
      BY <2>2 DEF FailVerifier, UncleanVerifier
    <3>2. row \in Verifier /\ row.clean = verifier[r].clean BY <1>2, <3>1 DEF Verifier
    <3> HIDE DEF row
    <3> QED BY <3>1, <3>2
  <2>3. ASSUME NEW outcome \in {"PASS", "FAIL"}, FinishVerifier(r, outcome)
        PROVE  \E row \in Verifier : /\ verifier' = [verifier EXCEPT ![r] = row]
                                     /\ verifier[r] # NoVerifier /\ row.clean = verifier[r].clean
    <3> DEFINE row == [verifier[r] EXCEPT !.state = "FINISHED", !.outcome = outcome]
    <3>1. verifier' = [verifier EXCEPT ![r] = row] /\ verifier[r] # NoVerifier
      BY <2>3 DEF FinishVerifier, VerifierActive, UncleanVerifier
    <3>2. row \in Verifier /\ row.clean = verifier[r].clean BY <1>2, <3>1 DEF Verifier
    <3> HIDE DEF row
    <3> QED BY <3>1, <3>2
  <2>4. ASSUME NEW session, CleanVerifier(r, session)
        PROVE  \E row \in Verifier : /\ verifier' = [verifier EXCEPT ![r] = row]
                                     /\ verifier[r] # NoVerifier /\ row.clean = verifier[r].clean
    <3> DEFINE row == [verifier[r] EXCEPT !.state = "DESTROYED", !.clean = TRUE]
    <3>1. verifier' = [verifier EXCEPT ![r] = row] /\ verifier[r] # NoVerifier /\ ~UncleanVerifier(r)
      BY <2>4 DEF CleanVerifier
    <3>2. row \in Verifier /\ row.clean = verifier[r].clean BY <1>2, <3>1 DEF Verifier, UncleanVerifier
    <3> HIDE DEF row
    <3> QED BY <3>1, <3>2
  <2> QED BY <2>1, <2>2, <2>3, <2>4 DEF VerifierMethod
<1>4. \A q \in Runs : /\ verifier'[q] # NoVerifier <=> verifier[q] # NoVerifier
                      /\ UncleanVerifier(q)' <=> UncleanVerifier(q)
  BY <1>0, <1>3 DEF UncleanVerifier
<1> QED BY <1>1, <1>4 DEF SlotSame, Has, Unclean, Admitted

\* What moves a machine is no method of the slot.
LEMMA MachineMovesSame ==
  ASSUME HostInv, CloudNext, machine' # machine
  PROVE  SlotSame
<1>1. CASE UNCHANGED <<run, resource, verifier>>
  BY <1>1 DEF SlotSame, Has, Unclean, UncleanVerifier, Admitted
<1>2. ASSUME NEW r \in Runs, Allocate(r) PROVE SlotSame
  <2>1. Heartbeat(r) BY <1>2 DEF Allocate
  <2>2. \A q \in Runs : ResourceSame(q) BY <2>1, MethodsSame DEF HostInv
  <2>3. UNCHANGED <<run, verifier>> BY <2>1 DEF Heartbeat
  <2> QED BY <2>2, <2>3 DEF SlotSame, ResourceSame, Unclean, UncleanVerifier, Admitted
<1> QED BY <1>1, <1>2, StepMachines DEF MachineStep, Destroy, AllocateVerifier, DestroyVerifier, DestroyStale,
             DestroyStaleVerifier, Lands, TimesOut, storeVars

\* The steps of the slot.
LEMMA ClaimAcquires ==
  ASSUME SlotInv, SlotInv', NEW r \in Runs, Claim(r), machine' = machine
  PROVE  Slot!Acquire(r, "produce")
<1> USE DEF SlotInv, SpendInv, MachineInv, HostInv, StopInv, RowsTyped
<1>1. HolderRows /\ HolderRows' BY HolderIs, HeldNext
<1>2. Holder = Nobody BY <1>1 DEF HolderRows, Claim
<1>3. UNCHANGED <<run, verifier>> /\ ~Has(r) /\ run[r].terminal = "none" /\ Admitted(r) BY DEF Claim, Open
<1> DEFINE row == [state |-> "ALLOCATING", session |-> FALSE, lease |-> Sooner(now + 1), cancelled |-> FALSE,
                   clean |-> FALSE, collected |-> FALSE, passed |-> FALSE, failure |-> FALSE]
<1>4. resource' = [resource EXCEPT ![r] = row] /\ ~row.clean BY DEF Claim
<1>5. row \in Resource BY SoonerTyped DEF Resource
<1> HIDE DEF row
<1>6. Unclean(r)' /\ \A q \in Runs : Has(q)' <=> Has(q) \/ q = r
  BY <1>4, <1>5, SentinelsApart DEF Unclean, Has
<1>7. Holder' = <<r, "produce">> BY <1>1, <1>6 DEF HolderRows
<1>8. Used' = Used \cup {<<r, "produce">>} /\ <<r, "produce">> \notin Used BY <1>3, <1>6 DEF Used
<1>9. Ended' = Ended /\ r \notin Ended /\ Running' = Running BY <1>3 DEF Ended, Running, Admitted
<1> QED BY <1>2, <1>7, <1>8, <1>9 DEF Slot!Acquire, Used, Ended, Running

LEMMA VerifierAcquires ==
  ASSUME SlotInv, SlotInv', NEW r \in Runs, ClaimVerifier(r), machine' = machine
  PROVE  Slot!Acquire(r, "verify")
<1> USE DEF SlotInv, SpendInv, MachineInv, HostInv, VerifiersTyped
<1>1. HolderRows /\ HolderRows' BY HolderIs, HeldNext
<1>2. Holder = Nobody BY <1>1 DEF HolderRows, ClaimVerifier
<1>3. /\ UNCHANGED <<run, resource>> /\ verifier[r] = NoVerifier /\ Has(r)
      /\ run[r].terminal = "none" /\ Admitted(r)
  BY DEF ClaimVerifier, Open
<1> DEFINE row == [state |-> "ALLOCATING", session |-> FALSE, outcome |-> "UNKNOWN", clean |-> FALSE,
                   deadline |-> Sooner(now + 1)]
<1>4. verifier' = [verifier EXCEPT ![r] = row] /\ ~row.clean BY DEF ClaimVerifier
<1>5. row \in Verifier
  <2>1. Sooner(now + 1) \in 0..WorkDeadline BY SentinelsApart DEF Sooner
  <2> QED BY <2>1 DEF Verifier
<1> HIDE DEF row
<1>6. UncleanVerifier(r)' /\ \A q \in Runs : verifier'[q] # NoVerifier <=> verifier[q] # NoVerifier \/ q = r
  BY <1>4, <1>5, StoreAssumption DEF UncleanVerifier
<1>7. Holder' = <<r, "verify">> BY <1>1, <1>6 DEF HolderRows
<1>8. Used' = Used \cup {<<r, "verify">>} /\ <<r, "verify">> \notin Used /\ <<r, "produce">> \in Used
  BY <1>3, <1>6 DEF Used, Has
<1>9. Ended' = Ended /\ r \notin Ended /\ Running' = Running BY <1>3 DEF Ended, Running, Admitted
<1> QED BY <1>2, <1>7, <1>8, <1>9 DEF Slot!Acquire, Used, Ended, Running

LEMMA FinalizeCloses ==
  ASSUME SlotInv, SlotInv', NEW r \in Runs, NEW v \in Outcomes, Finalize(r, v), machine' = machine
  PROVE  Slot!Close(r)
<1> USE DEF SlotInv, SpendInv, MachineInv, HostInv, StopInv, RowsTyped
<1>1. HolderRows /\ HolderRows' BY HolderIs, HeldNext
<1>2. UNCHANGED <<resource, verifier>> /\ Admitted(r) /\ run[r].terminal = "none" /\ run[r] \in Run
  BY DEF Finalize, Admitted
<1>3. ~Unclean(r) /\ ~UncleanVerifier(r) BY DEF Finalize, Unclean
<1>4. \A q \in Runs : (Unclean(q)' <=> Unclean(q)) /\ (UncleanVerifier(q)' <=> UncleanVerifier(q))
  BY <1>2 DEF Unclean, UncleanVerifier, Has
<1>5. Holder' = Holder /\ (Holder # Nobody => Holder[1] # r)
  <2>1. ASSUME NEW q \in Runs, Unclean(q) PROVE Holder' = Holder /\ Holder[1] # r
    BY <1>1, <1>3, <1>4, <2>1 DEF HolderRows
  <2>2. ASSUME NEW q \in Runs, UncleanVerifier(q) PROVE Holder' = Holder /\ Holder[1] # r
    BY <1>1, <1>3, <1>4, <2>2 DEF HolderRows
  <2>3. CASE \A q \in Runs : ~Unclean(q) /\ ~UncleanVerifier(q) BY <1>1, <1>4, <2>3 DEF HolderRows
  <2> QED BY <2>1, <2>2, <2>3
<1> DEFINE end  == Verdict(r, v)
           held == r \in custody
           row  == [run[r] EXCEPT !.terminal = end, !.candidate = held]
<1>6. run' = [run EXCEPT ![r] = row] BY DEF Finalize
<1>7. end \in Outcomes /\ held \in BOOLEAN BY DEF Verdict, Outcomes
<1> HIDE DEF end, held
<1>8. row \in Run /\ row.terminal # "none" BY <1>2, <1>7 DEF Run, Outcomes
<1> HIDE DEF row
<1>9. Ended' = Ended \cup {r} /\ r \notin Ended BY <1>2, <1>6, <1>8, SentinelsApart DEF Ended, Admitted
<1>10. Used' = Used /\ Running' = Running BY <1>2 DEF Used, Running, Has
<1> QED BY <1>5, <1>9, <1>10 DEF Slot!Close, Used, Ended, Running

\* Giving the slot back: no machine is left, since none runs for anybody but the holder.
LEMMA CleaningReleases ==
  ASSUME SlotInv, SlotInv', NEW r \in Runs, machine' = machine, run' = run,
         Unclean(r) \/ UncleanVerifier(r),
         \A q \in Runs : /\ (Has(q)' <=> Has(q)) /\ (verifier'[q] # NoVerifier <=> verifier[q] # NoVerifier)
                         /\ ~Unclean(q)' /\ ~UncleanVerifier(q)'
  PROVE  Slot!Release
<1>1. HolderRows /\ HolderRows' /\ RunningHeld' BY HolderIs, HeldNext DEF SlotInv
<1>2. Holder # Nobody BY <1>1, CloudAssumption DEF HolderRows
<1>3. Holder' = Nobody BY <1>1 DEF HolderRows
<1>4. Running' = {} BY <1>1, <1>3 DEF RunningHeld
<1>5. Running' = Running /\ Used' = Used /\ Ended' = Ended BY DEF Running, Used, Ended, Admitted
<1> QED BY <1>2, <1>3, <1>4, <1>5 DEF Slot!Release, Used, Ended, Running

LEMMA ConfirmReleases ==
  ASSUME SlotInv, SlotInv', NEW r \in Runs, NEW session, Unclean(r), ConfirmCleanup(r, session), machine' = machine
  PROVE  Slot!Release
<1> USE DEF SlotInv, SpendInv, MachineInv, HostInv, StopInv, RowsTyped
<1>1. UNCHANGED <<run, verifier>> BY DEF ConfirmCleanup
<1> DEFINE row == [resource[r] EXCEPT !.state = "DESTROYED", !.clean = TRUE]
<1>2. resource' = [resource EXCEPT ![r] = row] /\ Has(r) /\ resource[r] \in Resource BY DEF ConfirmCleanup, Has
<1>3. row \in Resource /\ row.clean BY <1>2 DEF Resource
<1> HIDE DEF row
<1>4. \A q \in Runs : /\ (Has(q)' <=> Has(q)) /\ (verifier'[q] # NoVerifier <=> verifier[q] # NoVerifier)
                      /\ ~Unclean(q)' /\ ~UncleanVerifier(q)'
  BY <1>1, <1>2, <1>3, SentinelsApart DEF OneHolder, Has, Unclean, UncleanVerifier
<1> QED BY <1>1, <1>4, CleaningReleases

LEMMA CleanReleases ==
  ASSUME SlotInv, SlotInv', NEW r \in Runs, NEW session, UncleanVerifier(r), CleanVerifier(r, session),
         machine' = machine
  PROVE  Slot!Release
<1> USE DEF SlotInv, SpendInv, MachineInv, HostInv, VerifiersTyped
<1>1. UNCHANGED <<run, resource>> BY DEF CleanVerifier
<1> DEFINE row == [verifier[r] EXCEPT !.state = "DESTROYED", !.clean = TRUE]
<1>2. verifier' = [verifier EXCEPT ![r] = row] /\ verifier[r] # NoVerifier /\ verifier[r] \in Verifier
  BY DEF CleanVerifier
<1>3. row \in Verifier /\ row.clean BY <1>2 DEF Verifier
<1> HIDE DEF row
<1>4. \A q \in Runs : /\ (Has(q)' <=> Has(q)) /\ (verifier'[q] # NoVerifier <=> verifier[q] # NoVerifier)
                      /\ ~Unclean(q)' /\ ~UncleanVerifier(q)'
  BY <1>1, <1>2, <1>3, StoreAssumption DEF OneHolder, Has, Unclean, UncleanVerifier
<1> QED BY <1>1, <1>4, CleaningReleases

LEMMA StepSlot ==
  ASSUME SlotInv, SlotInv', [CloudNext]_cloudVars
  PROVE  [Slot!Next]_(Slot!slotVars)
<1>0. HostInv BY DEF SlotInv, SpendInv, MachineInv
<1>1. CASE UNCHANGED cloudVars
  <2>1. SlotSame BY <1>1 DEF cloudVars, SlotSame, Has, Unclean, UncleanVerifier, Admitted
  <2> QED BY <2>1, MachinesMove
<1>2. CASE CloudNext
  <2>1. CASE SlotSame BY <2>1, MachinesMove
  <2>2. CASE ~SlotSame
    <3>1. machine' = machine BY <1>0, <1>2, <2>2, MachineMovesSame
    <3>2. UNCHANGED <<run, resource, verifier>> => SlotSame
      BY DEF SlotSame, Has, Unclean, UncleanVerifier, Admitted
    <3>3. ASSUME NEW r \in Runs, RunMethod(r) PROVE Slot!Next
      <4>1. Claim(r) \/ \E v \in Outcomes : Finalize(r, v) BY <1>0, <2>2, <3>3, RunMethodSlot
      <4> QED BY <3>1, <4>1, ClaimAcquires, FinalizeCloses DEF Slot!Next
    <3>4. ASSUME NEW r \in Runs, ResourceMethod(r) PROVE Slot!Next
      <4>1. \E session \in BOOLEAN : Unclean(r) /\ ConfirmCleanup(r, session)
        BY <1>0, <2>2, <3>4, ResourceMethodSlot
      <4> QED BY <3>1, <4>1, ConfirmReleases DEF Slot!Next
    <3>5. ASSUME NEW r \in Runs, VerifierMethod(r) PROVE Slot!Next
      <4>1. ClaimVerifier(r) \/ \E session : UncleanVerifier(r) /\ CleanVerifier(r, session)
        BY <1>0, <2>2, <3>5, VerifierMethodSlot
      <4> QED BY <3>1, <4>1, VerifierAcquires, CleanReleases DEF Slot!Next
    <3> QED BY <1>0, <1>2, <2>2, <3>2, <3>3, <3>4, <3>5, StepRows, StepVerifiers DEF RowsKept
  <2> QED BY <2>1, <2>2
<1> QED BY <1>1, <1>2

\* The rows, leases, sessions and observers of hosted execution implement one worker slot:
\* two machines never run at once, the slot is given back only when none can run any more,
\* and a run with an outcome never holds it again (claim, confirmCleanup, cleanup of the
\* verifier, finalize).
THEOREM SlotImplemented == CloudSpec => ImplementsWorkerSlot
<1>1. CloudInit => SlotInv BY SlotInvInit
<1>2. SlotInv /\ [CloudNext]_cloudVars => SlotInv' BY SlotInvStep
<1>3. CloudInit => Slot!Init
  <2> SUFFICES ASSUME CloudInit PROVE Slot!Init OBVIOUS
  <2>1. /\ \A r \in Runs : ~Has(r) /\ verifier[r] = NoVerifier /\ ~Admitted(r)
        /\ \A m \in Runs \X Tasks : machine[m] # "running"
    BY DEF CloudInit, StoreInit, Has, Admitted
  <2>2. Holder = Nobody BY <2>1 DEF Holder, Unclean, UncleanVerifier
  <2> QED BY <2>1, <2>2 DEF Slot!Init
<1>4. SlotInv /\ SlotInv' /\ [CloudNext]_cloudVars => [Slot!Next]_(Slot!slotVars) BY StepSlot
<1> QED BY <1>1, <1>2, <1>3, <1>4, PTL DEF CloudSpec, ImplementsWorkerSlot, Slot!Spec
-----------------------------------------------------------------------------
(* What a completed run has shown *)

\* What LedgerSpec keeps, and CloudIsLedger gives.
LedgerHeld == LedgerTypeOK /\ Chargeable /\ CompletionInv

PaidUp(r) == \A ph \in Phases : Exists(<<r, ph>>) /\ op[<<r, ph>>].state = "settled"

\* An operation is named after its run and phase, and asked for by no one else.
OpsNamed == \A r \in Runs, ph \in Phases : Exists(<<r, ph>>) =>
  Has(r) /\ op[<<r, ph>>].binding = BindingOf[r] /\ op[<<r, ph>>].phase = ph

Collecting == {"QUIESCING", "COLLECTING", "collect", "retain"}
Unchecked  == Trying \cup {"caught"}

\* The phases of a run are paid before its candidate is collected, and nothing is checked
\* before the executor's try block is over.
PaidAt(r) ==
  /\ exec[r].pc \in Collecting => PaidUp(r)
  /\ Has(r) /\ resource[r].collected => PaidUp(r)
  /\ r \in custody => PaidUp(r)
  /\ Has(r) /\ resource[r].passed => exec[r].pc \notin Unchecked

LEMMA LedgerSteps ==
  ASSUME LedgerHeld, HostsTyped, CloudNext
  PROVE  AllRetained
<1>1. [LedgerNext]_ledgerVars BY CloudStepsLedger DEF LedgerHeld
<1> QED BY <1>1, StepsRetained DEF LedgerHeld

\* What is paid up stays so.
LEMMA PaidStays ==
  ASSUME AllRetained, NEW r \in Runs, PaidUp(r)
  PROVE  PaidUp(r)'
<1> SUFFICES ASSUME NEW ph \in Phases PROVE Exists(<<r, ph>>)' /\ op'[<<r, ph>>].state = "settled"
  BY DEF PaidUp
<1>1. <<r, ph>> \in OpIds BY OpsOfRunsTyped
<1> QED BY <1>1 DEF PaidUp, AllRetained, Retained, Exists, Final

\* Only the payment of a run reserves an operation, under the run's own name.
LEMMA StepNames ==
  ASSUME SpendInv, LedgerHeld, OpsNamed, CloudNext
  PROVE  OpsNamed'
<1>0. AllRetained BY LedgerSteps DEF SpendInv, MachineInv, HostInv
<1> SUFFICES ASSUME NEW r \in Runs, NEW ph \in Phases, Exists(<<r, ph>>)'
             PROVE  Has(r)' /\ op'[<<r, ph>>].binding = BindingOf[r] /\ op'[<<r, ph>>].phase = ph
  BY DEF OpsNamed
<1> DEFINE o == <<r, ph>>
<1>1. o \in OpIds /\ op \in [OpIds -> Row \cup {NoOp}] BY OpsOfRunsTyped DEF SpendInv, AccountInv, OpsTyped
<1>2. Has(r) => Has(r)' BY StepContext DEF SpendInv, MachineInv, ResourceGrows
<1>3. CASE Exists(o)
  <2>1. Has(r) /\ op[o].binding = BindingOf[r] /\ op[o].phase = ph BY <1>3 DEF OpsNamed
  <2>2. op'[o].binding = op[o].binding /\ op'[o].phase = op[o].phase
    BY <1>0, <1>1, <1>3 DEF AllRetained, Retained
  <2> QED BY <1>2, <2>1, <2>2
<1>4. CASE ~Exists(o)
  <2>1. op'[o] # op[o] BY <1>4 DEF Exists
  <2>2. ASSUME NEW q \in Runs, NEW session \in BOOLEAN, ConfirmCleanup(q, session) PROVE FALSE
    BY <1>1, <1>4, <2>1, <2>2 DEF ConfirmCleanup, OpsOfRun
  <2>3. PICK q \in Runs : Pay(q) BY <2>1, <2>2, StepOps DEF SpendInv
  <2>4. PICK p \in Phases :
          \/ LeaseRunning(q) /\ \E plan \in Plans : Reserve(<<q, p>>, BindingOf[q], plan.card, plan.perOp, p)
          \/ MarkDispatched(<<q, p>>)
          \/ Exists(<<q, p>>) /\ \E x \in Receipts : Settle(<<q, p>>, op[<<q, p>>].reserved, x)
          \/ ReleaseUndispatched(<<q, p>>)
          \/ MarkUnknown(<<q, p>>)
    BY <2>3 DEF Pay
  <2> DEFINE k == <<q, p>>
  <2>5. k \in OpIds BY OpsOfRunsTyped
  <2> HIDE DEF k, o
  <2>6. CASE MarkDispatched(k) \/ ReleaseUndispatched(k) \/ MarkUnknown(k) \/ \E x \in Receipts : Settle(k, op[k].reserved, x)
    <3>1. Exists(k) /\ \E row : op' = [op EXCEPT ![k] = row]
      BY <2>6 DEF MarkDispatched, ReleaseUndispatched, MarkUnknown, Settle
    <3>2. o # k BY <1>4, <3>1
    <3> QED BY <1>1, <2>1, <3>1, <3>2
  <2>7. ASSUME NEW plan \in Plans, LeaseRunning(q), Reserve(k, BindingOf[q], plan.card, plan.perOp, p)
        PROVE  Has(r)' /\ op'[o].binding = BindingOf[r] /\ op'[o].phase = ph
    <3> DEFINE row == [binding |-> BindingOf[q], card |-> plan.card, reserved |-> plan.perOp, phase |-> p,
                       actual |-> 0, receipt |-> NoReceipt, state |-> "reserved"]
    <3>1. op' = [op EXCEPT ![k] = row] /\ row.binding = BindingOf[q] /\ row.phase = p
      BY <2>7 DEF Reserve
    <3> HIDE DEF row
    <3>2. o = k BY <1>1, <2>1, <3>1
    <3>3. op'[o] = row BY <1>1, <3>1, <3>2
    <3>4. q = r /\ p = ph BY <3>2 DEF o, k
    <3>5. Has(r) BY <2>7, <3>4 DEF LeaseRunning, Leased, Unclean
    <3> QED BY <1>2, <3>1, <3>3, <3>4, <3>5
  <2> QED BY <2>4, <2>6, <2>7 DEF k, o
<1> QED BY <1>3, <1>4

\* assertCompleted finds the operations of the run it is asked for: no other run has its
\* attempt.
LEMMA CompletedPaid ==
  ASSUME SpendInv, LedgerHeld, OpsNamed, NEW r \in Runs, Has(r), Completed(BindingOf[r])
  PROVE  PaidUp(r)
<1> DEFINE x == BindingOf[r]
<1>1. x \in Binding /\ x.work \in Works BY OpsOfRunsTyped DEF Binding
<1>2. \A q \in Runs : Has(q) => Admitted(q)
  BY DEF SpendInv, AccountInv, HostInv, StopInv, ClaimedDelivered
<1>3. ASSUME NEW ph \in Phases, NEW o \in OpIds, Exists(o), op[o].binding = x, op[o].phase = ph
      PROVE  o = <<r, ph>>
  <2>1. PICK q \in Runs, p \in Phases : o = <<q, p>> BY OpsOfRunsTyped
  <2>2. Has(q) /\ op[o].binding = BindingOf[q] /\ op[o].phase = p BY <1>3, <2>1 DEF OpsNamed
  <2>3. q = r
    <3>1. BindingOf[q] = BindingOf[r] BY <1>3, <2>2
    <3>2. Admitted(q) /\ Admitted(r) BY <1>2, <2>2
    <3> QED BY <3>1, <3>2 DEF SpendInv, AccountInv, OneGeneration, WorkOf
  <2> QED BY <1>3, <2>1, <2>2, <2>3
<1>4. PICK o \in OpsIn(x.work, "completion") : op[o].binding = x /\ op[o].state = "settled" BY DEF Completed
<1>5. o = <<r, "completion">> BY <1>3, <1>4 DEF OpsIn, OpsOf, Phases
<1>6. /\ budget[x.work] # NoBudget /\ budget[x.work].phase = "completion"
      /\ AttemptOf(x.work) = x
  BY <1>1 DEF Completed, HoldsAuthority, Payable, SameGeneration, AttemptOf, Binding
<1>7. PICK p \in OpsIn(x.work, "productive") : op[p].binding = x /\ op[p].state = "settled"
  BY <1>1, <1>6 DEF LedgerHeld, CompletionInv, CompletionPhase
<1>8. p = <<r, "productive">> BY <1>3, <1>7 DEF OpsIn, OpsOf, Phases
<1> QED BY <1>4, <1>5, <1>7, <1>8 DEF PaidUp, Phases, OpsIn, OpsOf

\* An executor enters its try block by the claim, and collects after assertCompleted.
Enters(r) ==
  /\ exec'[r].pc \in Unchecked => exec[r].pc \in Unchecked \/ Execute(r)
  /\ exec'[r].pc \in Collecting => exec[r].pc \in Collecting \/ Executed(r)

LEMMA ActorEnters ==
  ASSUME HostInv, NEW r \in Runs, Dispatching(r) \/ Executing(r) \/ VerifyingRun(r)
  PROVE  Enters(r)
<1> USE DEF In, Step, Enters, Unchecked, Trying, Collecting
<1>0. exec[r] \in Exec /\ exec \in [Runs -> Exec] BY DEF HostInv, HostsTyped
<1>1. \A pc : exec' = [exec EXCEPT ![r].pc = pc] => exec'[r].pc = pc BY <1>0 DEF Exec
<1>2. CASE Dispatching(r)
  <2>1. Execute(r) \/ exec' = exec
    BY <1>2 DEF Dispatching, hostVars, PrepareBudget, BindRun, Send, Reported, Accept
  <2>2. Execute(r) => exec'[r].pc = "schedule" BY <1>1 DEF Execute
  <2> QED BY <2>1, <2>2
<1>3. CASE VerifyingRun(r)
  <2>1. CASE CreatedVerifier(r)
    <3> DEFINE row == [exec[r] EXCEPT !.pc = "vreceipt", !.vsandbox = TRUE]
    <3>1. exec' = [exec EXCEPT ![r] = row] BY <2>1 DEF CreatedVerifier
    <3>2. row.pc = "vreceipt" BY <1>0 DEF Exec
    <3> HIDE DEF row
    <3> QED BY <1>0, <3>1, <3>2
  <2>2. CASE Verified(r)
    <3> DEFINE row == [exec[r] EXCEPT !.pc = "finalize",
                               !.status = IF verifier[r].outcome = "UNKNOWN" THEN "FAILED" ELSE exec[r].status]
    <3>1. exec' = [exec EXCEPT ![r] = row] BY <2>2 DEF Verified
    <3>2. row.pc = "finalize" BY <1>0 DEF Exec
    <3> HIDE DEF row
    <3> QED BY <1>0, <3>1, <3>2
  <2>3. CASE FailedVerifier(r) /\ ~Step(r, "vdestroy")
    <3> DEFINE row == [exec[r] EXCEPT !.pc = "vdestroy", !.status = "THROWN"]
    <3>1. exec' = [exec EXCEPT ![r] = row] BY <2>3 DEF FailedVerifier
    <3>2. row.pc = "vdestroy" BY <1>0 DEF Exec
    <3> HIDE DEF row
    <3> QED BY <1>0, <3>1, <3>2
  <2>4. CASE ~CreatedVerifier(r) /\ ~Verified(r) /\ (FailedVerifier(r) => Step(r, "vdestroy"))
    <3>1. PICK pc \in {"vallocate", "vcreate", "verify", "vdestroy", "vfailed", "vrecord", "vcleanup", "vread", "done"} :
            exec' = [exec EXCEPT ![r].pc = pc]
      BY <1>3, <2>4 DEF VerifyingRun, Claimed, AllocateVerifier, ReceiptVerifier, Verify, ThrowVerifier,
                  DestroyVerifier, RecordVerifier, CleanupVerifier
    <3> QED BY <1>1, <3>1
  <2> QED BY <2>1, <2>2, <2>3, <2>4
<1>4. CASE Executing(r)
  <2>1. CASE Created(r)
    <3> DEFINE row == [exec[r] EXCEPT !.pc = "receipt", !.sandbox = TRUE]
    <3>1. exec' = [exec EXCEPT ![r] = row] /\ exec[r].pc = "create" BY <2>1 DEF Created
    <3>2. row.pc = "receipt" BY <1>0 DEF Exec
    <3> HIDE DEF row
    <3> QED BY <1>0, <3>1, <3>2
  <2>2. ASSUME NEW s, exec' = [exec EXCEPT ![r] = [@ EXCEPT !.pc = "destroy", !.status = s]] PROVE Enters(r)
    <3> DEFINE row == [exec[r] EXCEPT !.pc = "destroy", !.status = s]
    <3>1. exec' = [exec EXCEPT ![r] = row] BY <2>2
    <3>2. row.pc = "destroy" BY <1>0 DEF Exec
    <3> HIDE DEF row
    <3> QED BY <1>0, <3>1, <3>2
  <2>3. CASE Checks(r) \/ Caught(r) BY <1>1, <2>2, <2>3 DEF Checks, Caught
  <2>4. CASE Pay(r) \/ StartCompletion(r) \/ Pulse(r) BY <2>4 DEF Pay, StartCompletion, Pulse, hostVars
  <2>5. CASE Progress(r)
    <3>1. /\ exec[r].pc \in {"PREPARING", "READY", "RUNNING", "QUIESCING", "COLLECTING"}
          /\ exec'[r].pc = CASE exec[r].pc = "PREPARING"  -> "READY"
                             [] exec[r].pc = "READY"      -> "RUNNING"
                             [] exec[r].pc = "RUNNING"    -> "execute"
                             [] exec[r].pc = "QUIESCING"  -> "COLLECTING"
                             [] exec[r].pc = "COLLECTING" -> "collect"
      BY <1>1, <2>5 DEF Progress
    <3> QED BY <3>1
  <2>6. CASE Observed(r)
    <3>1. PICK pc \in {"done", "vclaim", "finalize"} : exec' = [exec EXCEPT ![r].pc = pc] BY <2>6 DEF Observed
    <3> QED BY <1>1, <3>1
  <2>7. CASE Schedule(r) \/ Allocate(r) \/ Receipt(r) \/ Collect(r) \/ Retain(r)
    BY <1>1, <2>7 DEF Schedule, Allocate, Receipt, Collect, Retain
  <2>8. CASE Executed(r) \/ Throw(r) BY <1>1, <2>8 DEF Executed, Throw
  <2>9. CASE Destroy(r) \/ Confirm(r) \/ FinalizeRun(r) \/ Die(r)
    <3>1. PICK pc \in {"confirm", "observe", "done"} : exec' = [exec EXCEPT ![r].pc = pc]
      BY <2>9 DEF Destroy, Confirm, FinalizeRun, Die
    <3> QED BY <1>1, <3>1
  <2> QED BY <1>4, <2>1, <2>3, <2>4, <2>5, <2>6, <2>7, <2>8, <2>9 DEF Executing
<1> QED BY <1>2, <1>3, <1>4

LEMMA StepEnters ==
  ASSUME HostInv, MachinesTyped, CloudNext
  PROVE  \A r \in Runs : Enters(r)
<1>1. exec' = exec => \A r \in Runs : Enters(r) BY DEF Enters
<1>2. ASSUME NEW q \in Runs, Dispatching(q) \/ Executing(q) \/ VerifyingRun(q), NEW r \in Runs PROVE Enters(r)
  <2>1. CASE r = q BY <1>2, <2>1, ActorEnters
  <2>2. CASE r # q
    <3>1. exec'[r] = exec[r] BY <1>2, <2>2, HostsApart
    <3> QED BY <3>1 DEF Enters
  <2> QED BY <2>1, <2>2
<1>3. \A c \in Observers : Reconciling(c) \/ GiveUp(c) \/ (\E r \in Runs : Read(c, r)) => exec' = exec
  BY DEF Reconciling, Expire, DestroyStale, ConfirmStale, Reconcile, DestroyStaleVerifier, CleanStaleVerifier,
     NoteInterrupted, FinalizeStale, GiveUp, Read
<1>4. (\E m \in Runs \X Tasks : Lands(m) \/ TimesOut(m)) \/ CloudTick => exec' = exec
  BY DEF Lands, TimesOut, CloudTick, hostVars
<1> QED BY <1>1, <1>2, <1>3, <1>4 DEF CloudNext

\* Who writes custody, and who the queue.
LEMMA StepCustody ==
  ASSUME CloudNext
  PROVE  /\ custody' = custody \/ \E r \in Runs : Retain(r)
         /\ message' \subseteq message \cup Runs
<1>1. ASSUME NEW r \in Runs, Dispatching(r) PROVE custody' = custody /\ message' \subseteq message \cup Runs
  BY <1>1 DEF Dispatching, PrepareBudget, BindRun, Send, Reported, Accept, Execute, Admit, ReserveDelivery,
       StopRun, Stopped, RecordSent, RecordUnsent, AcceptDelivery, Claim, storeVars, hostVars
<1>2. ASSUME NEW r \in Runs, Executing(r), ~Retain(r) PROVE custody' = custody
  BY <1>2 DEF Executing, Schedule, Allocate, Created, Receipt, Progress, Pay, StartCompletion, Executed, Collect,
       Checks, Throw, Caught, Destroy, Confirm, Observed, FinalizeRun, Pulse, Die, Heartbeat,
       RecordAllocation, Advance, NoteChecks, NoteFailure, ConfirmCleanup, Finalize, storeVars
<1>3. ASSUME NEW r \in Runs, Executing(r) PROVE message' = message
  BY <1>3 DEF Executing, Schedule, Allocate, Created, Receipt, Progress, Pay, StartCompletion, Executed, Collect,
       Retain, Checks, Throw, Caught, Destroy, Confirm, Observed, FinalizeRun, Pulse, Die, hostVars
<1>4. ASSUME NEW r \in Runs, VerifyingRun(r) PROVE custody' = custody /\ message' = message
  BY <1>4 DEF VerifyingRun, Claimed, AllocateVerifier, CreatedVerifier, ReceiptVerifier, Verify, ThrowVerifier,
       FailedVerifier, DestroyVerifier, RecordVerifier, CleanupVerifier, Verified, ClaimVerifier,
       VerifierAllocated, FinishVerifier, FailVerifier, CleanVerifier, storeVars
<1>5. ASSUME NEW c \in Observers, Reconciling(c) \/ GiveUp(c) \/ \E r \in Runs : Read(c, r)
      PROVE  custody' = custody /\ message' = message
  BY <1>5 DEF Reconciling, Expire, DestroyStale, ConfirmStale, Reconcile, DestroyStaleVerifier, CleanStaleVerifier,
       NoteInterrupted, FinalizeStale, GiveUp, Read, ReconcileExpired, ConfirmCleanup, CleanVerifier, NoteFailure,
       Finalize, storeVars
<1>6. (\E m \in Runs \X Tasks : Lands(m) \/ TimesOut(m)) \/ CloudTick => custody' = custody /\ message' = message
  BY DEF Lands, TimesOut, CloudTick, storeVars, hostVars
<1> QED BY <1>1, <1>2, <1>3, <1>4, <1>5, <1>6 DEF CloudNext

LEMMA StepPaidAt ==
  ASSUME SpendInv, LedgerHeld, OpsNamed, CloudNext, \A q \in Runs : PaidAt(q), NEW r \in Runs
  PROVE  PaidAt(r)'
<1>0. HostInv /\ MachinesTyped /\ ProducerAt(r) BY DEF SpendInv, MachineInv
<1>1. PaidUp(r) => PaidUp(r)' BY LedgerSteps, PaidStays DEF SpendInv, MachineInv, HostInv
<1>2. ResourceGrows(r) /\ Enters(r) BY <1>0, StepContext, StepEnters
<1>3. exec'[r].pc \in Collecting => PaidUp(r)
  <2>1. CASE exec[r].pc \in Collecting BY <2>1 DEF PaidAt
  <2>2. CASE Executed(r)
    <3>1. Has(r) /\ Completed(BindingOf[r]) BY <2>2 DEF Executed, LeaseRunning, Leased, Unclean
    <3> QED BY <3>1, CompletedPaid
  <2> QED BY <1>2, <2>1, <2>2 DEF Enters
<1>4. Has(r)' => Has(r) \/ (~resource'[r].collected /\ ~resource'[r].passed)
  <2>1. CASE ~Has(r) /\ Has(r)'
    <3>1. Claim(r) BY <1>0, <2>1, FirstRow
    <3> DEFINE row == [state |-> "ALLOCATING", session |-> FALSE, lease |-> Sooner(now + 1), cancelled |-> FALSE,
                       clean |-> FALSE, collected |-> FALSE, passed |-> FALSE, failure |-> FALSE]
    <3>2. resource' = [resource EXCEPT ![r] = row] /\ ~row.collected /\ ~row.passed BY <3>1 DEF Claim
    <3> HIDE DEF row
    <3> QED BY <1>0, <3>2 DEF HostInv, StopInv, RowsTyped
  <2> QED BY <2>1
<1>5. Has(r)' /\ resource'[r].collected => PaidUp(r)
  <2>1. CASE In(r, "COLLECTING") BY <2>1 DEF In, Collecting, PaidAt
  <2>2. CASE ~In(r, "COLLECTING") BY <1>2, <1>4, <2>2 DEF ResourceGrows, PaidAt
  <2> QED BY <2>1, <2>2
<1>6. r \in custody' => PaidUp(r)
  <2>1. ASSUME NEW q \in Runs, Retain(q) PROVE r \in custody' => r \in custody \/ In(r, "retain")
    BY <2>1 DEF Retain, RetainCustody
  <2>2. In(r, "retain") => PaidUp(r) BY DEF In, Collecting, PaidAt
  <2> QED BY <2>1, <2>2, StepCustody DEF PaidAt
<1>7. Has(r)' /\ resource'[r].passed => exec'[r].pc \notin Unchecked
  <2>1. SUFFICES ASSUME Has(r)', resource'[r].passed, exec'[r].pc \in Unchecked PROVE FALSE OBVIOUS
  <2>2. Has(r) BY <1>4, <2>1
  <2>3. ~Execute(r) BY <2>2 DEF Execute, Claim
  <2>4. exec[r].pc \in Unchecked BY <1>2, <2>1, <2>3 DEF Enters
  <2>5. ~resource[r].passed BY <2>2, <2>4 DEF PaidAt
  <2>6. Checked(r) BY <1>2, <2>1, <2>2, <2>5 DEF ResourceGrows
  <2> QED BY <2>1, <2>6 DEF Checked, Unchecked, Trying
<1> QED BY <1>1, <1>3, <1>5, <1>6, <1>7 DEF PaidAt

\* Rows and processes keep their shape.
Shapes ==
  /\ custody \subseteq Runs /\ message \subseteq Runs
  /\ \A r \in Runs : Has(r) => Destroyed(resource[r])
  /\ \A r \in Runs : verifier[r] # NoVerifier => Destroyed(verifier[r])
  /\ \A c \in Observers : Seeing(c, "idle") => observer[c].run = Nobody

\* An observer that gives up, or is done, forgets its run.
LEMMA ObserverForgets ==
  ASSUME HostInv, NEW c \in Observers, Reconciling(c) \/ GiveUp(c) \/ \E r \in Runs : Read(c, r)
  PROVE  observer'[c].pc = "idle" => observer'[c].run = Nobody
<1>0. observer \in [Observers -> Observer] /\ observer[c] \in Observer BY DEF HostInv, HostsTyped
<1>1. CASE Quit(c) BY <1>0, <1>1 DEF Quit, Idle
<1>2. ASSUME NEW pc, Then(c, pc), pc # "idle" PROVE observer'[c].pc # "idle"
  <2> DEFINE row == [observer[c] EXCEPT !.pc = pc]
  <2>1. observer' = [observer EXCEPT ![c] = row] BY <1>2 DEF Then
  <2>2. row.pc = pc BY <1>0 DEF Observer
  <2> HIDE DEF row
  <2> QED BY <1>0, <1>2, <2>1, <2>2
<1>3. CASE Reconcile(c)
  <2>1. CASE Then(c, AfterVerifier(c)) BY <1>2, <2>1 DEF AfterVerifier
  <2>2. CASE ~Then(c, AfterVerifier(c))
    <3> DEFINE held == verifier[observer[c].run].session
               row  == [observer[c] EXCEPT !.pc = "vdestroy", !.vsession = held]
    <3>1. observer' = [observer EXCEPT ![c] = row] BY <1>3, <2>2 DEF Reconcile
    <3> HIDE DEF held
    <3>2. row.pc = "vdestroy" BY <1>0 DEF Observer
    <3> HIDE DEF row
    <3> QED BY <1>0, <3>1, <3>2
  <2> QED BY <2>1, <2>2
<1>4. ASSUME NEW r \in Runs, Read(c, r) PROVE observer'[c].pc # "idle"
  <2>1. CASE Has(r)
    <3> DEFINE next  == IF resource[r].clean THEN "verifier" ELSE "expire"
               held  == resource[r].session
               clean == resource[r].clean
               want  == IF resource[r].clean /\ r \in custody /\ resource[r].passed THEN "COMPLETED" ELSE "FAILED"
               row   == [Idle EXCEPT !.pc = next, !.run = r, !.session = held, !.clean = clean, !.requested = want]
    <3>1. observer' = [observer EXCEPT ![c] = row] BY <1>4, <2>1 DEF Read
    <3>2. next # "idle" OBVIOUS
    <3> HIDE DEF next, held, clean, want
    <3>3. row.pc # "idle" BY <3>2 DEF Idle
    <3> HIDE DEF row
    <3> QED BY <1>0, <3>1, <3>3
  <2>2. CASE ~Has(r)
    <3> DEFINE row == [Idle EXCEPT !.pc = "finalize", !.run = r, !.requested = "CANCELLED"]
    <3>1. observer' = [observer EXCEPT ![c] = row] BY <1>4, <2>2 DEF Read
    <3>2. row.pc # "idle" BY DEF Idle
    <3> HIDE DEF row
    <3> QED BY <1>0, <3>1, <3>2
  <2> QED BY <2>1, <2>2
<1>5. CASE GiveUp(c) \/ FinalizeStale(c) BY <1>1, <1>5 DEF GiveUp, FinalizeStale
<1>6. CASE Expire(c) BY <1>1, <1>2, <1>6 DEF Expire
<1>7. CASE DestroyStale(c) \/ ConfirmStale(c) \/ DestroyStaleVerifier(c) \/ NoteInterrupted(c)
  BY <1>2, <1>7 DEF DestroyStale, ConfirmStale, DestroyStaleVerifier, NoteInterrupted
<1>8. CASE CleanStaleVerifier(c) BY <1>2, <1>8 DEF CleanStaleVerifier, AfterVerifier
<1> QED BY <1>3, <1>4, <1>5, <1>6, <1>7, <1>8 DEF Reconciling

LEMMA StepShapes ==
  ASSUME HostInv, MachinesTyped, Shapes, CloudNext
  PROVE  Shapes'
<1>1. custody' \subseteq Runs /\ message' \subseteq Runs
  BY StepCustody DEF Retain, RetainCustody, Shapes
<1>2. ASSUME NEW r \in Runs, Has(r)' PROVE Destroyed(resource'[r])
  <2>1. CASE Has(r) BY <2>1, StepContext DEF Shapes, ResourceGrows
  <2>2. CASE ~Has(r)
    <3>1. Claim(r) BY <1>2, <2>2, FirstRow
    <3> DEFINE row == [state |-> "ALLOCATING", session |-> FALSE, lease |-> Sooner(now + 1), cancelled |-> FALSE,
                       clean |-> FALSE, collected |-> FALSE, passed |-> FALSE, failure |-> FALSE]
    <3>2. resource' = [resource EXCEPT ![r] = row] /\ Destroyed(row) BY <3>1 DEF Claim, Destroyed
    <3> HIDE DEF row
    <3> QED BY <3>2 DEF HostInv, StopInv, RowsTyped
  <2> QED BY <2>1, <2>2
<1>3. ASSUME NEW r \in Runs, verifier'[r] # NoVerifier PROVE Destroyed(verifier'[r])
  <2>1. CASE verifier[r] # NoVerifier BY <2>1, StepContext DEF Shapes, VerifierGrows
  <2>2. CASE verifier[r] = NoVerifier
    <3>1. ClaimVerifier(r) BY <1>3, <2>2, FirstVerifier
    <3> DEFINE row == [state |-> "ALLOCATING", session |-> FALSE, outcome |-> "UNKNOWN", clean |-> FALSE,
                       deadline |-> Sooner(now + 1)]
    <3>2. verifier' = [verifier EXCEPT ![r] = row] /\ Destroyed(row) BY <3>1 DEF ClaimVerifier, Destroyed
    <3> HIDE DEF row
    <3> QED BY <3>2 DEF HostInv, VerifiersTyped
  <2> QED BY <2>1, <2>2
<1>4. ASSUME NEW c \in Observers, observer'[c].pc = "idle" PROVE observer'[c].run = Nobody
  <2>1. ASSUME observer'[c] = observer[c] PROVE observer'[c].run = Nobody
    BY <1>4, <2>1 DEF Shapes, Seeing
  <2>2. ASSUME NEW d \in Observers, Reconciling(d) \/ GiveUp(d) \/ \E r \in Runs : Read(d, r)
        PROVE  observer'[c].run = Nobody
    BY <1>4, <2>1, <2>2, ObserverForgets, ReconcilingApart
  <2>3. ASSUME NEW r \in Runs, Dispatching(r) \/ Executing(r) \/ VerifyingRun(r) PROVE observer' = observer
    <3>1. CASE Dispatching(r)
      BY <3>1 DEF Dispatching, PrepareBudget, BindRun, Send, Reported, Accept, Execute, hostVars
    <3>2. CASE Executing(r)
      BY <3>2 DEF Executing, Schedule, Allocate, Created, Receipt, Progress, Pay, StartCompletion, Executed,
         Collect, Retain, Checks, Throw, Caught, Destroy, Confirm, Observed, FinalizeRun, Pulse, Die, hostVars
    <3>3. CASE VerifyingRun(r)
      BY <3>3 DEF VerifyingRun, Claimed, AllocateVerifier, CreatedVerifier, ReceiptVerifier, Verify,
         ThrowVerifier, FailedVerifier, DestroyVerifier, RecordVerifier, CleanupVerifier, Verified
    <3> QED BY <2>3, <3>1, <3>2, <3>3
  <2>4. (\E m \in Runs \X Tasks : Lands(m) \/ TimesOut(m)) \/ CloudTick => observer' = observer
    BY DEF Lands, TimesOut, CloudTick, hostVars
  <2> QED BY <2>1, <2>2, <2>3, <2>4 DEF CloudNext
<1> QED BY <1>1, <1>2, <1>3, <1>4 DEF Shapes, Seeing

\* An outcome is written by finalize, and the row of a delivered run is not written after it.
LEMMA StepOutcome ==
  ASSUME HostInv, CloudNext, NEW r \in Runs, Admitted(r)', run'[r].terminal = "COMPLETED"
  PROVE  \/ \E v \in Outcomes : Finalize(r, v)
         \/ /\ Admitted(r) /\ run[r].terminal = "COMPLETED"
            /\ run[r].intent = "DELIVERED" => run'[r] = run[r]
<1> USE SentinelsApart DEF HostInv, StopInv, RowsTyped
<1>0. Admitted(r) => run[r] \in Run BY DEF Admitted
<1>1. CASE run'[r] = run[r] BY <1>1 DEF Admitted
<1>2. CASE run'[r] # run[r] /\ ~\E v \in Outcomes : Finalize(r, v)
  <2>1. PICK q \in Runs : RunMethod(q)
    <3>1. ASSUME NEW q \in Runs, ResourceMethod(q) PROVE run' = run
      BY <3>1, ResourceMethodWrites DEF ResourceWritten
    <3> QED BY <1>2, <3>1, StepRows DEF RowsKept
  <2>2. q = r
    <3>1. ASSUME q # r PROVE run'[r] = run[r]
      BY <2>1, <3>1 DEF RunMethod, Admit, ReserveDelivery, StopRun, RecordSent, RecordUnsent, AcceptDelivery,
                        Claim, Finalize
    <3> QED BY <1>2, <3>1
  <2>3. CASE Admit(r)
    <3> PICK v \in BOOLEAN :
          run' = [run EXCEPT ![r] = [stopped |-> FALSE, intent |-> "none", terminal |-> "none",
                                     candidate |-> FALSE, validation |-> v]]
      BY <2>3 DEF Admit
    <3> QED OBVIOUS
  <2>4. CASE Claim(r) BY <1>2, <2>4 DEF Claim
  <2>5. ASSUME NEW intent, run' = [run EXCEPT ![r].intent = intent], Admitted(r), run[r].intent # "DELIVERED"
        PROVE  Admitted(r) /\ run[r].terminal = "COMPLETED" /\ run[r].intent # "DELIVERED"
    <3> DEFINE row == [run[r] EXCEPT !.intent = intent]
    <3>1. run' = [run EXCEPT ![r] = row] BY <2>5
    <3>2. row.terminal = run[r].terminal BY <1>0, <2>5 DEF Run
    <3> HIDE DEF row
    <3> QED BY <2>5, <3>1, <3>2
  <2>6. CASE ReserveDelivery(r) \/ RecordSent(r) \/ AcceptDelivery(r)
    <3>1. \E intent : run' = [run EXCEPT ![r].intent = intent] /\ Admitted(r) /\ run[r].intent # "DELIVERED"
      BY <2>6 DEF ReserveDelivery, RecordSent, AcceptDelivery, Open
    <3> QED BY <2>5, <3>1
  <2>7. CASE StopRun(r)
    <3> DEFINE row == [run[r] EXCEPT !.stopped = TRUE]
    <3>1. run' = [run EXCEPT ![r] = row] /\ Admitted(r) /\ run[r].terminal = "none" BY <2>7 DEF StopRun, Open
    <3>2. row.terminal = run[r].terminal BY <1>0, <3>1 DEF Run
    <3> HIDE DEF row
    <3> QED BY <3>1, <3>2
  <2>8. CASE RecordUnsent(r)
    <3>1. Admitted(r) /\ run[r].intent # "DELIVERED" BY <2>8 DEF RecordUnsent
    <3>2. CASE run' = [run EXCEPT ![r].intent = "UNKNOWN"] BY <2>5, <3>1, <3>2
    <3>3. CASE run' = [run EXCEPT ![r] = [@ EXCEPT !.intent = "UNKNOWN", !.stopped = TRUE]]
      <4> DEFINE row == [run[r] EXCEPT !.intent = "UNKNOWN", !.stopped = TRUE]
      <4>1. run' = [run EXCEPT ![r] = row] BY <3>3
      <4>2. row.terminal = run[r].terminal BY <1>0, <3>1 DEF Run
      <4> HIDE DEF row
      <4> QED BY <3>1, <4>1, <4>2
    <3> QED BY <2>8, <3>2, <3>3 DEF RecordUnsent
  <2> QED BY <1>2, <2>1, <2>2, <2>3, <2>4, <2>6, <2>7, <2>8 DEF RunMethod
<1> QED BY <1>1, <1>2

\* The verdict names what a completed run has shown.
LEMMA FinalizeProves ==
  ASSUME SpendInv, OpsNamed, NEW r \in Runs, PaidAt(r), NEW v \in Outcomes, Finalize(r, v),
         run'[r].terminal = "COMPLETED"
  PROVE  /\ ~run'[r].stopped /\ run'[r].candidate /\ r \in custody'
         /\ resource'[r].clean /\ resource'[r].passed
         /\ verifier'[r] # NoVerifier /\ verifier'[r].clean /\ verifier'[r].outcome \in {"PASS", "FAIL"}
<1> USE SentinelsApart DEF SpendInv, MachineInv, HostInv, StopInv, RowsTyped
<1>0. Admitted(r) /\ run[r] \in Run /\ UNCHANGED <<resource, verifier, custody>> BY DEF Finalize, Admitted
<1> DEFINE kept == r \in custody
           said == Verdict(r, v)
           row  == [run[r] EXCEPT !.terminal = said, !.candidate = kept]
<1>1. run' = [run EXCEPT ![r] = row] BY DEF Finalize
<1> HIDE DEF kept, said
<1>2. row.terminal = said /\ row.candidate = kept /\ row.stopped = run[r].stopped BY <1>0 DEF Run
<1> HIDE DEF row
<1>3. run'[r] = row /\ said = "COMPLETED" BY <1>1, <1>2
<1>4. ~run[r].stopped /\ verifier[r] # NoVerifier /\ verifier[r].outcome # "UNKNOWN"
  BY <1>3 DEF said, Verdict
<1>5. r \in custody /\ resource[r].passed BY <1>3 DEF Finalize, said
<1>6. Has(r)
  <2>1. Exists(<<r, "completion">>) BY <1>5 DEF PaidAt, PaidUp, Phases
  <2> QED BY <2>1 DEF OpsNamed, Phases
<1>7. resource[r].clean /\ verifier[r].clean BY <1>4, <1>6 DEF Finalize, UncleanVerifier
<1>8. verifier[r].outcome \in {"PASS", "FAIL"} BY <1>4 DEF VerifiersTyped, Verifier
<1> QED BY <1>0, <1>2, <1>3, <1>4, <1>5, <1>7, <1>8 DEF kept

SoundInv == SpendInv /\ OpsNamed /\ Shapes /\ CompletedProven /\ \A r \in Runs : PaidAt(r)

\* Nothing that was shown is taken back.
LEMMA StepCompleted ==
  ASSUME SoundInv, LedgerHeld, CloudNext
  PROVE  CompletedProven'
<1> USE DEF SoundInv, SpendInv, MachineInv
<1> SUFFICES ASSUME NEW r \in Runs, Admitted(r)', run'[r].terminal = "COMPLETED"
             PROVE  /\ ~run'[r].stopped /\ run'[r].candidate /\ r \in custody'
                    /\ resource'[r].clean /\ resource'[r].passed
                    /\ verifier'[r] # NoVerifier /\ verifier'[r].clean /\ verifier'[r].outcome \in {"PASS", "FAIL"}
                    /\ \A ph \in Phases : op'[<<r, ph>>] # NoOp /\ op'[<<r, ph>>].state = "settled"
  BY DEF CompletedProven
<1>0. PaidUp(r)' => \A ph \in Phases : op'[<<r, ph>>] # NoOp /\ op'[<<r, ph>>].state = "settled"
  BY DEF PaidUp, Exists
<1>1. r \in custody' => PaidUp(r)' BY StepPaidAt DEF PaidAt
<1>2. CASE \E v \in Outcomes : Finalize(r, v) BY <1>0, <1>1, <1>2, FinalizeProves
<1>3. CASE /\ Admitted(r) /\ run[r].terminal = "COMPLETED"
           /\ run[r].intent = "DELIVERED" => run'[r] = run[r]
  <2>1. /\ ~run[r].stopped /\ run[r].candidate /\ r \in custody
        /\ resource[r].clean /\ resource[r].passed
        /\ verifier[r] # NoVerifier /\ verifier[r].clean /\ verifier[r].outcome \in {"PASS", "FAIL"}
    BY <1>3 DEF CompletedProven
  <2>2. run'[r] = run[r] BY <1>3, <2>1 DEF HostInv, StopInv, EndedDelivered
  <2>3. Has(r)
    <3>1. Exists(<<r, "completion">>) BY <2>1 DEF PaidAt, PaidUp, Phases
    <3> QED BY <3>1 DEF OpsNamed, Phases
  <2>4. custody \subseteq custody' BY StepCustody DEF Retain, RetainCustody
  <2>5. ResourceGrows(r) /\ VerifierGrows(r) BY StepContext
  <2>6. ~Checked(r) BY <2>1, <2>3 DEF PaidAt, Checked, In, Unchecked, Trying
  <2> QED BY <1>0, <1>1, <2>1, <2>2, <2>3, <2>4, <2>5, <2>6 DEF ResourceGrows, VerifierGrows
<1> QED BY <1>2, <1>3, StepOutcome

LEMMA SoundInvStep == SoundInv /\ LedgerHeld /\ [CloudNext]_cloudVars => SoundInv'
<1> SUFFICES ASSUME SoundInv, LedgerHeld, [CloudNext]_cloudVars PROVE SoundInv' OBVIOUS
<1>1. SpendInv' BY SpendInvStep DEF SoundInv
<1>2. CASE UNCHANGED cloudVars
  BY <1>1, <1>2 DEF cloudVars, SoundInv, OpsNamed, Shapes, CompletedProven, PaidAt, PaidUp, Has, Admitted, Exists,
     Seeing, Destroyed
<1>3. CASE CloudNext
  BY <1>1, <1>3, StepNames, StepShapes, StepCompleted, StepPaidAt DEF SoundInv, SpendInv, MachineInv
<1> QED BY <1>2, <1>3

\* Every row and process keeps its shape, and a run is reported complete only with both
\* phases paid, a checked candidate in custody, a judged and deleted verifier, and no stop
\* (executeCloudHarness, retainCustody, verifyCloudCandidate, finalize).
THEOREM CloudSoundHolds == CloudSpec => []CloudSound
<1>1. CloudInit => SoundInv
  <2> SUFFICES ASSUME CloudInit PROVE SoundInv OBVIOUS
  <2>1. /\ \A r \in Runs : ~Has(r) /\ verifier[r] = NoVerifier /\ ~Admitted(r) /\ exec[r].pc = "none"
        /\ \A c \in Observers : observer[c] = Idle
        /\ custody = {} /\ message = {} /\ op = [o \in OpIds |-> NoOp]
    BY DEF CloudInit, StoreInit, LedgerInit, Has, Admitted
  <2>2. OpsNamed BY <2>1, OpsOfRunsTyped DEF OpsNamed, Exists
  <2>3. Shapes BY <2>1 DEF Shapes, Seeing, Idle
  <2>4. \A r \in Runs : PaidAt(r) BY <2>1 DEF PaidAt, Collecting
  <2>5. CompletedProven BY <2>1 DEF CompletedProven
  <2> QED BY <2>2, <2>3, <2>4, <2>5, SpendInvInit DEF SoundInv
<1>2. SoundInv => CloudSound
  <2> SUFFICES ASSUME SoundInv PROVE CloudSound OBVIOUS
  <2>1. /\ run \in [Runs -> Run \cup {NoRun}] /\ resource \in [Runs -> Resource \cup {NoResource}]
        /\ verifier \in [Runs -> Verifier \cup {NoVerifier}] /\ custody \subseteq Runs
        /\ message \subseteq Runs /\ exec \in [Runs -> Exec] /\ observer \in [Observers -> Observer]
        /\ machine \in [Runs \X Tasks -> Machines]
    BY DEF SoundInv, SpendInv, MachineInv, HostInv, StopInv, RowsTyped, VerifiersTyped, HostsTyped, Shapes,
           MachinesTyped
  <2>2. \A r \in Runs : Has(r) <=> ~In(r, "none") BY DEF SoundInv, SpendInv, MachineInv, ProducerAt, In
  <2>3. \A c \in Observers : Seeing(c, "idle") <=> observer[c].run = Nobody
    <3>1. \A c \in Observers : Seeing(c, "idle") \/ observer[c].run \in Runs
      BY DEF SoundInv, SpendInv, MachineInv, HostInv, HostsTyped
    <3> QED BY <3>1, CloudAssumption DEF SoundInv, Shapes
  <2> QED BY <2>1, <2>2, <2>3 DEF CloudSound, CloudTypeOK, SoundInv, Shapes, Destroyed
<1>3. LedgerSpec => []LedgerHeld
  <2>1. LedgerTypeOK /\ Chargeable /\ CompletionInv => LedgerHeld BY DEF LedgerHeld
  <2> QED BY <2>1, LedgerTyping, ChargeableHolds, CompletionInvHolds, PTL
<1>4. SoundInv /\ LedgerHeld /\ [CloudNext]_cloudVars => SoundInv' BY SoundInvStep
<1> QED BY <1>1, <1>2, <1>3, <1>4, CloudIsLedger, PTL DEF CloudSpec
=============================================================================
