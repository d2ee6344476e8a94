----------------------------- MODULE CloudStore -----------------------------
(***************************************************************************)
(* The hosted controller's rows: runs, delivery intents, producer and      *)
(* verifier resources and candidate custody, and every method that writes  *)
(* them (apps/cloud-control/src/postgres-dispatch.mjs and                  *)
(* postgres-verification.mjs) beside the hosted spend ledger               *)
(* (postgres-spend.mjs, whose policy is the one SpendLedger models).       *)
(*                                                                         *)
(* A method is one transaction under one advisory lock, hence one          *)
(* operator; a method that throws rolls back, hence a guard.  `now' is the *)
(* database clock every lease and deadline is compared with.               *)
(*                                                                         *)
(* Abstractions: one Work deadline and one plan; a run has one writer      *)
(* identity (BindingOf) and one sandbox name per resource, so a recorded   *)
(* provider session is a BOOLEAN; a lease is one tick long.  Client        *)
(* grants, maxWorks and the capability policy are not modelled.            *)
(***************************************************************************)
EXTENDS SpendLedger

CONSTANTS Runs,            \* run ids
          BindingOf,       \* [Runs -> Binding], the identity a run is dispatched with
          WorkDeadline,    \* the deadline of every Work
          Grace,           \* how long after a deadline a create may still land
          NoRun, NoResource, NoVerifier

VARIABLES run,       \* [Runs -> intake receipt with its events, or NoRun]
          resource,  \* [Runs -> execution_resources row or NoResource]
          verifier,  \* [Runs -> verification_resources row or NoVerifier]
          custody    \* runs whose candidate bytes are retained

storeVars == <<run, resource, verifier, custody>>

Intents   == {"none", "SENDING", "ACCEPTED", "UNKNOWN", "DELIVERED"}
Outcomes  == {"COMPLETED", "FAILED", "CANCELLED"}
Working   == <<"ALLOCATING", "PREPARING", "READY", "RUNNING", "QUIESCING", "COLLECTING">>
Run       == [stopped : BOOLEAN, intent : Intents, terminal : Outcomes \cup {"none"},
              candidate : BOOLEAN, validation : BOOLEAN]  \* validation: of the client sofie-production-validation
Resource  == [state : {"ALLOCATING", "PREPARING", "READY", "RUNNING", "QUIESCING", "COLLECTING", "DESTROYED"},
              session : BOOLEAN, lease : Nat, cancelled : BOOLEAN, clean : BOOLEAN,
              collected : BOOLEAN, passed : BOOLEAN, failure : BOOLEAN]
Verifier  == [state : {"ALLOCATING", "RUNNING", "FINISHED", "DESTROYED"}, session : BOOLEAN,
              outcome : {"PASS", "FAIL", "UNKNOWN"}, clean : BOOLEAN, deadline : 0..WorkDeadline]

ASSUME StoreAssumption ==
  /\ BindingOf \in [Runs -> Binding]
  /\ OpIds = Runs \X Phases
  /\ WorkDeadline \in Deadlines /\ Grace \in Nat \ {0}
  /\ NoRun \notin Run /\ NoResource \notin Resource /\ NoVerifier \notin Verifier

WorkOf(r)         == BindingOf[r].work
Admitted(r)       == run[r] # NoRun
Has(r)            == resource[r] # NoResource
Unclean(r)        == Has(r) /\ ~resource[r].clean
UncleanVerifier(r) == verifier[r] # NoVerifier /\ ~verifier[r].clean
Open(r)           == Admitted(r) /\ ~run[r].stopped /\ run[r].terminal = "none"
Sooner(t)         == IF t < WorkDeadline THEN t ELSE WorkDeadline
OpsOfRun(r)       == {o \in OpIds : Exists(o) /\ op[o].binding = BindingOf[r]}

\* A resource that may still act: leased, not cancelled, not cleaned, in time.
Leased(r) == /\ Unclean(r) /\ ~resource[r].cancelled
             /\ resource[r].lease > now /\ WorkDeadline > now

\* assertExecutionLease, asked by every hosted ledger call that spends.
LeaseRunning(r) == Leased(r) /\ resource[r].session /\ resource[r].state = "RUNNING"

\* Budget of the run's own generation, fenced; a later generation is not touched.
OwnBudget(r) == budget[WorkOf(r)] # NoBudget /\ budget[WorkOf(r)].generation = BindingOf[r].generation
Fence(r) == budget' = IF OwnBudget(r) THEN [budget EXCEPT ![WorkOf(r)].authority = "fenced"] ELSE budget
-----------------------------------------------------------------------------
(* PostgresDispatchStore *)

\* prepare: no new generation while an earlier resource can still execute.
Admit(r) ==
  /\ ~Admitted(r) /\ WorkDeadline > now
  /\ \A q \in Runs : Admitted(q) /\ WorkOf(q) = WorkOf(r) =>
       /\ BindingOf[q].generation < BindingOf[r].generation
       /\ ~Unclean(q) /\ ~UncleanVerifier(q)
  /\ \E v \in BOOLEAN :
       run' = [run EXCEPT ![r] = [stopped |-> FALSE, intent |-> "none", terminal |-> "none",
                                  candidate |-> FALSE, validation |-> v]]
  /\ UNCHANGED <<resource, verifier, custody, ledgerVars>>

\* reserveDelivery: one intent for ever.
ReserveDelivery(r) ==
  /\ Open(r) /\ run[r].intent = "none" /\ WorkDeadline > now
  /\ HoldsAuthority(budget[WorkOf(r)], BindingOf[r], "productive")
  /\ run' = [run EXCEPT ![r].intent = "SENDING"]
  /\ UNCHANGED <<resource, verifier, custody, ledgerVars>>

\* stop, unless stopped or terminal; a reserved or dispatched operation is left to settle.
Stopped(r) ==
  /\ budget' = IF OwnBudget(r)
               THEN [budget EXCEPT ![WorkOf(r)] = [@ EXCEPT !.authority = "fenced", !.cancelled = TRUE]]
               ELSE budget
  /\ resource' = IF Has(r) THEN [resource EXCEPT ![r] = [@ EXCEPT !.cancelled = TRUE, !.lease = now]]
                           ELSE resource
  /\ UNCHANGED <<verifier, custody, op, now>>
StopRun(r) == Open(r) /\ run' = [run EXCEPT ![r].stopped = TRUE] /\ Stopped(r)

\* recordDeliverySend; the second stop event of a validation run violates a unique index,
\* which rolls the whole call back.
RecordSent(r) ==
  /\ Admitted(r) /\ run[r].intent = "SENDING"
  /\ run' = [run EXCEPT ![r].intent = "ACCEPTED"]
  /\ UNCHANGED <<resource, verifier, custody, ledgerVars>>
RecordUnsent(r) ==
  /\ Admitted(r) /\ run[r].intent = "SENDING"
  /\ IF run[r].validation
     THEN /\ ~run[r].stopped /\ Stopped(r)
          /\ run' = [run EXCEPT ![r] = [@ EXCEPT !.intent = "UNKNOWN", !.stopped = TRUE]]
     ELSE /\ run' = [run EXCEPT ![r].intent = "UNKNOWN"]
          /\ UNCHANGED <<resource, verifier, custody, ledgerVars>>

\* acceptDelivery authenticates the wake-up only.
AcceptDelivery(r) ==
  /\ Admitted(r) /\ run[r].intent \notin {"none", "DELIVERED"}
  /\ ~(run[r].validation /\ run[r].intent = "UNKNOWN")
  /\ run' = [run EXCEPT ![r].intent = "DELIVERED"]
  /\ UNCHANGED <<resource, verifier, custody, ledgerVars>>

\* Slip: the claim looks at the machines of its own Work only.
ClaimOwnWork(r) ==
  /\ Open(r) /\ ~Has(r) /\ WorkDeadline > now
  /\ \A q \in Runs : q # r => ~Unclean(q)
  /\ HoldsAuthority(budget[WorkOf(r)], BindingOf[r], "productive")
  /\ resource' = [resource EXCEPT ![r] =
       [state |-> "ALLOCATING", session |-> FALSE, lease |-> Sooner(now + 1), cancelled |-> FALSE,
        clean |-> FALSE, collected |-> FALSE, passed |-> FALSE, failure |-> FALSE]]
  /\ UNCHANGED <<run, verifier, custody, ledgerVars>>

\* claim, and the index factory_one_unresolved_resource over all runs.
Claim(r) ==
  /\ Open(r) /\ ~Has(r) /\ WorkDeadline > now
  /\ \A q \in Runs : ~Unclean(q) /\ ~UncleanVerifier(q)
  /\ HoldsAuthority(budget[WorkOf(r)], BindingOf[r], "productive")
  /\ \A o \in OpsOf(WorkOf(r)) : op[o].state # "unknown"
  /\ resource' = [resource EXCEPT ![r] =
       [state |-> "ALLOCATING", session |-> FALSE, lease |-> Sooner(now + 1), cancelled |-> FALSE,
        clean |-> FALSE, collected |-> FALSE, passed |-> FALSE, failure |-> FALSE]]
  /\ UNCHANGED <<run, verifier, custody, ledgerVars>>

Heartbeat(r) ==
  /\ Leased(r)
  /\ resource' = [resource EXCEPT ![r].lease = Sooner(now + 1)]
  /\ UNCHANGED <<run, verifier, custody, ledgerVars>>

\* A delayed create receipt stays collectible after cancellation.
RecordAllocation(r) ==
  /\ Unclean(r)
  /\ resource' = [resource EXCEPT ![r].session = TRUE]
  /\ UNCHANGED <<run, verifier, custody, ledgerVars>>

\* advanceResource: to the next working state only.
Advance(r, state) ==
  /\ Leased(r) /\ resource[r].session
  /\ \E i \in 1..5 : resource[r].state = Working[i] /\ state = Working[i + 1]
  /\ resource' = [resource EXCEPT ![r] = [@ EXCEPT !.state = state,
                                !.collected = resource[r].collected \/ state = "COLLECTING"]]
  /\ UNCHANGED <<run, verifier, custody, ledgerVars>>

\* retainCustody: an observation, accepted after teardown too; a repeat is read back.
RetainCustody(r) ==
  /\ Has(r) /\ resource[r].session /\ resource[r].collected
  /\ resource[r].state \in {"COLLECTING", "DESTROYED"}
  /\ \A o \in OpsOfRun(r) : op[o].state \notin Unresolved
  /\ custody' = custody \cup {r}
  /\ UNCHANGED <<run, resource, verifier, ledgerVars>>

\* noteResource with failure or visibleChecksPassed.
NoteFailure(r) ==
  /\ Has(r) /\ resource' = [resource EXCEPT ![r].failure = TRUE]
  /\ UNCHANGED <<run, verifier, custody, ledgerVars>>
NoteChecks(r, passed) ==
  /\ Has(r) /\ resource' = [resource EXCEPT ![r].passed = passed]
  /\ UNCHANGED <<run, verifier, custody, ledgerVars>>

\* Slip: only a stop ends a lease.
ReconcileCancelled(r) ==
  /\ resource[r].clean \/ resource[r].cancelled
  /\ IF resource[r].clean THEN UNCHANGED budget ELSE Fence(r)
  /\ UNCHANGED <<storeVars, op, now>>

\* Slip: a live lease is not respected, and fencing is left to confirmCleanup.
ReconcileUnasked(r) == Has(r) /\ UNCHANGED <<storeVars, ledgerVars>>

\* reconcileExpired: the row is kept, only spending is fenced.
ReconcileExpired(r) ==
  /\ resource[r].clean \/ resource[r].cancelled \/ resource[r].lease <= now
  /\ IF resource[r].clean THEN UNCHANGED budget ELSE Fence(r)
  /\ UNCHANGED <<storeVars, op, now>>

\* Slip: teardown without accounting for the operations under way.
ConfirmCleanupOnly(r, session) ==
  /\ Has(r) /\ resource[r].session = session
  /\ ~session => now >= WorkDeadline + Grace
  /\ resource' = [resource EXCEPT ![r] = [@ EXCEPT !.state = "DESTROYED", !.clean = TRUE]]
  /\ Fence(r)
  /\ UNCHANGED <<run, verifier, custody, op, now>>

\* confirmCleanup by a caller that knows the session, or knows of none.
ConfirmCleanup(r, session) ==
  /\ Has(r) /\ resource[r].session = session
  /\ ~session => now >= WorkDeadline + Grace
  /\ resource' = [resource EXCEPT ![r] = [@ EXCEPT !.state = "DESTROYED", !.clean = TRUE]]
  /\ Fence(r)
  /\ op' = [o \in OpIds |-> IF o \in OpsOfRun(r) /\ op[o].state \in {"reserved", "dispatched"}
                            THEN [op[o] EXCEPT !.state = "unknown"] ELSE op[o]]
  /\ UNCHANGED <<run, verifier, custody, now>>

\* Slip: a checked candidate needs no verifier.
VerdictUnverified(r, requested) ==
  IF run[r].stopped THEN "CANCELLED"
  ELSE IF \/ UnresolvedOf(WorkOf(r)) # {} \/ WorkDeadline <= now
          \/ Has(r) /\ resource[r].failure THEN "FAILED"
  ELSE requested

\* Slip: a recorded failure is reported before a stop is looked for.
VerdictFailureFirst(r, requested) ==
  IF Has(r) /\ resource[r].failure THEN "FAILED"
  ELSE IF run[r].stopped THEN "CANCELLED" ELSE requested

Verdict(r, requested) ==
  IF run[r].stopped THEN "CANCELLED"
  ELSE IF \/ UnresolvedOf(WorkOf(r)) # {} \/ WorkDeadline <= now
          \/ Has(r) /\ resource[r].failure
          \/ verifier[r] = NoVerifier \/ verifier[r].outcome = "UNKNOWN" THEN "FAILED"
  ELSE requested

Finalize(r, requested) ==
  /\ Admitted(r) /\ run[r].terminal = "none"
  /\ IF Has(r) THEN resource[r].clean ELSE run[r].stopped
  /\ ~UncleanVerifier(r)
  /\ Verdict(r, requested) = "COMPLETED" => r \in custody /\ resource[r].passed
  /\ run' = [run EXCEPT ![r] = [@ EXCEPT !.terminal = Verdict(r, requested), !.candidate = r \in custody]]
  /\ Fence(r)
  /\ UNCHANGED <<resource, verifier, custody, op, now>>
-----------------------------------------------------------------------------
(* PostgresVerificationStore *)

\* claim, once per run; cancellation and a terminal fence it.
ClaimVerifier(r) ==
  /\ Open(r) /\ verifier[r] = NoVerifier
  /\ r \in custody /\ Has(r) /\ resource[r].clean /\ resource[r].passed /\ ~resource[r].cancelled
  /\ WorkDeadline > now
  /\ \A q \in Runs : ~Unclean(q) /\ ~UncleanVerifier(q)
  /\ verifier' = [verifier EXCEPT ![r] =
       [state |-> "ALLOCATING", session |-> FALSE, outcome |-> "UNKNOWN", clean |-> FALSE,
        deadline |-> Sooner(now + 1)]]
  /\ UNCHANGED <<run, resource, custody, ledgerVars>>

VerifierActive(r, state) == /\ UncleanVerifier(r) /\ Open(r)
                            /\ verifier[r].state = state /\ verifier[r].deadline > now

VerifierAllocated(r) ==
  /\ UncleanVerifier(r)
  /\ verifier' = [verifier EXCEPT ![r] =
       [@ EXCEPT !.session = TRUE,
                 !.state = IF verifier[r].state = "ALLOCATING" THEN "RUNNING" ELSE verifier[r].state]]
  /\ UNCHANGED <<run, resource, custody, ledgerVars>>

FinishVerifier(r, outcome) ==
  /\ VerifierActive(r, "RUNNING")
  /\ verifier' = [verifier EXCEPT ![r] = [@ EXCEPT !.state = "FINISHED", !.outcome = outcome]]
  /\ UNCHANGED <<run, resource, custody, ledgerVars>>

FailVerifier(r) ==
  /\ UncleanVerifier(r)
  /\ verifier' = [verifier EXCEPT ![r] = [@ EXCEPT !.state = "FINISHED", !.outcome = "UNKNOWN"]]
  /\ UNCHANGED <<run, resource, custody, ledgerVars>>

CleanVerifier(r, session) ==
  /\ verifier[r] # NoVerifier /\ verifier[r].session = session
  /\ ~session => now >= verifier[r].deadline + Grace
  /\ verifier' = [verifier EXCEPT ![r] = [@ EXCEPT !.state = "DESTROYED", !.clean = TRUE]]
  /\ UNCHANGED <<run, resource, custody, ledgerVars>>
-----------------------------------------------------------------------------
StoreInit == /\ run = [r \in Runs |-> NoRun]
             /\ resource = [r \in Runs |-> NoResource]
             /\ verifier = [r \in Runs |-> NoVerifier]
             /\ custody = {}
=============================================================================
