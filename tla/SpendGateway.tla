---------------------------- MODULE SpendGateway ----------------------------
(***************************************************************************)
(* Paid requests through apps/supervisor/src/spend-gateway.ts, on the      *)
(* ledger of SpendLedger, with the host that opens and closes gateways     *)
(* (dispatch-control.ts, jobs.ts) and the provider behind them.            *)
(*                                                                         *)
(* One request handler is one process: it runs from one await to the next, *)
(* and every ledger call is a transaction of its own.  The provider is     *)
(* external: it may charge at any time after it was called, also when      *)
(* nobody waits for the answer any more.                                   *)
(*                                                                         *)
(* UnreliableStore = FALSE is the local SQLite ledger, whose calls either  *)
(* commit and return or throw and roll back.  TRUE is the hosted ledger,   *)
(* reached over a connection: a call may commit and still throw, or fail.  *)
(***************************************************************************)
EXTENDS SpendLedger

CONSTANTS Requests, UnreliableStore, NoAttempt, NoRequest, NoId, NoWork

VARIABLES attempt,     \* the dispatched attempt and the gateway it listens on
          request,     \* [Requests -> handler state]
          called,      \* operations the provider was called for
          cost,        \* [OpIds -> Nat] what the provider charged, 0 before
          candidates   \* attempts whose candidate was committed

gatewayVars == <<attempt, request, called, cost, candidates>>
paidVars    == <<budget, op, now, attempt, request, called, cost, candidates>>

\* An attempt has one gateway at a time: its first productive one, the one for a
\* repair, and the one for completion.
Stages       == {"first", "repair", "completion"}
PhaseOf(s)   == IF s = "completion" THEN "completion" ELSE "productive"
Attempt      == [x : Binding, stage : Stages]
Request      == [pc : {"boundary", "capacity", "reserve", "mark", "call", "wait", "release", "retain"},
                 x : Binding, stage : Stages, op : OpIds \cup {NoId}, ready : BOOLEAN]

ASSUME GatewayAssumption == /\ UnreliableStore \in BOOLEAN
                            /\ NoAttempt \notin Attempt
                            /\ NoRequest \notin Request
                            /\ NoId \notin OpIds
                            /\ NoWork \notin Works

Active(r)    == request[r] # NoRequest
At(r, pc)    == Active(r) /\ request[r].pc = pc
Goto(r, pc)  == request' = [request EXCEPT ![r].pc = pc]
Finish(r)    == request' = [request EXCEPT ![r] = NoRequest]
Used(x)      == Cardinality(OpsIn(x.work, "productive"))
Planned(x)   == budget[x.work].plan.slots["productive"]
OnGate(r)    == attempt # NoAttempt /\ request[r].x = attempt.x /\ request[r].stage = attempt.stage

\* productiveCheckpointAfter of the three gateways dispatch-control.ts makes.
Checkpoint(x, stage) == IF stage = "repair" THEN 2
                       ELSE IF Planned(x) = 2 THEN 1 ELSE Planned(x)
-----------------------------------------------------------------------------
(* The handler: SpendGateway.#handle *)

\* Slip: a productive gateway serves two requests at once.
ArriveConcurrently(r) ==
  /\ attempt # NoAttempt /\ ~Active(r)
  /\ request' = [request EXCEPT ![r] = [pc |-> "boundary", x |-> attempt.x, stage |-> attempt.stage,
                                        op |-> NoId, ready |-> FALSE]]
  /\ UNCHANGED <<ledgerVars, attempt, called, cost, candidates>>

\* A productive gateway denies a second request while one is handled.
Arrive(r) ==
  /\ attempt # NoAttempt /\ ~Active(r)
  /\ PhaseOf(attempt.stage) = "productive" => \A q \in Requests : Active(q) => ~OnGate(q)
  /\ request' = [request EXCEPT ![r] = [pc |-> "boundary", x |-> attempt.x, stage |-> attempt.stage,
                                        op |-> NoId, ready |-> FALSE]]
  /\ UNCHANGED <<ledgerVars, attempt, called, cost, candidates>>

\* The productive boundary: once its operations are used the process yields to the host.
\* #productiveClosed only repeats the count, which never falls.
Boundary(r) ==
  /\ At(r, "boundary")
  /\ IF /\ PhaseOf(request[r].stage) = "productive"
        /\ Used(request[r].x) >= Checkpoint(request[r].x, request[r].stage)
     THEN Finish(r) ELSE Goto(r, "capacity")
  /\ UNCHANGED <<ledgerVars, attempt, called, cost, candidates>>

LastSlot(r) == PhaseOf(request[r].stage) = "productive" /\ Used(request[r].x) = Planned(request[r].x) - 1

\* The last productive operation is admitted only if the implementation moved
\* (assertImplementationProgress, an await on the worktree).
Capacity(r) ==
  /\ At(r, "capacity")
  /\ \/ request' = [request EXCEPT ![r] = [@ EXCEPT !.pc = "reserve", !.ready = LastSlot(r)]]
     \/ LastSlot(r) /\ Finish(r)
  /\ UNCHANGED <<ledgerVars, attempt, called, cost, candidates>>

\* Identity may be unavailable and the ledger may refuse: nothing was reserved.
Denied(r) ==
  /\ At(r, "reserve") /\ Finish(r)
  /\ UNCHANGED <<ledgerVars, attempt, called, cost, candidates>>

\* The handler learns the operation id only from a call that returned.
ReserveCall(r) ==
  /\ At(r, "reserve")
  /\ \E o \in OpIds, p \in Plans :
       /\ Reserve(o, request[r].x, p.card, p.perOp, PhaseOf(request[r].stage))
       /\ \/ request' = [request EXCEPT ![r] = [@ EXCEPT !.pc = "mark", !.op = o]]
          \/ UnreliableStore /\ Finish(r)
  /\ UNCHANGED <<attempt, called, cost, candidates>>

\* Slip: the provider is called although markDispatched failed.
MarkOrCall(r) ==
  /\ At(r, "mark") /\ Goto(r, "call")
  /\ MarkDispatched(request[r].op) \/ UNCHANGED ledgerVars
  /\ UNCHANGED <<attempt, called, cost, candidates>>

MarkCall(r) ==
  /\ At(r, "mark")
  /\ \/ MarkDispatched(request[r].op) /\ Goto(r, "call")
     \/ UnreliableStore /\ MarkDispatched(request[r].op) /\ Goto(r, "release")
     \/ UNCHANGED ledgerVars /\ Goto(r, "release")
  /\ UNCHANGED <<attempt, called, cost, candidates>>

Call(r) ==
  /\ At(r, "call") /\ Goto(r, "wait")
  /\ called' = called \cup {request[r].op}
  /\ UNCHANGED <<ledgerVars, attempt, cost, candidates>>

\* A qualified answer carries the cost and the provider request id.
SettleCall(r) ==
  /\ At(r, "wait") /\ cost[request[r].op] > 0
  /\ \E p \in Receipts : Settle(request[r].op, cost[request[r].op], p)
  /\ \/ Finish(r)
     \/ UnreliableStore /\ Goto(r, "release")
  /\ UNCHANGED <<attempt, called, cost, candidates>>

\* Slip: an answer is judged, waiting for one is not bounded.
FailedAnswered(r) ==
  /\ At(r, "wait") /\ cost[request[r].op] > 0 /\ Goto(r, "release")
  /\ UNCHANGED <<ledgerVars, attempt, called, cost, candidates>>

\* Timeout, transport failure, unqualified answer, settlement refused.
Failed(r) ==
  /\ At(r, "wait") /\ Goto(r, "release")
  /\ UNCHANGED <<ledgerVars, attempt, called, cost, candidates>>

\* The catch block: release if the ledger proves the boundary was not crossed, ...
ReleaseCall(r) ==
  /\ At(r, "release")
  /\ \/ ReleaseUndispatched(request[r].op) /\ Finish(r)
     \/ UnreliableStore /\ ReleaseUndispatched(request[r].op) /\ Goto(r, "retain")
     \/ /\ op[request[r].op].state # "reserved" \/ UnreliableStore
        /\ UNCHANGED ledgerVars /\ Goto(r, "retain")
  /\ UNCHANGED <<attempt, called, cost, candidates>>

\* Slip: the exposure is not retained.
RetainNothing(r) ==
  /\ At(r, "retain") /\ Finish(r)
  /\ UNCHANGED <<ledgerVars, attempt, called, cost, candidates>>

\* ... and otherwise retain its exposure; a second failure is swallowed.
RetainCall(r) ==
  /\ At(r, "retain") /\ Finish(r)
  /\ \/ MarkUnknown(request[r].op)
     \/ (op[request[r].op].state \in Final \/ UnreliableStore) /\ UNCHANGED ledgerVars
  /\ UNCHANGED <<attempt, called, cost, candidates>>

Handle(r) == \/ Boundary(r) \/ Capacity(r) \/ Denied(r) \/ ReserveCall(r) \/ MarkCall(r) \/ Call(r)
             \/ SettleCall(r) \/ Failed(r) \/ ReleaseCall(r) \/ RetainCall(r)
-----------------------------------------------------------------------------
(* The provider, external: a charge is bounded by the priced limits. *)

ProviderCharges(o) ==
  /\ o \in called /\ cost[o] = 0
  /\ \E c \in 1..op[o].reserved : cost' = [cost EXCEPT ![o] = c]
  /\ UNCHANGED <<ledgerVars, attempt, request, called, candidates>>
-----------------------------------------------------------------------------
(* The host: FactoryDispatchControl.dispatch and its gateway binding, JobManager.#execute *)

Prepare(w, g, order, ceiling, deadline, plan) ==
  CreateBudget(w, g, order, ceiling, deadline, plan) /\ UNCHANGED gatewayVars

\* Authority is bound before the claim, so a dispatch that loses the claim binds too.
Dispatch(x) ==
  /\ BindAuthority(x)
  /\ \/ UNCHANGED attempt
     \/ attempt = NoAttempt /\ attempt' = [x |-> x, stage |-> "first"]
  /\ UNCHANGED <<request, called, cost, candidates>>

\* stop
Stop(x) == CancelBound(x) /\ UNCHANGED gatewayVars

\* The host's checks failed on the first response: one more productive gateway.
NextProductive ==
  /\ attempt # NoAttempt /\ attempt.stage = "first"
  /\ CompletionEligible(attempt.x)
  /\ Used(attempt.x) = 1 /\ Planned(attempt.x) = 2
  /\ attempt' = [attempt EXCEPT !.stage = "repair"]
  /\ UNCHANGED <<ledgerVars, request, called, cost, candidates>>

CompletionGate ==
  /\ attempt # NoAttempt /\ attempt.stage # "completion"
  /\ BeginCompletion(attempt.x)
  /\ attempt' = [attempt EXCEPT !.stage = "completion"]
  /\ UNCHANGED <<request, called, cost, candidates>>

\* assertCompleted, then commitCandidate.
CommitCandidate ==
  /\ attempt # NoAttempt /\ attempt.stage = "completion"
  /\ Completed(attempt.x)
  /\ candidates' = candidates \cup {attempt.x}
  /\ UNCHANGED <<ledgerVars, attempt, request, called, cost>>

\* The attempt ends, successfully or not: its gateway closes and its authority is fenced.
\* A handler whose client is gone runs on.
EndAttempt ==
  /\ attempt # NoAttempt /\ attempt' = NoAttempt
  /\ \/ FenceAuthority(attempt.x)
     \/ ~MatchesCurrent(budget[attempt.x.work], attempt.x) /\ UNCHANGED ledgerVars
  /\ UNCHANGED <<request, called, cost, candidates>>

\* The supervisor stops at any point and starts again; recovery runs before it listens.
Restart ==
  /\ attempt # NoAttempt \/ \E r \in Requests : Active(r)
  /\ attempt' = NoAttempt
  /\ request' = [r \in Requests |-> NoRequest]
  /\ \/ RecoverUnknown
     \/ (\A w \in Works : UnresolvedOf(w) = {}) /\ UNCHANGED ledgerVars
  /\ UNCHANGED <<called, cost, candidates>>
-----------------------------------------------------------------------------
PaidInit == /\ LedgerInit
            /\ attempt = NoAttempt
            /\ request = [r \in Requests |-> NoRequest]
            /\ called = {}
            /\ cost = [o \in OpIds |-> 0]
            /\ candidates = {}

PaidNext ==
  \/ \E r \in Requests : Arrive(r) \/ Handle(r)
  \/ \E o \in OpIds : ProviderCharges(o)
  \/ \E w \in Works, g \in Generations, r \in Orders, c \in Ceilings, p \in Plans :
        Prepare(w, g, r, c, 1, p)   \* one deadline: expiry acts only through Payable
  \/ \E x \in Binding : Dispatch(x) \/ Stop(x)
  \/ NextProductive \/ CompletionGate \/ CommitCandidate \/ EndAttempt \/ Restart
  \/ (\E w \in Works : budget[w] # NoBudget) /\ Tick /\ UNCHANGED gatewayVars

\* A handler runs on: every await in it is bounded by a timeout (the body of a
\* request has been read when it arrives here).
PaidSpec == PaidInit /\ [][PaidNext]_paidVars /\ \A r \in Requests : WF_paidVars(Handle(r))
-----------------------------------------------------------------------------
(* Properties. *)

\* Handlers and gateways keep their shape; a handler past its reservation names its
\* operation, which exists (reserve, markDispatched).
PaidTypeOK ==
  /\ attempt \in Attempt \cup {NoAttempt}
  /\ request \in [Requests -> Request \cup {NoRequest}]
  /\ called \subseteq OpIds /\ cost \in [OpIds -> Nat] /\ candidates \subseteq Binding
  /\ \A r \in Requests : Active(r) /\ request[r].pc \notin {"boundary", "capacity", "reserve"}
                           => request[r].op # NoId /\ Exists(request[r].op)

\* Whatever the provider was called for is still on the books: dispatched, unknown or
\* settled, never waiting or given back, and its whole charge is retained or paid
\* (releaseUndispatched in the catch block of the handler).
ChargesCovered ==
  \A o \in OpIds :
    /\ o \in called => Exists(o) /\ op[o].state \in {"dispatched", "unknown", "settled"}
    /\ cost[o] > 0 => cost[o] <= Exposure(op[o])

\* What the provider really charged a Work, over all its generations and attempts, stays
\* within the ceiling its first generation fixed.
SpentWithinCeiling ==
  \A w \in Works : budget[w] # NoBudget =>
    MapThenSumSet(LAMBDA o : cost[o], {o \in OpIds : Exists(o) /\ op[o].binding.work = w})
      <= budget[w].ceiling

\* A Work's last productive operation is reserved by a handler that saw progress when
\* that operation was the last one left: the count it looked at is not stale.
LastSlotSawProgress ==
  [][\A r \in Requests :
       At(r, "reserve") /\ At(r, "mark")'
         /\ PhaseOf(request[r].stage) = "productive"
         /\ Cardinality({o \in OpIds : op'[o] # NoOp /\ op'[o].binding.work = request[r].x.work
                                          /\ op'[o].phase = "productive"}) = Planned(request[r].x)
       => request[r].ready]_paidVars

\* A candidate is committed only by an attempt whose own productive and completion
\* operations are settled (assertCompletionEligible, assertCompleted).
CandidatePaid ==
  \A x \in candidates : \A ph \in Phases :
    \E o \in OpsIn(x.work, ph) : op[o].binding = x /\ op[o].state = "settled"

\* The books of the boundary: every call of the provider is on them, and a candidate is
\* there only when they show what it cost (spend-gateway.ts, jobs.ts).
PaidSound == PaidTypeOK /\ ChargesCovered /\ CandidatePaid

\* With a store that answers truthfully, no operation is left reserved or dispatched
\* without the handler that will settle, release or retain it: every other way out of a
\* handler, and a restart, records its outcome.
NoOrphan ==
  \A o \in OpIds : Exists(o) /\ op[o].state \in {"reserved", "dispatched"}
                     => \E r \in Requests : Active(r) /\ request[r].op = o

\* Every request is answered, whatever fails around it.
Answered == \A r \in Requests : Active(r) ~> ~Active(r)

\* The whole boundary, failures included, implements PaidWork.
Stage(o) == IF ~Exists(o) THEN "free"
            ELSE CASE op[o].state = "reserved" -> "held"
                   [] op[o].state \in {"dispatched", "unknown"} -> "live"
                   [] OTHER -> "closed"
Abstract == INSTANCE PaidWork WITH
  Amounts <- {p.perOp : p \in Plans},
  ceiling <- [w \in Works |-> IF budget[w] = NoBudget THEN 0 ELSE budget[w].ceiling],
  owner   <- [o \in OpIds |-> IF Exists(o) THEN op[o].binding.work ELSE NoWork],
  stage   <- [o \in OpIds |-> Stage(o)],
  hold    <- [o \in OpIds |-> IF Exists(o) THEN Exposure(op[o]) ELSE 0],
  paid    <- cost
ImplementsPaidWork == Abstract!Spec
=============================================================================
