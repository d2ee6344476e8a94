---------------------------- MODULE SpendLedger ----------------------------
(***************************************************************************)
(* The Work spend ledger: packages/storage/src/spend.ts and the policy it  *)
(* shares with the hosted ledger, packages/storage/src/spend-policy.ts.    *)
(*                                                                         *)
(* A Work has one budget row: an immutable ceiling and plan, the current   *)
(* generation with its order and deadline, the one writer that may spend,  *)
(* and the phase.  A paid operation is a row that is reserved before the   *)
(* provider is called and settled, released or retained as unknown after.  *)
(* Every method is one BEGIN IMMEDIATE transaction, hence one action; a    *)
(* method that throws rolls back, hence a guard.                           *)
(*                                                                         *)
(* Abstractions: (requestId, workOrderId) is one Order; (dispatchIdentity, *)
(* factoryVersion, runId) is one Writer; (model, pricingRevision) is one   *)
(* Card; instants are small naturals and `now' is the host's clock.        *)
(*                                                                         *)
(* A definition commented "Slip:" is a plausible mistake in the one it     *)
(* precedes.  No specification uses it: a run with the slip in place shows *)
(* that the property it is meant for can fail.                             *)
(***************************************************************************)
EXTENDS Integers, FiniteSets, FiniteSetsExt

CONSTANTS Works,          \* Work ids
          OpIds,          \* operation ids the callers may use
          Orders,         \* (requestId, workOrderId) pairs
          Writers,        \* (dispatchIdentity, factoryVersion, runId) triples
          Cards,          \* (model, pricingRevision) pairs
          Receipts,       \* provider request ids
          Plans,          \* V2 spend plans a caller may submit
          Ceilings,       \* ceilings a caller may submit
          MaxGeneration,  \* bound on work_generation
          MaxTime,        \* bound on the clock
          NoBudget, NoOp, NoWriter, NoReceipt, NoCard

VARIABLES budget,  \* [Works -> BudgetRow or NoBudget]
          op,      \* [OpIds -> OperationRow or NoOp]
          now      \* the clock every deadline is compared with

ledgerVars == <<budget, op, now>>

Phases      == {"productive", "completion"}
Unresolved  == {"reserved", "dispatched", "unknown"}
Final       == {"settled", "released"}
Generations == 1..MaxGeneration
Deadlines   == 1..(MaxTime + 1)

PlanType == [version: {"V1", "V2"}, card: Cards \cup {NoCard}, validUntil: Nat,
             perOp: Nat, slots: [Phases -> Nat], maxPaid: Nat, completionReserve: Nat]

Binding == [work: Works, generation: Generations, order: Orders, writer: Writers]

Budget == [generation: Generations, order: Orders, ceiling: Ceilings, deadline: Nat,
           plan: PlanType, cancelled: BOOLEAN, writer: Writers \cup {NoWriter},
           authority: {"prepared", "active", "fenced"}, phase: Phases]

Operation == [binding: Binding, card: Cards, reserved: Nat, phase: Phases,
              actual: Nat, receipt: Receipts \cup {NoReceipt}, state: Unresolved \cup Final]

\* A budget created without a plan: the historical V1 row, its plan columns 0 or NULL.
V1Plan == [version |-> "V1", card |-> NoCard, validUntil |-> 0, perOp |-> 0,
           slots |-> [p \in Phases |-> 0], maxPaid |-> 0, completionReserve |-> 0]

ASSUME LedgerAssumption ==
  /\ Plans \subseteq {p \in PlanType : p.version = "V2" /\ p.card \in Cards}   \* validateBudget
  /\ Ceilings \subseteq Nat \ {0}
  /\ MaxGeneration \in Nat
  /\ MaxTime \in Nat
  /\ IsFiniteSet(OpIds)
  /\ NoBudget \notin Budget
  /\ NoOp \notin Operation
  /\ NoWriter \notin Writers
  /\ NoReceipt \notin Receipts
  /\ NoCard \notin Cards
-----------------------------------------------------------------------------
(* Reading the rows. *)

Exists(o)         == op[o] # NoOp
\* Slip: a new generation starts with no operations of its own.
OpsOfGeneration(w) == {o \in OpIds : /\ Exists(o) /\ op[o].binding.work = w
                                     /\ op[o].binding.generation = budget[w].generation}
OpsOf(w)          == {o \in OpIds : Exists(o) /\ op[o].binding.work = w}
OpsIn(w, ph)      == {o \in OpsOf(w) : op[o].phase = ph}
\* Slip: an unknown outcome no longer counts as unresolved.
PendingOf(w)      == {o \in OpsOf(w) : op[o].state \in {"reserved", "dispatched"}}
UnresolvedOf(w)   == {o \in OpsOf(w) : op[o].state \in Unresolved}

\* What an operation may still cost: nothing once released, the authoritative
\* cost once settled, and the whole reservation in every other state.
Exposure(row) == CASE row.state = "released" -> 0
                   [] row.state = "settled"  -> row.actual
                   [] OTHER                  -> row.reserved

TotalExposure(S) == MapThenSumSet(LAMBDA o : Exposure(op[o]), S)

PhaseCap(b, ph) == IF ph = "productive" THEN b.ceiling - b.plan.completionReserve
                                        ELSE b.plan.completionReserve

\* V2, not cancelled, deadline and pinned price both in the future.
Payable(b) == /\ b # NoBudget
              /\ b.plan.version = "V2"
              /\ ~b.cancelled
              /\ b.deadline > now
              /\ b.plan.validUntil > now

SameGeneration(b, x) == b.generation = x.generation /\ b.order = x.order

\* assertSpendBinding: x holds the paid authority of budget b in phase ph.
HoldsAuthority(b, x, ph) == /\ Payable(b)
                            /\ SameGeneration(b, x)
                            /\ b.authority = "active"
                            /\ b.writer = x.writer
                            /\ b.phase = ph

\* matchesCurrent: an unbound budget matches every writer of its generation.
MatchesCurrent(b, x) == /\ b # NoBudget
                        /\ SameGeneration(b, x)
                        /\ b.writer \in {NoWriter, x.writer}

ValidPlan(p, ceiling) ==
  p.version = "V2" =>
    /\ p.validUntil > now
    /\ p.perOp > 0 /\ p.completionReserve > 0
    /\ \A ph \in Phases : p.slots[ph] > 0
    /\ p.maxPaid = p.slots["productive"] + p.slots["completion"]
    /\ p.slots["completion"] * p.perOp <= p.completionReserve
    /\ p.slots["productive"] * p.perOp <= ceiling - p.completionReserve

\* Slips: nothing productive need be settled; a retained operation does not hold the phase.
EligibleUnpaid(x) ==
  /\ HoldsAuthority(budget[x.work], x, "productive")
  /\ UnresolvedOf(x.work) = {}
EligibleEarly(x) ==
  /\ HoldsAuthority(budget[x.work], x, "productive")
  /\ \E o \in OpsIn(x.work, "productive") : op[o].binding = x /\ op[o].state = "settled"

CompletionEligible(x) ==
  /\ HoldsAuthority(budget[x.work], x, "productive")
  /\ \E o \in OpsIn(x.work, "productive") : op[o].binding = x /\ op[o].state = "settled"
  /\ UnresolvedOf(x.work) = {}
  /\ OpsIn(x.work, "completion") = {}

\* assertCompleted: what the host asks before it takes custody of a candidate.
Completed(x) ==
  /\ HoldsAuthority(budget[x.work], x, "completion")
  /\ \E o \in OpsIn(x.work, "completion") : op[o].binding = x /\ op[o].state = "settled"
  /\ UnresolvedOf(x.work) = {}
-----------------------------------------------------------------------------
(* Budget and authority. *)

NewBudget(w, g, order, ceiling, deadline, plan) ==
  /\ budget[w] = NoBudget
  /\ budget' = [budget EXCEPT ![w] =
       [generation |-> g, order |-> order, ceiling |-> ceiling, deadline |-> deadline,
        plan |-> plan, cancelled |-> FALSE, writer |-> NoWriter,
        authority |-> "prepared", phase |-> "productive"]]

\* Slip: the new generation clears the writer and keeps the authority.
NextGenerationKeepsAuthority(w, g, order, ceiling, deadline, plan) ==
  /\ budget[w] # NoBudget
  /\ budget[w].ceiling = ceiling /\ budget[w].plan = plan /\ ~budget[w].cancelled
  /\ g > budget[w].generation
  /\ UnresolvedOf(w) = {}
  /\ budget' = [budget EXCEPT ![w] =
       [@ EXCEPT !.generation = g, !.order = order, !.deadline = deadline, !.writer = NoWriter]]

\* Ceiling and plan never change; a replay of the same generation writes nothing.
NextGeneration(w, g, order, ceiling, deadline, plan) ==
  /\ budget[w] # NoBudget
  /\ budget[w].ceiling = ceiling /\ budget[w].plan = plan /\ ~budget[w].cancelled
  /\ g > budget[w].generation
  /\ UnresolvedOf(w) = {}
  /\ budget' = [budget EXCEPT ![w] =
       [@ EXCEPT !.generation = g, !.order = order, !.deadline = deadline,
                 !.authority = "prepared", !.writer = NoWriter, !.phase = "productive"]]

CreateBudget(w, g, order, ceiling, deadline, plan) ==
  /\ deadline > now
  /\ ValidPlan(plan, ceiling)
  /\ \/ NewBudget(w, g, order, ceiling, deadline, plan)
     \/ NextGeneration(w, g, order, ceiling, deadline, plan)
  /\ UNCHANGED <<op, now>>

\* Slip: a fence is not looked at.
BindAuthorityFenced(x) ==
  /\ Payable(budget[x.work]) /\ MatchesCurrent(budget[x.work], x)
  /\ budget' = [budget EXCEPT ![x.work] =
       [@ EXCEPT !.writer = x.writer, !.authority = "active"]]
  /\ UNCHANGED <<op, now>>

BindAuthority(x) ==
  LET b == budget[x.work] IN
  /\ Payable(b)
  /\ SameGeneration(b, x)
  /\ b.authority # "fenced"
  /\ b.writer \in {NoWriter, x.writer}
  /\ budget' = [budget EXCEPT ![x.work] =
       [@ EXCEPT !.writer = x.writer, !.authority = "active"]]
  /\ UNCHANGED <<op, now>>

BeginCompletion(x) ==
  /\ CompletionEligible(x)
  /\ budget' = [budget EXCEPT ![x.work].phase = "completion"]
  /\ UNCHANGED <<op, now>>

FenceAuthority(x) ==
  /\ MatchesCurrent(budget[x.work], x)
  /\ budget' = [budget EXCEPT ![x.work].authority = "fenced"]
  /\ UNCHANGED <<op, now>>

Cancel(w) ==
  /\ budget[w] # NoBudget
  /\ budget' = [budget EXCEPT ![w] =
       [@ EXCEPT !.cancelled = TRUE, !.authority = "fenced"]]
  /\ UNCHANGED <<op, now>>

CancelBound(x) ==
  /\ MatchesCurrent(budget[x.work], x)
  /\ Cancel(x.work)
-----------------------------------------------------------------------------
(* Paid operations. *)

\* Slip: slots and ceilings are counted, an unresolved operation is not.
AdmissibleConcurrent(b, x, card, amount, ph) ==
  /\ card = b.plan.card /\ amount = b.plan.perOp
  /\ Cardinality(OpsIn(x.work, ph)) < b.plan.slots[ph]
  /\ amount <= PhaseCap(b, ph) - TotalExposure(OpsIn(x.work, ph))

\* assertReservation
Admissible(b, x, card, amount, ph) ==
  /\ card = b.plan.card /\ amount = b.plan.perOp
  /\ UnresolvedOf(x.work) = {}
  /\ Cardinality(OpsOf(x.work)) < b.plan.maxPaid
  /\ Cardinality(OpsIn(x.work, ph)) < b.plan.slots[ph]
  /\ amount <= b.ceiling - TotalExposure(OpsOf(x.work))
  /\ amount <= PhaseCap(b, ph) - TotalExposure(OpsIn(x.work, ph))

Reserve(o, x, card, amount, ph) ==
  /\ ~Exists(o)
  /\ HoldsAuthority(budget[x.work], x, ph)
  /\ Admissible(budget[x.work], x, card, amount, ph)
  /\ op' = [op EXCEPT ![o] = [binding |-> x, card |-> card, reserved |-> amount,
                              phase |-> ph, actual |-> 0, receipt |-> NoReceipt,
                              state |-> "reserved"]]
  /\ UNCHANGED <<budget, now>>

\* The durable step before the provider is called; admission is checked again.
MarkDispatched(o) ==
  /\ Exists(o) /\ op[o].state = "reserved"
  /\ LET b == budget[op[o].binding.work] IN
       /\ HoldsAuthority(b, op[o].binding, op[o].phase)
       /\ b.plan.card = op[o].card /\ b.plan.perOp = op[o].reserved
  /\ UnresolvedOf(op[o].binding.work) \subseteq {o}
  /\ op' = [op EXCEPT ![o].state = "dispatched"]
  /\ UNCHANGED <<budget, now>>

\* Slip: the cost is not compared with the reservation.
SettleAnyCost(o, actual, receipt) ==
  /\ Exists(o) /\ op[o].state \in {"dispatched", "unknown"}
  /\ op' = [op EXCEPT ![o] =
       [@ EXCEPT !.actual = actual, !.receipt = receipt, !.state = "settled"]]
  /\ UNCHANGED <<budget, now>>

\* Accounting only: a cancelled, fenced or expired Work still settles.  The
\* provider request id is unique over all operations (work_spend_provider_request_idx).
Settle(o, actual, receipt) ==
  /\ Exists(o) /\ op[o].state \in {"dispatched", "unknown"}
  /\ actual <= op[o].reserved
  /\ \A other \in OpIds : Exists(other) => op[other].receipt # receipt
  /\ op' = [op EXCEPT ![o] =
       [@ EXCEPT !.actual = actual, !.receipt = receipt, !.state = "settled"]]
  /\ UNCHANGED <<budget, now>>

\* Slip: a dispatched operation is released too.
ReleaseUnresolved(o) ==
  /\ Exists(o) /\ op[o].state \in Unresolved
  /\ op' = [op EXCEPT ![o].state = "released"]
  /\ UNCHANGED <<budget, now>>

ReleaseUndispatched(o) ==
  /\ Exists(o) /\ op[o].state = "reserved"
  /\ op' = [op EXCEPT ![o].state = "released"]
  /\ UNCHANGED <<budget, now>>

MarkUnknown(o) ==
  /\ Exists(o) /\ op[o].state \notin Final
  /\ budget' = [budget EXCEPT ![op[o].binding.work].authority = "fenced"]
  /\ op' = [op EXCEPT ![o].state = "unknown"]
  /\ UNCHANGED now

\* Run when a supervisor starts: every unresolved row of every Work.
RecoverUnknown ==
  LET hit == {w \in Works : UnresolvedOf(w) # {}} IN
  /\ hit # {}
  /\ budget' = [w \in Works |-> IF w \in hit THEN [budget[w] EXCEPT !.authority = "fenced"]
                                             ELSE budget[w]]
  /\ op' = [o \in OpIds |-> IF Exists(o) /\ op[o].state \in Unresolved
                            THEN [op[o] EXCEPT !.state = "unknown"] ELSE op[o]]
  /\ UNCHANGED now
-----------------------------------------------------------------------------
LedgerInit == /\ budget = [w \in Works |-> NoBudget]
              /\ op = [o \in OpIds |-> NoOp]
              /\ now = 0

Tick == now < MaxTime /\ now' = now + 1 /\ UNCHANGED <<budget, op>>

\* Any caller may present any binding, current or stale.
LedgerNext ==
  \/ \E w \in Works, g \in Generations, r \in Orders, c \in Ceilings, d \in Deadlines,
        p \in Plans \cup {V1Plan} : CreateBudget(w, g, r, c, d, p)
  \/ \E x \in Binding : BindAuthority(x)
  \/ \E x \in Binding : BeginCompletion(x)
  \/ \E x \in Binding : FenceAuthority(x)
  \/ \E x \in Binding : CancelBound(x)
  \/ \E w \in Works : Cancel(w)
  \/ \E o \in OpIds, x \in Binding, c \in Cards, ph \in Phases :
        \E amount \in {p.perOp : p \in Plans} : Reserve(o, x, c, amount, ph)
  \/ \E o \in OpIds : MarkDispatched(o)
  \/ \E o \in OpIds, r \in Receipts : Exists(o) /\ \E a \in 0..(op[o].reserved + 1) : Settle(o, a, r)
  \/ \E o \in OpIds : ReleaseUndispatched(o)
  \/ \E o \in OpIds : MarkUnknown(o)
  \/ RecoverUnknown
  \/ Tick

LedgerSpec == LedgerInit /\ [][LedgerNext]_ledgerVars
-----------------------------------------------------------------------------
(* Properties. *)

\* Every row keeps its shape, every operation belongs to a budget (a foreign key of the
\* table), and an active budget names its writer: bindAuthority is the only method that
\* activates, and a new generation clears both columns.
LedgerTypeOK ==
  /\ budget \in [Works -> Budget \cup {NoBudget}]
  /\ op \in [OpIds -> Operation \cup {NoOp}]
  /\ now \in Nat
  /\ \A o \in OpIds : Exists(o) => budget[op[o].binding.work] # NoBudget
  /\ \A w \in Works : budget[w] # NoBudget /\ budget[w].authority = "active"
                        => budget[w].writer # NoWriter

\* A Work never has two operations that could still be charged, whichever generations,
\* writers and phases asked for them (assertReservation, markDispatched).
OneUnresolved ==
  \A w \in Works : \A o1, o2 \in UnresolvedOf(w) : o1 = o2

\* An operation that could still be charged belongs to the generation, writer and phase
\* its Work is in: none is left behind by a new generation, a rebind or beginCompletion.
UnresolvedIsCurrent ==
  \A w \in Works : \A o \in UnresolvedOf(w) :
    /\ budget[w] # NoBudget
    /\ SameGeneration(budget[w], op[o].binding)
    /\ budget[w].writer = op[o].binding.writer
    /\ budget[w].phase = op[o].phase

\* While an operation is unknown its Work is fenced, so that no writer can pay again
\* before the operation is settled (markUnknown, recoverUnknown, bindAuthority).
UnknownFenced ==
  \A w \in Works : \A o \in OpsOf(w) :
    op[o].state = "unknown" => budget[w] # NoBudget /\ budget[w].authority = "fenced"

\* Settled cost plus everything retained stays within the Work's ceiling, and productive
\* operations never reach into the reserve protected for completion (assertReservation,
\* settle), over all generations and attempts.
CeilingHeld ==
  \A w \in Works : budget[w] # NoBudget =>
    /\ TotalExposure(OpsOf(w)) <= budget[w].ceiling
    /\ \A ph \in Phases : TotalExposure(OpsIn(w, ph)) <= PhaseCap(budget[w], ph)

\* A Work pays for completion in one attempt only, and that attempt has a settled
\* productive operation (assertCompletionOperations).
CompletionOrder ==
  \A w \in Works : \A o \in OpsIn(w, "completion") :
    /\ \A other \in OpsIn(w, "completion") : op[other].binding = op[o].binding
    /\ \E p \in OpsIn(w, "productive") :
          op[p].binding = op[o].binding /\ op[p].state = "settled"

\* A Work's history only moves forward: ceiling and plan are immutable, cancellation is
\* for ever, a generation never returns, and within one generation the writer is bound
\* once and a fence is never lifted (createBudget, bindAuthority).
AuthorityOneWay ==
  [][\A w \in Works : budget[w] # NoBudget =>
       LET b == budget[w]  c == budget'[w] IN
       /\ c # NoBudget /\ c.ceiling = b.ceiling /\ c.plan = b.plan
       /\ b.cancelled => c.cancelled /\ c.generation = b.generation
       /\ c.generation >= b.generation
       /\ c.generation = b.generation =>
            /\ b.authority = "fenced" => c.authority = "fenced"
            /\ b.writer # NoWriter => c.writer = b.writer
            /\ c.order = b.order /\ c.deadline = b.deadline
            /\ b.phase = "completion" => c.phase = "completion"]_ledgerVars

\* An operation row is never deleted or reopened, its slot is never given back, and its
\* exposure shrinks only on proof: a release before dispatch, or a settlement with a
\* provider receipt (settle, releaseUndispatched, markUnknown, recoverUnknown).
ExposureRetained ==
  [][\A o \in OpIds : Exists(o) =>
       /\ op'[o] # NoOp /\ op'[o].binding = op[o].binding /\ op'[o].phase = op[o].phase
       /\ op[o].state \in Final => op'[o] = op[o]
       /\ op'[o].state = "reserved" => op[o].state = "reserved"
       /\ Exposure(op'[o]) < Exposure(op[o]) =>
            \/ op[o].state = "reserved" /\ op'[o].state = "released"
            \/ op'[o].state = "settled" /\ op'[o].receipt # NoReceipt]_ledgerVars
=============================================================================
