------------------------- MODULE SpendLedgerProofs -------------------------
(***************************************************************************)
(* Proofs about the spend ledger, for every set of Works, operations,      *)
(* writers and plans and every bound.                                      *)
(***************************************************************************)
EXTENDS SpendLedger, FiniteSetTheorems, TLAPS

\* A row that exists is an Operation, and its Work is one of Works.
LEMMA RowTyped ==
  ASSUME LedgerTypeOK, NEW o \in OpIds, Exists(o)
  PROVE  /\ op[o] \in Operation
         /\ op[o].binding \in Binding
         /\ op[o].binding.work \in Works
         /\ budget[op[o].binding.work] \in Budget
BY DEF LedgerTypeOK, Exists, Operation, Binding

LEMMA V1PlanTyped == V1Plan \in PlanType
BY DEF V1Plan, PlanType, Phases

\* Writing one well-formed budget row keeps the types.
LEMMA BudgetRowWritten ==
  ASSUME LedgerTypeOK, NEW w \in Works, NEW row \in Budget,
         row.authority = "active" => row.writer # NoWriter,
         budget' = [budget EXCEPT ![w] = row], UNCHANGED <<op, now>>
  PROVE  LedgerTypeOK'
<1>1. \A v \in Works : budget'[v] = IF v = w THEN row ELSE budget[v]
  BY DEF LedgerTypeOK
<1>2. budget' \in [Works -> Budget \cup {NoBudget}]
  BY DEF LedgerTypeOK
<1>3. row # NoBudget
  BY LedgerAssumption
<1>4. \A o \in OpIds : Exists(o) => op[o].binding.work \in Works
  BY RowTyped
<1> QED BY <1>1, <1>2, <1>3, <1>4 DEF LedgerTypeOK, Exists

\* createBudget writes a well-formed row.
LEMMA CreateBudgetTyped ==
  ASSUME LedgerTypeOK,
         NEW w \in Works, NEW g \in Generations, NEW r \in Orders, NEW c \in Ceilings,
         NEW d \in Deadlines, NEW p \in Plans \cup {V1Plan}, CreateBudget(w, g, r, c, d, p)
  PROVE  LedgerTypeOK'
<1>1. d \in Nat /\ p \in PlanType
  BY LedgerAssumption, V1PlanTyped DEF Deadlines
<1>2. CASE NewBudget(w, g, r, c, d, p)
  <2> DEFINE row == [generation |-> g, order |-> r, ceiling |-> c, deadline |-> d,
                     plan |-> p, cancelled |-> FALSE, writer |-> NoWriter,
                     authority |-> "prepared", phase |-> "productive"]
  <2>1. row \in Budget BY <1>1 DEF Budget, Phases
  <2>2. budget' = [budget EXCEPT ![w] = row] BY <1>2 DEF NewBudget
  <2>3. row.authority # "active" OBVIOUS
  <2> HIDE DEF row
  <2> QED BY <2>1, <2>2, <2>3, BudgetRowWritten DEF CreateBudget
<1>3. CASE NextGeneration(w, g, r, c, d, p)
  <2> DEFINE row == [budget[w] EXCEPT !.generation = g, !.order = r, !.deadline = d,
                     !.authority = "prepared", !.writer = NoWriter, !.phase = "productive"]
  <2>0. budget[w] \in Budget BY <1>3 DEF NextGeneration, LedgerTypeOK
  <2>1. row \in Budget BY <1>1, <2>0 DEF Budget, Phases
  <2>2. budget' = [budget EXCEPT ![w] = row] BY <1>3 DEF NextGeneration
  <2>3. row.authority # "active" BY <2>0 DEF Budget
  <2> HIDE DEF row
  <2> QED BY <2>1, <2>2, <2>3, BudgetRowWritten DEF CreateBudget
<1> QED BY <1>2, <1>3 DEF CreateBudget

LEMMA CancelTyped ==
  ASSUME LedgerTypeOK, NEW w \in Works, Cancel(w)
  PROVE  LedgerTypeOK'
<1> DEFINE row == [budget[w] EXCEPT !.cancelled = TRUE, !.authority = "fenced"]
<1>0. budget[w] \in Budget BY DEF Cancel, LedgerTypeOK
<1>1. row \in Budget /\ row.authority # "active" BY <1>0 DEF Budget
<1>2. budget' = [budget EXCEPT ![w] = row] /\ UNCHANGED <<op, now>> BY DEF Cancel
<1> HIDE DEF row
<1> QED BY <1>1, <1>2, BudgetRowWritten

\* bindAuthority, beginCompletion, fenceAuthority and cancelBound only touch columns of
\* one row.
LEMMA AuthorityTyped ==
  ASSUME LedgerTypeOK, NEW x \in Binding,
         BindAuthority(x) \/ BeginCompletion(x) \/ FenceAuthority(x) \/ CancelBound(x)
  PROVE  LedgerTypeOK'
<1>0. x.work \in Works /\ x.writer \in Writers BY DEF Binding
<1>1. budget[x.work] \in Budget
  BY <1>0 DEF BindAuthority, BeginCompletion, CompletionEligible, HoldsAuthority, Payable,
              FenceAuthority, MatchesCurrent, CancelBound, LedgerTypeOK
<1>2. CASE BindAuthority(x)
  <2> DEFINE row == [budget[x.work] EXCEPT !.writer = x.writer, !.authority = "active"]
  <2>1. row \in Budget BY <1>0, <1>1 DEF Budget
  <2>2. row.writer # NoWriter BY <1>0, <1>1, LedgerAssumption DEF Budget
  <2>3. budget' = [budget EXCEPT ![x.work] = row] /\ UNCHANGED <<op, now>>
    BY <1>2 DEF BindAuthority
  <2> HIDE DEF row
  <2> QED BY <1>0, <2>1, <2>2, <2>3, BudgetRowWritten
<1>3. CASE BeginCompletion(x)
  <2> DEFINE row == [budget[x.work] EXCEPT !.phase = "completion"]
  <2>1. row \in Budget BY <1>1 DEF Budget, Phases
  <2>2. row.authority = "active" => row.writer # NoWriter
    BY <1>0, <1>1, LedgerAssumption DEF Budget, LedgerTypeOK
  <2>3. budget' = [budget EXCEPT ![x.work] = row] /\ UNCHANGED <<op, now>>
    BY <1>3 DEF BeginCompletion
  <2> HIDE DEF row
  <2> QED BY <1>0, <2>1, <2>2, <2>3, BudgetRowWritten
<1>4. CASE FenceAuthority(x)
  <2> DEFINE row == [budget[x.work] EXCEPT !.authority = "fenced"]
  <2>1. row \in Budget /\ row.authority # "active" BY <1>1 DEF Budget
  <2>2. budget' = [budget EXCEPT ![x.work] = row] /\ UNCHANGED <<op, now>>
    BY <1>4 DEF FenceAuthority
  <2> HIDE DEF row
  <2> QED BY <1>0, <2>1, <2>2, BudgetRowWritten
<1>5. CASE CancelBound(x)
  BY <1>0, <1>5, CancelTyped DEF CancelBound
<1> QED BY <1>2, <1>3, <1>4, <1>5

LEMMA ReserveTyped ==
  ASSUME LedgerTypeOK, NEW o \in OpIds, NEW x \in Binding, NEW c \in Cards, NEW ph \in Phases,
         NEW amount \in {p.perOp : p \in Plans}, Reserve(o, x, c, amount, ph)
  PROVE  LedgerTypeOK'
<1>1. amount \in Nat BY LedgerAssumption DEF PlanType
<1>2. x.work \in Works BY DEF Binding
<1>3. budget[x.work] # NoBudget BY DEF Reserve, HoldsAuthority, Payable
<1> QED BY <1>1, <1>2, <1>3, LedgerAssumption
        DEF Reserve, LedgerTypeOK, Exists, Operation, Unresolved

\* The state of a row moves; its binding does not.
LEMMA OperationTyped ==
  ASSUME LedgerTypeOK, NEW o \in OpIds,
         \/ MarkDispatched(o) \/ ReleaseUndispatched(o) \/ MarkUnknown(o)
         \/ \E r \in Receipts : \E a \in 0..(op[o].reserved + 1) : Settle(o, a, r)
  PROVE  LedgerTypeOK'
<1>0. Exists(o) BY DEF MarkDispatched, ReleaseUndispatched, MarkUnknown, Settle
<1>1. op[o] \in Operation /\ op[o].binding.work \in Works /\ budget[op[o].binding.work] \in Budget
  BY <1>0, RowTyped
<1>2. CASE MarkDispatched(o)
  BY <1>1, <1>2, LedgerAssumption DEF MarkDispatched, LedgerTypeOK, Exists, Operation, Unresolved
<1>3. CASE ReleaseUndispatched(o)
  BY <1>1, <1>3, LedgerAssumption DEF ReleaseUndispatched, LedgerTypeOK, Exists, Operation, Final
<1>4. CASE MarkUnknown(o)
  <2> DEFINE w   == op[o].binding.work
             b   == [budget[w] EXCEPT !.authority = "fenced"]
             row == [op[o] EXCEPT !.state = "unknown"]
  <2>1. b \in Budget BY <1>1 DEF Budget
  <2>2. b.writer = budget[w].writer /\ b.authority # "active" BY <1>1 DEF Budget
  <2>3. row \in Operation /\ row.binding = op[o].binding BY <1>1 DEF Operation, Unresolved
  <2>4. budget' = [budget EXCEPT ![w] = b] /\ op' = [op EXCEPT ![o] = row] /\ now' = now
    BY <1>4 DEF MarkUnknown
  <2> HIDE DEF b, row
  <2> QED BY <1>1, <2>1, <2>2, <2>3, <2>4, LedgerAssumption DEF LedgerTypeOK, Exists
<1>5. ASSUME NEW r \in Receipts, NEW a \in 0..(op[o].reserved + 1), Settle(o, a, r)
      PROVE  LedgerTypeOK'
  <2>1. a \in Nat BY <1>1 DEF Operation
  <2> QED BY <1>1, <1>5, <2>1, LedgerAssumption DEF Settle, LedgerTypeOK, Exists, Operation, Final
<1> QED BY <1>2, <1>3, <1>4, <1>5

LEMMA RecoverTyped ==
  ASSUME LedgerTypeOK, RecoverUnknown
  PROVE  LedgerTypeOK'
<1>1. ASSUME NEW o \in OpIds, Exists(o)
      PROVE  op[o] \in Operation /\ op[o].binding.work \in Works /\ budget[op[o].binding.work] \in Budget
  BY <1>1, RowTyped
<1>2. ASSUME NEW w \in Works, UnresolvedOf(w) # {}
      PROVE  budget[w] \in Budget
  BY <1>1, <1>2 DEF UnresolvedOf, OpsOf
<1>3. budget' \in [Works -> Budget \cup {NoBudget}]
  BY <1>2 DEF RecoverUnknown, LedgerTypeOK, Budget
<1>4. op' \in [OpIds -> Operation \cup {NoOp}]
  BY <1>1 DEF RecoverUnknown, LedgerTypeOK, Operation, Unresolved, Exists
<1>5. \A o \in OpIds : Exists(o)' => Exists(o) /\ op'[o].binding = op[o].binding
  BY <1>1 DEF RecoverUnknown, Exists, Operation
<1>6. \A w \in Works : budget[w] # NoBudget => budget'[w] # NoBudget
  BY <1>2, LedgerAssumption DEF RecoverUnknown, Budget
<1>7. \A w \in Works : budget'[w] # NoBudget /\ budget'[w].authority = "active"
                         => budget'[w].writer # NoWriter
  BY <1>2 DEF RecoverUnknown, LedgerTypeOK, Budget
<1>8. \A o \in OpIds : Exists(o)' => budget'[op'[o].binding.work] # NoBudget
  BY <1>1, <1>5, <1>6 DEF LedgerTypeOK
<1> QED BY <1>3, <1>4, <1>7, <1>8 DEF RecoverUnknown, LedgerTypeOK

\* Every step of the ledger keeps the shape of its rows.
LEMMA LedgerStepTyped ==
  ASSUME LedgerTypeOK, [LedgerNext]_ledgerVars
  PROVE  LedgerTypeOK'
<1>1. CASE UNCHANGED ledgerVars
  BY <1>1 DEF ledgerVars, LedgerTypeOK, Exists
<1>2. CASE Tick
  BY <1>2, LedgerAssumption DEF Tick, LedgerTypeOK, Exists
<1>3. CASE LedgerNext
  BY <1>2, <1>3, CreateBudgetTyped, AuthorityTyped, CancelTyped, ReserveTyped, OperationTyped, RecoverTyped
  DEF LedgerNext
<1> QED BY <1>1, <1>3

\* The rows of the ledger keep their shape for ever.
THEOREM LedgerTyping == LedgerSpec => []LedgerTypeOK
<1>1. LedgerInit => LedgerTypeOK
  BY LedgerAssumption DEF LedgerInit, LedgerTypeOK, Exists
<1>2. LedgerTypeOK /\ [LedgerNext]_ledgerVars => LedgerTypeOK'
  BY LedgerStepTyped
<1> QED BY <1>1, <1>2, PTL DEF LedgerSpec
-----------------------------------------------------------------------------
(* One operation may be charged at a time, under the current authority. *)

Chargeable == OneUnresolved /\ UnresolvedIsCurrent /\ UnknownFenced

\* What Chargeable asks of a row when the Work's operations stay as they are.
Keeps(b, c) == /\ c.generation = b.generation /\ c.order = b.order
               /\ c.writer = b.writer /\ c.phase = b.phase
               /\ b.authority = "fenced" => c.authority = "fenced"

LEMMA BudgetRowChargeable ==
  ASSUME LedgerTypeOK, Chargeable, NEW w \in Works, NEW row \in Budget,
         budget' = [budget EXCEPT ![w] = row], UNCHANGED op,
         UnresolvedOf(w) # {} => Keeps(budget[w], row)
  PROVE  Chargeable'
<1>1. budget'[w] = row /\ row # NoBudget /\ \A v \in Works : v # w => budget'[v] = budget[v]
  BY LedgerAssumption DEF LedgerTypeOK
<1>2. \A v \in Works : UnresolvedOf(v)' = UnresolvedOf(v) /\ OpsOf(v)' = OpsOf(v)
  BY DEF UnresolvedOf, OpsOf, Exists
<1>3. OneUnresolved' BY <1>2 DEF Chargeable, OneUnresolved
<1>4. UnresolvedIsCurrent'
  <2> SUFFICES ASSUME NEW v \in Works, NEW o \in UnresolvedOf(v)
               PROVE  /\ budget'[v] # NoBudget /\ SameGeneration(budget'[v], op[o].binding)
                      /\ budget'[v].writer = op[o].binding.writer /\ budget'[v].phase = op[o].phase
    BY <1>2 DEF UnresolvedIsCurrent, SameGeneration
  <2>1. /\ budget[v] # NoBudget /\ SameGeneration(budget[v], op[o].binding)
        /\ budget[v].writer = op[o].binding.writer /\ budget[v].phase = op[o].phase
    BY DEF Chargeable, UnresolvedIsCurrent
  <2> QED BY <1>1, <2>1 DEF Keeps, SameGeneration
<1>5. UnknownFenced'
  <2> SUFFICES ASSUME NEW v \in Works, NEW o \in OpsOf(v), op[o].state = "unknown"
               PROVE  budget'[v] # NoBudget /\ budget'[v].authority = "fenced"
    BY <1>2 DEF UnknownFenced
  <2>1. o \in UnresolvedOf(v) BY DEF UnresolvedOf, Unresolved
  <2>2. budget[v] # NoBudget /\ budget[v].authority = "fenced"
    BY DEF Chargeable, UnknownFenced
  <2> QED BY <1>1, <2>1, <2>2 DEF Keeps
<1> QED BY <1>3, <1>4, <1>5 DEF Chargeable

\* createBudget needs a Work with nothing unresolved before it changes generation.
LEMMA CreateBudgetChargeable ==
  ASSUME LedgerTypeOK, LedgerTypeOK', Chargeable,
         NEW w \in Works, NEW g \in Generations, NEW r \in Orders, NEW c \in Ceilings,
         NEW d \in Deadlines, NEW p \in Plans \cup {V1Plan}, CreateBudget(w, g, r, c, d, p)
  PROVE  Chargeable'
<1>1. UnresolvedOf(w) = {}
  BY DEF CreateBudget, NewBudget, NextGeneration, UnresolvedOf, OpsOf, LedgerTypeOK
<1>2. budget' = [budget EXCEPT ![w] = budget'[w]] /\ budget'[w] # NoBudget
  <2>1. CASE NewBudget(w, g, r, c, d, p)
    <3> DEFINE row == [generation |-> g, order |-> r, ceiling |-> c, deadline |-> d,
                       plan |-> p, cancelled |-> FALSE, writer |-> NoWriter,
                       authority |-> "prepared", phase |-> "productive"]
    <3>1. d \in Nat /\ p \in PlanType BY LedgerAssumption, V1PlanTyped DEF Deadlines
    <3>2. row \in Budget BY <3>1 DEF Budget, Phases
    <3>3. budget' = [budget EXCEPT ![w] = row] BY <2>1 DEF NewBudget
    <3> HIDE DEF row
    <3> QED BY <3>2, <3>3, LedgerAssumption DEF LedgerTypeOK
  <2>2. CASE NextGeneration(w, g, r, c, d, p)
    <3> DEFINE row == [budget[w] EXCEPT !.generation = g, !.order = r, !.deadline = d,
                       !.authority = "prepared", !.writer = NoWriter, !.phase = "productive"]
    <3>0. budget[w] \in Budget BY <2>2 DEF NextGeneration, LedgerTypeOK
    <3>1. d \in Nat BY DEF Deadlines
    <3>2. row # NoBudget BY ZenonT(60), <3>0, <3>1, LedgerAssumption DEF Budget, Phases
    <3>3. budget' = [budget EXCEPT ![w] = row] BY <2>2 DEF NextGeneration
    <3> HIDE DEF row
    <3> QED BY <3>2, <3>3 DEF LedgerTypeOK
  <2> QED BY <2>1, <2>2 DEF CreateBudget
<1>3. budget'[w] \in Budget BY <1>2 DEF LedgerTypeOK
<1> QED BY <1>1, <1>2, <1>3, BudgetRowChargeable DEF CreateBudget

LEMMA CancelChargeable ==
  ASSUME LedgerTypeOK, Chargeable, NEW w \in Works, Cancel(w)
  PROVE  Chargeable'
<1> DEFINE row == [budget[w] EXCEPT !.cancelled = TRUE, !.authority = "fenced"]
<1>0. budget[w] \in Budget BY DEF Cancel, LedgerTypeOK
<1>1. row \in Budget /\ Keeps(budget[w], row) BY <1>0 DEF Budget, Keeps
<1>2. budget' = [budget EXCEPT ![w] = row] /\ UNCHANGED op BY DEF Cancel
<1> HIDE DEF row
<1> QED BY <1>1, <1>2, BudgetRowChargeable

\* Authority methods keep the generation, order and bound writer of the row.
LEMMA AuthorityChargeable ==
  ASSUME LedgerTypeOK, Chargeable, NEW x \in Binding,
         BindAuthority(x) \/ BeginCompletion(x) \/ FenceAuthority(x) \/ CancelBound(x)
  PROVE  Chargeable'
<1>0. x.work \in Works /\ x.writer \in Writers BY DEF Binding
<1>1. budget[x.work] \in Budget
  BY <1>0 DEF BindAuthority, BeginCompletion, CompletionEligible, HoldsAuthority, Payable,
              FenceAuthority, MatchesCurrent, CancelBound, Cancel, LedgerTypeOK
<1>2. CASE BindAuthority(x)
  <2> DEFINE row == [budget[x.work] EXCEPT !.writer = x.writer, !.authority = "active"]
  <2>1. row \in Budget BY <1>0, <1>1 DEF Budget
  <2>2. ASSUME UnresolvedOf(x.work) # {}
        PROVE  Keeps(budget[x.work], row)
    <3>1. PICK o \in UnresolvedOf(x.work) : TRUE BY <2>2
    <3>2. budget[x.work].writer = op[o].binding.writer
      BY <1>0, <3>1 DEF Chargeable, UnresolvedIsCurrent
    <3>3. op[o].binding.writer \in Writers
      BY <3>1, RowTyped DEF UnresolvedOf, OpsOf, Binding
    <3> QED BY <1>1, <1>2, <3>2, <3>3, LedgerAssumption DEF BindAuthority, Keeps, Budget
  <2>3. budget' = [budget EXCEPT ![x.work] = row] /\ UNCHANGED op BY <1>2 DEF BindAuthority
  <2> HIDE DEF row
  <2> QED BY <1>0, <2>1, <2>2, <2>3, BudgetRowChargeable
<1>3. CASE BeginCompletion(x)
  <2> DEFINE row == [budget[x.work] EXCEPT !.phase = "completion"]
  <2>1. row \in Budget BY <1>1 DEF Budget, Phases
  <2>2. UnresolvedOf(x.work) = {} BY <1>3 DEF BeginCompletion, CompletionEligible
  <2>3. budget' = [budget EXCEPT ![x.work] = row] /\ UNCHANGED op BY <1>3 DEF BeginCompletion
  <2> HIDE DEF row
  <2> QED BY <1>0, <2>1, <2>2, <2>3, BudgetRowChargeable
<1>4. CASE FenceAuthority(x)
  <2> DEFINE row == [budget[x.work] EXCEPT !.authority = "fenced"]
  <2>1. row \in Budget /\ Keeps(budget[x.work], row) BY <1>1 DEF Budget, Keeps
  <2>2. budget' = [budget EXCEPT ![x.work] = row] /\ UNCHANGED op BY <1>4 DEF FenceAuthority
  <2> HIDE DEF row
  <2> QED BY <1>0, <2>1, <2>2, BudgetRowChargeable
<1>5. CASE CancelBound(x) BY <1>0, <1>5, CancelChargeable DEF CancelBound
<1> QED BY <1>2, <1>3, <1>4, <1>5

\* reserve needs a Work with nothing unresolved and the writer's exact authority.
LEMMA ReserveChargeable ==
  ASSUME LedgerTypeOK, Chargeable, NEW o \in OpIds, NEW x \in Binding, NEW c \in Cards,
         NEW ph \in Phases, NEW amount, Reserve(o, x, c, amount, ph)
  PROVE  Chargeable'
<1>1. UnresolvedOf(x.work) = {} BY DEF Reserve, Admissible
<1>2. \A q \in OpIds : q # o => op'[q] = op[q]
  BY DEF Reserve, LedgerTypeOK
<1>3. op'[o].binding = x /\ op'[o].phase = ph /\ op'[o].state = "reserved"
  BY DEF Reserve, LedgerTypeOK
<1>4. HoldsAuthority(budget[x.work], x, ph) /\ UNCHANGED budget
  BY DEF Reserve
<1> QED BY <1>1, <1>2, <1>3, <1>4
        DEF HoldsAuthority, Payable, Chargeable, OneUnresolved, UnresolvedIsCurrent, UnknownFenced,
            UnresolvedOf, OpsOf, Exists, SameGeneration

\* What Chargeable asks of a step that moves one unresolved row.
LEMMA OperationRowChargeable ==
  ASSUME LedgerTypeOK, Chargeable, NEW o \in OpIds, NEW row,
         o \in UnresolvedOf(op[o].binding.work), op[o].binding.work \in Works,
         op' = [op EXCEPT ![o] = row], row.binding = op[o].binding, row.phase = op[o].phase,
         \A v \in Works : budget[v] # NoBudget => budget'[v] # NoBudget /\ Keeps(budget[v], budget'[v]),
         row.state = "unknown" => budget'[op[o].binding.work].authority = "fenced"
  PROVE  Chargeable'
<1>1. op'[o] = row /\ \A q \in OpIds : q # o => op'[q] = op[q]
  BY DEF LedgerTypeOK
<1>2. \A v \in Works : OpsOf(v)' \subseteq OpsOf(v) /\ UnresolvedOf(v)' \subseteq UnresolvedOf(v)
  BY <1>1 DEF UnresolvedOf, OpsOf, Exists
<1>3. OneUnresolved' BY <1>2 DEF Chargeable, OneUnresolved
<1>4. UnresolvedIsCurrent'
  <2> SUFFICES ASSUME NEW v \in Works, NEW q \in UnresolvedOf(v)
               PROVE  /\ budget'[v] # NoBudget /\ SameGeneration(budget'[v], op'[q].binding)
                      /\ budget'[v].writer = op'[q].binding.writer /\ budget'[v].phase = op'[q].phase
    BY <1>2 DEF UnresolvedIsCurrent, SameGeneration
  <2>1. /\ budget[v] # NoBudget /\ SameGeneration(budget[v], op[q].binding)
        /\ budget[v].writer = op[q].binding.writer /\ budget[v].phase = op[q].phase
    BY DEF Chargeable, UnresolvedIsCurrent
  <2>2. op'[q].binding = op[q].binding /\ op'[q].phase = op[q].phase
    BY <1>1 DEF UnresolvedOf, OpsOf
  <2> QED BY <2>1, <2>2 DEF Keeps, SameGeneration
<1>5. UnknownFenced'
  <2> SUFFICES ASSUME NEW v \in Works, NEW q \in OpsOf(v)', op'[q].state = "unknown"
               PROVE  budget'[v] # NoBudget /\ budget'[v].authority = "fenced"
    BY DEF UnknownFenced
  <2>1. q \in OpsOf(v) BY <1>2
  <2>2. CASE q = o
    <3>1. op[o].binding.work = v BY <2>1, <2>2 DEF OpsOf
    <3>2. budget[v] # NoBudget BY <3>1 DEF Chargeable, UnresolvedIsCurrent
    <3> QED BY <1>1, <2>2, <3>1, <3>2
  <2>3. CASE q # o
    <3>1. op'[q] = op[q] BY <1>1, <2>1, <2>3 DEF OpsOf
    <3>2. budget[v] # NoBudget /\ budget[v].authority = "fenced"
      BY <2>1, <3>1 DEF Chargeable, UnknownFenced
    <3> QED BY <3>2 DEF Keeps
  <2> QED BY <2>2, <2>3
<1> QED BY <1>3, <1>4, <1>5 DEF Chargeable

\* The other steps move an unresolved row: its binding and phase stay.
LEMMA OperationChargeable ==
  ASSUME LedgerTypeOK, Chargeable, NEW o \in OpIds,
         \/ MarkDispatched(o) \/ ReleaseUndispatched(o) \/ MarkUnknown(o)
         \/ \E r \in Receipts : \E a \in 0..(op[o].reserved + 1) : Settle(o, a, r)
  PROVE  Chargeable'
<1>0. Exists(o)
  BY DEF MarkDispatched, ReleaseUndispatched, MarkUnknown, Settle
<1>1. op[o] \in Operation /\ op[o].binding.work \in Works /\ budget[op[o].binding.work] \in Budget
  BY <1>0, RowTyped
<1>2. o \in UnresolvedOf(op[o].binding.work)
  BY <1>0, <1>1
  DEF MarkDispatched, ReleaseUndispatched, MarkUnknown, Settle, UnresolvedOf, OpsOf, Unresolved, Final, Operation
<1>3. UNCHANGED budget => \A v \in Works : budget[v] # NoBudget =>
                            budget'[v] # NoBudget /\ Keeps(budget[v], budget'[v])
  BY DEF Keeps
<1>4. CASE MarkDispatched(o)
  <2> DEFINE row == [op[o] EXCEPT !.state = "dispatched"]
  <2>1. row.binding = op[o].binding /\ row.phase = op[o].phase /\ row.state = "dispatched"
    BY <1>1 DEF Operation
  <2>2. op' = [op EXCEPT ![o] = row] /\ UNCHANGED budget BY <1>4 DEF MarkDispatched
  <2> HIDE DEF row
  <2> QED BY <1>1, <1>2, <1>3, <2>1, <2>2, OperationRowChargeable
<1>5. CASE ReleaseUndispatched(o)
  <2> DEFINE row == [op[o] EXCEPT !.state = "released"]
  <2>1. row.binding = op[o].binding /\ row.phase = op[o].phase /\ row.state = "released"
    BY <1>1 DEF Operation
  <2>2. op' = [op EXCEPT ![o] = row] /\ UNCHANGED budget BY <1>5 DEF ReleaseUndispatched
  <2> HIDE DEF row
  <2> QED BY <1>1, <1>2, <1>3, <2>1, <2>2, OperationRowChargeable
<1>6. CASE MarkUnknown(o)
  <2> DEFINE row == [op[o] EXCEPT !.state = "unknown"]
  <2> DEFINE fenced == [budget[op[o].binding.work] EXCEPT !.authority = "fenced"]
  <2>1. row.binding = op[o].binding /\ row.phase = op[o].phase
    BY <1>1 DEF Operation
  <2>2. op' = [op EXCEPT ![o] = row] /\ budget' = [budget EXCEPT ![op[o].binding.work] = fenced]
    BY <1>6 DEF MarkUnknown
  <2>3. /\ fenced \in Budget /\ fenced.authority = "fenced"
        /\ Keeps(budget[op[o].binding.work], fenced)
    BY <1>1 DEF Budget, Keeps
  <2> HIDE DEF row, fenced
  <2>4. \A v \in Works : budget'[v] = IF v = op[o].binding.work THEN fenced ELSE budget[v]
    BY <2>2 DEF LedgerTypeOK
  <2>5. \A v \in Works : budget[v] # NoBudget => budget'[v] # NoBudget /\ Keeps(budget[v], budget'[v])
    BY <2>3, <2>4, LedgerAssumption DEF Keeps
  <2> QED BY <1>1, <1>2, <2>1, <2>2, <2>3, <2>4, <2>5, OperationRowChargeable
<1>7. ASSUME NEW r \in Receipts, NEW a \in 0..(op[o].reserved + 1), Settle(o, a, r)
      PROVE  Chargeable'
  <2> DEFINE row == [op[o] EXCEPT !.actual = a, !.receipt = r, !.state = "settled"]
  <2>1. row.binding = op[o].binding /\ row.phase = op[o].phase /\ row.state = "settled"
    BY <1>1 DEF Operation
  <2>2. op' = [op EXCEPT ![o] = row] /\ UNCHANGED budget BY <1>7 DEF Settle
  <2> HIDE DEF row
  <2> QED BY <1>1, <1>2, <1>3, <2>1, <2>2, OperationRowChargeable
<1> QED BY <1>4, <1>5, <1>6, <1>7

LEMMA RecoverChargeable ==
  ASSUME LedgerTypeOK, Chargeable, RecoverUnknown
  PROVE  Chargeable'
<1>1. ASSUME NEW o \in OpIds
      PROVE  /\ Exists(o)' <=> Exists(o)
             /\ Exists(o) => /\ op'[o].binding = op[o].binding /\ op'[o].phase = op[o].phase
                             /\ op'[o].state \in Unresolved <=> op[o].state \in Unresolved
                             /\ op'[o].state = "unknown" => op[o].state \in Unresolved
  <2>1. CASE Exists(o) /\ op[o].state \in Unresolved
    <3>1. op[o] \in Operation BY <2>1, RowTyped
    <3> DEFINE row == [op[o] EXCEPT !.state = "unknown"]
    <3>2. op'[o] = row BY <2>1 DEF RecoverUnknown
    <3>3. row \in Operation /\ row.state = "unknown" /\ row.binding = op[o].binding
          /\ row.phase = op[o].phase BY <3>1 DEF Operation, Unresolved
    <3> HIDE DEF row
    <3> QED BY <2>1, <3>2, <3>3, LedgerAssumption DEF Exists, Unresolved
  <2>2. CASE ~(Exists(o) /\ op[o].state \in Unresolved)
    <3>1. op'[o] = op[o] BY <2>2 DEF RecoverUnknown
    <3> QED BY <2>2, <3>1 DEF Exists, Unresolved
  <2> QED BY <2>1, <2>2
<1>2. \A w \in Works : UnresolvedOf(w)' = UnresolvedOf(w)
  BY <1>1 DEF UnresolvedOf, OpsOf
<1>3. ASSUME NEW w \in Works, UnresolvedOf(w) # {}
      PROVE  /\ budget[w] # NoBudget /\ budget'[w] # NoBudget
             /\ Keeps(budget[w], budget'[w]) /\ budget'[w].authority = "fenced"
  <2>1. budget[w] \in Budget
    BY <1>3 DEF Chargeable, UnresolvedIsCurrent, LedgerTypeOK
  <2> DEFINE row == [budget[w] EXCEPT !.authority = "fenced"]
  <2>2. budget'[w] = row BY <1>3 DEF RecoverUnknown
  <2>3. row \in Budget /\ Keeps(budget[w], row) /\ row.authority = "fenced"
    BY <2>1 DEF Budget, Keeps
  <2> HIDE DEF row
  <2> QED BY <2>1, <2>2, <2>3, LedgerAssumption
<1>6. OneUnresolved' BY <1>2 DEF Chargeable, OneUnresolved
<1>7. UnresolvedIsCurrent'
  <2> SUFFICES ASSUME NEW v \in Works, NEW o \in UnresolvedOf(v)
               PROVE  /\ budget'[v] # NoBudget /\ SameGeneration(budget'[v], op'[o].binding)
                      /\ budget'[v].writer = op'[o].binding.writer /\ budget'[v].phase = op'[o].phase
    BY <1>2 DEF UnresolvedIsCurrent, SameGeneration
  <2>1. /\ SameGeneration(budget[v], op[o].binding)
        /\ budget[v].writer = op[o].binding.writer /\ budget[v].phase = op[o].phase
    BY DEF Chargeable, UnresolvedIsCurrent
  <2>2. op'[o].binding = op[o].binding /\ op'[o].phase = op[o].phase
    BY <1>1 DEF UnresolvedOf, OpsOf
  <2> QED BY <1>3, <2>1, <2>2 DEF Keeps, SameGeneration
<1>8. UnknownFenced'
  <2> SUFFICES ASSUME NEW v \in Works, NEW o \in OpsOf(v)', op'[o].state = "unknown"
               PROVE  budget'[v] # NoBudget /\ budget'[v].authority = "fenced"
    BY DEF UnknownFenced
  <2>1. o \in UnresolvedOf(v) BY <1>1 DEF OpsOf, UnresolvedOf
  <2> QED BY <1>3, <2>1
<1> QED BY <1>6, <1>7, <1>8 DEF Chargeable

LEMMA LedgerStepChargeable ==
  ASSUME LedgerTypeOK, LedgerTypeOK', Chargeable, [LedgerNext]_ledgerVars
  PROVE  Chargeable'
<1>1. CASE UNCHANGED ledgerVars \/ Tick
  BY <1>1 DEF ledgerVars, Tick, Chargeable, OneUnresolved, UnresolvedIsCurrent, UnknownFenced,
              UnresolvedOf, OpsOf, Exists, SameGeneration
<1>2. CASE LedgerNext
  BY <1>1, <1>2, CreateBudgetChargeable, AuthorityChargeable, CancelChargeable,
     ReserveChargeable, OperationChargeable, RecoverChargeable DEF LedgerNext
<1> QED BY <1>1, <1>2

LEMMA ChargeableInit == LedgerInit => Chargeable
BY DEF LedgerInit, Chargeable, OneUnresolved, UnresolvedIsCurrent, UnknownFenced, UnresolvedOf,
       OpsOf, Exists

\* One unresolved operation per Work, of the current attempt, and fenced when unknown.
THEOREM ChargeableHolds == LedgerSpec => []Chargeable
<1>1. LedgerTypeOK /\ LedgerTypeOK' /\ Chargeable /\ [LedgerNext]_ledgerVars => Chargeable'
  BY LedgerStepChargeable
<1> QED BY <1>1, ChargeableInit, LedgerTyping, PTL DEF LedgerSpec

\* Two operations of a Work are never both reserved, dispatched or unknown: whoever reserves
\* second, from another attempt or phase, is refused (spend-policy.ts, spend.ts reserve).
THEOREM OneUnresolvedHolds == LedgerSpec => []OneUnresolved
<1>1. Chargeable => OneUnresolved BY DEF Chargeable
<1> QED BY <1>1, ChargeableHolds, PTL

\* An operation that may still be charged was reserved by the attempt its Work is in: no attempt
\* or phase of the Work changes while it has one (spend.ts bindAuthority, beginCompletion).
THEOREM UnresolvedIsCurrentHolds == LedgerSpec => []UnresolvedIsCurrent
<1>1. Chargeable => UnresolvedIsCurrent BY DEF Chargeable
<1> QED BY <1>1, ChargeableHolds, PTL

\* A Work with an operation of unknown charge is fenced, so that nothing is reserved for it again
\* (spend.ts markUnknown, recoverUnknown).
THEOREM UnknownFencedHolds == LedgerSpec => []UnknownFenced
<1>1. Chargeable => UnknownFenced BY DEF Chargeable
<1> QED BY <1>1, ChargeableHolds, PTL
-----------------------------------------------------------------------------
(* Completion is paid in one attempt, after a settled productive operation. *)

\* The attempt a bound Work is in.
AttemptOf(w) == [work |-> w, generation |-> budget[w].generation,
               order |-> budget[w].order, writer |-> budget[w].writer]

\* Why CompletionOrder is inductive: while a Work is in its completion phase, the current
\* attempt is the one that settled a productive operation and owns every completion.
CompletionPhase ==
  \A w \in Works : budget[w] # NoBudget /\ budget[w].phase = "completion" =>
    /\ \E p \in OpsIn(w, "productive") : op[p].binding = AttemptOf(w) /\ op[p].state = "settled"
    /\ \A o \in OpsIn(w, "completion") : op[o].binding = AttemptOf(w)

CompletionInv == CompletionOrder /\ CompletionPhase

\* What every step but reserve does to the operations.
Kept == \A o \in OpIds :
          /\ Exists(o)' <=> Exists(o)
          /\ Exists(o) => /\ op'[o].binding = op[o].binding /\ op'[o].phase = op[o].phase
                          /\ op[o].state = "settled" => op'[o].state = "settled"

LEMMA KeptOps ==
  ASSUME Kept
  PROVE  \A w \in Works : \A ph : OpsIn(w, ph)' = OpsIn(w, ph)
BY DEF Kept, OpsIn, OpsOf

LEMMA KeptOrder ==
  ASSUME Kept, CompletionOrder
  PROVE  CompletionOrder'
<1> SUFFICES ASSUME NEW w \in Works, NEW o \in OpsIn(w, "completion")
             PROVE  /\ \A other \in OpsIn(w, "completion") : op'[other].binding = op'[o].binding
                    /\ \E p \in OpsIn(w, "productive") :
                          op'[p].binding = op'[o].binding /\ op'[p].state = "settled"
  BY KeptOps DEF CompletionOrder
<1>1. /\ \A other \in OpsIn(w, "completion") : op[other].binding = op[o].binding
      /\ \E p \in OpsIn(w, "productive") : op[p].binding = op[o].binding /\ op[p].state = "settled"
  BY DEF CompletionOrder
<1> QED BY <1>1 DEF Kept, OpsIn, OpsOf

\* A budget row whose attempt and phase stay keeps CompletionPhase for its Work.
LEMMA KeptPhase ==
  ASSUME Kept, CompletionPhase,
         \A w \in Works : \/ budget'[w] = NoBudget
                         \/ budget'[w].phase # "completion"
                         \/ /\ budget[w] # NoBudget /\ budget[w].phase = "completion"
                            /\ AttemptOf(w)' = AttemptOf(w)
  PROVE  CompletionPhase'
<1> SUFFICES ASSUME NEW w \in Works, budget'[w] # NoBudget, budget'[w].phase = "completion"
             PROVE  /\ \E p \in OpsIn(w, "productive") :
                          op'[p].binding = AttemptOf(w)' /\ op'[p].state = "settled"
                    /\ \A o \in OpsIn(w, "completion") : op'[o].binding = AttemptOf(w)'
  BY KeptOps DEF CompletionPhase
<1>1. AttemptOf(w)' = AttemptOf(w) /\ budget[w] # NoBudget /\ budget[w].phase = "completion"
  OBVIOUS
<1>2. /\ \E p \in OpsIn(w, "productive") : op[p].binding = AttemptOf(w) /\ op[p].state = "settled"
      /\ \A o \in OpsIn(w, "completion") : op[o].binding = AttemptOf(w)
  BY <1>1 DEF CompletionPhase
<1> HIDE DEF AttemptOf
<1> QED BY <1>1, <1>2 DEF Kept, OpsIn, OpsOf

LEMMA CreateBudgetPhases ==
  ASSUME LedgerTypeOK, NEW w \in Works, NEW g, NEW r, NEW c, NEW d, NEW p,
         CreateBudget(w, g, r, c, d, p)
  PROVE  budget'[w].phase = "productive" /\ \A v \in Works : v # w => budget'[v] = budget[v]
<1>1. CASE NewBudget(w, g, r, c, d, p)
  BY <1>1 DEF NewBudget, LedgerTypeOK
<1>2. CASE NextGeneration(w, g, r, c, d, p)
  <2>1. budget[w] \in Budget BY <1>2 DEF NextGeneration, LedgerTypeOK
  <2> QED BY <1>2, <2>1 DEF NextGeneration, LedgerTypeOK, Budget
<1> QED BY <1>1, <1>2 DEF CreateBudget

\* Only reserve adds a row, and no step takes a settled row back.
LEMMA StepsKeep ==
  ASSUME LedgerTypeOK, NEW o \in OpIds,
         \/ UNCHANGED op
         \/ MarkDispatched(o) \/ ReleaseUndispatched(o) \/ MarkUnknown(o)
         \/ \E r \in Receipts : \E a \in 0..(op[o].reserved + 1) : Settle(o, a, r)
  PROVE  Kept
<1>1. CASE UNCHANGED op BY <1>1 DEF Kept, Exists
<1>2. CASE ~UNCHANGED op
  <2>1. Exists(o)
    BY <1>2 DEF MarkDispatched, ReleaseUndispatched, MarkUnknown, Settle
  <2>2. op[o] \in Operation BY <2>1, RowTyped
  <2>3. PICK row \in Operation :
          /\ op' = [op EXCEPT ![o] = row]
          /\ row.binding = op[o].binding /\ row.phase = op[o].phase
          /\ op[o].state = "settled" => row.state = "settled"
    <3>1. CASE MarkDispatched(o)
      <4> DEFINE row == [op[o] EXCEPT !.state = "dispatched"]
      <4>2. /\ row \in Operation /\ row.binding = op[o].binding /\ row.phase = op[o].phase
            /\ op[o].state = "settled" => row.state = "settled"
        BY <2>2, <3>1 DEF MarkDispatched, Operation, Unresolved
      <4>3. op' = [op EXCEPT ![o] = row] BY <3>1 DEF MarkDispatched
      <4> HIDE DEF row
      <4> QED BY <4>2, <4>3
    <3>2. CASE ReleaseUndispatched(o)
      <4> DEFINE row == [op[o] EXCEPT !.state = "released"]
      <4>2. /\ row \in Operation /\ row.binding = op[o].binding /\ row.phase = op[o].phase
            /\ op[o].state = "settled" => row.state = "settled"
        BY <2>2, <3>2 DEF ReleaseUndispatched, Operation, Final
      <4>3. op' = [op EXCEPT ![o] = row] BY <3>2 DEF ReleaseUndispatched
      <4> HIDE DEF row
      <4> QED BY <4>2, <4>3
    <3>3. CASE MarkUnknown(o)
      <4> DEFINE row == [op[o] EXCEPT !.state = "unknown"]
      <4>2. /\ row \in Operation /\ row.binding = op[o].binding /\ row.phase = op[o].phase
            /\ op[o].state = "settled" => row.state = "settled"
        BY <2>2, <3>3 DEF MarkUnknown, Operation, Unresolved, Final
      <4>3. op' = [op EXCEPT ![o] = row] BY <3>3 DEF MarkUnknown
      <4> HIDE DEF row
      <4> QED BY <4>2, <4>3
    <3>4. ASSUME NEW r \in Receipts, NEW a \in 0..(op[o].reserved + 1), Settle(o, a, r)
          PROVE  \E row \in Operation :
                   /\ op' = [op EXCEPT ![o] = row]
                   /\ row.binding = op[o].binding /\ row.phase = op[o].phase
                   /\ op[o].state = "settled" => row.state = "settled"
      <4>1. a \in Nat BY <2>2 DEF Operation
      <4> DEFINE row == [op[o] EXCEPT !.actual = a, !.receipt = r, !.state = "settled"]
      <4>2. /\ row \in Operation /\ row.binding = op[o].binding /\ row.phase = op[o].phase
            /\ op[o].state = "settled" => row.state = "settled"
        BY <2>2, <3>4, <4>1 DEF Settle, Operation, Final
      <4>3. op' = [op EXCEPT ![o] = row] BY <3>4 DEF Settle
      <4> HIDE DEF row
      <4> QED BY <4>2, <4>3
    <3> QED BY <1>2, <3>1, <3>2, <3>3, <3>4
  <2> QED BY <2>1, <2>3, LedgerAssumption DEF Kept, Exists, LedgerTypeOK
<1> QED BY <1>1, <1>2

LEMMA RecoverKeeps ==
  ASSUME LedgerTypeOK, RecoverUnknown
  PROVE  /\ Kept
         /\ \A v \in Works : budget[v] \in Budget => budget'[v] \in Budget /\ Keeps(budget[v], budget'[v])
         /\ \A v \in Works : budget[v] = NoBudget => budget'[v] = NoBudget
<1>1. ASSUME NEW o \in OpIds
      PROVE  /\ Exists(o)' <=> Exists(o)
             /\ Exists(o) => /\ op'[o].binding = op[o].binding /\ op'[o].phase = op[o].phase
                             /\ op[o].state = "settled" => op'[o].state = "settled"
  <2>1. CASE Exists(o) /\ op[o].state \in Unresolved
    <3>1. op[o] \in Operation BY <2>1, RowTyped
    <3> DEFINE row == [op[o] EXCEPT !.state = "unknown"]
    <3>2. op'[o] = row BY <2>1 DEF RecoverUnknown
    <3>3. row \in Operation /\ row.binding = op[o].binding /\ row.phase = op[o].phase
      BY <3>1 DEF Operation, Unresolved
    <3> HIDE DEF row
    <3> QED BY <2>1, <3>2, <3>3, LedgerAssumption DEF Exists, Unresolved
  <2>2. CASE ~(Exists(o) /\ op[o].state \in Unresolved)
    <3>1. op'[o] = op[o] BY <2>2 DEF RecoverUnknown
    <3> QED BY <2>2, <3>1 DEF Exists
  <2> QED BY <2>1, <2>2
<1>2. ASSUME NEW v \in Works, UnresolvedOf(v) # {}
      PROVE  budget[v] \in Budget /\ budget'[v] \in Budget /\ Keeps(budget[v], budget'[v])
  <2>1. PICK o \in UnresolvedOf(v) : TRUE BY <1>2
  <2>2. budget[v] \in Budget BY <2>1, RowTyped DEF UnresolvedOf, OpsOf
  <2> DEFINE row == [budget[v] EXCEPT !.authority = "fenced"]
  <2>3. budget'[v] = row BY <1>2 DEF RecoverUnknown
  <2>4. row \in Budget /\ Keeps(budget[v], row) BY <2>2 DEF Budget, Keeps
  <2> HIDE DEF row
  <2> QED BY <2>2, <2>3, <2>4
<1>3. \A v \in Works : UnresolvedOf(v) = {} => budget'[v] = budget[v]
  BY DEF RecoverUnknown
<1>4. Kept BY <1>1 DEF Kept
<1> QED BY <1>2, <1>3, <1>4, LedgerAssumption DEF Keeps

\* Steps that write columns of one budget row.
LEMMA AuthorityCompletion ==
  ASSUME LedgerTypeOK, CompletionInv, NEW w \in Works, NEW row \in Budget,
         budget' = [budget EXCEPT ![w] = row], Kept, budget[w] \in Budget,
         row.phase = "completion" => Keeps(budget[w], row)
  PROVE  CompletionInv'
<1>1. \A v \in Works : budget'[v] = IF v = w THEN row ELSE budget[v]
  BY DEF LedgerTypeOK
<1>2. CompletionOrder' BY KeptOrder DEF CompletionInv
<1>3. \A v \in Works : \/ budget'[v] = NoBudget
                       \/ budget'[v].phase # "completion"
                       \/ /\ budget[v] # NoBudget /\ budget[v].phase = "completion"
                          /\ AttemptOf(v)' = AttemptOf(v)
  BY <1>1, LedgerAssumption DEF AttemptOf, Keeps
<1>4. CompletionPhase' BY <1>3, KeptPhase DEF CompletionInv
<1> QED BY <1>2, <1>4 DEF CompletionInv

LEMMA BindCompletion ==
  ASSUME LedgerTypeOK, CompletionInv, NEW x \in Binding, BindAuthority(x)
  PROVE  CompletionInv'
<1>0. x.work \in Works /\ x.writer \in Writers BY DEF Binding
<1>1. budget[x.work] \in Budget BY <1>0 DEF BindAuthority, Payable, LedgerTypeOK
<1> DEFINE row == [budget[x.work] EXCEPT !.writer = x.writer, !.authority = "active"]
<1>2. row \in Budget /\ row.phase = budget[x.work].phase /\ row.writer = x.writer
      /\ row.generation = budget[x.work].generation /\ row.order = budget[x.work].order
  BY <1>0, <1>1 DEF Budget
<1>3. ASSUME budget[x.work].phase = "completion" PROVE budget[x.work].writer = x.writer
  <2>1. PICK p \in OpsIn(x.work, "productive") : op[p].binding = AttemptOf(x.work)
    BY <1>0, <1>1, <1>3, LedgerAssumption DEF CompletionInv, CompletionPhase
  <2>2. op[p].binding.writer \in Writers BY RowTyped DEF OpsIn, OpsOf, Binding
  <2> QED BY <2>1, <2>2, LedgerAssumption DEF BindAuthority, AttemptOf
<1>4. budget' = [budget EXCEPT ![x.work] = row] /\ Kept
  BY DEF BindAuthority, Kept, Exists
<1>5. budget[x.work].authority # "fenced" BY DEF BindAuthority
<1> HIDE DEF row
<1>6. row.phase = "completion" => Keeps(budget[x.work], row) BY <1>2, <1>3, <1>5 DEF Keeps
<1> QED BY <1>0, <1>1, <1>2, <1>4, <1>6, AuthorityCompletion

LEMMA BeginCompletionCompletion ==
  ASSUME LedgerTypeOK, CompletionInv, NEW x \in Binding, BeginCompletion(x)
  PROVE  CompletionInv'
<1>0. x.work \in Works BY DEF Binding
<1>1. budget[x.work] \in Budget
  BY <1>0 DEF BeginCompletion, CompletionEligible, HoldsAuthority, Payable, LedgerTypeOK
<1> DEFINE row == [budget[x.work] EXCEPT !.phase = "completion"]
<1>2. /\ row.generation = budget[x.work].generation /\ row.order = budget[x.work].order
      /\ row.writer = budget[x.work].writer
  BY <1>1 DEF Budget
<1>3. \A v \in Works : budget'[v] = IF v = x.work THEN row ELSE budget[v]
  BY DEF BeginCompletion, LedgerTypeOK
<1>4. Kept BY DEF BeginCompletion, Kept, Exists
<1> HIDE DEF row
<1>5. AttemptOf(x.work)' = x
  BY <1>0, <1>2, <1>3
  DEF BeginCompletion, CompletionEligible, HoldsAuthority, SameGeneration, AttemptOf, Binding
<1>6. CompletionOrder' BY <1>4, KeptOrder DEF CompletionInv
<1>7. CompletionPhase'
  <2> SUFFICES ASSUME NEW v \in Works, budget'[v] # NoBudget, budget'[v].phase = "completion"
               PROVE  /\ \E p \in OpsIn(v, "productive") :
                            op'[p].binding = AttemptOf(v)' /\ op'[p].state = "settled"
                      /\ \A o \in OpsIn(v, "completion") : op'[o].binding = AttemptOf(v)'
    BY <1>4, KeptOps DEF CompletionPhase
  <2>1. CASE v = x.work
    BY <1>5, <2>1 DEF BeginCompletion, CompletionEligible
  <2>2. CASE v # x.work
    <3>1. AttemptOf(v)' = AttemptOf(v) /\ budget'[v] = budget[v] BY <1>3, <2>2 DEF AttemptOf
    <3>2. UNCHANGED op BY DEF BeginCompletion
    <3> QED BY <3>1, <3>2 DEF CompletionInv, CompletionPhase
  <2> QED BY <2>1, <2>2
<1> QED BY <1>6, <1>7 DEF CompletionInv

\* A new completion operation belongs to the attempt the Work is in.
LEMMA ReserveCompletion ==
  ASSUME LedgerTypeOK, CompletionInv, NEW o \in OpIds, NEW x \in Binding, NEW c \in Cards,
         NEW ph \in Phases, NEW amount, Reserve(o, x, c, amount, ph)
  PROVE  CompletionInv'
<1>1. /\ op'[o].binding = x /\ op'[o].phase = ph /\ ~Exists(o)
      /\ \A q \in OpIds : q # o => op'[q] = op[q]
  BY DEF Reserve, LedgerTypeOK
<1>2. HoldsAuthority(budget[x.work], x, ph) /\ UNCHANGED budget BY DEF Reserve
<1>3. \A v \in Works : AttemptOf(v)' = AttemptOf(v) BY <1>2 DEF AttemptOf
<1>4. x.work \in Works /\ AttemptOf(x.work) = x
  BY <1>2 DEF HoldsAuthority, SameGeneration, AttemptOf, Binding
<1>5. \A v \in Works : \A k : \A q \in OpsIn(v, k) : q \in OpsIn(v, k)' /\ op'[q] = op[q]
  BY <1>1 DEF OpsIn, OpsOf, Exists
<1>6. \A v \in Works : \A k : \A q \in OpsIn(v, k)' :
        \/ q \in OpsIn(v, k) /\ op'[q] = op[q]
        \/ q = o /\ v = x.work /\ k = ph
  BY <1>1 DEF OpsIn, OpsOf, Exists
<1>7. CompletionPhase'
  <2> SUFFICES ASSUME NEW v \in Works, budget[v] # NoBudget, budget[v].phase = "completion"
               PROVE  /\ \E p \in OpsIn(v, "productive")' :
                            op'[p].binding = AttemptOf(v) /\ op'[p].state = "settled"
                      /\ \A q \in OpsIn(v, "completion")' : op'[q].binding = AttemptOf(v)
    BY <1>2, <1>3 DEF CompletionPhase
  <2>1. /\ \E p \in OpsIn(v, "productive") : op[p].binding = AttemptOf(v) /\ op[p].state = "settled"
        /\ \A q \in OpsIn(v, "completion") : op[q].binding = AttemptOf(v)
    BY DEF CompletionInv, CompletionPhase
  <2> HIDE DEF AttemptOf
  <2> QED BY <1>1, <1>4, <1>5, <1>6, <2>1
<1>8. CompletionOrder'
  <2> SUFFICES ASSUME NEW v \in Works, NEW q \in OpsIn(v, "completion")'
               PROVE  /\ \A other \in OpsIn(v, "completion")' : op'[other].binding = op'[q].binding
                      /\ \E p \in OpsIn(v, "productive")' :
                            op'[p].binding = op'[q].binding /\ op'[p].state = "settled"
    BY DEF CompletionOrder
  <2>1. CASE v = x.work /\ ph = "completion"
    <3>1. budget[v] # NoBudget /\ budget[v].phase = "completion"
      BY <1>2, <2>1 DEF HoldsAuthority, Payable
    <3>2. /\ \E p \in OpsIn(v, "productive")' : op'[p].binding = AttemptOf(v)' /\ op'[p].state = "settled"
          /\ \A r \in OpsIn(v, "completion")' : op'[r].binding = AttemptOf(v)'
      BY <1>2, <1>7, <3>1 DEF CompletionPhase
    <3> QED BY <3>2
  <2>2. CASE ~(v = x.work /\ ph = "completion")
    <3>1. \A r \in OpsIn(v, "completion")' : r \in OpsIn(v, "completion") /\ op'[r] = op[r]
      BY <1>6, <2>2
    <3>2. /\ \A other \in OpsIn(v, "completion") : op[other].binding = op[q].binding
          /\ \E p \in OpsIn(v, "productive") : op[p].binding = op[q].binding /\ op[p].state = "settled"
      BY <3>1 DEF CompletionInv, CompletionOrder
    <3> QED BY <1>5, <3>1, <3>2
  <2> QED BY <2>1, <2>2
<1> QED BY <1>7, <1>8 DEF CompletionInv

\* Steps that move an operation, fence a row, or tick.
LEMMA MovesCompletion ==
  ASSUME LedgerTypeOK, CompletionInv, Kept,
         \A v \in Works : budget[v] \in Budget => budget'[v] \in Budget /\ Keeps(budget[v], budget'[v]),
         \A v \in Works : budget[v] = NoBudget => budget'[v] = NoBudget
  PROVE  CompletionInv'
<1>1. CompletionOrder' BY KeptOrder DEF CompletionInv
<1>2. \A v \in Works : budget[v] \in Budget \/ budget[v] = NoBudget BY DEF LedgerTypeOK
<1>3. CompletionPhase' BY <1>2, KeptPhase, LedgerAssumption DEF CompletionInv, AttemptOf, Keeps
<1> QED BY <1>1, <1>3 DEF CompletionInv

\* The attempt a Work is completing is the one that paid for it.
THEOREM CompletionInvHolds == LedgerSpec => []CompletionInv
<1>1. LedgerInit => CompletionInv
  BY DEF LedgerInit, CompletionInv, CompletionOrder, CompletionPhase, OpsIn, OpsOf, Exists
<1>2. LedgerTypeOK /\ CompletionInv /\ [LedgerNext]_ledgerVars => CompletionInv'
  <2> SUFFICES ASSUME LedgerTypeOK, CompletionInv, [LedgerNext]_ledgerVars PROVE CompletionInv'
    OBVIOUS
  <2>1. ASSUME NEW w \in Works, NEW g, NEW r, NEW c, NEW d, NEW p, CreateBudget(w, g, r, c, d, p)
        PROVE  CompletionInv'
    <3>1. Kept BY <2>1 DEF CreateBudget, Kept, Exists
    <3>2. budget'[w].phase = "productive" /\ \A v \in Works : v # w => budget'[v] = budget[v]
      BY <2>1, CreateBudgetPhases
    <3>3. CompletionPhase' BY <3>1, <3>2, KeptPhase DEF CompletionInv, AttemptOf
    <3> QED BY <3>1, <3>3, KeptOrder DEF CompletionInv
  <2>2. CASE UNCHANGED <<budget, op>>
    BY <2>2 DEF CompletionInv, CompletionOrder, CompletionPhase, OpsIn, OpsOf, Exists, AttemptOf
  <2>3. ASSUME NEW w \in Works, Cancel(w) PROVE CompletionInv'
    <3>1. budget[w] \in Budget BY <2>3 DEF Cancel, LedgerTypeOK
    <3> DEFINE row == [budget[w] EXCEPT !.cancelled = TRUE, !.authority = "fenced"]
    <3>2. row \in Budget /\ Keeps(budget[w], row) BY <3>1 DEF Budget, Keeps
    <3>3. budget' = [budget EXCEPT ![w] = row] /\ Kept BY <2>3 DEF Cancel, Kept, Exists
    <3> HIDE DEF row
    <3> QED BY <3>1, <3>2, <3>3, AuthorityCompletion
  <2>4. ASSUME NEW x \in Binding, FenceAuthority(x) PROVE CompletionInv'
    <3>0. x.work \in Works BY DEF Binding
    <3>1. budget[x.work] \in Budget BY <2>4, <3>0 DEF FenceAuthority, MatchesCurrent, LedgerTypeOK
    <3> DEFINE row == [budget[x.work] EXCEPT !.authority = "fenced"]
    <3>2. row \in Budget /\ Keeps(budget[x.work], row) BY <3>1 DEF Budget, Keeps
    <3>3. budget' = [budget EXCEPT ![x.work] = row] /\ Kept BY <2>4 DEF FenceAuthority, Kept, Exists
    <3> HIDE DEF row
    <3> QED BY <3>0, <3>1, <3>2, <3>3, AuthorityCompletion
  <2>5. ASSUME NEW o \in OpIds, MarkUnknown(o) PROVE CompletionInv'
    <3>0. Exists(o) BY <2>5 DEF MarkUnknown
    <3> DEFINE v == op[o].binding.work
               row == [budget[v] EXCEPT !.authority = "fenced"]
    <3>1. v \in Works /\ budget[v] \in Budget BY <3>0, RowTyped
    <3>2. row \in Budget /\ Keeps(budget[v], row) BY <3>1 DEF Budget, Keeps
    <3>3. budget' = [budget EXCEPT ![v] = row] BY <2>5 DEF MarkUnknown
    <3>4. Kept BY <2>5, StepsKeep
    <3> HIDE DEF row, v
    <3> QED BY <3>1, <3>2, <3>3, <3>4, AuthorityCompletion
  <2>6. ASSUME NEW o \in OpIds,
               \/ MarkDispatched(o) \/ ReleaseUndispatched(o)
               \/ \E r \in Receipts : \E a \in 0..(op[o].reserved + 1) : Settle(o, a, r)
        PROVE  CompletionInv'
    <3>1. Kept BY <2>6, StepsKeep
    <3>2. UNCHANGED budget BY <2>6 DEF MarkDispatched, ReleaseUndispatched, Settle
    <3> QED BY <3>1, <3>2, MovesCompletion DEF Keeps
  <2>7. CASE RecoverUnknown BY <2>7, RecoverKeeps, MovesCompletion
  <2>8. ASSUME NEW o \in OpIds, NEW x \in Binding, NEW c \in Cards, NEW ph \in Phases, NEW amount,
               Reserve(o, x, c, amount, ph)
        PROVE  CompletionInv'
    BY <2>8, ReserveCompletion
  <2>9. ASSUME NEW x \in Binding, BindAuthority(x) \/ BeginCompletion(x) \/ CancelBound(x)
        PROVE  CompletionInv'
    BY <2>3, <2>9, BindCompletion, BeginCompletionCompletion DEF CancelBound, Binding
  <2>10. CASE UNCHANGED ledgerVars \/ Tick
    BY <2>2, <2>10 DEF ledgerVars, Tick
  <2>11. CASE LedgerNext
    BY <2>1, <2>3, <2>4, <2>5, <2>6, <2>7, <2>8, <2>9, <2>10, <2>11 DEF LedgerNext
  <2> QED BY <2>10, <2>11
<1> QED BY <1>1, <1>2, LedgerTyping, PTL DEF LedgerSpec

\* A Work pays for completion in one attempt, which has settled productive spend.
THEOREM CompletionOrderHolds == LedgerSpec => []CompletionOrder
<1>1. CompletionInv => CompletionOrder BY DEF CompletionInv
<1> QED BY <1>1, CompletionInvHolds, PTL
-----------------------------------------------------------------------------
(* The history of a Work. *)

\* What a budget row may become in one step, or stay.
Forward(b, c) ==
  /\ c # NoBudget /\ c.ceiling = b.ceiling /\ c.plan = b.plan
  /\ b.cancelled => c.cancelled /\ c.generation = b.generation
  /\ c.generation >= b.generation
  /\ c.generation = b.generation =>
       /\ b.authority = "fenced" => c.authority = "fenced"
       /\ b.writer # NoWriter => c.writer = b.writer
       /\ c.order = b.order /\ c.deadline = b.deadline
       /\ b.phase = "completion" => c.phase = "completion"

AllForward == \A w \in Works : budget[w] # NoBudget => Forward(budget[w], budget'[w])

\* A row that is left alone has moved forward.
LEMMA ForwardReflexive ==
  ASSUME NEW b \in Budget, b # NoBudget PROVE Forward(b, b)
<1>1. b.generation >= b.generation BY DEF Budget, Generations
<1> QED BY <1>1 DEF Forward

\* A step that writes one row, which moves forward, moves every Work forward.
LEMMA RowForward ==
  ASSUME LedgerTypeOK, NEW w \in Works, NEW row,
         budget' = [budget EXCEPT ![w] = row],
         budget[w] # NoBudget => Forward(budget[w], row)
  PROVE  AllForward
<1>1. \A v \in Works : budget'[v] = IF v = w THEN row ELSE budget[v] BY DEF LedgerTypeOK
<1>2. \A v \in Works : budget[v] # NoBudget => budget[v] \in Budget BY DEF LedgerTypeOK
<1> QED BY <1>1, <1>2, ForwardReflexive DEF AllForward

\* A step that writes no budget moves every Work forward.
LEMMA UnchangedForward ==
  ASSUME LedgerTypeOK, UNCHANGED budget PROVE AllForward
<1>1. \A v \in Works : budget[v] # NoBudget => budget[v] \in Budget BY DEF LedgerTypeOK
<1> QED BY <1>1, ForwardReflexive DEF AllForward

\* A fence or a cancellation of a row moves it forward.
LEMMA FencedForward ==
  ASSUME NEW b \in Budget, b # NoBudget
  PROVE  /\ Forward(b, [b EXCEPT !.authority = "fenced"])
         /\ Forward(b, [b EXCEPT !.cancelled = TRUE, !.authority = "fenced"])
<1>1. b.generation >= b.generation BY DEF Budget, Generations
<1>2. [b EXCEPT !.authority = "fenced"] # NoBudget BY LedgerAssumption DEF Budget
<1>3. [b EXCEPT !.cancelled = TRUE, !.authority = "fenced"] # NoBudget BY LedgerAssumption DEF Budget
<1>4. Forward(b, [b EXCEPT !.authority = "fenced"]) BY <1>1, <1>2 DEF Forward, Budget
<1>5. Forward(b, [b EXCEPT !.cancelled = TRUE, !.authority = "fenced"]) BY <1>1, <1>3 DEF Forward, Budget
<1> QED BY <1>4, <1>5

\* A new generation keeps ceiling and plan, and is refused to a cancelled Work.
LEMMA CreateBudgetForward ==
  ASSUME LedgerTypeOK, NEW w \in Works, NEW g \in Generations, NEW r \in Orders, NEW c \in Ceilings,
         NEW d \in Deadlines, NEW p, CreateBudget(w, g, r, c, d, p)
  PROVE  AllForward
<1>1. CASE NewBudget(w, g, r, c, d, p)
  <2> DEFINE row == [generation |-> g, order |-> r, ceiling |-> c, deadline |-> d,
                     plan |-> p, cancelled |-> FALSE, writer |-> NoWriter,
                     authority |-> "prepared", phase |-> "productive"]
  <2>1. budget' = [budget EXCEPT ![w] = row] /\ budget[w] = NoBudget BY <1>1 DEF NewBudget
  <2> HIDE DEF row
  <2> QED BY <2>1, RowForward
<1>0. ASSUME NEW x \in Deadlines PROVE x \in Nat BY LedgerAssumption, <1>0 DEF Deadlines
<1>2. CASE NextGeneration(w, g, r, c, d, p)
  <2> DEFINE row == [budget[w] EXCEPT !.generation = g, !.order = r, !.deadline = d,
                       !.authority = "prepared", !.writer = NoWriter, !.phase = "productive"]
  <2>1. budget' = [budget EXCEPT ![w] = row] /\ g > budget[w].generation /\ ~budget[w].cancelled
    BY <1>2 DEF NextGeneration
  <2>2. budget[w] \in Budget BY <1>2 DEF NextGeneration, LedgerTypeOK
  <2>3. d \in Nat BY <1>0
  <2>4. row \in Budget BY <2>2, <2>3 DEF Budget, Phases
  <2>5. /\ row.generation = g /\ row.ceiling = budget[w].ceiling /\ row.plan = budget[w].plan
        /\ g \in Int /\ budget[w].generation \in Int
    BY <2>2 DEF Budget, Generations
  <2> HIDE DEF row
  <2>6. Forward(budget[w], row) BY <2>1, <2>4, <2>5, LedgerAssumption DEF Forward
  <2> QED BY <2>1, <2>6, RowForward
<1> QED BY <1>1, <1>2 DEF CreateBudget

\* bindAuthority binds an unbound or the same writer, and refuses a fenced row.
LEMMA BindForward ==
  ASSUME LedgerTypeOK, NEW x \in Binding, BindAuthority(x) \/ BeginCompletion(x)
  PROVE  AllForward
<1>0. x.work \in Works /\ x.writer \in Writers BY DEF Binding
<1> DEFINE b == budget[x.work]
<1>1. b \in Budget /\ b # NoBudget
  BY <1>0 DEF BindAuthority, BeginCompletion, CompletionEligible, HoldsAuthority, Payable, LedgerTypeOK
<1>2. b.generation >= b.generation BY <1>1 DEF Budget, Generations
<1>3. CASE BindAuthority(x)
  <2> DEFINE row == [b EXCEPT !.writer = x.writer, !.authority = "active"]
  <2>1. /\ budget' = [budget EXCEPT ![x.work] = row]
        /\ b.authority # "fenced" /\ b.writer \in {NoWriter, x.writer}
    BY <1>3 DEF BindAuthority
  <2>2. row \in Budget BY <1>0, <1>1 DEF Budget
  <2>3. Forward(b, row) BY <1>1, <1>2, <2>1, <2>2, LedgerAssumption DEF Forward, Budget
  <2> HIDE DEF row
  <2> QED BY <1>0, <2>1, <2>3, RowForward
<1>4. CASE BeginCompletion(x)
  <2> DEFINE row == [b EXCEPT !.phase = "completion"]
  <2>1. budget' = [budget EXCEPT ![x.work] = row] BY <1>4 DEF BeginCompletion
  <2>2. row \in Budget BY <1>1 DEF Budget, Phases
  <2>3. Forward(b, row) BY <1>1, <1>2, <2>2, LedgerAssumption DEF Forward, Budget
  <2> HIDE DEF row
  <2> QED BY <1>0, <2>1, <2>3, RowForward
<1> QED BY <1>3, <1>4

\* cancel, cancelBound, fenceAuthority and markUnknown fence one row.
LEMMA FenceForward ==
  ASSUME LedgerTypeOK, NEW w \in Works, budget[w] # NoBudget,
         \/ budget' = [budget EXCEPT ![w].authority = "fenced"]
         \/ budget' = [budget EXCEPT ![w] = [@ EXCEPT !.cancelled = TRUE, !.authority = "fenced"]]
  PROVE  AllForward
<1>1. budget[w] \in Budget BY DEF LedgerTypeOK
<1> DEFINE row == [budget[w] EXCEPT !.authority = "fenced"]
           stop == [budget[w] EXCEPT !.cancelled = TRUE, !.authority = "fenced"]
<1>2. Forward(budget[w], row) /\ Forward(budget[w], stop) BY <1>1, FencedForward
<1>3. budget' = [budget EXCEPT ![w] = row] \/ budget' = [budget EXCEPT ![w] = stop] OBVIOUS
<1> HIDE DEF row, stop
<1> QED BY <1>2, <1>3, RowForward

\* Every step of the ledger moves every Work forward.
LEMMA StepsForward ==
  ASSUME LedgerTypeOK, [LedgerNext]_ledgerVars
  PROVE  AllForward
<1>1. CASE UNCHANGED budget BY <1>1, UnchangedForward
<1>2. ASSUME NEW w \in Works, NEW g \in Generations, NEW r \in Orders, NEW c \in Ceilings,
             NEW d \in Deadlines, NEW p, CreateBudget(w, g, r, c, d, p)
      PROVE  AllForward
  BY <1>2, CreateBudgetForward
<1>3. ASSUME NEW x \in Binding, BindAuthority(x) \/ BeginCompletion(x) PROVE AllForward
  BY <1>3, BindForward
<1>4. ASSUME NEW w \in Works, Cancel(w) PROVE AllForward
  BY <1>4, FenceForward DEF Cancel
<1>5. ASSUME NEW x \in Binding, FenceAuthority(x) \/ CancelBound(x) PROVE AllForward
  BY <1>4, <1>5, FenceForward DEF FenceAuthority, CancelBound, MatchesCurrent, Binding
<1>6. ASSUME NEW o \in OpIds, MarkUnknown(o) PROVE AllForward
  <2>1. op[o].binding.work \in Works /\ budget[op[o].binding.work] # NoBudget
    BY <1>6, RowTyped DEF MarkUnknown, LedgerTypeOK
  <2> QED BY <1>6, <2>1, FenceForward DEF MarkUnknown
<1>7. CASE RecoverUnknown
  <2> SUFFICES ASSUME NEW w \in Works, budget[w] # NoBudget PROVE Forward(budget[w], budget'[w])
    BY DEF AllForward
  <2>1. budget[w] \in Budget BY DEF LedgerTypeOK
  <2>2. budget'[w] = budget[w] \/ budget'[w] = [budget[w] EXCEPT !.authority = "fenced"]
    BY <1>7 DEF RecoverUnknown
  <2> QED BY <2>1, <2>2, FencedForward, ForwardReflexive
<1>8. ASSUME NEW o \in OpIds,
             \/ \E x \in Binding, c \in Cards, ph \in Phases : \E amount : Reserve(o, x, c, amount, ph)
             \/ MarkDispatched(o) \/ ReleaseUndispatched(o)
             \/ \E r \in Receipts : \E a : Settle(o, a, r)
      PROVE  AllForward
  BY <1>1, <1>8 DEF Reserve, MarkDispatched, ReleaseUndispatched, Settle
<1>9. CASE Tick \/ UNCHANGED ledgerVars BY <1>1, <1>9 DEF Tick, ledgerVars
<1>10. CASE LedgerNext
  BY <1>2, <1>3, <1>4, <1>5, <1>6, <1>7, <1>8, <1>9, <1>10 DEF LedgerNext
<1> QED BY <1>9, <1>10

\* The history of a Work only moves forward, whoever calls what in which order: ceiling and
\* plan are immutable, a cancellation and a fence are never lifted, a generation never
\* returns and its writer is bound once.
THEOREM AuthorityMovesForward == LedgerSpec => AuthorityOneWay
<1>1. LedgerTypeOK /\ [LedgerNext]_ledgerVars => AllForward
  BY StepsForward
<1>2. AllForward => \A w \in Works : budget[w] # NoBudget =>
       LET b == budget[w]  c == budget'[w] IN
       /\ c # NoBudget /\ c.ceiling = b.ceiling /\ c.plan = b.plan
       /\ b.cancelled => c.cancelled /\ c.generation = b.generation
       /\ c.generation >= b.generation
       /\ c.generation = b.generation =>
            /\ b.authority = "fenced" => c.authority = "fenced"
            /\ b.writer # NoWriter => c.writer = b.writer
            /\ c.order = b.order /\ c.deadline = b.deadline
            /\ b.phase = "completion" => c.phase = "completion"
  BY DEF AllForward, Forward
<1> QED BY <1>1, <1>2, LedgerTyping, PTL DEF LedgerSpec, AuthorityOneWay
-----------------------------------------------------------------------------
(* The history of an operation. *)

\* What an operation row may become in one step, or stay.
Retained(b, c) ==
  /\ c # NoOp /\ c.binding = b.binding /\ c.phase = b.phase
  /\ b.state \in Final => c = b
  /\ c.state = "reserved" => b.state = "reserved"
  /\ Exposure(c) < Exposure(b) =>
       \/ b.state = "reserved" /\ c.state = "released"
       \/ c.state = "settled" /\ c.receipt # NoReceipt

AllRetained == \A o \in OpIds : Exists(o) => Retained(op[o], op'[o])

\* The exposure of a row is a number, so it is not less than itself.
LEMMA ExposureTyped ==
  ASSUME NEW b \in Operation PROVE Exposure(b) \in Nat
BY DEF Operation, Exposure

LEMMA RetainedReflexive ==
  ASSUME NEW b \in Operation PROVE Retained(b, b)
<1>1. ~(Exposure(b) < Exposure(b)) BY ExposureTyped
<1>2. b # NoOp BY LedgerAssumption
<1> QED BY <1>1, <1>2 DEF Retained

\* The four moves of a row: dispatch, release before it, retention and settlement.
LEMMA RowRetained ==
  ASSUME NEW b \in Operation
  PROVE  /\ b.state = "reserved" => Retained(b, [b EXCEPT !.state = "dispatched"])
         /\ b.state = "reserved" => Retained(b, [b EXCEPT !.state = "released"])
         /\ b.state \notin Final => Retained(b, [b EXCEPT !.state = "unknown"])
         /\ \A a \in Nat, r \in Receipts : b.state \in {"dispatched", "unknown"} =>
              Retained(b, [b EXCEPT !.actual = a, !.receipt = r, !.state = "settled"])
<1>1. ASSUME b.state = "reserved" PROVE Retained(b, [b EXCEPT !.state = "dispatched"])
  <2> DEFINE c == [b EXCEPT !.state = "dispatched"]
  <2>1. c \in Operation BY DEF Operation, Unresolved
  <2>2. c # NoOp BY <2>1, LedgerAssumption
  <2>3. c.binding = b.binding /\ c.phase = b.phase /\ c.state = "dispatched" /\ c.reserved = b.reserved
    BY DEF Operation
  <2>4. Exposure(c) = b.reserved /\ Exposure(b) = b.reserved BY <1>1, <2>3 DEF Exposure
  <2>5. b.reserved \in Nat BY DEF Operation
  <2> HIDE DEF c
  <2>6. Retained(b, c) BY <1>1, <2>2, <2>3, <2>4, <2>5 DEF Retained, Final
  <2> QED BY <2>6 DEF c
<1>2. ASSUME b.state = "reserved" PROVE Retained(b, [b EXCEPT !.state = "released"])
  <2> DEFINE c == [b EXCEPT !.state = "released"]
  <2>1. c \in Operation BY DEF Operation, Final
  <2>2. c # NoOp BY <2>1, LedgerAssumption
  <2>3. c.binding = b.binding /\ c.phase = b.phase /\ c.state = "released" BY DEF Operation
  <2> HIDE DEF c
  <2>4. Retained(b, c) BY <1>2, <2>2, <2>3 DEF Retained, Final
  <2> QED BY <2>4 DEF c
<1>3. ASSUME b.state \notin Final PROVE Retained(b, [b EXCEPT !.state = "unknown"])
  <2> DEFINE c == [b EXCEPT !.state = "unknown"]
  <2>1. c \in Operation BY DEF Operation, Unresolved
  <2>2. c # NoOp BY <2>1, LedgerAssumption
  <2>3. c.binding = b.binding /\ c.phase = b.phase /\ c.state = "unknown" /\ c.reserved = b.reserved
    BY DEF Operation
  <2>4. Exposure(c) = b.reserved /\ Exposure(b) = b.reserved BY <1>3, <2>3 DEF Exposure, Final
  <2>5. b.reserved \in Nat BY DEF Operation
  <2> HIDE DEF c
  <2>6. Retained(b, c) BY <1>3, <2>2, <2>3, <2>4, <2>5 DEF Retained
  <2> QED BY <2>6 DEF c
<1>4. ASSUME NEW a \in Nat, NEW r \in Receipts, b.state \in {"dispatched", "unknown"}
      PROVE  Retained(b, [b EXCEPT !.actual = a, !.receipt = r, !.state = "settled"])
  <2> DEFINE c == [b EXCEPT !.actual = a, !.receipt = r, !.state = "settled"]
  <2>1. c \in Operation BY DEF Operation, Final
  <2>2. c # NoOp /\ r # NoReceipt BY <2>1, LedgerAssumption
  <2>3. c.binding = b.binding /\ c.phase = b.phase /\ c.state = "settled" /\ c.receipt = r
    BY DEF Operation
  <2> HIDE DEF c
  <2>4. Retained(b, c) BY <1>4, <2>2, <2>3 DEF Retained, Final
  <2> QED BY <2>4 DEF c
<1> QED BY <1>1, <1>2, <1>3, <1>4

\* A step that writes one operation, which is new or retained, retains every operation.
LEMMA OneRowRetained ==
  ASSUME LedgerTypeOK, NEW o \in OpIds, NEW row,
         op' = [op EXCEPT ![o] = row], Exists(o) => Retained(op[o], row)
  PROVE  AllRetained
<1>1. \A q \in OpIds : op'[q] = IF q = o THEN row ELSE op[q] BY DEF LedgerTypeOK
<1>2. \A q \in OpIds : Exists(q) => Retained(op[q], op[q]) BY RowTyped, RetainedReflexive
<1> QED BY <1>1, <1>2 DEF AllRetained

LEMMA UnchangedRetained ==
  ASSUME LedgerTypeOK, UNCHANGED op PROVE AllRetained
BY RowTyped, RetainedReflexive DEF AllRetained

\* Every method of the ledger that moves an operation retains it.
LEMMA OperationRetained ==
  ASSUME LedgerTypeOK, NEW o \in OpIds,
         \/ MarkDispatched(o) \/ ReleaseUndispatched(o) \/ MarkUnknown(o)
         \/ \E r \in Receipts : \E a \in 0..(op[o].reserved + 1) : Settle(o, a, r)
  PROVE  AllRetained
<1>0. Exists(o) BY DEF MarkDispatched, ReleaseUndispatched, MarkUnknown, Settle
<1>1. op[o] \in Operation BY <1>0, RowTyped
<1>2. CASE MarkDispatched(o)
  <2>1. op[o].state = "reserved" /\ op' = [op EXCEPT ![o] = [op[o] EXCEPT !.state = "dispatched"]]
    BY <1>2 DEF MarkDispatched
  <2>2. Retained(op[o], [op[o] EXCEPT !.state = "dispatched"]) BY <1>1, <2>1, RowRetained
  <2> QED BY <2>1, <2>2, OneRowRetained
<1>3. CASE ReleaseUndispatched(o)
  <2>1. op[o].state = "reserved" /\ op' = [op EXCEPT ![o] = [op[o] EXCEPT !.state = "released"]]
    BY <1>3 DEF ReleaseUndispatched
  <2>2. Retained(op[o], [op[o] EXCEPT !.state = "released"]) BY <1>1, <2>1, RowRetained
  <2> QED BY <2>1, <2>2, OneRowRetained
<1>4. CASE MarkUnknown(o)
  <2>1. op[o].state \notin Final /\ op' = [op EXCEPT ![o] = [op[o] EXCEPT !.state = "unknown"]]
    BY <1>4 DEF MarkUnknown
  <2>2. Retained(op[o], [op[o] EXCEPT !.state = "unknown"]) BY <1>1, <2>1, RowRetained
  <2> QED BY <2>1, <2>2, OneRowRetained
<1>5. ASSUME NEW r \in Receipts, NEW a \in 0..(op[o].reserved + 1), Settle(o, a, r)
      PROVE  AllRetained
  <2> DEFINE row == [op[o] EXCEPT !.actual = a, !.receipt = r, !.state = "settled"]
  <2>1. op[o].state \in {"dispatched", "unknown"} /\ op' = [op EXCEPT ![o] = row]
    BY <1>5 DEF Settle
  <2>2. a \in Nat BY <1>1 DEF Operation
  <2>3. Retained(op[o], row) BY <1>1, <2>1, <2>2, RowRetained
  <2> HIDE DEF row
  <2> QED BY <2>1, <2>3, OneRowRetained
<1> QED BY <1>2, <1>3, <1>4, <1>5

\* Every step of the ledger retains every operation.
LEMMA StepsRetained ==
  ASSUME LedgerTypeOK, [LedgerNext]_ledgerVars
  PROVE  AllRetained
<1>1. UNCHANGED op => AllRetained BY UnchangedRetained
<1>2. ASSUME NEW o \in OpIds, NEW x \in Binding, NEW c \in Cards, NEW ph \in Phases, NEW amount,
             Reserve(o, x, c, amount, ph)
      PROVE  AllRetained
  <2> DEFINE row == [binding |-> x, card |-> c, reserved |-> amount, phase |-> ph, actual |-> 0,
                     receipt |-> NoReceipt, state |-> "reserved"]
  <2>1. ~Exists(o) /\ op' = [op EXCEPT ![o] = row] BY <1>2 DEF Reserve
  <2> HIDE DEF row
  <2> QED BY <2>1, OneRowRetained
<1>3. CASE RecoverUnknown
  <2> SUFFICES ASSUME NEW o \in OpIds, Exists(o) PROVE Retained(op[o], op'[o])
    BY DEF AllRetained
  <2>1. op[o] \in Operation BY RowTyped
  <2>2. \/ op'[o] = op[o]
        \/ op[o].state \in Unresolved /\ op'[o] = [op[o] EXCEPT !.state = "unknown"]
    BY <1>3 DEF RecoverUnknown
  <2>3. op[o].state \in Unresolved => op[o].state \notin Final BY DEF Unresolved, Final
  <2>4. CASE op'[o] = op[o] BY <2>1, <2>4, RetainedReflexive
  <2>5. CASE op[o].state \in Unresolved /\ op'[o] = [op[o] EXCEPT !.state = "unknown"]
    BY <2>1, <2>3, <2>5, RowRetained
  <2> QED BY <2>2, <2>4, <2>5
<1>4. ASSUME NEW w \in Works, NEW g \in Generations, NEW r \in Orders, NEW c \in Ceilings,
             NEW d \in Deadlines, NEW p, CreateBudget(w, g, r, c, d, p)
      PROVE  AllRetained
  BY <1>1, <1>4 DEF CreateBudget
<1>5. ASSUME NEW x \in Binding,
             BindAuthority(x) \/ BeginCompletion(x) \/ FenceAuthority(x) \/ CancelBound(x)
      PROVE  AllRetained
  BY <1>1, <1>5 DEF BindAuthority, BeginCompletion, FenceAuthority, CancelBound, Cancel
<1>6. ASSUME NEW w \in Works, Cancel(w) PROVE AllRetained BY <1>1, <1>6 DEF Cancel
<1>7. CASE Tick \/ UNCHANGED ledgerVars BY <1>1, <1>7 DEF Tick, ledgerVars
<1>8. CASE LedgerNext
  BY <1>2, <1>3, <1>4, <1>5, <1>6, <1>7, <1>8, OperationRetained DEF LedgerNext
<1> QED BY <1>7, <1>8

\* An operation row is never deleted or reopened, and its exposure shrinks only by a
\* release before dispatch or a settlement with a receipt (settle, releaseUndispatched,
\* markUnknown, recoverUnknown).
THEOREM OperationsRetained == LedgerSpec => ExposureRetained
<1>1. LedgerTypeOK /\ [LedgerNext]_ledgerVars => AllRetained
  BY StepsRetained
<1>2. AllRetained => \A o \in OpIds : Exists(o) =>
       /\ op'[o] # NoOp /\ op'[o].binding = op[o].binding /\ op'[o].phase = op[o].phase
       /\ op[o].state \in Final => op'[o] = op[o]
       /\ op'[o].state = "reserved" => op[o].state = "reserved"
       /\ Exposure(op'[o]) < Exposure(op[o]) =>
            \/ op[o].state = "reserved" /\ op'[o].state = "released"
            \/ op'[o].state = "settled" /\ op'[o].receipt # NoReceipt
  BY DEF AllRetained, Retained
<1> QED BY <1>1, <1>2, LedgerTyping, PTL DEF LedgerSpec, ExposureRetained
-----------------------------------------------------------------------------
(* Sums over finite sets.  The library's induction theorems take an operator; what they  *)
(* rest on, that strict inclusion is well-founded on a finite set, does not.             *)

\* The sum of f over a finite set, and the element its definition takes first.
SumOver(f, S) == MapThenSumSet(LAMBDA x : f[x], S)
Pick(s)       == CHOOSE x \in s : TRUE

\* The function a sum over the subsets of T unrolls through.
Unrolls(f, T, g) ==
  g = [s \in SUBSET T |-> IF s = {} THEN 0 ELSE f[Pick(s)] + g[s \ {Pick(s)}]]

LEMMA SumIsUnrolled ==
  ASSUME NEW f, NEW S
  PROVE  SumOver(f, S) = (CHOOSE g : Unrolls(f, S, g))[S]
BY DEF SumOver, MapThenSumSet, MapThenFoldSet, Pick, Unrolls

LEMMA Picked == ASSUME NEW s, s # {} PROVE Pick(s) \in s
BY DEF Pick

\* Induction over a finite set: whatever fails for a subset fails for a least one.
LEMMA LeastSubset ==
  ASSUME NEW S, IsFiniteSet(S), NEW B \in SUBSET SUBSET S, B # {}
  PROVE  \E s \in B : \A t \in B : t \subseteq s => t = s
<1>1. FiniteSubsetsOf(S) = SUBSET S
  BY FS_Subset DEF FiniteSubsetsOf
<1>2. IsWellFoundedOn(StrictSubsetOrdering(S), SUBSET S)
  BY <1>1, FS_StrictSubsetOrderingWellFounded
<1>3. PICK s \in B : \A t \in B : <<t, s>> \notin StrictSubsetOrdering(S)
  BY <1>2, WFMin
<1>4. \A t \in B : t \subseteq s => t = s
  BY <1>3 DEF StrictSubsetOrdering
<1> QED BY <1>4

LEMMA UnrollUnique ==
  ASSUME NEW f, NEW T, IsFiniteSet(T), NEW U \in SUBSET T, NEW g, NEW h,
         Unrolls(f, T, g), Unrolls(f, U, h)
  PROVE  g[U] = h[U]
<1> DEFINE B == {s \in SUBSET U : g[s] # h[s]}
<1>1. SUFFICES ASSUME B # {} PROVE FALSE
  OBVIOUS
<1>2. B \in SUBSET SUBSET T OBVIOUS
<1>3. PICK s \in B : \A t \in B : t \subseteq s => t = s
  <2> HIDE DEF B
  <2> QED BY <1>1, <1>2, LeastSubset
<1>4. /\ g[s] = IF s = {} THEN 0 ELSE f[Pick(s)] + g[s \ {Pick(s)}]
      /\ h[s] = IF s = {} THEN 0 ELSE f[Pick(s)] + h[s \ {Pick(s)}]
  BY <1>3 DEF Unrolls
<1>5. s # {} /\ s \ {Pick(s)} \in SUBSET U /\ s \ {Pick(s)} # s
  BY <1>3, <1>4, Picked
<1>6. g[s \ {Pick(s)}] = h[s \ {Pick(s)}]
  BY <1>3, <1>5
<1> QED BY <1>3, <1>4, <1>5, <1>6

LEMMA UnrollExists ==
  ASSUME NEW f, NEW S, IsFiniteSet(S)
  PROVE  \A T \in SUBSET S : \E g : Unrolls(f, T, g)
<1> DEFINE B == {T \in SUBSET S : ~ \E g : Unrolls(f, T, g)}
<1>1. SUFFICES ASSUME B # {} PROVE FALSE
  OBVIOUS
<1>2. B \in SUBSET SUBSET S OBVIOUS
<1>3. PICK T \in B : \A t \in B : t \subseteq T => t = T
  <2> HIDE DEF B
  <2> QED BY <1>1, <1>2, LeastSubset
<1> DEFINE H(t) == CHOOSE h : Unrolls(f, t, h)
           rest(s) == s \ {Pick(s)}
           g == [s \in SUBSET T |-> IF s = {} THEN 0 ELSE f[Pick(s)] + H(rest(s))[rest(s)]]
<1>4. ASSUME NEW t \in SUBSET T, t # T PROVE Unrolls(f, t, H(t))
  <2>1. \E h : Unrolls(f, t, h) BY <1>3, <1>4
  <2> QED BY <2>1
<1>5. ASSUME NEW s \in SUBSET T, s # {} PROVE rest(s) \in SUBSET T /\ rest(s) # T /\ rest(s) \in SUBSET s
  BY <1>5, Picked
<1> HIDE DEF H
<1>6. ASSUME NEW t \in SUBSET T, t # T PROVE g[t] = H(t)[t]
  <2>1. H(t)[t] = IF t = {} THEN 0 ELSE f[Pick(t)] + H(t)[rest(t)]
    BY <1>4, <1>6 DEF Unrolls
  <2>2. CASE t = {} BY <2>1, <2>2
  <2>3. CASE t # {}
    <3>1. Unrolls(f, t, H(t)) /\ Unrolls(f, rest(t), H(rest(t)))
      BY <1>4, <1>5, <1>6, <2>3
    <3>2. IsFiniteSet(t) /\ rest(t) \in SUBSET t
      BY <1>3, <1>5, <2>3, FS_Subset
    <3>3. H(t)[rest(t)] = H(rest(t))[rest(t)]
      <4> HIDE DEF rest
      <4> QED BY <3>1, <3>2, UnrollUnique
    <3> QED BY <2>1, <2>3, <3>3
  <2> QED BY <2>2, <2>3
<1>7. \A s \in SUBSET T : s # {} => g[rest(s)] = H(rest(s))[rest(s)]
  BY <1>5, <1>6
<1>8. g = [s \in SUBSET T |-> IF s = {} THEN 0 ELSE f[Pick(s)] + g[rest(s)]]
  <2>1. \A s \in SUBSET T : (IF s = {} THEN 0 ELSE f[Pick(s)] + H(rest(s))[rest(s)])
                              = (IF s = {} THEN 0 ELSE f[Pick(s)] + g[rest(s)])
    BY <1>7
  <2> QED BY <2>1
<1>9. Unrolls(f, T, g) BY <1>8 DEF Unrolls
<1> QED BY <1>3, <1>9

\* One unfolding of a sum.
LEMMA SumUnfolds ==
  ASSUME NEW f, NEW S, IsFiniteSet(S)
  PROVE  SumOver(f, S) = IF S = {} THEN 0 ELSE f[Pick(S)] + SumOver(f, S \ {Pick(S)})
<1> DEFINE g == CHOOSE h : Unrolls(f, S, h)
           R == S \ {Pick(S)}
           k == CHOOSE h : Unrolls(f, R, h)
<1>1. \A T \in SUBSET S : \E h : Unrolls(f, T, h)
  BY UnrollExists
<1>2. Unrolls(f, S, g) /\ Unrolls(f, R, k)
  BY <1>1
<1>3. SumOver(f, S) = g[S] /\ SumOver(f, R) = k[R]
  BY SumIsUnrolled
<1> HIDE DEF g, k
<1>4. g[S] = IF S = {} THEN 0 ELSE f[Pick(S)] + g[R]
  BY <1>2 DEF Unrolls
<1>5. g[R] = k[R]
  <2>1. R \in SUBSET S OBVIOUS
  <2> HIDE DEF R
  <2> QED BY <1>2, <2>1, UnrollUnique
<1> QED BY <1>3, <1>4, <1>5

LEMMA SumTyped ==
  ASSUME NEW D, IsFiniteSet(D), NEW f \in [D -> Nat], NEW S \in SUBSET D
  PROVE  SumOver(f, S) \in Nat
<1> DEFINE B == {s \in SUBSET D : SumOver(f, s) \notin Nat}
<1>1. SUFFICES ASSUME B # {} PROVE FALSE
  OBVIOUS
<1>2. PICK s \in B : \A t \in B : t \subseteq s => t = s
  <2>1. B \in SUBSET SUBSET D OBVIOUS
  <2> HIDE DEF B
  <2> QED BY <1>1, <2>1, LeastSubset
<1>3. IsFiniteSet(s) BY FS_Subset
<1>4. SumOver(f, s) = IF s = {} THEN 0 ELSE f[Pick(s)] + SumOver(f, s \ {Pick(s)})
  BY <1>3, SumUnfolds
<1>5. s # {} => Pick(s) \in D /\ SumOver(f, s \ {Pick(s)}) \in Nat
  BY <1>2, Picked
<1> QED BY <1>2, <1>4, <1>5

\* An element of the set may be taken out, whichever it is.
LEMMA SumRemove ==
  ASSUME NEW D, IsFiniteSet(D), NEW f \in [D -> Nat], NEW S \in SUBSET D, NEW x \in S
  PROVE  SumOver(f, S) = f[x] + SumOver(f, S \ {x})
<1> DEFINE B == {s \in SUBSET D : \E y \in s : SumOver(f, s) # f[y] + SumOver(f, s \ {y})}
<1>1. SUFFICES ASSUME B # {} PROVE FALSE
  OBVIOUS
<1>2. PICK s \in B : \A t \in B : t \subseteq s => t = s
  <2>1. B \in SUBSET SUBSET D OBVIOUS
  <2> HIDE DEF B
  <2> QED BY <1>1, <2>1, LeastSubset
<1>3. PICK y \in s : SumOver(f, s) # f[y] + SumOver(f, s \ {y})
  OBVIOUS
<1> DEFINE p == Pick(s)
<1>4. p \in s BY <1>3, Picked
<1>5. SumOver(f, s) = f[p] + SumOver(f, s \ {p})
  BY <1>4, FS_Subset, SumUnfolds
<1>6. y # p BY <1>3, <1>5
<1> HIDE DEF p
<1>0. ASSUME NEW u \in s, NEW v \in s \ {u}
      PROVE  SumOver(f, s \ {u}) = f[v] + SumOver(f, (s \ {u}) \ {v})
  <2> DEFINE t == s \ {u}
  <2>1. t \subseteq s /\ t # s /\ t \in SUBSET D /\ v \in t BY <1>2
  <2>2. t \notin B BY <1>2, <2>1
  <2> HIDE DEF t
  <2>3. SumOver(f, t) = f[v] + SumOver(f, t \ {v}) BY <2>1, <2>2
  <2> QED BY <2>3 DEF t
<1>7. SumOver(f, s \ {p}) = f[y] + SumOver(f, (s \ {p}) \ {y})
  BY <1>0, <1>4, <1>6
<1>8. SumOver(f, s \ {y}) = f[p] + SumOver(f, (s \ {y}) \ {p})
  BY <1>0, <1>4, <1>6
<1>9. (s \ {p}) \ {y} = (s \ {y}) \ {p} OBVIOUS
<1>10. SumOver(f, (s \ {y}) \ {p}) \in Nat /\ f[p] \in Nat /\ f[y] \in Nat
  BY <1>4, SumTyped
<1> QED BY <1>3, <1>5, <1>7, <1>8, <1>9, <1>10

LEMMA SumAdd ==
  ASSUME NEW D, IsFiniteSet(D), NEW f \in [D -> Nat], NEW S \in SUBSET D, NEW x \in D, x \notin S
  PROVE  SumOver(f, S \cup {x}) = f[x] + SumOver(f, S)
<1>1. (S \cup {x}) \ {x} = S OBVIOUS
<1> QED BY <1>1, SumRemove

\* A sum grows with its terms ...
LEMMA SumMonotone ==
  ASSUME NEW D, IsFiniteSet(D), NEW f \in [D -> Nat], NEW g \in [D -> Nat], NEW S \in SUBSET D,
         \A x \in S : f[x] <= g[x]
  PROVE  SumOver(f, S) <= SumOver(g, S)
<1> DEFINE B == {s \in SUBSET S : ~(SumOver(f, s) <= SumOver(g, s))}
<1>1. SUFFICES ASSUME B # {} PROVE FALSE
  OBVIOUS
<1>2. PICK s \in B : \A t \in B : t \subseteq s => t = s
  <2>1. B \in SUBSET SUBSET D OBVIOUS
  <2> HIDE DEF B
  <2> QED BY <1>1, <2>1, LeastSubset
<1>3. IsFiniteSet(s) BY FS_Subset
<1> DEFINE p == Pick(s)
<1>4. /\ SumOver(f, s) = IF s = {} THEN 0 ELSE f[p] + SumOver(f, s \ {p})
      /\ SumOver(g, s) = IF s = {} THEN 0 ELSE g[p] + SumOver(g, s \ {p})
  BY <1>3, SumUnfolds
<1>5. s # {} BY <1>2, <1>4
<1>6. p \in s BY <1>5, Picked
<1> HIDE DEF p
<1>7. SumOver(f, s \ {p}) <= SumOver(g, s \ {p}) BY <1>2, <1>6
<1>8. /\ SumOver(f, s \ {p}) \in Nat /\ SumOver(g, s \ {p}) \in Nat
      /\ f[p] \in Nat /\ g[p] \in Nat /\ f[p] <= g[p]
  BY <1>6, SumTyped
<1> QED BY <1>2, <1>4, <1>5, <1>7, <1>8

\* ... and with its set.
LEMMA SumSubset ==
  ASSUME NEW D, IsFiniteSet(D), NEW f \in [D -> Nat], NEW S \in SUBSET D, NEW T \in SUBSET S
  PROVE  SumOver(f, T) <= SumOver(f, S)
<1> DEFINE B == {s \in SUBSET D : \E t \in SUBSET s : ~(SumOver(f, t) <= SumOver(f, s))}
<1>1. SUFFICES ASSUME B # {} PROVE FALSE
  OBVIOUS
<1>2. PICK s \in B : \A t \in B : t \subseteq s => t = s
  <2>1. B \in SUBSET SUBSET D OBVIOUS
  <2> HIDE DEF B
  <2> QED BY <1>1, <2>1, LeastSubset
<1>3. PICK t \in SUBSET s : ~(SumOver(f, t) <= SumOver(f, s)) OBVIOUS
<1>4. SumOver(f, t) \in Nat /\ SumOver(f, s) \in Nat BY SumTyped
<1>5. PICK x \in s : x \notin t BY <1>3, <1>4
<1>6. SumOver(f, t) <= SumOver(f, s \ {x}) BY <1>2, <1>5
<1>7. SumOver(f, s) = f[x] + SumOver(f, s \ {x}) BY SumRemove
<1>8. f[x] \in Nat /\ SumOver(f, s \ {x}) \in Nat BY SumTyped
<1> QED BY <1>3, <1>4, <1>6, <1>7, <1>8

LEMMA SumEqual ==
  ASSUME NEW D, IsFiniteSet(D), NEW f \in [D -> Nat], NEW g \in [D -> Nat], NEW S \in SUBSET D,
         \A x \in S : f[x] = g[x]
  PROVE  SumOver(f, S) = SumOver(g, S)
<1>1. SumOver(f, S) <= SumOver(g, S) /\ SumOver(g, S) <= SumOver(f, S)
  BY SumMonotone
<1>2. SumOver(f, S) \in Nat /\ SumOver(g, S) \in Nat BY SumTyped
<1> QED BY <1>1, <1>2
-----------------------------------------------------------------------------
(* What a Work may still be charged. *)

\* The exposure of every row of a table, 0 where there is none, and the sum the ledger takes.
Held(rows)       == [o \in OpIds |-> IF rows[o] # NoOp THEN Exposure(rows[o]) ELSE 0]
TotalOf(rows, S) == MapThenSumSet(LAMBDA o : Exposure(rows[o]), S)

\* The total the ledger takes over rows that exist is a sum in the sense above.
LEMMA TotalIsSum ==
  ASSUME NEW rows, NEW S \in SUBSET OpIds, \A o \in S : rows[o] # NoOp
  PROVE  TotalOf(rows, S) = SumOver(Held(rows), S)
<1> DEFINE f == Held(rows)
           P(h) == h = [s \in SUBSET S |-> IF s = {} THEN 0 ELSE Exposure(rows[Pick(s)]) + h[s \ {Pick(s)}]]
           g == CHOOSE h : P(h)
           k == CHOOSE h : Unrolls(f, S, h)
<1>1. TotalOf(rows, S) = g[S]
  BY DEF TotalOf, MapThenSumSet, MapThenFoldSet, Pick
<1>2. SumOver(f, S) = k[S]
  BY SumIsUnrolled
<1>3. \A s \in SUBSET S : s # {} => f[Pick(s)] = Exposure(rows[Pick(s)])
  BY Picked DEF Held
<1>4. IsFiniteSet(S) BY LedgerAssumption, FS_Subset
<1>5. Unrolls(f, S, k)
  BY <1>4, UnrollExists
<1> HIDE DEF k, f
<1>6. P(k)
  BY <1>3, <1>5 DEF Unrolls
<1>7. P(g)
  BY <1>6
<1> HIDE DEF g
<1>8. Unrolls(f, S, g)
  BY <1>3, <1>7 DEF Unrolls
<1>9. g[S] = k[S]
  BY <1>4, <1>5, <1>8, UnrollUnique
<1> QED BY <1>1, <1>2, <1>9 DEF f

LEMMA HeldTyped ==
  ASSUME NEW rows \in [OpIds -> Operation \cup {NoOp}]
  PROVE  Held(rows) \in [OpIds -> Nat]
BY ExposureTyped DEF Held

LEMMA TotalsAreSums ==
  ASSUME NEW w, NEW ph
  PROVE  /\ TotalExposure(OpsOf(w)) = SumOver(Held(op), OpsOf(w))
         /\ TotalExposure(OpsIn(w, ph)) = SumOver(Held(op), OpsIn(w, ph))
         /\ TotalExposure(OpsOf(w))' = SumOver(Held(op'), OpsOf(w)')
         /\ TotalExposure(OpsIn(w, ph))' = SumOver(Held(op'), OpsIn(w, ph)')
<1>1. /\ TotalExposure(OpsOf(w)) = TotalOf(op, OpsOf(w))
      /\ TotalExposure(OpsIn(w, ph)) = TotalOf(op, OpsIn(w, ph))
  BY DEF TotalExposure, TotalOf, MapThenSumSet, MapThenFoldSet
<1>2. TotalExposure(OpsOf(w))' = TotalOf(op', OpsOf(w)')
  BY DEF TotalExposure, TotalOf, MapThenSumSet, MapThenFoldSet
<1>3. TotalExposure(OpsIn(w, ph))' = TotalOf(op', OpsIn(w, ph)')
  BY DEF TotalExposure, TotalOf, MapThenSumSet, MapThenFoldSet
<1>4. /\ OpsOf(w) \in SUBSET OpIds /\ OpsIn(w, ph) \in SUBSET OpIds
      /\ \A o \in OpsOf(w) : op[o] # NoOp
      /\ \A o \in OpsIn(w, ph) : op[o] # NoOp
  BY DEF OpsOf, OpsIn, Exists
<1>5. /\ OpsOf(w)' \in SUBSET OpIds /\ OpsIn(w, ph)' \in SUBSET OpIds
      /\ \A o \in OpsOf(w)' : op'[o] # NoOp
      /\ \A o \in OpsIn(w, ph)' : op'[o] # NoOp
  BY DEF OpsOf, OpsIn, Exists
<1> QED BY <1>1, <1>2, <1>3, <1>4, <1>5, TotalIsSum

\* A step that adds no operation and lets no exposure grow holds every ceiling; a Work that
\* opens has no operation yet, and its plan protects no more than its ceiling.
LEMMA BooksShrink ==
  ASSUME LedgerTypeOK, LedgerTypeOK', CeilingHeld, AllForward, AllRetained,
         \A o \in OpIds : Exists(o)' => Exists(o) /\ Exposure(op'[o]) <= Exposure(op[o]),
         \A w \in Works : budget[w] = NoBudget /\ budget'[w] # NoBudget =>
           budget'[w].plan.completionReserve <= budget'[w].ceiling
  PROVE  CeilingHeld'
<1> SUFFICES ASSUME NEW w \in Works, budget'[w] # NoBudget
             PROVE  /\ TotalExposure(OpsOf(w))' <= budget'[w].ceiling
                    /\ \A ph \in Phases : TotalExposure(OpsIn(w, ph))' <= PhaseCap(budget'[w], ph)
  BY DEF CeilingHeld, PhaseCap
<1>1. \A o \in OpIds : /\ Exists(o)' <=> Exists(o)
                       /\ Exists(o) => op'[o].binding = op[o].binding /\ op'[o].phase = op[o].phase
  BY DEF AllRetained, Retained, Exists
<1>2. OpsOf(w)' = OpsOf(w) /\ \A ph : OpsIn(w, ph)' = OpsIn(w, ph)
  BY <1>1 DEF OpsOf, OpsIn
<1>3. Held(op) \in [OpIds -> Nat] /\ Held(op') \in [OpIds -> Nat]
  BY HeldTyped DEF LedgerTypeOK
<1>4. \A o \in OpIds : Held(op')[o] <= Held(op)[o]
  BY <1>1, <1>3 DEF Held, Exists
<1>5. ASSUME NEW S \in SUBSET OpIds
      PROVE  /\ SumOver(Held(op'), S) <= SumOver(Held(op), S)
             /\ SumOver(Held(op'), S) \in Nat /\ SumOver(Held(op), S) \in Nat
  BY <1>3, <1>4, LedgerAssumption, SumMonotone, SumTyped
<1>6. OpsOf(w) \in SUBSET OpIds /\ \A ph : OpsIn(w, ph) \in SUBSET OpIds
  BY DEF OpsOf, OpsIn
<1>7. budget'[w] \in Budget
  BY DEF LedgerTypeOK
<1>8. /\ budget'[w].ceiling \in Nat
      /\ budget'[w].plan.completionReserve \in Nat
  BY <1>7, LedgerAssumption DEF Budget, PlanType
<1>9. CASE budget[w] # NoBudget
  <2>1. budget'[w].ceiling = budget[w].ceiling /\ budget'[w].plan = budget[w].plan
    BY <1>9 DEF AllForward, Forward
  <2>2. SumOver(Held(op), OpsOf(w)) <= budget'[w].ceiling
    BY <1>9, <2>1, TotalsAreSums DEF CeilingHeld
  <2>3. ASSUME NEW ph \in Phases
        PROVE  SumOver(Held(op), OpsIn(w, ph)) <= PhaseCap(budget'[w], ph)
    BY <1>9, <2>1, TotalsAreSums DEF CeilingHeld, PhaseCap
  <2>4. \A ph \in Phases : PhaseCap(budget'[w], ph) \in Int
    BY <1>8 DEF PhaseCap
  <2>5. SumOver(Held(op'), OpsOf(w)') <= budget'[w].ceiling
    BY <1>2, <1>5, <1>6, <1>8, <2>2
  <2>6. ASSUME NEW ph \in Phases
        PROVE  SumOver(Held(op'), OpsIn(w, ph)') <= PhaseCap(budget'[w], ph)
    BY <1>2, <1>5, <1>6, <2>3, <2>4
  <2> QED BY <2>5, <2>6, TotalsAreSums
<1>10. CASE budget[w] = NoBudget
  <2>1. OpsOf(w) = {} /\ \A ph : OpsIn(w, ph) = {}
    BY <1>10 DEF OpsOf, OpsIn, LedgerTypeOK
  <2>2. SumOver(Held(op'), {}) = 0
    BY FS_EmptySet, SumUnfolds
  <2>3. \A ph \in Phases : 0 <= PhaseCap(budget'[w], ph)
    BY <1>8, <1>10 DEF PhaseCap
  <2>4. TotalExposure(OpsOf(w))' = 0 /\ \A ph \in Phases : TotalExposure(OpsIn(w, ph))' = 0
    BY <1>2, <2>1, <2>2, TotalsAreSums
  <2> QED BY <1>8, <2>3, <2>4
<1> QED BY <1>9, <1>10

\* createBudget opens a Work with a plan that protects at most its ceiling: V1 protects
\* nothing, and a V2 plan leaves room for its productive slots.
LEMMA PlanWithinCeiling ==
  ASSUME NEW p \in Plans \cup {V1Plan}, NEW c \in Ceilings, ValidPlan(p, c)
  PROVE  p.completionReserve <= c
<1>1. c \in Nat BY LedgerAssumption
<1>2. CASE p.version = "V2"
  <2>1. p \in PlanType BY LedgerAssumption, V1PlanTyped
  <2>2. p.slots["productive"] \in Nat /\ p.perOp \in Nat /\ p.completionReserve \in Nat
    BY <2>1 DEF PlanType, Phases
  <2>3. p.slots["productive"] * p.perOp \in Nat BY <2>2
  <2>4. p.slots["productive"] * p.perOp <= c - p.completionReserve
    BY <1>2 DEF ValidPlan
  <2> HIDE DEF ValidPlan
  <2> QED BY <1>1, <2>2, <2>3, <2>4
<1>3. CASE p.version # "V2"
  <2>1. p = V1Plan BY <1>3, LedgerAssumption
  <2> QED BY <1>1, <2>1 DEF V1Plan
<1> QED BY <1>2, <1>3

\* Every step but reserve adds no operation and lets no exposure grow.
LEMMA RowFalls ==
  ASSUME LedgerTypeOK, NEW o \in OpIds, NEW row, op[o] # NoOp,
         op' = [op EXCEPT ![o] = row], Exposure(row) <= Exposure(op[o])
  PROVE  \A q \in OpIds : Exists(q)' => Exists(q) /\ Exposure(op'[q]) <= Exposure(op[q])
<1>1. \A q \in OpIds : op'[q] = IF q = o THEN row ELSE op[q] BY DEF LedgerTypeOK
<1>2. \A q \in OpIds : Exists(q) => Exposure(op[q]) \in Nat BY RowTyped, ExposureTyped
<1>3. \A q \in OpIds : Exists(q)' => Exists(q) BY <1>1 DEF Exists
<1>4. \A q \in OpIds : Exists(q) => Exposure(op'[q]) <= Exposure(op[q]) BY <1>1, <1>2
<1> QED BY <1>3, <1>4

LEMMA MovesFall ==
  ASSUME LedgerTypeOK, NEW o \in OpIds,
         \/ MarkDispatched(o) \/ ReleaseUndispatched(o) \/ MarkUnknown(o)
         \/ \E r \in Receipts : \E a \in 0..(op[o].reserved + 1) : Settle(o, a, r)
  PROVE  \A q \in OpIds : Exists(q)' => Exists(q) /\ Exposure(op'[q]) <= Exposure(op[q])
<1>0. op[o] # NoOp BY DEF MarkDispatched, ReleaseUndispatched, MarkUnknown, Settle, Exists
<1>1. op[o] \in Operation BY <1>0, RowTyped DEF Exists
<1> DEFINE b == op[o]
<1>2. b.reserved \in Nat /\ Exposure(b) \in Nat BY <1>1, ExposureTyped DEF Operation
<1>3. CASE MarkDispatched(o)
  <2> DEFINE c == [b EXCEPT !.state = "dispatched"]
  <2>1. op' = [op EXCEPT ![o] = c] /\ b.state = "reserved" BY <1>3 DEF MarkDispatched
  <2>2. c.state = "dispatched" /\ c.reserved = b.reserved BY <1>1 DEF Operation
  <2> HIDE DEF c
  <2>3. Exposure(c) <= Exposure(b) BY <1>2, <2>1, <2>2 DEF Exposure
  <2> QED BY <1>0, <2>1, <2>3, RowFalls
<1>4. CASE ReleaseUndispatched(o)
  <2> DEFINE c == [b EXCEPT !.state = "released"]
  <2>1. op' = [op EXCEPT ![o] = c] BY <1>4 DEF ReleaseUndispatched
  <2>2. c.state = "released" BY <1>1 DEF Operation
  <2> HIDE DEF c
  <2>3. Exposure(c) <= Exposure(b) BY <1>2, <2>2 DEF Exposure
  <2> QED BY <1>0, <2>1, <2>3, RowFalls
<1>5. CASE MarkUnknown(o)
  <2> DEFINE c == [b EXCEPT !.state = "unknown"]
  <2>1. op' = [op EXCEPT ![o] = c] /\ b.state \notin Final BY <1>5 DEF MarkUnknown
  <2>2. c.state = "unknown" /\ c.reserved = b.reserved BY <1>1 DEF Operation
  <2> HIDE DEF c
  <2>3. Exposure(c) <= Exposure(b) BY <1>2, <2>1, <2>2 DEF Exposure, Final
  <2> QED BY <1>0, <2>1, <2>3, RowFalls
<1>6. ASSUME NEW r \in Receipts, NEW a \in 0..(op[o].reserved + 1), Settle(o, a, r)
      PROVE  \A q \in OpIds : Exists(q)' => Exists(q) /\ Exposure(op'[q]) <= Exposure(op[q])
  <2> DEFINE c == [b EXCEPT !.actual = a, !.receipt = r, !.state = "settled"]
  <2>1. op' = [op EXCEPT ![o] = c] /\ b.state \in {"dispatched", "unknown"} /\ a <= b.reserved
    BY <1>6 DEF Settle
  <2>2. c.state = "settled" /\ c.actual = a BY <1>1 DEF Operation
  <2> HIDE DEF c
  <2>3. Exposure(c) <= Exposure(b) BY <1>2, <2>1, <2>2 DEF Exposure
  <2> QED BY <1>0, <2>1, <2>3, RowFalls
<1> QED BY <1>3, <1>4, <1>5, <1>6

LEMMA RecoveryFalls ==
  ASSUME LedgerTypeOK, RecoverUnknown
  PROVE  \A q \in OpIds : Exists(q)' => Exists(q) /\ Exposure(op'[q]) <= Exposure(op[q])
<1> SUFFICES ASSUME NEW q \in OpIds, Exists(q)'
             PROVE  Exists(q) /\ Exposure(op'[q]) <= Exposure(op[q])
  OBVIOUS
<1>1. Exists(q) BY DEF RecoverUnknown, Exists
<1>2. op[q] \in Operation /\ Exposure(op[q]) \in Nat BY <1>1, RowTyped, ExposureTyped
<1>3. CASE op[q].state \in Unresolved
  <2> DEFINE c == [op[q] EXCEPT !.state = "unknown"]
  <2>1. op'[q] = c BY <1>1, <1>3 DEF RecoverUnknown
  <2>2. c.state = "unknown" /\ c.reserved = op[q].reserved BY <1>2 DEF Operation
  <2> HIDE DEF c
  <2>3. Exposure(c) = op[q].reserved BY <2>2 DEF Exposure
  <2>4. Exposure(op[q]) = op[q].reserved BY <1>3 DEF Exposure, Unresolved
  <2> QED BY <1>1, <1>2, <2>1, <2>3, <2>4
<1>4. CASE op[q].state \notin Unresolved
  BY <1>1, <1>2, <1>4 DEF RecoverUnknown
<1> QED BY <1>3, <1>4

\* A sum over a Work's operations, or those of one phase, takes in a reservation.
LEMMA ReservedSum ==
  ASSUME LedgerTypeOK, LedgerTypeOK', NEW o \in OpIds, NEW x \in Binding, NEW c \in Cards, NEW ph \in Phases,
         NEW amount \in Nat, Reserve(o, x, c, amount, ph),
         NEW S \in SUBSET OpIds, \A q \in S : Exists(q)
  PROVE  /\ SumOver(Held(op'), S) = SumOver(Held(op), S)
         /\ SumOver(Held(op'), S \cup {o}) = amount + SumOver(Held(op), S)
         /\ SumOver(Held(op), S) \in Nat
<1>1. Held(op) \in [OpIds -> Nat] /\ Held(op') \in [OpIds -> Nat]
  BY HeldTyped DEF LedgerTypeOK
<1> DEFINE row == [binding |-> x, card |-> c, reserved |-> amount, phase |-> ph, actual |-> 0,
                   receipt |-> NoReceipt, state |-> "reserved"]
<1>2. ~Exists(o) /\ op' = [op EXCEPT ![o] = row]
  BY DEF Reserve
<1>3. row.state = "reserved" /\ row.reserved = amount OBVIOUS
<1>4. row \in Operation
  BY LedgerAssumption DEF Operation, Unresolved
<1> HIDE DEF row
<1>5. Exposure(row) = amount BY <1>3 DEF Exposure
<1>6. row # NoOp BY <1>4, LedgerAssumption
<1>7. op'[o] = row /\ \A q \in OpIds : q # o => op'[q] = op[q]
  BY <1>2 DEF LedgerTypeOK
<1>8. Held(op')[o] = amount BY <1>5, <1>6, <1>7 DEF Held
<1>9. o \notin S BY <1>2
<1>10. \A q \in S : Held(op')[q] = Held(op)[q] BY <1>7, <1>9 DEF Held
<1>11. SumOver(Held(op'), S) = SumOver(Held(op), S)
  BY <1>1, <1>10, LedgerAssumption, SumEqual
<1>12. SumOver(Held(op'), S \cup {o}) = Held(op')[o] + SumOver(Held(op'), S)
  BY <1>1, <1>9, LedgerAssumption, SumAdd
<1>13. SumOver(Held(op), S) \in Nat
  BY <1>1, LedgerAssumption, SumTyped
<1> QED BY <1>8, <1>11, <1>12, <1>13

\* assertReservation leaves room for the amount under the ceiling and in its phase.
LEMMA ReserveBooks ==
  ASSUME LedgerTypeOK, LedgerTypeOK', CeilingHeld,
         NEW o \in OpIds, NEW x \in Binding, NEW c \in Cards, NEW ph \in Phases,
         NEW amount \in Nat, Reserve(o, x, c, amount, ph)
  PROVE  CeilingHeld'
<1> SUFFICES ASSUME NEW w \in Works, budget'[w] # NoBudget
             PROVE  /\ TotalExposure(OpsOf(w))' <= budget'[w].ceiling
                    /\ \A f \in Phases : TotalExposure(OpsIn(w, f))' <= PhaseCap(budget'[w], f)
  BY DEF CeilingHeld, PhaseCap
<1>1. budget' = budget BY DEF Reserve
<1>2. /\ TotalExposure(OpsOf(w)) <= budget[w].ceiling
      /\ \A f \in Phases : TotalExposure(OpsIn(w, f)) <= PhaseCap(budget[w], f)
  BY <1>1 DEF CeilingHeld
<1> DEFINE row == [binding |-> x, card |-> c, reserved |-> amount, phase |-> ph, actual |-> 0,
                   receipt |-> NoReceipt, state |-> "reserved"]
<1>3. ~Exists(o) /\ op' = [op EXCEPT ![o] = row]
  BY DEF Reserve
<1>4. row \in Operation /\ row.binding = x /\ row.phase = ph
  BY LedgerAssumption DEF Operation, Unresolved
<1> HIDE DEF row
<1>5. op'[o] = row /\ row # NoOp /\ \A q \in OpIds : q # o => op'[q] = op[q]
  BY <1>3, <1>4, LedgerAssumption DEF LedgerTypeOK
<1>6. OpsOf(w)' = IF x.work = w THEN OpsOf(w) \cup {o} ELSE OpsOf(w)
  BY <1>3, <1>4, <1>5 DEF OpsOf, Exists
<1>7. \A f : OpsIn(w, f)' = IF x.work = w /\ f = ph THEN OpsIn(w, f) \cup {o} ELSE OpsIn(w, f)
  BY <1>3, <1>4, <1>5 DEF OpsIn, OpsOf, Exists
<1>8. /\ OpsOf(w) \in SUBSET OpIds /\ \A q \in OpsOf(w) : Exists(q)
      /\ \A f : OpsIn(w, f) \in SUBSET OpIds /\ \A q \in OpsIn(w, f) : Exists(q)
  BY DEF OpsOf, OpsIn
<1>9. ASSUME x.work = w
      PROVE  /\ amount <= budget[w].ceiling - TotalExposure(OpsOf(w))
             /\ amount <= PhaseCap(budget[w], ph) - TotalExposure(OpsIn(w, ph))
  BY <1>9 DEF Reserve, Admissible
<1>10. budget[w] \in Budget BY <1>1 DEF LedgerTypeOK
<1>11. /\ budget[w].ceiling \in Int
       /\ \A f \in Phases : PhaseCap(budget[w], f) \in Int
  <2>1. budget[w].ceiling \in Nat BY <1>10, LedgerAssumption DEF Budget
  <2>2. budget[w].plan.completionReserve \in Nat BY <1>10 DEF Budget, PlanType
  <2> QED BY <2>1, <2>2 DEF PhaseCap
<1>12. TotalExposure(OpsOf(w))' <= budget'[w].ceiling
  <2>1. /\ SumOver(Held(op'), OpsOf(w)) = SumOver(Held(op), OpsOf(w))
        /\ SumOver(Held(op'), OpsOf(w) \cup {o}) = amount + SumOver(Held(op), OpsOf(w))
        /\ SumOver(Held(op), OpsOf(w)) \in Nat
    BY <1>8, ReservedSum
  <2>2. /\ TotalExposure(OpsOf(w)) = SumOver(Held(op), OpsOf(w))
        /\ TotalExposure(OpsOf(w))' = SumOver(Held(op'), OpsOf(w)')
    BY TotalsAreSums
  <2> QED BY <1>1, <1>2, <1>6, <1>9, <1>11, <2>1, <2>2
<1>13. ASSUME NEW f \in Phases
       PROVE  TotalExposure(OpsIn(w, f))' <= PhaseCap(budget'[w], f)
  <2>1. /\ SumOver(Held(op'), OpsIn(w, f)) = SumOver(Held(op), OpsIn(w, f))
        /\ SumOver(Held(op'), OpsIn(w, f) \cup {o}) = amount + SumOver(Held(op), OpsIn(w, f))
        /\ SumOver(Held(op), OpsIn(w, f)) \in Nat
    BY <1>8, ReservedSum
  <2>2. /\ TotalExposure(OpsIn(w, f)) = SumOver(Held(op), OpsIn(w, f))
        /\ TotalExposure(OpsIn(w, f))' = SumOver(Held(op'), OpsIn(w, f)')
    BY TotalsAreSums
  <2>3. PhaseCap(budget[w], f) \in Int /\ TotalExposure(OpsIn(w, f)) <= PhaseCap(budget[w], f)
    BY <1>2, <1>11
  <2>4. CASE x.work = w /\ f = ph
    <3>1. amount <= PhaseCap(budget[w], f) - SumOver(Held(op), OpsIn(w, f))
      BY <1>9, <2>2, <2>4
    <3>2. TotalExposure(OpsIn(w, f))' = amount + SumOver(Held(op), OpsIn(w, f))
      BY <1>7, <2>1, <2>2, <2>4
    <3>3. amount + SumOver(Held(op), OpsIn(w, f)) <= PhaseCap(budget[w], f)
      BY <2>1, <2>3, <3>1
    <3> QED BY <1>1, <3>2, <3>3
  <2>5. CASE ~(x.work = w /\ f = ph)
    BY <1>1, <1>7, <2>1, <2>2, <2>3, <2>5
  <2> QED BY <2>4, <2>5
<1> QED BY <1>12, <1>13

LEMMA CreateBudgetBooks ==
  ASSUME LedgerTypeOK, NEW w \in Works, NEW g \in Generations, NEW r \in Orders, NEW c \in Ceilings,
         NEW d \in Deadlines, NEW p \in Plans \cup {V1Plan}, CreateBudget(w, g, r, c, d, p)
  PROVE  \A v \in Works : budget[v] = NoBudget /\ budget'[v] # NoBudget =>
           budget'[v].plan.completionReserve <= budget'[v].ceiling
<1>1. CASE NewBudget(w, g, r, c, d, p)
  <2> DEFINE row == [generation |-> g, order |-> r, ceiling |-> c, deadline |-> d,
                     plan |-> p, cancelled |-> FALSE, writer |-> NoWriter,
                     authority |-> "prepared", phase |-> "productive"]
  <2>1. budget' = [budget EXCEPT ![w] = row] BY <1>1 DEF NewBudget
  <2>2. row.plan = p /\ row.ceiling = c OBVIOUS
  <2>3. p.completionReserve <= c BY PlanWithinCeiling DEF CreateBudget
  <2> HIDE DEF row
  <2> QED BY <2>1, <2>2, <2>3 DEF LedgerTypeOK
<1>2. CASE NextGeneration(w, g, r, c, d, p)
  BY <1>2 DEF NextGeneration, LedgerTypeOK
<1> QED BY <1>1, <1>2 DEF CreateBudget

\* Whatever callers do in whatever order, what a Work has settled and retained stays within
\* its ceiling, and productive operations never reach into the reserve for completion.
THEOREM CeilingHeldAlways == LedgerSpec => []CeilingHeld
<1>1. LedgerInit => CeilingHeld
  BY DEF LedgerInit, CeilingHeld
<1>2. LedgerTypeOK /\ LedgerTypeOK' /\ CeilingHeld /\ [LedgerNext]_ledgerVars => CeilingHeld'
  <2> SUFFICES ASSUME LedgerTypeOK, LedgerTypeOK', CeilingHeld, [LedgerNext]_ledgerVars
               PROVE  CeilingHeld'
    OBVIOUS
  <2> DEFINE Falls == \A q \in OpIds : Exists(q)' => Exists(q) /\ Exposure(op'[q]) <= Exposure(op[q])
             Opens == \A v \in Works : budget[v] = NoBudget /\ budget'[v] # NoBudget =>
                        budget'[v].plan.completionReserve <= budget'[v].ceiling
             NoneOpens == \A v \in Works : budget[v] = NoBudget => budget'[v] = NoBudget
  <2>1. AllForward /\ AllRetained BY StepsForward, StepsRetained
  <2>2. Falls /\ Opens => CeilingHeld' BY <2>1, BooksShrink
  <2>3. NoneOpens => Opens OBVIOUS
  <2>4. UNCHANGED op => Falls
    <3> SUFFICES ASSUME UNCHANGED op, NEW q \in OpIds, Exists(q)
                 PROVE  Exposure(op'[q]) <= Exposure(op[q])
      BY DEF Exists
    <3>1. Exposure(op[q]) \in Nat BY RowTyped, ExposureTyped
    <3> QED BY <3>1
  <2>5. ASSUME NEW w \in Works, NEW g \in Generations, NEW r \in Orders, NEW c \in Ceilings,
               NEW d \in Deadlines, NEW p \in Plans \cup {V1Plan}, CreateBudget(w, g, r, c, d, p)
        PROVE  Falls /\ Opens
    <3>1. Opens BY <2>5, CreateBudgetBooks
    <3> QED BY <2>4, <2>5, <3>1 DEF CreateBudget
  <2>6. ASSUME NEW x \in Binding,
               BindAuthority(x) \/ BeginCompletion(x) \/ FenceAuthority(x) \/ CancelBound(x)
        PROVE  UNCHANGED op /\ NoneOpens
    <3>1. x.work \in Works BY DEF Binding
    <3> QED BY <2>6, <3>1 DEF BindAuthority, BeginCompletion, FenceAuthority, CancelBound, Cancel, LedgerTypeOK,
                CompletionEligible, HoldsAuthority, MatchesCurrent, Payable
  <2>7. ASSUME NEW w \in Works, Cancel(w) PROVE UNCHANGED op /\ NoneOpens
    BY <2>7 DEF Cancel, LedgerTypeOK
  <2>8. ASSUME NEW o \in OpIds, NEW x \in Binding, NEW c \in Cards, NEW ph \in Phases,
               NEW amount \in {p.perOp : p \in Plans}, Reserve(o, x, c, amount, ph)
        PROVE  CeilingHeld'
    <3>1. amount \in Nat BY LedgerAssumption DEF PlanType
    <3> QED BY <2>8, <3>1, ReserveBooks
  <2>9. ASSUME NEW o \in OpIds,
               \/ MarkDispatched(o) \/ ReleaseUndispatched(o) \/ MarkUnknown(o)
               \/ \E r \in Receipts : \E a \in 0..(op[o].reserved + 1) : Settle(o, a, r)
        PROVE  Falls /\ NoneOpens
    <3>1. Falls BY <2>9, MovesFall
    <3>2. Exists(o) BY <2>9 DEF MarkDispatched, ReleaseUndispatched, MarkUnknown, Settle
    <3>3. op[o].binding.work \in Works /\ budget[op[o].binding.work] # NoBudget
      BY <3>2, RowTyped DEF LedgerTypeOK
    <3>4. \/ budget' = budget
          \/ budget' = [budget EXCEPT ![op[o].binding.work].authority = "fenced"]
      BY <2>9 DEF MarkDispatched, ReleaseUndispatched, MarkUnknown, Settle
    <3>5. NoneOpens BY <3>3, <3>4 DEF LedgerTypeOK
    <3> QED BY <3>1, <3>5
  <2>10. CASE RecoverUnknown
    <3>1. Falls BY <2>10, RecoveryFalls
    <3>2. NoneOpens BY <2>10, RecoverKeeps
    <3> QED BY <2>2, <2>3, <3>1, <3>2
  <2>11. CASE Tick \/ UNCHANGED ledgerVars
    <3>1. UNCHANGED op /\ NoneOpens BY <2>11 DEF Tick, ledgerVars
    <3> QED BY <2>2, <2>3, <2>4, <3>1
  <2> HIDE DEF Falls, Opens, NoneOpens
  <2>12. CASE LedgerNext
    BY <2>2, <2>3, <2>4, <2>5, <2>6, <2>7, <2>8, <2>9, <2>10, <2>11, <2>12 DEF LedgerNext
  <2> QED BY <2>11, <2>12
<1> QED BY <1>1, <1>2, LedgerTyping, PTL DEF LedgerSpec
=============================================================================
