------------------------- MODULE SpendGatewayProofs -------------------------
(***************************************************************************)
(* Proofs about the spend gateway on its ledger, for every set of Works,   *)
(* handlers, operations and plans, with either store.                      *)
(*                                                                         *)
(* Every step of the boundary is a step of the ledger or leaves it alone,  *)
(* so what is proved of the ledger holds here; the rest relates a handler, *)
(* the provider and the host to the rows.                                  *)
(***************************************************************************)
EXTENDS SpendGateway, SpendLedgerProofs

\* A plan in use is V2, names its card, and reserves a number per operation.
LEMMA PlanTyped ==
  ASSUME NEW p \in Plans PROVE p.card \in Cards /\ p.perOp \in Nat
BY LedgerAssumption DEF PlanType

\* A handler's record keeps its shape when its place and its operation change.
LEMMA RequestTyped ==
  ASSUME PaidTypeOK, NEW r \in Requests, Active(r)
  PROVE  /\ request[r] \in Request
         /\ request[r].x \in Binding /\ request[r].x.work \in Works /\ request[r].stage \in Stages
BY DEF PaidTypeOK, Active, Request, Binding

\* The operation of a handler that is past its reservation.
LEMMA OperationOf ==
  ASSUME PaidTypeOK, NEW r \in Requests,
         At(r, "mark") \/ At(r, "call") \/ At(r, "wait") \/ At(r, "release") \/ At(r, "retain")
  PROVE  request[r].op \in OpIds /\ Exists(request[r].op)
<1>1. Active(r) /\ request[r].op # NoId /\ Exists(request[r].op)
  BY DEF PaidTypeOK, At
<1> QED BY <1>1, RequestTyped DEF Request

\* Every step of the boundary is a step of the ledger, or leaves it alone.
LEMMA BoundaryStepsLedger ==
  ASSUME LedgerTypeOK, PaidTypeOK, [PaidNext]_paidVars
  PROVE  [LedgerNext]_ledgerVars
<1>1. CASE UNCHANGED ledgerVars BY <1>1
<1>2. ASSUME NEW w \in Works, NEW g \in Generations, NEW r \in Orders, NEW c \in Ceilings,
             NEW p \in Plans, Prepare(w, g, r, c, 1, p)
      PROVE  LedgerNext
  <2>1. 1 \in Deadlines BY LedgerAssumption DEF Deadlines
  <2>2. CreateBudget(w, g, r, c, 1, p) BY <1>2 DEF Prepare
  <2> QED BY <2>1, <2>2 DEF LedgerNext
<1>3. ASSUME NEW x \in Binding, Dispatch(x) \/ Stop(x) PROVE LedgerNext
  BY <1>3 DEF Dispatch, Stop, LedgerNext
<1>4. ASSUME NEW o \in OpIds, MarkDispatched(o) \/ ReleaseUndispatched(o) \/ MarkUnknown(o)
      PROVE  LedgerNext
  BY <1>4 DEF LedgerNext
<1>5. ASSUME NEW r \in Requests, Handle(r) PROVE [LedgerNext]_ledgerVars
  <2>1. CASE ReserveCall(r)
    <3>1. PICK o \in OpIds, p \in Plans :
            Reserve(o, request[r].x, p.card, p.perOp, PhaseOf(request[r].stage))
      BY <2>1 DEF ReserveCall
    <3>2. request[r].x \in Binding BY <2>1, RequestTyped DEF ReserveCall, At
    <3>3. PhaseOf(request[r].stage) \in Phases BY DEF PhaseOf, Phases
    <3>4. p.card \in Cards /\ p.perOp \in {q.perOp : q \in Plans} BY PlanTyped
    <3> QED BY <3>1, <3>2, <3>3, <3>4 DEF LedgerNext
  <2>2. CASE SettleCall(r)
    <3>1. At(r, "wait") /\ \E p \in Receipts : Settle(request[r].op, cost[request[r].op], p)
      BY <2>2 DEF SettleCall
    <3>2. request[r].op \in OpIds /\ Exists(request[r].op) BY <3>1, OperationOf
    <3>3. op[request[r].op].reserved \in Nat BY <3>2, RowTyped DEF Operation
    <3>4. cost[request[r].op] \in Nat BY <3>2 DEF PaidTypeOK
    <3>5. cost[request[r].op] <= op[request[r].op].reserved BY <3>1 DEF Settle
    <3>6. cost[request[r].op] \in 0..(op[request[r].op].reserved + 1) BY <3>3, <3>4, <3>5
    <3> QED BY <3>1, <3>2, <3>6 DEF LedgerNext
  <2>3. CASE MarkCall(r)
    BY <1>4, <2>3, OperationOf DEF MarkCall
  <2>4. CASE ReleaseCall(r)
    BY <1>4, <2>4, OperationOf DEF ReleaseCall
  <2>5. CASE RetainCall(r)
    BY <1>4, <2>5, OperationOf DEF RetainCall
  <2>6. CASE Boundary(r) \/ Capacity(r) \/ Denied(r) \/ Call(r) \/ Failed(r)
    BY <2>6 DEF Boundary, Capacity, Denied, Call, Failed
  <2> QED BY <1>5, <2>1, <2>2, <2>3, <2>4, <2>5, <2>6 DEF Handle
<1>6. CASE NextProductive \/ CommitCandidate
  BY <1>6 DEF NextProductive, CommitCandidate
<1>7. CASE CompletionGate \/ EndAttempt
  <2>1. attempt.x \in Binding BY <1>7 DEF CompletionGate, EndAttempt, PaidTypeOK, Attempt
  <2> QED BY <1>7, <2>1 DEF CompletionGate, EndAttempt, LedgerNext
<1>8. CASE Restart BY <1>8 DEF Restart, LedgerNext
<1>9. CASE Tick BY <1>9 DEF LedgerNext
<1>10. ASSUME NEW r \in Requests, Arrive(r) PROVE UNCHANGED ledgerVars BY <1>10 DEF Arrive
<1>11. ASSUME NEW o \in OpIds, ProviderCharges(o) PROVE UNCHANGED ledgerVars
  BY <1>11 DEF ProviderCharges
<1>12. CASE PaidNext
  BY <1>1, <1>2, <1>3, <1>5, <1>6, <1>7, <1>8, <1>9, <1>10, <1>11, <1>12 DEF PaidNext
<1>13. CASE UNCHANGED paidVars BY <1>13 DEF paidVars, ledgerVars
<1> QED BY <1>12, <1>13
-----------------------------------------------------------------------------
(* Types of the boundary. *)

\* Where a handler is before it has an operation.
Before == {"boundary", "capacity", "reserve"}

RequestsOK ==
  /\ request \in [Requests -> Request \cup {NoRequest}]
  /\ \A r \in Requests : Active(r) /\ request[r].pc \notin Before
                           => request[r].op # NoId /\ Exists(request[r].op)

\* A step that writes one handler's record, or none, keeps the records well-formed.
LEMMA OneRequestTyped ==
  ASSUME PaidTypeOK, AllRetained, NEW r \in Requests, NEW row \in Request \cup {NoRequest},
         request' = [request EXCEPT ![r] = row],
         row # NoRequest /\ row.pc \notin Before => row.op # NoId /\ op'[row.op] # NoOp
  PROVE  RequestsOK'
<1>1. \A q \in Requests : request'[q] = IF q = r THEN row ELSE request[q]
  BY DEF PaidTypeOK
<1>2. request' \in [Requests -> Request \cup {NoRequest}]
  BY DEF PaidTypeOK
<1>3. ASSUME NEW q \in Requests, q # r, Active(q), request[q].pc \notin Before
      PROVE  request[q].op # NoId /\ op'[request[q].op] # NoOp
  <2>1. request[q].op # NoId /\ Exists(request[q].op) BY <1>3 DEF PaidTypeOK, Before
  <2>2. request[q].op \in OpIds BY <1>3, <2>1, RequestTyped DEF Request
  <2> QED BY <2>1, <2>2 DEF AllRetained, Retained, Exists
<1> QED BY <1>1, <1>2, <1>3 DEF RequestsOK, Active, Exists

LEMMA RequestsUnchanged ==
  ASSUME PaidTypeOK, AllRetained, UNCHANGED request
  PROVE  RequestsOK'
<1>1. ASSUME NEW q \in Requests, Active(q), request[q].pc \notin Before
      PROVE  request[q].op # NoId /\ op'[request[q].op] # NoOp
  <2>1. request[q].op # NoId /\ Exists(request[q].op) BY <1>1 DEF PaidTypeOK, Before
  <2>2. request[q].op \in OpIds BY <1>1, <2>1, RequestTyped DEF Request
  <2> QED BY <2>1, <2>2 DEF AllRetained, Retained, Exists
<1> QED BY <1>1 DEF RequestsOK, PaidTypeOK, Active, Exists

\* A handler ends, or moves to another place with the operation it has.
LEMMA MovedTyped ==
  ASSUME PaidTypeOK, AllRetained, NEW r \in Requests, Active(r),
         \/ Finish(r)
         \/ request[r].pc \in Before /\ \E pc \in Before, ready \in BOOLEAN :
              request' = [request EXCEPT ![r] = [@ EXCEPT !.pc = pc, !.ready = ready]]
         \/ Goto(r, "capacity")
         \/ /\ request[r].pc \notin Before
            /\ \E pc \in {"mark", "call", "wait", "release", "retain"} : Goto(r, pc)
  PROVE  RequestsOK'
<1>1. request[r] \in Request BY RequestTyped
<1>2. CASE Finish(r)
  BY <1>2, OneRequestTyped DEF Finish
<1>3. ASSUME NEW pc \in Before, NEW ready \in BOOLEAN,
             request' = [request EXCEPT ![r] = [@ EXCEPT !.pc = pc, !.ready = ready]]
      PROVE  RequestsOK'
  <2> DEFINE row == [request[r] EXCEPT !.pc = pc, !.ready = ready]
  <2>1. row \in Request /\ row.pc \in Before BY <1>1 DEF Request, Before
  <2>2. request' = [request EXCEPT ![r] = row] BY <1>3
  <2> HIDE DEF row
  <2> QED BY <2>1, <2>2, OneRequestTyped
<1>4. CASE Goto(r, "capacity")
  <2> DEFINE row == [request[r] EXCEPT !.pc = "capacity"]
  <2>1. row \in Request /\ row.pc \in Before BY <1>1 DEF Request, Before
  <2>2. request' = [request EXCEPT ![r] = row] BY <1>4 DEF Goto
  <2> HIDE DEF row
  <2> QED BY <2>1, <2>2, OneRequestTyped
<1>5. ASSUME NEW pc \in {"mark", "call", "wait", "release", "retain"}, Goto(r, pc),
             request[r].pc \notin Before
      PROVE  RequestsOK'
  <2> DEFINE row == [request[r] EXCEPT !.pc = pc]
  <2>1. row \in Request /\ row.op = request[r].op BY <1>1 DEF Request
  <2>2. request' = [request EXCEPT ![r] = row] BY <1>5 DEF Goto
  <2>3. request[r].op # NoId /\ Exists(request[r].op) BY <1>5 DEF PaidTypeOK, Before
  <2>4. request[r].op \in OpIds BY <1>1, <2>3 DEF Request
  <2>5. op'[request[r].op] # NoOp BY <2>3, <2>4 DEF AllRetained, Retained, Exists
  <2> HIDE DEF row
  <2>6. op'[row.op] # NoOp BY <2>1, <2>5
  <2> QED BY <2>1, <2>2, <2>3, <2>6, OneRequestTyped
<1> QED BY <1>2, <1>3, <1>4, <1>5

\* Every step of a handler keeps the handlers' records and leaves the rest of the boundary,
\* except that the provider is called.
LEMMA HandleTyped ==
  ASSUME LedgerTypeOK, LedgerTypeOK', PaidTypeOK, AllRetained, NEW r \in Requests, Handle(r)
  PROVE  /\ RequestsOK'
         /\ UNCHANGED <<attempt, cost, candidates>> /\ called' \subseteq OpIds
<1>1. CASE Boundary(r)
  BY <1>1, MovedTyped DEF Boundary, At, PaidTypeOK
<1>2. CASE Capacity(r)
  <2>1. request[r].pc \in Before /\ Active(r) BY <1>2 DEF Capacity, At, Before
  <2>2. LastSlot(r) \in BOOLEAN BY DEF LastSlot
  <2>3. \/ request' = [request EXCEPT ![r] = [@ EXCEPT !.pc = "reserve", !.ready = LastSlot(r)]]
        \/ Finish(r)
    BY <1>2 DEF Capacity
  <2>4. "reserve" \in Before BY DEF Before
  <2> HIDE DEF LastSlot
  <2>5. RequestsOK' BY <2>1, <2>2, <2>3, <2>4, MovedTyped
  <2> QED BY <1>2, <2>5 DEF Capacity, PaidTypeOK
<1>3. CASE Denied(r)
  BY <1>3, MovedTyped DEF Denied, At, PaidTypeOK
<1>4. CASE ReserveCall(r)
  <2>1. Active(r) /\ UNCHANGED <<attempt, called, cost, candidates>> BY <1>4 DEF ReserveCall, At
  <2>2. PICK o \in OpIds, p \in Plans :
          /\ Reserve(o, request[r].x, p.card, p.perOp, PhaseOf(request[r].stage))
          /\ \/ request' = [request EXCEPT ![r] = [@ EXCEPT !.pc = "mark", !.op = o]]
             \/ Finish(r)
    BY <1>4 DEF ReserveCall
  <2>3. CASE request' = [request EXCEPT ![r] = [@ EXCEPT !.pc = "mark", !.op = o]]
    <3> DEFINE row == [request[r] EXCEPT !.pc = "mark", !.op = o]
    <3>1. request[r] \in Request BY <2>1, RequestTyped
    <3>2. row \in Request /\ row.op = o BY <3>1 DEF Request
    <3>3. request' = [request EXCEPT ![r] = row] BY <2>3
    <3>4. op' = [op EXCEPT ![o] = op'[o]] BY <2>2 DEF Reserve, LedgerTypeOK
    <3>5. op'[o] # NoOp
      <4> DEFINE new == [binding |-> request[r].x, card |-> p.card, reserved |-> p.perOp,
                         phase |-> PhaseOf(request[r].stage), actual |-> 0, receipt |-> NoReceipt,
                         state |-> "reserved"]
      <4>1. request[r].x \in Binding BY <2>1, RequestTyped
      <4>2. PhaseOf(request[r].stage) \in Phases BY DEF PhaseOf, Phases
      <4>3. new \in Operation BY <4>1, <4>2, PlanTyped, LedgerAssumption DEF Operation, Unresolved
      <4>4. op'[o] = new BY <2>2 DEF Reserve, LedgerTypeOK
      <4> HIDE DEF new
      <4> QED BY <4>3, <4>4, LedgerAssumption
    <3>6. o # NoId BY GatewayAssumption
    <3> HIDE DEF row
    <3>7. op'[row.op] # NoOp BY <3>2, <3>5 DEF Exists
    <3>8. RequestsOK' BY <3>2, <3>3, <3>6, <3>7, OneRequestTyped
    <3> QED BY <2>1, <3>8 DEF PaidTypeOK
  <2>4. CASE Finish(r)
    BY <2>1, <2>4, MovedTyped DEF PaidTypeOK
  <2> QED BY <2>2, <2>3, <2>4
<1>5. CASE MarkCall(r)
  <2>1. Active(r) /\ request[r].pc \notin Before /\ UNCHANGED <<attempt, called, cost, candidates>>
    BY <1>5 DEF MarkCall, At, Before
  <2>2. Goto(r, "call") \/ Goto(r, "release") BY <1>5 DEF MarkCall
  <2>3. RequestsOK' BY <2>1, <2>2, MovedTyped
  <2> QED BY <2>1, <2>3 DEF PaidTypeOK
<1>6. CASE Call(r)
  <2>1. Active(r) /\ request[r].pc \notin Before /\ UNCHANGED <<attempt, cost, candidates>>
    BY <1>6 DEF Call, At, Before
  <2>2. Goto(r, "wait") BY <1>6 DEF Call
  <2>3. RequestsOK' BY <2>1, <2>2, MovedTyped
  <2>4. request[r].op \in OpIds BY <1>6, OperationOf DEF Call
  <2> QED BY <1>6, <2>1, <2>3, <2>4 DEF Call, PaidTypeOK
<1>7. CASE SettleCall(r) \/ Failed(r)
  <2>1. Active(r) /\ request[r].pc \notin Before /\ UNCHANGED <<attempt, called, cost, candidates>>
    BY <1>7 DEF SettleCall, Failed, At, Before
  <2>2. Finish(r) \/ Goto(r, "release") BY <1>7 DEF SettleCall, Failed
  <2>3. RequestsOK' BY <2>1, <2>2, MovedTyped
  <2> QED BY <2>1, <2>3 DEF PaidTypeOK
<1>8. CASE ReleaseCall(r) \/ RetainCall(r)
  <2>1. Active(r) /\ request[r].pc \notin Before /\ UNCHANGED <<attempt, called, cost, candidates>>
    BY <1>8 DEF ReleaseCall, RetainCall, At, Before
  <2>2. Finish(r) \/ Goto(r, "retain") BY <1>8 DEF ReleaseCall, RetainCall
  <2>3. RequestsOK' BY <2>1, <2>2, MovedTyped
  <2> QED BY <2>1, <2>3 DEF PaidTypeOK
<1> QED BY <1>1, <1>2, <1>3, <1>4, <1>5, <1>6, <1>7, <1>8 DEF Handle

\* The handlers, the provider's books and the host's attempt keep their shape.
LEMMA BoundaryTyped ==
  ASSUME LedgerTypeOK, LedgerTypeOK', PaidTypeOK, [PaidNext]_paidVars
  PROVE  PaidTypeOK'
<1>0. AllRetained BY BoundaryStepsLedger, StepsRetained
<1>1. RequestsOK' /\ attempt' \in Attempt \cup {NoAttempt} /\ called' \subseteq OpIds
        /\ cost' \in [OpIds -> Nat] /\ candidates' \subseteq Binding => PaidTypeOK'
  BY DEF PaidTypeOK, RequestsOK, Before
<1>2. UNCHANGED request => RequestsOK' BY <1>0, RequestsUnchanged
<1>3. CASE UNCHANGED gatewayVars
  BY <1>1, <1>2, <1>3 DEF gatewayVars, PaidTypeOK
<1>4. ASSUME NEW r \in Requests, Handle(r) PROVE PaidTypeOK'
  BY <1>0, <1>1, <1>4, HandleTyped DEF PaidTypeOK
<1>5. ASSUME NEW r \in Requests, Arrive(r) PROVE PaidTypeOK'
  <2> DEFINE row == [pc |-> "boundary", x |-> attempt.x, stage |-> attempt.stage,
                     op |-> NoId, ready |-> FALSE]
  <2>1. attempt \in Attempt BY <1>5 DEF Arrive, PaidTypeOK
  <2>2. row \in Request /\ row.pc \in Before BY <2>1 DEF Attempt, Request, Before
  <2>3. request' = [request EXCEPT ![r] = row] BY <1>5 DEF Arrive
  <2> HIDE DEF row
  <2>4. RequestsOK' BY <1>0, <2>2, <2>3, OneRequestTyped
  <2> QED BY <1>1, <1>5, <2>4 DEF Arrive, PaidTypeOK
<1>6. ASSUME NEW o \in OpIds, ProviderCharges(o) PROVE PaidTypeOK'
  <2>1. op[o] \in Operation \/ op[o] = NoOp BY DEF LedgerTypeOK
  <2>2. PICK c \in 1..op[o].reserved : cost' = [cost EXCEPT ![o] = c] BY <1>6 DEF ProviderCharges
  <2>3. c \in Nat BY <2>2
  <2> QED BY <1>1, <1>2, <1>6, <2>2, <2>3 DEF ProviderCharges, PaidTypeOK
<1>7. ASSUME NEW x \in Binding, Dispatch(x) PROVE PaidTypeOK'
  <2>1. attempt' \in Attempt \cup {NoAttempt}
    BY <1>7 DEF Dispatch, PaidTypeOK, Attempt, Stages
  <2> QED BY <1>1, <1>2, <1>7, <2>1 DEF Dispatch, PaidTypeOK
<1>8. CASE NextProductive \/ CompletionGate
  <2>1. attempt \in Attempt BY <1>8 DEF NextProductive, CompletionGate, PaidTypeOK
  <2>2. attempt' \in Attempt
    BY <1>8, <2>1 DEF NextProductive, CompletionGate, Attempt, Stages
  <2> QED BY <1>1, <1>2, <1>8, <2>2 DEF NextProductive, CompletionGate, PaidTypeOK
<1>9. CASE CommitCandidate
  <2>1. attempt.x \in Binding BY <1>9 DEF CommitCandidate, PaidTypeOK, Attempt
  <2> QED BY <1>1, <1>2, <1>9, <2>1 DEF CommitCandidate, PaidTypeOK
<1>10. CASE EndAttempt
  BY <1>1, <1>2, <1>10 DEF EndAttempt, PaidTypeOK
<1>11. CASE Restart
  <2>1. RequestsOK' BY <1>11 DEF Restart, RequestsOK, Active
  <2> QED BY <1>1, <1>11, <2>1 DEF Restart, PaidTypeOK
<1>12. CASE PaidNext
  BY <1>3, <1>4, <1>5, <1>6, <1>7, <1>8, <1>9, <1>10, <1>11, <1>12 DEF PaidNext, Prepare, Stop
<1>13. CASE UNCHANGED paidVars BY <1>3, <1>13 DEF paidVars, gatewayVars
<1> QED BY <1>12, <1>13

\* The boundary keeps its types, and is a history of the ledger: whatever is proved of
\* LedgerSpec holds of every behaviour of the gateway.
THEOREM BoundaryIsLedger == PaidSpec => LedgerSpec /\ []PaidTypeOK
<1>1. PaidInit => LedgerInit /\ LedgerTypeOK /\ PaidTypeOK
  BY LedgerAssumption DEF PaidInit, LedgerInit, LedgerTypeOK, PaidTypeOK, Exists, Active
<1>2. LedgerTypeOK /\ LedgerTypeOK' /\ PaidTypeOK /\ [PaidNext]_paidVars => PaidTypeOK'
  BY BoundaryTyped
<1>3. LedgerTypeOK /\ PaidTypeOK /\ [PaidNext]_paidVars => [LedgerNext]_ledgerVars
  BY BoundaryStepsLedger
<1>4. LedgerTypeOK /\ [LedgerNext]_ledgerVars => LedgerTypeOK'
  BY LedgerStepTyped
<1> QED BY <1>1, <1>2, <1>3, <1>4, PTL DEF PaidSpec, LedgerSpec
-----------------------------------------------------------------------------
(* What one step of the boundary does to the rows of the ledger. *)

Crossed == {"dispatched", "unknown", "settled"}

\* The row of o is written and keeps its reservation; every other row is left alone.
Writes(o, state) ==
  /\ Exists(o)
  /\ op'[o].state = state /\ op'[o].reserved = op[o].reserved
  /\ \A q \in OpIds : q # o => op'[q] = op[q]

LEMMA RowWritten ==
  ASSUME LedgerTypeOK, NEW o \in OpIds
  PROVE  /\ MarkDispatched(o) => op[o].state = "reserved" /\ Writes(o, "dispatched")
         /\ ReleaseUndispatched(o) => op[o].state = "reserved" /\ Writes(o, "released")
         /\ MarkUnknown(o) => op[o].state \in Unresolved /\ Writes(o, "unknown")
         /\ \A a, r : Settle(o, a, r) => /\ op[o].state \in {"dispatched", "unknown"}
                                         /\ a <= op[o].reserved
                                         /\ Writes(o, "settled") /\ op'[o].actual = a
<1>1. Exists(o) => op[o] \in Operation BY RowTyped
<1>2. MarkDispatched(o) => op[o].state = "reserved" /\ Writes(o, "dispatched")
  BY <1>1 DEF MarkDispatched, Writes, LedgerTypeOK, Operation
<1>3. ReleaseUndispatched(o) => op[o].state = "reserved" /\ Writes(o, "released")
  BY <1>1 DEF ReleaseUndispatched, Writes, LedgerTypeOK, Operation
<1>4. MarkUnknown(o) => op[o].state \in Unresolved /\ Writes(o, "unknown")
  BY <1>1 DEF MarkUnknown, Writes, LedgerTypeOK, Operation, Unresolved, Final
<1>5. ASSUME NEW a, NEW r, Settle(o, a, r)
      PROVE  /\ op[o].state \in {"dispatched", "unknown"}
             /\ a <= op[o].reserved /\ Writes(o, "settled") /\ op'[o].actual = a
  BY <1>1, <1>5 DEF Settle, Writes, LedgerTypeOK, Operation
<1> QED BY <1>2, <1>3, <1>4, <1>5

LEMMA RowReserved ==
  ASSUME LedgerTypeOK, NEW o \in OpIds, NEW x \in Binding, NEW c \in Cards, NEW amount \in Nat,
         NEW ph \in Phases, Reserve(o, x, c, amount, ph)
  PROVE  /\ ~Exists(o) /\ op'[o] # NoOp
         /\ op'[o].binding = x /\ op'[o].phase = ph /\ op'[o].reserved = amount
         /\ op'[o].state = "reserved"
         /\ \A q \in OpIds : q # o => op'[q] = op[q]
<1> DEFINE row == [binding |-> x, card |-> c, reserved |-> amount, phase |-> ph, actual |-> 0,
                   receipt |-> NoReceipt, state |-> "reserved"]
<1>1. row \in Operation BY LedgerAssumption DEF Operation, Unresolved
<1>2. /\ row.binding = x /\ row.phase = ph /\ row.reserved = amount /\ row.state = "reserved"
  OBVIOUS
<1>3. ~Exists(o) /\ op' = [op EXCEPT ![o] = row] BY DEF Reserve
<1> HIDE DEF row
<1>4. op'[o] = row /\ \A q \in OpIds : q # o => op'[q] = op[q] BY <1>3 DEF LedgerTypeOK
<1> QED BY <1>1, <1>2, <1>3, <1>4, LedgerAssumption

\* What a row may become in one step: it is reserved, dispatched, released or retained, or
\* settled at what the provider charged.
RowStep(o) ==
  \/ op'[o] = op[o]
  \/ ~Exists(o) /\ op'[o] # NoOp /\ op'[o].state = "reserved"
  \/ /\ Exists(o) /\ op'[o].reserved = op[o].reserved
     /\ \/ op[o].state = "reserved" /\ op'[o].state \in {"dispatched", "released", "unknown"}
        \/ op[o].state \in {"dispatched", "unknown"} /\ op'[o].state = "unknown"
        \/ /\ op[o].state \in {"dispatched", "unknown"} /\ op'[o].state = "settled"
           /\ op'[o].actual = cost[o] /\ cost[o] > 0 /\ cost[o] <= op[o].reserved

RowSteps == \A o \in OpIds : RowStep(o)

LEMMA RecoveredRows ==
  ASSUME LedgerTypeOK, RecoverUnknown
  PROVE  \A o \in OpIds : IF Exists(o) /\ op[o].state \in Unresolved
                          THEN op'[o].state = "unknown" /\ op'[o].reserved = op[o].reserved
                          ELSE op'[o] = op[o]
<1> SUFFICES ASSUME NEW o \in OpIds
             PROVE  IF Exists(o) /\ op[o].state \in Unresolved
                    THEN op'[o].state = "unknown" /\ op'[o].reserved = op[o].reserved
                    ELSE op'[o] = op[o]
  OBVIOUS
<1>1. CASE Exists(o) /\ op[o].state \in Unresolved
  <2>1. op[o] \in Operation BY <1>1, RowTyped
  <2>2. op'[o] = [op[o] EXCEPT !.state = "unknown"] BY <1>1 DEF RecoverUnknown
  <2> QED BY <1>1, <2>1, <2>2 DEF Operation
<1>2. CASE ~(Exists(o) /\ op[o].state \in Unresolved)
  BY <1>2 DEF RecoverUnknown
<1> QED BY <1>1, <1>2

LEMMA HandleRows ==
  ASSUME LedgerTypeOK, PaidTypeOK, NEW r \in Requests, Handle(r)
  PROVE  RowSteps
<1>1. UNCHANGED op => RowSteps BY DEF RowSteps, RowStep
<1>2. ASSUME NEW o \in OpIds, MarkDispatched(o) \/ ReleaseUndispatched(o) \/ MarkUnknown(o)
      PROVE  RowSteps
  BY <1>2, RowWritten DEF RowSteps, RowStep, Writes, Unresolved
<1>3. CASE ReserveCall(r)
  <2>1. PICK o \in OpIds, p \in Plans :
          Reserve(o, request[r].x, p.card, p.perOp, PhaseOf(request[r].stage))
    BY <1>3 DEF ReserveCall
  <2>2. request[r].x \in Binding BY <1>3, RequestTyped DEF ReserveCall, At
  <2>3. PhaseOf(request[r].stage) \in Phases BY DEF PhaseOf, Phases
  <2>4. p.card \in Cards /\ p.perOp \in Nat BY PlanTyped
  <2>5. /\ ~Exists(o) /\ op'[o] # NoOp /\ op'[o].state = "reserved"
        /\ \A q \in OpIds : q # o => op'[q] = op[q]
    BY <2>1, <2>2, <2>3, <2>4, RowReserved
  <2> QED BY <2>5 DEF RowSteps, RowStep
<1>4. CASE SettleCall(r)
  <2> DEFINE o == request[r].op
  <2>1. o \in OpIds BY <1>4, OperationOf DEF SettleCall
  <2>2. PICK p \in Receipts : Settle(o, cost[o], p) BY <1>4 DEF SettleCall
  <2>3. cost[o] > 0 BY <1>4 DEF SettleCall
  <2> HIDE DEF o
  <2>4. /\ op[o].state \in {"dispatched", "unknown"} /\ cost[o] <= op[o].reserved
        /\ Writes(o, "settled") /\ op'[o].actual = cost[o]
    BY <2>1, <2>2, RowWritten
  <2> QED BY <2>3, <2>4 DEF RowSteps, RowStep, Writes
<1>5. CASE MarkCall(r)
  <2>1. request[r].op \in OpIds BY <1>5, OperationOf DEF MarkCall
  <2> QED BY <1>1, <1>2, <1>5, <2>1 DEF MarkCall, ledgerVars
<1>6. CASE ReleaseCall(r)
  <2>1. request[r].op \in OpIds BY <1>6, OperationOf DEF ReleaseCall
  <2> QED BY <1>1, <1>2, <1>6, <2>1 DEF ReleaseCall, ledgerVars
<1>7. CASE RetainCall(r)
  <2>1. request[r].op \in OpIds BY <1>7, OperationOf DEF RetainCall
  <2> QED BY <1>1, <1>2, <1>7, <2>1 DEF RetainCall, ledgerVars
<1>8. CASE Boundary(r) \/ Capacity(r) \/ Denied(r) \/ Call(r) \/ Failed(r)
  BY <1>1, <1>8 DEF Boundary, Capacity, Denied, Call, Failed, ledgerVars
<1> QED BY <1>3, <1>4, <1>5, <1>6, <1>7, <1>8 DEF Handle

\* A step of the boundary writes rows only in these ways.
LEMMA BoundaryRows ==
  ASSUME LedgerTypeOK, PaidTypeOK, [PaidNext]_paidVars
  PROVE  RowSteps
<1>1. UNCHANGED op => RowSteps BY DEF RowSteps, RowStep
<1>2. CASE Restart
  <2>1. CASE RecoverUnknown
    <3>1. Unresolved = {"reserved", "dispatched", "unknown"} BY DEF Unresolved
    <3> QED BY <2>1, <3>1, RecoveredRows DEF RowSteps, RowStep
  <2> QED BY <1>1, <1>2, <2>1 DEF Restart, ledgerVars
<1>3. ASSUME NEW r \in Requests, Arrive(r) PROVE RowSteps BY <1>1, <1>3 DEF Arrive, ledgerVars
<1>4. ASSUME NEW o \in OpIds, ProviderCharges(o) PROVE RowSteps
  BY <1>1, <1>4 DEF ProviderCharges, ledgerVars
<1>5. ASSUME NEW w \in Works, NEW g \in Generations, NEW r \in Orders, NEW c \in Ceilings,
             NEW p \in Plans, Prepare(w, g, r, c, 1, p)
      PROVE  RowSteps
  BY <1>1, <1>5 DEF Prepare, CreateBudget
<1>6. ASSUME NEW x \in Binding, Dispatch(x) \/ Stop(x) PROVE RowSteps
  BY <1>1, <1>6 DEF Dispatch, Stop, BindAuthority, CancelBound, Cancel
<1>7. CASE NextProductive \/ CompletionGate \/ CommitCandidate \/ EndAttempt
  BY <1>1, <1>7 DEF NextProductive, CompletionGate, CommitCandidate, EndAttempt, BeginCompletion,
                    FenceAuthority, ledgerVars
<1>8. CASE Tick \/ UNCHANGED paidVars BY <1>1, <1>8 DEF Tick, paidVars
<1>9. CASE PaidNext
  BY <1>2, <1>3, <1>4, <1>5, <1>6, <1>7, <1>8, <1>9, HandleRows DEF PaidNext
<1> QED BY <1>8, <1>9
-----------------------------------------------------------------------------
(* The provider's charges and the books. *)

\* The handlers that are about to call the provider, or wait for it.
Calling(r) == At(r, "call") \/ At(r, "wait")

\* Why ChargesCovered is inductive: a handler calls the provider for an operation whose
\* dispatch is durable, a charge needs a call and stays within the reservation, and a
\* settled row carries exactly what was charged.
Books ==
  /\ \A o \in OpIds : o \in called => Exists(o) /\ op[o].state \in Crossed
  /\ \A o \in OpIds : cost[o] > 0 => o \in called /\ cost[o] <= op[o].reserved
  /\ \A o \in OpIds : Exists(o) /\ op[o].state = "settled" => op[o].actual = cost[o] /\ cost[o] > 0
  /\ \A r \in Requests : Calling(r) => op[request[r].op].state \in Crossed

\* What is dispatched, retained or settled stays so, at its reservation.
LEMMA CrossedStays ==
  ASSUME RowSteps, AllRetained, NEW o \in OpIds, Exists(o), op[o].state \in Crossed
  PROVE  Exists(o)' /\ op'[o].state \in Crossed /\ op'[o].reserved = op[o].reserved
<1>1. Exists(o)' BY DEF AllRetained, Retained, Exists
<1>2. RowStep(o) BY DEF RowSteps
<1> QED BY <1>1, <1>2 DEF RowStep, Crossed

\* What a step must do to keep the books: call only what is durably dispatched, charge
\* only what was called, and leave a handler at its call only over such an operation.
CallsCovered == /\ called \subseteq called'
                /\ \A o \in called' : o \in called \/ (o \in OpIds /\ Exists(o) /\ op[o].state \in Crossed)
ChargesKept == \A o \in OpIds :
  \/ cost'[o] = cost[o]
  \/ o \in called /\ cost[o] = 0 /\ cost'[o] \in 1..op[o].reserved /\ op'[o] = op[o]
CallersCovered == \A q \in Requests : Calling(q) => op[request[q].op].state \in Crossed

LEMMA BooksKept ==
  ASSUME PaidTypeOK, Books, RowSteps, AllRetained, CallsCovered, ChargesKept, CallersCovered'
  PROVE  Books'
<1> USE DEF CallsCovered, ChargesKept, CallersCovered
<1>1. \A o \in OpIds : o \in called' => Exists(o) /\ op[o].state \in Crossed
  BY DEF Books
<1>2. \A o \in OpIds : o \in called' => Exists(o)' /\ op'[o].state \in Crossed
  BY <1>1, CrossedStays
<1>3. \A o \in OpIds : o \in called => op'[o].reserved = op[o].reserved
  BY CrossedStays DEF Books
<1>5. ASSUME NEW o \in OpIds, cost'[o] > 0
      PROVE  o \in called /\ cost'[o] <= op'[o].reserved
  <2>1. cost[o] \in Nat BY DEF PaidTypeOK
  <2>2. CASE cost'[o] = cost[o]
    <3>1. o \in called /\ cost[o] <= op[o].reserved BY <1>5, <2>2 DEF Books
    <3> QED BY <1>3, <2>2, <3>1
  <2>3. CASE o \in called /\ cost[o] = 0 /\ cost'[o] \in 1..op[o].reserved /\ op'[o] = op[o]
    BY <2>3
  <2> QED BY <2>2, <2>3
<1>6. ASSUME NEW o \in OpIds, Exists(o)', op'[o].state = "settled"
      PROVE  op'[o].actual = cost'[o] /\ cost'[o] > 0
  <2>1. cost[o] \in Nat BY DEF PaidTypeOK
  <2>2. CASE op'[o] = op[o]
    <3>1. op[o].actual = cost[o] /\ cost[o] > 0 BY <1>6, <2>2 DEF Books, Exists
    <3> QED BY <2>1, <2>2, <3>1
  <2>3. CASE op'[o] # op[o]
    <3>1. op'[o].actual = cost[o] /\ cost[o] > 0 BY <1>6, <2>3 DEF RowSteps, RowStep
    <3> QED BY <2>3, <3>1
  <2> QED BY <2>2, <2>3
<1>7. \A r \in Requests : Calling(r)' => op'[request'[r].op].state \in Crossed
  OBVIOUS
<1> QED BY <1>2, <1>5, <1>6, <1>7 DEF Books, Exists

\* Where a handler is after a step of its own or of another handler.
LEMMA HandlersElsewhere ==
  ASSUME PaidTypeOK, NEW r \in Requests, Handle(r) \/ Arrive(r)
  PROVE  \A q \in Requests : q # r => request'[q] = request[q]
BY DEF Handle, Arrive, Boundary, Capacity, Denied, ReserveCall, MarkCall, Call, SettleCall, Failed,
       ReleaseCall, RetainCall, Finish, Goto, PaidTypeOK

\* A handler is at its call only when its dispatch is durable, and waits only after it.
LEMMA HandleBooks ==
  ASSUME LedgerTypeOK, LedgerTypeOK', PaidTypeOK, Books, RowSteps, AllRetained,
         NEW r \in Requests, Handle(r)
  PROVE  Books'
<1>1. \A q \in Requests : q # r => request'[q] = request[q] BY HandlersElsewhere
<1>2. \A q \in Requests : Calling(q) =>
        request[q].op \in OpIds /\ Exists(request[q].op) /\ op[request[q].op].state \in Crossed
  BY OperationOf DEF Books, Calling
<1>3. \A q \in Requests : q # r /\ Calling(q)' => op'[request'[q].op].state \in Crossed
  <2> SUFFICES ASSUME NEW q \in Requests, q # r, Calling(q)'
               PROVE  op'[request'[q].op].state \in Crossed
    OBVIOUS
  <2>1. request'[q] = request[q] /\ Calling(q) BY <1>1 DEF Calling, At, Active
  <2>2. op'[request[q].op].state \in Crossed BY <1>2, <2>1, CrossedStays
  <2> QED BY <2>1, <2>2
<1>4. UNCHANGED cost BY HandleTyped
<1>5. CASE Call(r)
  <2>1. /\ request'[r].op = request[r].op /\ op' = op
        /\ called' = called \cup {request[r].op} /\ At(r, "call")
    BY <1>5, RequestTyped DEF Call, Goto, ledgerVars, At, PaidTypeOK, Request
  <2>0. Calling(r) BY <2>1 DEF Calling
  <2>2. op'[request'[r].op].state \in Crossed BY <1>2, <2>0, <2>1
  <2>3. \A q \in Requests : Calling(q)' => op'[request'[q].op].state \in Crossed BY <1>3, <2>2
  <2>4. \A o \in called' : o \in called \/ (o \in OpIds /\ Exists(o) /\ op[o].state \in Crossed)
    BY <1>2, <2>0, <2>1
  <2>5. called \subseteq called' BY <2>1
  <2>6. \A o \in OpIds : \/ cost'[o] = cost[o]
                         \/ o \in called /\ cost[o] = 0 /\ cost'[o] \in 1..op[o].reserved /\ op'[o] = op[o]
    BY <1>4
  <2>7. CallsCovered /\ ChargesKept /\ CallersCovered'
    BY <2>3, <2>4, <2>5, <2>6 DEF CallsCovered, ChargesKept, CallersCovered
  <2> QED BY <2>7, BooksKept
<1>6. CASE ~Call(r)
  <2>1. called' = called
    BY <1>6 DEF Handle, Boundary, Capacity, Denied, ReserveCall, MarkCall, SettleCall, Failed,
                ReleaseCall, RetainCall
  <2>2. ASSUME Calling(r)' PROVE op'[request'[r].op].state \in Crossed
    <3>1. Active(r) BY DEF Handle, Boundary, Capacity, Denied, ReserveCall, MarkCall, SettleCall, Call,
                           Failed, ReleaseCall, RetainCall, At
    <3>2. request[r] \in Request BY <3>1, RequestTyped
    <3> DEFINE moved == {"capacity", "reserve", "mark", "release", "retain"}
    <3>a. Finish(r) => ~Calling(r)' BY DEF Finish, Calling, At, Active, PaidTypeOK
    <3>b. ASSUME NEW pc \in moved, Goto(r, pc) PROVE ~Calling(r)'
      BY <3>2, <3>b DEF Calling, Goto, At, PaidTypeOK, Request
    <3>c. ASSUME NEW ready, request' = [request EXCEPT ![r] = [@ EXCEPT !.pc = "reserve", !.ready = ready]]
          PROVE  ~Calling(r)'
      BY <3>2, <3>c DEF Calling, At, PaidTypeOK, Request
    <3>d. ASSUME NEW o, request' = [request EXCEPT ![r] = [@ EXCEPT !.pc = "mark", !.op = o]]
          PROVE  ~Calling(r)'
      BY <3>2, <3>d DEF Calling, At, PaidTypeOK, Request
    <3>e. MarkCall(r)
      BY <1>6, <2>2, <3>a, <3>b, <3>c, <3>d
      DEF Handle, Boundary, Capacity, Denied, ReserveCall, SettleCall, Failed, ReleaseCall, RetainCall
    <3>f. MarkDispatched(request[r].op) /\ Goto(r, "call") /\ At(r, "mark")
      BY <2>2, <3>b, <3>e DEF MarkCall
    <3>3. MarkDispatched(request[r].op) /\ At(r, "mark") /\ request'[r].op = request[r].op
      BY <3>2, <3>f DEF Goto, PaidTypeOK, Request
    <3>4. request[r].op \in OpIds BY <3>3, OperationOf
    <3> QED BY <3>3, <3>4, RowWritten DEF Writes, Crossed
  <2>3. \A q \in Requests : Calling(q)' => op'[request'[q].op].state \in Crossed BY <1>3, <2>2
  <2>4. called \subseteq called' /\ \A o \in called' : o \in called BY <2>1
  <2>5. CallsCovered /\ ChargesKept /\ CallersCovered'
    BY <1>4, <2>3, <2>4 DEF CallsCovered, ChargesKept, CallersCovered
  <2> QED BY <2>5, BooksKept
<1> QED BY <1>5, <1>6

\* Every step of the boundary keeps the books.
LEMMA BoundaryBooks ==
  ASSUME LedgerTypeOK, LedgerTypeOK', PaidTypeOK, Books, [PaidNext]_paidVars
  PROVE  Books'
<1>0. RowSteps /\ AllRetained BY BoundaryRows, BoundaryStepsLedger, StepsRetained
<1> DEFINE still == \A r \in Requests : Calling(r)' => Calling(r) /\ request'[r] = request[r]
<1>1. ASSUME still PROVE CallersCovered'
  <2> SUFFICES ASSUME NEW r \in Requests, Calling(r)'
               PROVE  op'[request'[r].op].state \in Crossed
    BY DEF CallersCovered
  <2>1. Calling(r) /\ request'[r] = request[r] BY <1>1
  <2>2. /\ request[r].op \in OpIds /\ Exists(request[r].op)
        /\ op[request[r].op].state \in Crossed
    BY <2>1, OperationOf DEF Calling, Books
  <2> QED BY <1>0, <2>1, <2>2, CrossedStays
<1>2. ASSUME NEW r \in Requests, Handle(r) PROVE Books' BY <1>0, <1>2, HandleBooks
<1>3. ASSUME called' = called, cost' = cost, still PROVE Books'
  <2>1. CallsCovered /\ ChargesKept BY <1>3 DEF CallsCovered, ChargesKept
  <2>2. CallersCovered' BY <1>1, <1>3
  <2> QED BY <1>0, <2>1, <2>2, BooksKept
<1>4. request' = request => still BY DEF Calling, At, Active
<1>5. ASSUME NEW r \in Requests, Arrive(r) PROVE Books'
  <2>1. \A q \in Requests : q # r => request'[q] = request[q] BY <1>5, HandlersElsewhere
  <2>2. request'[r].pc = "boundary" BY <1>5 DEF Arrive, PaidTypeOK
  <2>3. still BY <2>1, <2>2 DEF Calling, At, Active
  <2> QED BY <1>3, <1>5, <2>3 DEF Arrive
<1>6. ASSUME NEW o \in OpIds, ProviderCharges(o) PROVE Books'
  <2>1. /\ o \in called /\ cost[o] = 0 /\ op' = op /\ called' = called /\ request' = request
    BY <1>6 DEF ProviderCharges, ledgerVars
  <2>2. PICK c \in 1..op[o].reserved : cost' = [cost EXCEPT ![o] = c] BY <1>6 DEF ProviderCharges
  <2>3. \A q \in OpIds : cost'[q] = IF q = o THEN c ELSE cost[q] BY <2>2 DEF PaidTypeOK
  <2>4. ChargesKept BY <2>1, <2>3 DEF ChargesKept
  <2>5. CallsCovered BY <2>1 DEF CallsCovered
  <2>6. CallersCovered' BY <1>1, <1>4, <2>1
  <2> QED BY <1>0, <2>4, <2>5, <2>6, BooksKept
<1>7. CASE Restart
  <2>1. still BY <1>7 DEF Restart, Calling, At, Active
  <2> QED BY <1>3, <1>7, <2>1 DEF Restart
<1>8. CASE UNCHANGED <<request, called, cost>> BY <1>3, <1>4, <1>8
<1>9. CASE PaidNext
  <2> HIDE DEF still
  <2> QED BY <1>2, <1>5, <1>6, <1>7, <1>8, <1>9
          DEF PaidNext, Prepare, Dispatch, Stop, NextProductive, CompletionGate, CommitCandidate,
              EndAttempt, gatewayVars
<1> QED BY <1>8, <1>9 DEF paidVars

\* What the books say is what ChargesCovered says, and more.
LEMMA BooksCover ==
  ASSUME LedgerTypeOK, PaidTypeOK, Books
  PROVE  /\ ChargesCovered
         /\ \A o \in OpIds : Exists(o) => cost[o] <= Exposure(op[o])
<1>1. \A o \in OpIds : o \in called => Exists(o) /\ op[o].state \in {"dispatched", "unknown", "settled"}
  BY DEF Books, Crossed
<1>2. ASSUME NEW o \in OpIds, cost[o] > 0 PROVE Exists(o) /\ cost[o] <= Exposure(op[o])
  <2>1. Exists(o) /\ op[o].state \in Crossed /\ cost[o] <= op[o].reserved
    BY <1>2 DEF Books
  <2>2. op[o] \in Operation BY <2>1, RowTyped
  <2>3. CASE op[o].state = "settled"
    <3>1. op[o].actual = cost[o] BY <2>1, <2>3 DEF Books
    <3>2. Exposure(op[o]) = op[o].actual BY <2>3 DEF Exposure
    <3> QED BY <2>1, <2>2, <3>1, <3>2 DEF Operation
  <2>4. CASE op[o].state # "settled"
    <3>1. Exposure(op[o]) = op[o].reserved BY <2>1, <2>4 DEF Exposure, Crossed
    <3> QED BY <2>1, <3>1
  <2> QED BY <2>3, <2>4
<1>3. ASSUME NEW o \in OpIds, Exists(o) PROVE cost[o] <= Exposure(op[o])
  <2>1. cost[o] \in Nat /\ Exposure(op[o]) \in Nat
    BY <1>3, RowTyped, ExposureTyped DEF PaidTypeOK
  <2> QED BY <1>2, <2>1
<1> QED BY <1>1, <1>2, <1>3 DEF ChargesCovered
-----------------------------------------------------------------------------
(* Candidates. *)

\* Settled rows are final, and a candidate is committed under its own completion, which
\* CompletionOrder ties to a settled productive operation of the same attempt.
LEMMA BoundaryCandidates ==
  ASSUME LedgerTypeOK, PaidTypeOK, CompletionOrder, CandidatePaid, [PaidNext]_paidVars
  PROVE  CandidatePaid'
<1>0. AllRetained BY BoundaryStepsLedger, StepsRetained
<1>1. ASSUME NEW w, NEW ph, NEW o \in OpsIn(w, ph), op[o].state = "settled"
      PROVE  o \in OpsIn(w, ph)' /\ op'[o] = op[o]
  <2>1. o \in OpIds /\ Exists(o) /\ op[o].binding.work = w /\ op[o].phase = ph
    BY DEF OpsIn, OpsOf
  <2>2. op'[o] = op[o] BY <1>0, <1>1, <2>1 DEF AllRetained, Retained, Final
  <2> QED BY <2>1, <2>2 DEF OpsIn, OpsOf, Exists
<1>2. ASSUME NEW x \in candidates, NEW ph \in Phases
      PROVE  \E o \in OpsIn(x.work, ph)' : op'[o].binding = x /\ op'[o].state = "settled"
  <2>1. PICK o \in OpsIn(x.work, ph) : op[o].binding = x /\ op[o].state = "settled"
    BY <1>2 DEF CandidatePaid
  <2> QED BY <1>1, <2>1
<1>3. candidates' \subseteq candidates => CandidatePaid'
  BY <1>2 DEF CandidatePaid
<1>4. CASE CommitCandidate
  <2>1. PICK x \in Binding : /\ x.work \in Works /\ Completed(x)
                             /\ candidates' = candidates \cup {x} /\ op' = op
    BY <1>4 DEF CommitCandidate, PaidTypeOK, Attempt, Binding, ledgerVars
  <2>2. PICK c \in OpsIn(x.work, "completion") : op[c].binding = x /\ op[c].state = "settled"
    BY <2>1 DEF Completed
  <2>3. PICK p \in OpsIn(x.work, "productive") : op[p].binding = x /\ op[p].state = "settled"
    BY <2>1, <2>2 DEF CompletionOrder
  <2>4. /\ c \in OpsIn(x.work, "completion")' /\ op'[c] = op[c]
        /\ p \in OpsIn(x.work, "productive")' /\ op'[p] = op[p]
    BY <1>1, <2>2, <2>3
  <2>5. ASSUME NEW ph \in Phases
        PROVE  \E o \in OpsIn(x.work, ph)' : op'[o].binding = x /\ op'[o].state = "settled"
    BY <2>2, <2>3, <2>4 DEF Phases
  <2> QED BY <1>2, <2>1, <2>5 DEF CandidatePaid
<1>5. CASE UNCHANGED candidates BY <1>3, <1>5
<1>6. CASE PaidNext
  <2>1. ASSUME NEW r \in Requests, Handle(r) PROVE UNCHANGED candidates
    BY <2>1 DEF Handle, Boundary, Capacity, Denied, ReserveCall, MarkCall, Call, SettleCall, Failed,
                ReleaseCall, RetainCall
  <2> QED BY <1>4, <1>5, <1>6, <2>1
          DEF PaidNext, Arrive, ProviderCharges, Prepare, Dispatch, Stop, NextProductive,
              CompletionGate, EndAttempt, Restart, gatewayVars
<1> QED BY <1>5, <1>6 DEF paidVars

\* The provider's books and the candidates, in one invariant.
LEMMA BooksHold == PaidSpec => []Books
<1>1. PaidInit => Books
  BY LedgerAssumption DEF PaidInit, LedgerInit, Books, Calling, At, Active, Exists
<1>2. LedgerTypeOK /\ LedgerTypeOK' /\ PaidTypeOK /\ Books /\ [PaidNext]_paidVars => Books'
  BY BoundaryBooks
<1> QED BY <1>1, <1>2, BoundaryIsLedger, LedgerTyping, PTL DEF PaidSpec

\* Every call of the provider is on the books with its whole charge, and a candidate is
\* committed only over settled operations of its own, whatever fails in the store, in the
\* provider's answer or in the supervisor.
THEOREM PaidSoundHolds == PaidSpec => []PaidSound
<1>1. PaidInit => CandidatePaid BY DEF PaidInit, CandidatePaid
<1>2. LedgerTypeOK /\ PaidTypeOK /\ CompletionOrder /\ CandidatePaid /\ [PaidNext]_paidVars
        => CandidatePaid'
  BY BoundaryCandidates
<1>3. PaidSpec => []CandidatePaid
  BY <1>1, <1>2, BoundaryIsLedger, LedgerTyping, CompletionOrderHolds, PTL DEF PaidSpec
<1>4. LedgerTypeOK /\ PaidTypeOK /\ Books /\ CandidatePaid => PaidSound
  BY BooksCover DEF PaidSound
<1> QED BY <1>3, <1>4, BooksHold, BoundaryIsLedger, LedgerTyping, PTL
-----------------------------------------------------------------------------
(* What the provider charged a Work. *)

\* The provider's charges are summed as the ledger sums what it holds against them.
LEMMA SpentIsSum ==
  ASSUME NEW w
  PROVE  MapThenSumSet(LAMBDA o : cost[o], {o \in OpIds : Exists(o) /\ op[o].binding.work = w})
           = SumOver(cost, OpsOf(w))
BY DEF SumOver, OpsOf, MapThenSumSet, MapThenFoldSet

\* Whatever the provider charges a Work, over all generations, attempts, restarts and lost
\* answers, stays within the ceiling its first generation fixed.
THEOREM SpentHolds == PaidSpec => []SpentWithinCeiling
<1>1. ASSUME LedgerTypeOK, PaidTypeOK, Books, CeilingHeld
      PROVE  SpentWithinCeiling
  <2> SUFFICES ASSUME NEW w \in Works, budget[w] # NoBudget
               PROVE  MapThenSumSet(LAMBDA o : cost[o],
                                    {o \in OpIds : Exists(o) /\ op[o].binding.work = w})
                        <= budget[w].ceiling
    BY DEF SpentWithinCeiling
  <2> DEFINE S == OpsOf(w)
  <2>1. S \subseteq OpIds /\ IsFiniteSet(OpIds) BY LedgerAssumption DEF OpsOf
  <2>2. cost \in [OpIds -> Nat] /\ Held(op) \in [OpIds -> Nat]
    BY <1>1, HeldTyped DEF PaidTypeOK, LedgerTypeOK
  <2>3. \A o \in S : cost[o] <= Held(op)[o] BY <1>1, BooksCover DEF OpsOf, Held, Exists
  <2>4. SumOver(Held(op), S) <= budget[w].ceiling
    BY <1>1, TotalsAreSums DEF CeilingHeld
  <2>5. budget[w].ceiling \in Nat BY <1>1, LedgerAssumption DEF LedgerTypeOK, Budget
  <2> HIDE DEF S
  <2>6. SumOver(cost, S) <= SumOver(Held(op), S) BY <2>1, <2>2, <2>3, SumMonotone
  <2>7. SumOver(cost, S) \in Nat /\ SumOver(Held(op), S) \in Nat BY <2>1, <2>2, SumTyped
  <2>8. SumOver(cost, S) <= budget[w].ceiling BY <2>4, <2>5, <2>6, <2>7
  <2> QED BY <2>8, SpentIsSum DEF S
<1> QED BY <1>1, BooksHold, BoundaryIsLedger, LedgerTyping, CeilingHeldAlways, PTL
-----------------------------------------------------------------------------
(* Who still works on an operation. *)

\* A row whose outcome is open and not yet given up as unknown.
Pending(row) == row # NoOp /\ row.state \in {"reserved", "dispatched"}

\* A handler has no operation before it reserved one.
Fresh == \A r \in Requests : Active(r) /\ request[r].pc \in Before => request[r].op = NoId

\* A step keeps NoOrphan if no row becomes pending without a handler, and no handler
\* leaves its operation pending.
Followed ==
  /\ \A o \in OpIds : Pending(op'[o]) => Pending(op[o]) \/ \E r \in Requests : Active(r)' /\ request'[r].op = o
  /\ \A r \in Requests : Active(r) =>
       \/ request[r].op \notin OpIds
       \/ ~Pending(op'[request[r].op])
       \/ Active(r)' /\ request'[r].op = request[r].op

LEMMA NobodyLeft == ASSUME NoOrphan, Followed PROVE NoOrphan'
<1> SUFFICES ASSUME NEW o \in OpIds, Pending(op'[o])
             PROVE  \E r \in Requests : Active(r)' /\ request'[r].op = o
  BY DEF NoOrphan, Pending, Exists
<1>1. CASE Pending(op[o])
  <2>1. PICK r \in Requests : Active(r) /\ request[r].op = o
    BY <1>1 DEF NoOrphan, Pending, Exists
  <2> QED BY <2>1 DEF Followed
<1>2. CASE ~Pending(op[o]) BY <1>2 DEF Followed
<1> QED BY <1>1, <1>2

\* What a handler's step makes of its own record and of its row.
LEMMA HandleFollows ==
  ASSUME ~UnreliableStore, LedgerTypeOK, PaidTypeOK, Fresh, NEW r \in Requests, Handle(r)
  PROVE  Followed /\ Fresh'
<1>1. Active(r) /\ request[r] \in Request
  BY RequestTyped DEF Handle, Boundary, Capacity, Denied, ReserveCall, MarkCall, SettleCall, Call,
                      Failed, ReleaseCall, RetainCall, At
<1>2. \A q \in Requests : q # r => request'[q] = request[q] BY HandlersElsewhere
<1> DEFINE mine == request[r].op
           free == mine \notin OpIds \/ ~Pending(op'[mine])
           same == Active(r)' /\ request'[r].op = mine
           rows == \A o \in OpIds : Pending(op'[o]) =>
                     Pending(op[o]) \/ (Active(r)' /\ request'[r].op = o)
           mark == Active(r)' => request'[r].pc \notin Before \/ request'[r].op = NoId
<1>3. rows /\ (free \/ same) /\ mark => Followed /\ Fresh'
  <2>1. \A q \in Requests : q # r => /\ Active(q)' <=> Active(q)
                                     /\ request'[q] = request[q]
    BY <1>2 DEF Active
  <2>2. rows /\ (free \/ same) => Followed BY <1>1, <2>1 DEF Followed
  <2>3. mark => Fresh' BY <2>1 DEF Fresh
  <2> QED BY <2>2, <2>3
<1>4. UNCHANGED op => rows OBVIOUS
<1>5. Finish(r) => ~Active(r)' BY DEF Finish, Active, PaidTypeOK
<1>6. ASSUME NEW pc \in {"capacity", "call", "wait", "release", "retain"}, Goto(r, pc)
      PROVE  same /\ request'[r].pc = pc
  BY <1>1, <1>6, GatewayAssumption DEF Goto, PaidTypeOK, Request, Active
<1>7. CASE request[r].pc \in Before
  <2>1. mine = NoId /\ free BY <1>1, <1>7, GatewayAssumption DEF Fresh
  <2>2. CASE Boundary(r) \/ Denied(r)
    <3>1. Finish(r) \/ Goto(r, "capacity") BY <2>2 DEF Boundary, Denied
    <3>2. UNCHANGED op BY <2>2 DEF Boundary, Denied, ledgerVars
    <3>3. mark BY <1>5, <1>6, <2>1, <3>1
    <3> QED BY <1>3, <1>4, <2>1, <3>2, <3>3
  <2>3. CASE Capacity(r)
    <3>1. UNCHANGED op BY <2>3 DEF Capacity, ledgerVars
    <3>2. Active(r)' => request'[r].op = mine
      BY <1>1, <2>3 DEF Capacity, Finish, Active, PaidTypeOK, Request
    <3>3. mark BY <2>1, <3>2
    <3> QED BY <1>3, <1>4, <2>1, <3>1, <3>3
  <2>4. CASE ReserveCall(r)
    <3>1. PICK o \in OpIds, p \in Plans :
            /\ Reserve(o, request[r].x, p.card, p.perOp, PhaseOf(request[r].stage))
            /\ request' = [request EXCEPT ![r] = [@ EXCEPT !.pc = "mark", !.op = o]]
      BY <2>4 DEF ReserveCall
    <3>2. Active(r)' /\ request'[r].op = o /\ request'[r].pc = "mark"
      BY <1>1, <3>1, GatewayAssumption DEF PaidTypeOK, Request, Active
    <3>3. \A q \in OpIds : q # o => op'[q] = op[q] BY <3>1 DEF Reserve, LedgerTypeOK
    <3>4. rows BY <3>2, <3>3
    <3>5. mark BY <3>2 DEF Before
    <3> QED BY <1>3, <2>1, <3>4, <3>5
  <2>5. ~(MarkCall(r) \/ Call(r) \/ SettleCall(r) \/ Failed(r) \/ ReleaseCall(r) \/ RetainCall(r))
    BY <1>7 DEF MarkCall, Call, SettleCall, Failed, ReleaseCall, RetainCall, At, Before
  <2> QED BY <2>2, <2>3, <2>4, <2>5 DEF Handle
<1>8. CASE request[r].pc \notin Before
  <2>1. mine \in OpIds /\ Exists(mine) BY <1>1, <1>8 DEF PaidTypeOK, Before, Request
  <2>2. ASSUME NEW s \in {"settled", "released", "unknown"}, Writes(mine, s)
        PROVE  free /\ rows
    BY <2>2 DEF Writes, Pending, Exists
  <2>3. free /\ Finish(r) /\ rows => Followed /\ Fresh'
    BY <1>3, <1>5
  <2>4. ASSUME NEW pc \in {"call", "wait", "release", "retain"}, Goto(r, pc), rows
        PROVE  Followed /\ Fresh'
    <3>1. same /\ mark BY <1>6, <2>4 DEF Before
    <3> QED BY <1>3, <2>4, <3>1
  <2>5. CASE MarkCall(r)
    <3>1. Goto(r, "call") \/ Goto(r, "release") BY <2>5 DEF MarkCall
    <3>2. MarkDispatched(mine) \/ UNCHANGED op BY <2>5 DEF MarkCall, ledgerVars
    <3>3. ASSUME MarkDispatched(mine) PROVE rows
      BY <2>1, <3>3, RowWritten DEF Writes, Pending, Exists
    <3> HIDE DEF mine, rows, free
    <3> QED BY <1>4, <2>4, <3>1, <3>2, <3>3
  <2>6. CASE Call(r) \/ Failed(r)
    <3>1. UNCHANGED op /\ (Goto(r, "wait") \/ Goto(r, "release"))
      BY <2>6 DEF Call, Failed, ledgerVars
    <3> QED BY <1>4, <2>4, <3>1
  <2>7. CASE SettleCall(r)
    <3>1. Finish(r) /\ \E p \in Receipts : Settle(mine, cost[mine], p) BY <2>7 DEF SettleCall
    <3>2. Writes(mine, "settled") BY <2>1, <3>1, RowWritten
    <3> QED BY <2>2, <2>3, <3>1, <3>2
  <2>8. CASE ReleaseCall(r)
    <3>1. \/ ReleaseUndispatched(mine) /\ Finish(r)
          \/ UNCHANGED op /\ Goto(r, "retain")
      BY <2>8 DEF ReleaseCall, ledgerVars
    <3>2. ReleaseUndispatched(mine) => Writes(mine, "released") BY <2>1, RowWritten
    <3> HIDE DEF mine, rows, free
    <3> QED BY <1>4, <2>2, <2>3, <2>4, <3>1, <3>2
  <2>9. CASE RetainCall(r)
    <3>1. /\ Finish(r)
          /\ MarkUnknown(mine) \/ (op[mine].state \in Final /\ UNCHANGED op)
      BY <2>9 DEF RetainCall, ledgerVars
    <3>2. MarkUnknown(mine) => Writes(mine, "unknown") BY <2>1, RowWritten
    <3>3. op[mine].state \in Final /\ UNCHANGED op => free BY <2>1 DEF Pending, Final, Exists
    <3> QED BY <1>4, <2>2, <2>3, <3>1, <3>2, <3>3
  <2>10. ~(Boundary(r) \/ Capacity(r) \/ Denied(r) \/ ReserveCall(r))
    BY <1>8 DEF Boundary, Capacity, Denied, ReserveCall, At, Before
  <2> QED BY <2>5, <2>6, <2>7, <2>8, <2>9, <2>10 DEF Handle
<1> QED BY <1>7, <1>8

\* Every step of the boundary follows up the pending rows, or recovers all of them.
LEMMA BoundaryFollows ==
  ASSUME ~UnreliableStore, LedgerTypeOK, LedgerTypeOK', PaidTypeOK, Fresh, NoOrphan,
         [PaidNext]_paidVars
  PROVE  NoOrphan' /\ Fresh'
<1>1. ASSUME UNCHANGED <<op, request>> PROVE NoOrphan' /\ Fresh'
  BY <1>1 DEF NoOrphan, Fresh, Exists, Active
<1>2. ASSUME NEW r \in Requests, Handle(r) PROVE NoOrphan' /\ Fresh'
  BY <1>2, HandleFollows, NobodyLeft
<1>3. ASSUME NEW r \in Requests, Arrive(r) PROVE NoOrphan' /\ Fresh'
  <2>1. UNCHANGED op /\ ~Active(r) BY <1>3 DEF Arrive, ledgerVars
  <2>2. \A q \in Requests : q # r => request'[q] = request[q] BY <1>3, HandlersElsewhere
  <2>3. request'[r].op = NoId BY <1>3 DEF Arrive, PaidTypeOK
  <2>4. Fresh' BY <2>2, <2>3 DEF Fresh, Active
  <2>5. \A o \in OpIds : Pending(op'[o]) => Pending(op[o]) BY <2>1 DEF Pending, Exists
  <2>6. \A q \in Requests : Active(q) => Active(q)' /\ request'[q].op = request[q].op
    BY <2>1, <2>2 DEF Active
  <2>7. Followed BY <2>5, <2>6 DEF Followed
  <2> QED BY <2>4, <2>7, NobodyLeft
<1>4. CASE Restart
  <2>1. Fresh' BY <1>4 DEF Restart, Fresh, Active
  <2>2. CASE RecoverUnknown
    <3>1. \A o \in OpIds : ~Pending(op'[o])
      BY <2>2, RecoveredRows DEF Pending, Exists, Unresolved
    <3> QED BY <2>1, <3>1 DEF NoOrphan, Pending, Exists
  <2>3. CASE (\A w \in Works : UnresolvedOf(w) = {}) /\ UNCHANGED ledgerVars
    <3>1. ASSUME NEW o \in OpIds, Pending(op'[o]) PROVE FALSE
      <4>1. Pending(op[o]) BY <2>3, <3>1 DEF Pending, Exists, ledgerVars
      <4>2. op[o].binding.work \in Works BY <4>1, RowTyped DEF Pending, Exists
      <4>3. o \in UnresolvedOf(op[o].binding.work)
        BY <4>1, <4>2 DEF Pending, UnresolvedOf, OpsOf, Unresolved, Exists
      <4> QED BY <2>3, <4>2, <4>3
    <3> QED BY <2>1, <3>1 DEF NoOrphan, Pending, Exists
  <2> QED BY <1>4, <2>2, <2>3 DEF Restart
<1>5. ASSUME NEW o \in OpIds, ProviderCharges(o) PROVE UNCHANGED <<op, request>>
  BY <1>5 DEF ProviderCharges, ledgerVars
<1>6. ASSUME NEW w \in Works, NEW g \in Generations, NEW r \in Orders, NEW c \in Ceilings,
             NEW p \in Plans, Prepare(w, g, r, c, 1, p)
      PROVE  UNCHANGED <<op, request>>
  BY <1>6 DEF Prepare, CreateBudget, gatewayVars
<1>7. ASSUME NEW x \in Binding, Dispatch(x) \/ Stop(x) PROVE UNCHANGED <<op, request>>
  BY <1>7 DEF Dispatch, Stop, BindAuthority, CancelBound, Cancel, gatewayVars
<1>8. CASE NextProductive \/ CompletionGate \/ CommitCandidate \/ EndAttempt
  BY <1>1, <1>8 DEF NextProductive, CompletionGate, CommitCandidate, EndAttempt, BeginCompletion,
                    FenceAuthority, ledgerVars
<1>9. CASE Tick /\ UNCHANGED gatewayVars BY <1>1, <1>9 DEF Tick, gatewayVars
<1>10. CASE UNCHANGED paidVars BY <1>1, <1>10 DEF paidVars
<1>11. CASE PaidNext
  BY <1>1, <1>2, <1>3, <1>4, <1>5, <1>6, <1>7, <1>8, <1>9, <1>11 DEF PaidNext
<1> QED BY <1>10, <1>11

\* With a store that answers truthfully, whoever finds an operation reserved or dispatched
\* finds the handler that will settle, release or retain it.
THEOREM NoOrphanHolds ==
  ASSUME ~UnreliableStore PROVE PaidSpec => []NoOrphan
<1>1. PaidInit => NoOrphan /\ Fresh
  BY DEF PaidInit, LedgerInit, NoOrphan, Fresh, Exists, Active
<1>2. LedgerTypeOK /\ LedgerTypeOK' /\ PaidTypeOK /\ Fresh /\ NoOrphan /\ [PaidNext]_paidVars
        => NoOrphan' /\ Fresh'
  BY BoundaryFollows
<1> QED BY <1>1, <1>2, BoundaryIsLedger, LedgerTyping, PTL DEF PaidSpec
-----------------------------------------------------------------------------
(* The boundary implements PaidWork. *)

\* What PaidWork sees of the ledger.
PaidCeiling == [w \in Works |-> IF budget[w] = NoBudget THEN 0 ELSE budget[w].ceiling]
PaidOwner   == [o \in OpIds |-> IF Exists(o) THEN op[o].binding.work ELSE NoWork]
PaidStage   == [o \in OpIds |-> Stage(o)]
PaidHold    == [o \in OpIds |-> IF Exists(o) THEN Exposure(op[o]) ELSE 0]
PaidView    == <<PaidCeiling, PaidOwner, PaidStage, PaidHold, cost>>

\* A step that PaidWork sees as nothing, or as one of its actions.
LEMMA ViewUnchanged == UNCHANGED PaidView => [Abstract!Next]_(Abstract!paidVars)
BY DEF PaidView, PaidCeiling, PaidOwner, PaidStage, PaidHold, Abstract!paidVars

LEMMA ViewOpen ==
  ASSUME NEW w \in Works, NEW c \in Ceilings, PaidCeiling[w] = 0,
         PaidCeiling' = [PaidCeiling EXCEPT ![w] = c],
         UNCHANGED <<PaidOwner, PaidStage, PaidHold, cost>>
  PROVE  Abstract!Next
<1>1. Abstract!Open(w, c) BY DEF PaidCeiling, PaidOwner, PaidStage, PaidHold, Abstract!Open
<1> QED BY <1>1 DEF Abstract!Next

LEMMA ViewLive ==
  ASSUME NEW S \in SUBSET OpIds, S # {}, \A o \in S : PaidStage[o] = "held",
         PaidStage' = [o \in OpIds |-> IF o \in S THEN "live" ELSE PaidStage[o]],
         UNCHANGED <<PaidCeiling, PaidOwner, PaidHold, cost>>
  PROVE  Abstract!Next
<1>1. Abstract!GoLive(S) BY DEF PaidCeiling, PaidOwner, PaidStage, PaidHold, Abstract!GoLive
<1> QED BY <1>1 DEF Abstract!Next

LEMMA ViewCharge ==
  ASSUME NEW o \in OpIds, PaidStage[o] = "live", cost[o] = 0, NEW c \in 1..PaidHold[o],
         c <= PaidHold[o], cost' = [cost EXCEPT ![o] = c],
         UNCHANGED <<PaidCeiling, PaidOwner, PaidStage, PaidHold>>
  PROVE  Abstract!Next
<1>1. Abstract!Charge(o, c) BY DEF PaidCeiling, PaidOwner, PaidStage, PaidHold, Abstract!Charge
<1>2. \E n \in 1..PaidHold[o] : Abstract!Charge(o, n) BY <1>1
<1> QED BY <1>2 DEF Abstract!Next, PaidHold

LEMMA ViewSettled ==
  ASSUME NEW o \in OpIds, PaidStage[o] = "live", cost[o] > 0,
         PaidStage' = [PaidStage EXCEPT ![o] = "closed"],
         PaidHold' = [PaidHold EXCEPT ![o] = cost[o]],
         UNCHANGED <<PaidCeiling, PaidOwner, cost>>
  PROVE  Abstract!Next
<1>1. Abstract!Settled(o) BY DEF PaidCeiling, PaidOwner, PaidStage, PaidHold, Abstract!Settled
<1> QED BY <1>1 DEF Abstract!Next

LEMMA ViewGivenBack ==
  ASSUME NEW o \in OpIds, PaidStage[o] = "held",
         PaidStage' = [PaidStage EXCEPT ![o] = "closed"],
         PaidHold' = [PaidHold EXCEPT ![o] = 0],
         UNCHANGED <<PaidCeiling, PaidOwner, cost>>
  PROVE  Abstract!Next
<1>1. Abstract!GivenBack(o) BY DEF PaidCeiling, PaidOwner, PaidStage, PaidHold, Abstract!GivenBack
<1> QED BY <1>1 DEF Abstract!Next

LEMMA CommittedIsSum ==
  ASSUME NEW w
  PROVE  Abstract!Committed(w) = SumOver(PaidHold, Abstract!Of(w))
BY DEF Abstract!Committed, Abstract!MapThenSumSet, Abstract!MapThenFoldSet, SumOver, MapThenSumSet,
       MapThenFoldSet, PaidHold

LEMMA ViewCommit ==
  ASSUME NEW o \in OpIds, NEW w \in Works, NEW n \in {p.perOp : p \in Plans}, PaidStage[o] = "free",
         \A q \in OpIds : PaidOwner[q] = w => PaidStage[q] = "closed",
         SumOver(PaidHold, {q \in OpIds : PaidOwner[q] = w}) + n <= PaidCeiling[w],
         PaidOwner' = [PaidOwner EXCEPT ![o] = w],
         PaidStage' = [PaidStage EXCEPT ![o] = "held"],
         PaidHold' = [PaidHold EXCEPT ![o] = n],
         UNCHANGED <<PaidCeiling, cost>>
  PROVE  Abstract!Next
<1>1. Abstract!Of(w) = {q \in OpIds : PaidOwner[q] = w} BY DEF Abstract!Of, PaidOwner
<1>2. Abstract!Committed(w) + n <= PaidCeiling[w] BY <1>1, CommittedIsSum
<1>3. \A q \in Abstract!Of(w) : PaidStage[q] = "closed" BY <1>1
<1> HIDE DEF Abstract!Of, Abstract!Committed
<1>4. Abstract!Commit(o, w, n)
  BY <1>2, <1>3 DEF PaidCeiling, PaidOwner, PaidStage, PaidHold, Abstract!Commit
<1> QED BY <1>4 DEF Abstract!Next

\* A step that opens no Work leaves every ceiling alone ...
LEMMA CeilingsKept ==
  ASSUME AllForward, \A w \in Works : budget[w] = NoBudget => budget'[w] = NoBudget
  PROVE  PaidCeiling' = PaidCeiling
<1>1. \A w \in Works : budget[w] # NoBudget => budget'[w] # NoBudget /\ budget'[w].ceiling = budget[w].ceiling
  BY DEF AllForward, Forward
<1> QED BY <1>1 DEF PaidCeiling

\* ... and only a new budget opens one.
LEMMA OpensNone ==
  ASSUME LedgerTypeOK,
         \/ UNCHANGED budget
         \/ \E x \in Binding : BindAuthority(x) \/ BeginCompletion(x) \/ FenceAuthority(x) \/ CancelBound(x)
         \/ \E o \in OpIds : MarkUnknown(o)
         \/ RecoverUnknown
  PROVE  \A w \in Works : budget[w] = NoBudget => budget'[w] = NoBudget
<1>1. ASSUME NEW x \in Binding,
             BindAuthority(x) \/ BeginCompletion(x) \/ FenceAuthority(x) \/ CancelBound(x)
      PROVE  \A w \in Works : budget[w] = NoBudget => budget'[w] = NoBudget
  <2>1. budget[x.work] # NoBudget
    BY <1>1 DEF BindAuthority, BeginCompletion, CompletionEligible, HoldsAuthority, Payable,
                FenceAuthority, MatchesCurrent, CancelBound
  <2>2. \A w \in Works : w # x.work => budget'[w] = budget[w]
    BY <1>1 DEF BindAuthority, BeginCompletion, FenceAuthority, CancelBound, Cancel, LedgerTypeOK
  <2> QED BY <2>1, <2>2
<1>2. ASSUME NEW o \in OpIds, MarkUnknown(o)
      PROVE  \A w \in Works : budget[w] = NoBudget => budget'[w] = NoBudget
  <2>1. budget[op[o].binding.work] # NoBudget BY <1>2 DEF MarkUnknown, LedgerTypeOK
  <2>2. \A w \in Works : w # op[o].binding.work => budget'[w] = budget[w]
    BY <1>2 DEF MarkUnknown, LedgerTypeOK
  <2> QED BY <2>1, <2>2
<1>3. CASE RecoverUnknown
  <2> SUFFICES ASSUME NEW w \in Works, budget[w] = NoBudget PROVE budget'[w] = NoBudget
    OBVIOUS
  <2>1. UnresolvedOf(w) = {} BY DEF UnresolvedOf, OpsOf, LedgerTypeOK
  <2> QED BY <1>3, <2>1 DEF RecoverUnknown
<1> QED BY <1>1, <1>2, <1>3

\* What PaidWork sees of a step that writes one row.
LEMMA ViewRow ==
  ASSUME NEW o \in OpIds, Exists(o), op'[o] # NoOp, op'[o].binding = op[o].binding,
         \A q \in OpIds : q # o => op'[q] = op[q]
  PROVE  /\ PaidOwner' = PaidOwner
         /\ PaidHold' = [PaidHold EXCEPT ![o] = Exposure(op'[o])]
         /\ \A s : Stage(o)' = s => PaidStage' = [PaidStage EXCEPT ![o] = s]
BY DEF PaidOwner, PaidHold, PaidStage, Stage, Exists

LEMMA ViewSame == ASSUME UNCHANGED op PROVE UNCHANGED <<PaidOwner, PaidStage, PaidHold>>
BY DEF PaidOwner, PaidStage, PaidHold, Stage, Exists

\* A dispatched row goes live; a retained one is live already, or goes live without a call.
LEMMA ViewDispatched ==
  ASSUME LedgerTypeOK, AllRetained, NEW o \in OpIds, MarkDispatched(o) \/ MarkUnknown(o),
         UNCHANGED <<PaidCeiling, cost>>
  PROVE  [Abstract!Next]_(Abstract!paidVars)
<1>1. PICK s \in {"dispatched", "unknown"} : Writes(o, s) BY RowWritten
<1>2. op[o] \in Operation BY <1>1, RowTyped DEF Writes
<1>3. op[o].state \in {"reserved", "dispatched", "unknown"} BY RowWritten DEF Unresolved
<1>4. op'[o] # NoOp /\ op'[o].binding = op[o].binding BY <1>1 DEF AllRetained, Retained, Writes
<1>5. Exposure(op'[o]) = Exposure(op[o]) BY <1>1, <1>3 DEF Writes, Exposure
<1>6. Stage(o)' = "live" BY <1>1, <1>4 DEF Writes, Stage, Exists
<1>7. /\ PaidOwner' = PaidOwner /\ PaidHold' = PaidHold
      /\ PaidStage' = [PaidStage EXCEPT ![o] = "live"]
  BY <1>1, <1>4, <1>5, <1>6, ViewRow DEF Writes, PaidHold
<1>8. CASE op[o].state = "reserved"
  <2>1. PaidStage[o] = "held" BY <1>1, <1>8 DEF PaidStage, Stage, Writes
  <2>2. PaidStage' = [q \in OpIds |-> IF q \in {o} THEN "live" ELSE PaidStage[q]]
    BY <1>7 DEF PaidStage
  <2> QED BY <1>7, <2>1, <2>2, ViewLive
<1>9. CASE op[o].state # "reserved"
  <2>1. PaidStage[o] = "live" BY <1>1, <1>3, <1>9 DEF PaidStage, Stage, Writes
  <2>2. PaidStage' = PaidStage BY <1>7, <2>1 DEF PaidStage
  <2> QED BY <1>7, <2>2, ViewUnchanged DEF PaidView
<1> QED BY <1>8, <1>9

LEMMA ViewReleased ==
  ASSUME LedgerTypeOK, AllRetained, NEW o \in OpIds, ReleaseUndispatched(o),
         UNCHANGED <<PaidCeiling, cost>>
  PROVE  Abstract!Next
<1>1. op[o].state = "reserved" /\ Writes(o, "released") BY RowWritten
<1>2. op'[o] # NoOp /\ op'[o].binding = op[o].binding BY <1>1 DEF AllRetained, Retained, Writes
<1>3. Exposure(op'[o]) = 0 /\ Stage(o)' = "closed" BY <1>1, <1>2 DEF Writes, Exposure, Stage, Exists
<1>4. /\ PaidOwner' = PaidOwner /\ PaidHold' = [PaidHold EXCEPT ![o] = 0]
      /\ PaidStage' = [PaidStage EXCEPT ![o] = "closed"]
  BY <1>1, <1>2, <1>3, ViewRow DEF Writes
<1>5. PaidStage[o] = "held" BY <1>1 DEF PaidStage, Stage, Writes
<1> QED BY <1>4, <1>5, ViewGivenBack

LEMMA ViewSettle ==
  ASSUME LedgerTypeOK, AllRetained, NEW o \in OpIds, NEW p, Settle(o, cost[o], p), cost[o] > 0,
         UNCHANGED <<PaidCeiling, cost>>
  PROVE  Abstract!Next
<1>1. /\ op[o].state \in {"dispatched", "unknown"} /\ Writes(o, "settled") /\ op'[o].actual = cost[o]
  BY RowWritten
<1>2. op'[o] # NoOp /\ op'[o].binding = op[o].binding BY <1>1 DEF AllRetained, Retained, Writes
<1>3. Exposure(op'[o]) = cost[o] /\ Stage(o)' = "closed"
  BY <1>1, <1>2 DEF Writes, Exposure, Stage, Exists
<1>4. /\ PaidOwner' = PaidOwner /\ PaidHold' = [PaidHold EXCEPT ![o] = cost[o]]
      /\ PaidStage' = [PaidStage EXCEPT ![o] = "closed"]
  BY <1>1, <1>2, <1>3, ViewRow DEF Writes
<1>5. PaidStage[o] = "live" BY <1>1 DEF PaidStage, Stage, Writes
<1> QED BY <1>4, <1>5, ViewSettled

\* The ledger's own admission is what PaidWork asks of a commitment.
LEMMA ViewReserve ==
  ASSUME LedgerTypeOK, NEW o \in OpIds, NEW x \in Binding, NEW p \in Plans, NEW ph \in Phases,
         Reserve(o, x, p.card, p.perOp, ph), UNCHANGED <<PaidCeiling, cost>>
  PROVE  Abstract!Next
<1> DEFINE w == x.work
           n == p.perOp
<1>0. w \in Works /\ p.card \in Cards /\ n \in Nat /\ NoWork \notin Works
  BY PlanTyped, GatewayAssumption DEF Binding
<1>1. /\ ~Exists(o) /\ op'[o] # NoOp /\ op'[o].binding = x /\ op'[o].reserved = n
      /\ op'[o].state = "reserved" /\ \A q \in OpIds : q # o => op'[q] = op[q]
  BY <1>0, RowReserved
<1>2. /\ HoldsAuthority(budget[w], x, ph) /\ UnresolvedOf(w) = {}
      /\ n <= budget[w].ceiling - TotalExposure(OpsOf(w))
  BY DEF Reserve, Admissible
<1>3. budget[w] # NoBudget /\ budget[w].ceiling \in Nat
  BY <1>0, <1>2, LedgerAssumption DEF HoldsAuthority, Payable, LedgerTypeOK, Budget
<1>4. {q \in OpIds : PaidOwner[q] = w} = OpsOf(w) BY <1>0 DEF PaidOwner, OpsOf
<1>5. TotalExposure(OpsOf(w)) = SumOver(PaidHold, OpsOf(w))
  BY TotalsAreSums DEF PaidHold, Held, Exists
<1>6. SumOver(PaidHold, OpsOf(w)) \in Nat
  <2>1. PaidHold \in [OpIds -> Nat] BY HeldTyped DEF PaidHold, Held, Exists, LedgerTypeOK
  <2>2. OpsOf(w) \subseteq OpIds BY DEF OpsOf
  <2> QED BY <2>1, <2>2, SumTyped, LedgerAssumption
<1> DEFINE sum == SumOver(PaidHold, OpsOf(w))
<1>7. sum + n <= PaidCeiling[w]
  <2>1. n <= budget[w].ceiling - sum /\ sum \in Nat BY <1>2, <1>5, <1>6
  <2>2. PaidCeiling[w] = budget[w].ceiling BY <1>0, <1>3 DEF PaidCeiling
  <2> HIDE DEF sum
  <2> QED BY <1>0, <1>3, <2>1, <2>2
<1>8. ASSUME NEW q \in OpIds, PaidOwner[q] = w PROVE PaidStage[q] = "closed"
  <2>1. q \in OpsOf(w) BY <1>4, <1>8
  <2>2. op[q].state \notin Unresolved /\ Exists(q) BY <1>2, <2>1 DEF UnresolvedOf, OpsOf
  <2> QED BY <2>2 DEF PaidStage, Stage, Unresolved
<1>9. PaidStage[o] = "free" BY <1>1 DEF PaidStage, Stage
<1>10. /\ PaidOwner' = [PaidOwner EXCEPT ![o] = w]
       /\ PaidStage' = [PaidStage EXCEPT ![o] = "held"]
       /\ PaidHold' = [PaidHold EXCEPT ![o] = n]
  <2>1. Exposure(op'[o]) = n BY <1>1 DEF Exposure
  <2> QED BY <1>1, <2>1 DEF PaidOwner, PaidStage, PaidHold, Stage, Exists
<1>11. n \in {q.perOp : q \in Plans} OBVIOUS
<1>12. SumOver(PaidHold, {q \in OpIds : PaidOwner[q] = w}) + n <= PaidCeiling[w]
  BY <1>4, <1>7
<1> HIDE DEF w, n
<1> QED BY <1>0, <1>8, <1>9, <1>10, <1>11, <1>12, ViewCommit

\* A restart makes everything reserved live at once: the provider may have been called.
LEMMA ViewRecovered ==
  ASSUME LedgerTypeOK, RecoverUnknown, UNCHANGED <<PaidCeiling, cost>>
  PROVE  [Abstract!Next]_(Abstract!paidVars)
<1> DEFINE S == {o \in OpIds : PaidStage[o] = "held"}
<1>1. ASSUME NEW o \in OpIds
      PROVE  /\ Exists(o)' <=> Exists(o)
             /\ Exists(o) => /\ op'[o].binding = op[o].binding
                             /\ Exposure(op'[o]) = Exposure(op[o])
             /\ Stage(o)' = IF Stage(o) = "held" THEN "live" ELSE Stage(o)
  <2>1. CASE Exists(o) /\ op[o].state \in Unresolved
    <3>1. op[o] \in Operation /\ op'[o] = [op[o] EXCEPT !.state = "unknown"]
      BY <2>1, RowTyped DEF RecoverUnknown
    <3>2. [op[o] EXCEPT !.state = "unknown"] \in Operation BY <3>1 DEF Operation, Unresolved
    <3>3. op'[o] # NoOp BY <3>1, <3>2, LedgerAssumption
    <3>4. /\ op'[o].binding = op[o].binding /\ op'[o].reserved = op[o].reserved
          /\ op'[o].state = "unknown"
      BY <3>1 DEF Operation
    <3>5. Exposure(op'[o]) = Exposure(op[o]) BY <2>1, <3>4 DEF Exposure, Unresolved
    <3>6. Stage(o)' = "live" BY <3>3, <3>4 DEF Stage, Exists
    <3>7. Stage(o) \in {"held", "live"} BY <2>1 DEF Stage, Unresolved
    <3> QED BY <2>1, <3>3, <3>4, <3>5, <3>6, <3>7 DEF Exists
  <2>2. CASE ~(Exists(o) /\ op[o].state \in Unresolved)
    <3>1. op'[o] = op[o] BY <2>2 DEF RecoverUnknown
    <3>2. Stage(o) # "held" BY <2>2 DEF Stage, Unresolved
    <3> QED BY <3>1, <3>2 DEF Exists, Stage
  <2> QED BY <2>1, <2>2
<1>2. PaidOwner' = PaidOwner /\ PaidHold' = PaidHold BY <1>1 DEF PaidOwner, PaidHold
<1>3. PaidStage' = [o \in OpIds |-> IF o \in S THEN "live" ELSE PaidStage[o]]
  BY <1>1 DEF PaidStage
<1>4. CASE S # {} BY <1>2, <1>3, <1>4, ViewLive
<1>5. CASE S = {}
  <2>1. PaidStage' = PaidStage BY <1>3, <1>5 DEF PaidStage
  <2> QED BY <1>2, <2>1, ViewUnchanged DEF PaidView
<1> QED BY <1>4, <1>5

LEMMA ViewCreated ==
  ASSUME LedgerTypeOK, NEW w \in Works, NEW g \in Generations, NEW r \in Orders,
         NEW c \in Ceilings, NEW p \in Plans, CreateBudget(w, g, r, c, 1, p), UNCHANGED cost
  PROVE  [Abstract!Next]_(Abstract!paidVars)
<1>0. 1 \in Deadlines BY LedgerAssumption DEF Deadlines
<1>1. UNCHANGED op BY DEF CreateBudget
<1>2. AllForward BY <1>0, CreateBudgetForward
<1>3. CASE NewBudget(w, g, r, c, 1, p)
  <2> DEFINE row == [generation |-> g, order |-> r, ceiling |-> c, deadline |-> 1,
                     plan |-> p, cancelled |-> FALSE, writer |-> NoWriter,
                     authority |-> "prepared", phase |-> "productive"]
  <2>1. p \in PlanType BY LedgerAssumption
  <2>2. row \in Budget /\ row.ceiling = c BY <2>1 DEF Budget, Phases
  <2>3. row # NoBudget BY <2>2, LedgerAssumption
  <2>4. budget[w] = NoBudget /\ budget' = [budget EXCEPT ![w] = row] BY <1>3 DEF NewBudget
  <2> HIDE DEF row
  <2>5. PaidCeiling[w] = 0 /\ PaidCeiling' = [PaidCeiling EXCEPT ![w] = c]
    BY <2>2, <2>3, <2>4 DEF PaidCeiling, LedgerTypeOK
  <2> QED BY <1>1, <2>5, ViewSame, ViewOpen
<1>4. CASE NextGeneration(w, g, r, c, 1, p)
  <2>1. \A v \in Works : budget[v] = NoBudget => budget'[v] = NoBudget
    BY <1>4 DEF NextGeneration, LedgerTypeOK
  <2>2. PaidCeiling' = PaidCeiling BY <1>2, <2>1, CeilingsKept
  <2> QED BY <1>1, <2>2, ViewSame, ViewUnchanged DEF PaidView
<1> QED BY <1>3, <1>4 DEF CreateBudget

LEMMA ViewHandle ==
  ASSUME LedgerTypeOK, PaidTypeOK, AllRetained, AllForward, NEW r \in Requests, Handle(r)
  PROVE  [Abstract!Next]_(Abstract!paidVars)
<1>1. UNCHANGED cost
  BY DEF Handle, Boundary, Capacity, Denied, ReserveCall, MarkCall, Call, SettleCall, Failed,
         ReleaseCall, RetainCall
<1>2. ASSUME \/ UNCHANGED budget
             \/ \E o \in OpIds : MarkUnknown(o)
      PROVE  UNCHANGED PaidCeiling
  BY <1>2, OpensNone, CeilingsKept
<1>3. UNCHANGED ledgerVars => [Abstract!Next]_(Abstract!paidVars)
  BY <1>1, <1>2, ViewSame, ViewUnchanged DEF PaidView, ledgerVars
<1>4. ASSUME NEW o \in OpIds, MarkDispatched(o) \/ ReleaseUndispatched(o) \/ MarkUnknown(o)
      PROVE  [Abstract!Next]_(Abstract!paidVars)
  <2>1. UNCHANGED budget \/ MarkUnknown(o) BY <1>4 DEF MarkDispatched, ReleaseUndispatched
  <2>2. UNCHANGED PaidCeiling BY <1>2, <2>1
  <2> QED BY <1>1, <1>4, <2>2, ViewDispatched, ViewReleased
<1>5. CASE ReserveCall(r)
  <2>1. PICK o \in OpIds, p \in Plans :
          Reserve(o, request[r].x, p.card, p.perOp, PhaseOf(request[r].stage))
    BY <1>5 DEF ReserveCall
  <2>2. request[r].x \in Binding BY <1>5, RequestTyped DEF ReserveCall, At
  <2>3. PhaseOf(request[r].stage) \in Phases BY DEF PhaseOf, Phases
  <2>4. UNCHANGED PaidCeiling BY <1>2, <2>1 DEF Reserve
  <2> QED BY <1>1, <2>1, <2>2, <2>3, <2>4, ViewReserve
<1>6. CASE SettleCall(r)
  <2>1. PICK o \in OpIds, p \in Receipts : Settle(o, cost[o], p) /\ cost[o] > 0
    BY <1>6, OperationOf DEF SettleCall
  <2>2. UNCHANGED PaidCeiling BY <1>2, <2>1 DEF Settle
  <2> QED BY <1>1, <2>1, <2>2, ViewSettle
<1>7. CASE MarkCall(r) BY <1>3, <1>4, <1>7, OperationOf DEF MarkCall
<1>8. CASE ReleaseCall(r) BY <1>3, <1>4, <1>8, OperationOf DEF ReleaseCall
<1>9. CASE RetainCall(r) BY <1>3, <1>4, <1>9, OperationOf DEF RetainCall
<1>10. CASE Boundary(r) \/ Capacity(r) \/ Denied(r) \/ Call(r) \/ Failed(r)
  BY <1>3, <1>10 DEF Boundary, Capacity, Denied, Call, Failed
<1> QED BY <1>5, <1>6, <1>7, <1>8, <1>9, <1>10 DEF Handle

LEMMA ViewCharged ==
  ASSUME LedgerTypeOK, PaidTypeOK, Books, NEW o \in OpIds, ProviderCharges(o)
  PROVE  [Abstract!Next]_(Abstract!paidVars)
<1>1. o \in called /\ cost[o] = 0 /\ UNCHANGED <<op, budget>> BY DEF ProviderCharges, ledgerVars
<1>2. Exists(o) /\ op[o].state \in Crossed /\ op[o].state # "settled"
  BY <1>1 DEF Books
<1>3. op[o].reserved \in Nat BY <1>2, RowTyped DEF Operation
<1>4. PaidStage[o] = "live" /\ PaidHold[o] = op[o].reserved
  BY <1>2 DEF PaidStage, PaidHold, Stage, Exposure, Crossed
<1>5. PICK c \in 1..op[o].reserved : cost' = [cost EXCEPT ![o] = c] BY DEF ProviderCharges
<1>6. c <= PaidHold[o] BY <1>3, <1>4, <1>5
<1>7. UNCHANGED PaidCeiling BY <1>1 DEF PaidCeiling
<1> QED BY <1>1, <1>4, <1>5, <1>6, <1>7, ViewSame, ViewCharge

\* Every step of the boundary is one step of PaidWork, or none.
LEMMA BoundaryView ==
  ASSUME LedgerTypeOK, PaidTypeOK, Books, [PaidNext]_paidVars
  PROVE  [Abstract!Next]_(Abstract!paidVars)
<1>0. AllRetained /\ AllForward BY BoundaryStepsLedger, StepsRetained, StepsForward
<1>1. ASSUME UNCHANGED <<op, cost>>,
             \/ UNCHANGED budget
             \/ \E x \in Binding : BindAuthority(x) \/ BeginCompletion(x) \/ FenceAuthority(x) \/ CancelBound(x)
      PROVE  [Abstract!Next]_(Abstract!paidVars)
  <2>1. UNCHANGED PaidCeiling BY <1>0, <1>1, OpensNone, CeilingsKept
  <2> QED BY <1>1, <2>1, ViewSame, ViewUnchanged DEF PaidView
<1>2. ASSUME NEW r \in Requests, Handle(r) PROVE [Abstract!Next]_(Abstract!paidVars)
  BY <1>0, <1>2, ViewHandle
<1>3. ASSUME NEW r \in Requests, Arrive(r) PROVE [Abstract!Next]_(Abstract!paidVars)
  BY <1>1, <1>3 DEF Arrive, ledgerVars
<1>4. ASSUME NEW w \in Works, NEW g \in Generations, NEW r \in Orders, NEW c \in Ceilings,
             NEW p \in Plans, Prepare(w, g, r, c, 1, p)
      PROVE  [Abstract!Next]_(Abstract!paidVars)
  BY <1>4, ViewCreated DEF Prepare, gatewayVars
<1>5. ASSUME NEW x \in Binding, Dispatch(x) \/ Stop(x) PROVE [Abstract!Next]_(Abstract!paidVars)
  <2>1. BindAuthority(x) \/ CancelBound(x) BY <1>5 DEF Dispatch, Stop
  <2>2. UNCHANGED <<op, cost>>
    BY <1>5 DEF Dispatch, Stop, BindAuthority, CancelBound, Cancel, gatewayVars
  <2> QED BY <1>1, <2>1, <2>2
<1>6. CASE NextProductive \/ CommitCandidate
  BY <1>1, <1>6 DEF NextProductive, CommitCandidate, ledgerVars
<1>7. CASE CompletionGate \/ EndAttempt
  <2>1. attempt.x \in Binding BY <1>7 DEF CompletionGate, EndAttempt, PaidTypeOK, Attempt
  <2>2. UNCHANGED <<op, cost>>
    BY <1>7 DEF CompletionGate, EndAttempt, BeginCompletion, FenceAuthority, ledgerVars
  <2>3. UNCHANGED budget \/ BeginCompletion(attempt.x) \/ FenceAuthority(attempt.x)
    BY <1>7 DEF CompletionGate, EndAttempt, ledgerVars
  <2> QED BY <1>1, <2>1, <2>2, <2>3
<1>8. CASE Restart
  <2>1. CASE RecoverUnknown
    <3>1. UNCHANGED PaidCeiling BY <1>0, <2>1, OpensNone, CeilingsKept
    <3> QED BY <1>8, <2>1, <3>1, ViewRecovered DEF Restart
  <2> QED BY <1>1, <1>8, <2>1 DEF Restart, ledgerVars
<1>9. CASE (Tick /\ UNCHANGED gatewayVars) \/ UNCHANGED paidVars
  BY <1>1, <1>9 DEF Tick, gatewayVars, paidVars
<1>10. CASE PaidNext
  BY <1>2, <1>3, <1>4, <1>5, <1>6, <1>7, <1>8, <1>9, <1>10, ViewCharged DEF PaidNext
<1> QED BY <1>9, <1>10

\* The whole boundary, its failures and restarts included, implements PaidWork.
THEOREM BoundaryImplements == PaidSpec => ImplementsPaidWork
<1>1. PaidInit => Abstract!Init
  BY DEF PaidInit, LedgerInit, Abstract!Init, Stage, Exists
<1>2. LedgerTypeOK /\ PaidTypeOK /\ Books /\ [PaidNext]_paidVars => [Abstract!Next]_(Abstract!paidVars)
  BY BoundaryView
<1> QED BY <1>1, <1>2, BooksHold, BoundaryIsLedger, LedgerTyping, PTL
        DEF PaidSpec, ImplementsPaidWork, Abstract!Spec
-----------------------------------------------------------------------------
(* The last productive operation. *)

\* x will never again hold the productive authority of its Work.
Dead(x) ==
  LET b == budget[x.work] IN
  /\ b # NoBudget
  /\ \/ b.generation > x.generation
     \/ /\ b.generation = x.generation
        /\ \/ b.order # x.order
           \/ b.writer \notin {NoWriter, x.writer}
           \/ b.authority = "fenced"
           \/ b.phase = "completion"

\* x was bound as the authority of its Work, and may have been left behind since.
WasBound(x) ==
  LET b == budget[x.work] IN
  /\ b # NoBudget
  /\ \/ b.generation > x.generation
     \/ SameGeneration(b, x) /\ b.writer = x.writer

\* A handler that looked, or is about to look, at what is left.
Counting(r) == Active(r) /\ request[r].pc \in {"capacity", "reserve"} /\ request[r].stage # "completion"

AttemptHolds == attempt # NoAttempt =>
  /\ WasBound(attempt.x)
  /\ attempt.stage = "completion" => Dead(attempt.x)
  /\ attempt.stage = "repair" => Used(attempt.x) >= 1 /\ Planned(attempt.x) = 2

HandlersOfAttempt == \A r \in Requests : Active(r) /\ ~Dead(request[r].x) =>
  attempt # NoAttempt /\ request[r].x = attempt.x /\ request[r].stage \in {"first", attempt.stage}

OneOnGate == \A q, r \in Requests :
  Active(q) /\ Active(r) /\ OnGate(q) /\ OnGate(r) /\ ~Dead(attempt.x) => q = r

FreshCount(r) == Counting(r) /\ ~Dead(request[r].x) =>
  /\ request[r].stage = "first" /\ Planned(request[r].x) = 2 => Used(request[r].x) = 0
  /\ At(r, "reserve") /\ Used(request[r].x) = Planned(request[r].x) - 1 => request[r].ready
CountIsFresh == \A r \in Requests : FreshCount(r)

\* Why LastSlotSawProgress holds: only the handlers of the current attempt can still
\* reserve, one gateway has one of them at a time, a first gateway counts nothing once
\* another has opened, and so nobody reserves between a handler's count and its own.
SlotInv == AttemptHolds /\ HandlersOfAttempt /\ OneOnGate /\ CountIsFresh

\* What is left behind stays behind, and what is planned stays planned.
LEMMA BindingsForward ==
  ASSUME LedgerTypeOK, LedgerTypeOK', AllForward, NEW x \in Binding
  PROVE  /\ Dead(x) => Dead(x)'
         /\ WasBound(x) => WasBound(x)'
         /\ budget[x.work] # NoBudget => Planned(x)' = Planned(x) /\ Planned(x) \in Nat
<1> DEFINE b == budget[x.work]
<1> SUFFICES ASSUME b # NoBudget
             PROVE  /\ Dead(x) => Dead(x)'
                    /\ WasBound(x) => WasBound(x)'
                    /\ Planned(x)' = Planned(x) /\ Planned(x) \in Nat
  BY DEF Dead, WasBound
<1>1. x.work \in Works /\ x.writer \in Writers /\ x.generation \in Nat
  BY DEF Binding, Generations
<1>2. b \in Budget /\ Forward(b, budget'[x.work]) BY <1>1 DEF LedgerTypeOK, AllForward
<1>3. budget'[x.work] \in Budget BY <1>1, <1>2 DEF LedgerTypeOK, Forward
<1>4. /\ b.generation \in Nat /\ budget'[x.work].generation \in Nat
      /\ b.writer \in Writers \cup {NoWriter} /\ b.plan.slots \in [Phases -> Nat]
  BY <1>2, <1>3, LedgerAssumption DEF Budget, Generations, PlanType
<1>5. x.writer # NoWriter BY <1>1, LedgerAssumption
<1>6. Dead(x) => Dead(x)' BY <1>2, <1>4, <1>1 DEF Dead, Forward
<1>7. WasBound(x) => WasBound(x)' BY <1>1, <1>2, <1>4, <1>5 DEF WasBound, Forward, SameGeneration
<1>8. Planned(x)' = Planned(x) /\ Planned(x) \in Nat
  BY <1>2, <1>4 DEF Planned, Forward, Phases
<1> QED BY <1>6, <1>7, <1>8

LEMMA AuthorityAlive ==
  ASSUME NEW x \in Binding, HoldsAuthority(budget[x.work], x, "productive"), LedgerTypeOK
  PROVE  ~Dead(x) /\ budget[x.work] # NoBudget
<1>1. x.work \in Works /\ x.generation \in Nat BY DEF Binding, Generations
<1> QED BY <1>1 DEF HoldsAuthority, Payable, SameGeneration, Dead, LedgerTypeOK, Budget, Generations

\* Productive operations are never fewer, and more only by a reservation.
LEMMA UsedTyped ==
  ASSUME NEW x
  PROVE  /\ IsFiniteSet(OpsIn(x.work, "productive")) /\ Used(x) \in Nat
         /\ IsFiniteSet(OpsIn(x.work, "productive")')
<1>1. OpsIn(x.work, "productive") \subseteq OpIds /\ OpsIn(x.work, "productive")' \subseteq OpIds
  BY DEF OpsIn, OpsOf
<1>2. IsFiniteSet(OpsIn(x.work, "productive")) /\ IsFiniteSet(OpsIn(x.work, "productive")')
  BY <1>1, FS_Subset, LedgerAssumption
<1> QED BY <1>2, FS_CardinalityType DEF Used

LEMMA UsedGrows ==
  ASSUME AllRetained, NEW x
  PROVE  /\ Used(x)' \in Nat /\ Used(x) <= Used(x)'
         /\ (\A o \in OpIds : Exists(o)' => Exists(o)) => Used(x)' = Used(x)
<1>1. \A o \in OpIds : Exists(o) => /\ Exists(o)' /\ op'[o].binding = op[o].binding
                                    /\ op'[o].phase = op[o].phase
  BY DEF AllRetained, Retained, Exists
<1>2. OpsIn(x.work, "productive") \subseteq OpsIn(x.work, "productive")'
  BY <1>1 DEF OpsIn, OpsOf
<1>3. (\A o \in OpIds : Exists(o)' => Exists(o)) =>
        OpsIn(x.work, "productive")' = OpsIn(x.work, "productive")
  BY <1>1 DEF OpsIn, OpsOf
<1> DEFINE A == OpsIn(x.work, "productive")
           B == OpsIn(x.work, "productive")'
<1>4. Used(x) = Cardinality(A) /\ Used(x)' = Cardinality(B) BY DEF Used
<1>5. IsFiniteSet(A) /\ IsFiniteSet(B) BY UsedTyped
<1> HIDE DEF A, B
<1>6. A \subseteq B BY <1>2 DEF A, B
<1>7. Cardinality(A) <= Cardinality(B) /\ Cardinality(B) \in Nat
  BY <1>5, <1>6, FS_Subset, FS_CardinalityType
<1>8. (\A o \in OpIds : Exists(o)' => Exists(o)) => A = B BY <1>3 DEF A, B
<1> QED BY <1>4, <1>7, <1>8

\* Steps that leave the attempt alone and start no handler.
SameHandlers == \A r \in Requests : Active(r)' =>
  Active(r) /\ request'[r].x = request[r].x /\ request'[r].stage = request[r].stage

LEMMA AttemptKept ==
  ASSUME LedgerTypeOK, LedgerTypeOK', PaidTypeOK, AllForward, AllRetained, AttemptHolds,
         UNCHANGED attempt
  PROVE  AttemptHolds'
<1> SUFFICES ASSUME attempt # NoAttempt
             PROVE  /\ WasBound(attempt.x)'
                    /\ attempt.stage = "completion" => Dead(attempt.x)'
                    /\ attempt.stage = "repair" => Used(attempt.x)' >= 1 /\ Planned(attempt.x)' = 2
  BY DEF AttemptHolds
<1>1. PICK x \in Binding : x = attempt.x BY DEF PaidTypeOK, Attempt
<1>2. WasBound(x)' /\ budget[x.work] # NoBudget
  BY <1>1, BindingsForward DEF AttemptHolds, WasBound
<1>3. attempt.stage = "completion" => Dead(x)' BY <1>1, BindingsForward DEF AttemptHolds
<1>4. attempt.stage = "repair" => Used(x)' >= 1 /\ Planned(x)' = 2
  <2>1. Used(x) \in Nat /\ Used(x)' \in Nat /\ Used(x) <= Used(x)' BY UsedTyped, UsedGrows
  <2>2. Planned(x)' = Planned(x) BY <1>2, BindingsForward
  <2>3. attempt.stage = "repair" => Used(x) >= 1 /\ Planned(x) = 2 BY <1>1 DEF AttemptHolds
  <2> QED BY <2>1, <2>2, <2>3
<1>5. x = attempt'.x BY <1>1
<1> QED BY <1>1, <1>2, <1>3, <1>4

LEMMA HandlersKept ==
  ASSUME LedgerTypeOK, LedgerTypeOK', PaidTypeOK, AllForward, HandlersOfAttempt, OneOnGate,
         AttemptHolds, UNCHANGED attempt, SameHandlers
  PROVE  HandlersOfAttempt' /\ OneOnGate'
<1>1. ASSUME NEW r \in Requests, Active(r)', ~Dead(request[r].x)'
      PROVE  /\ attempt # NoAttempt /\ request'[r].x = attempt.x
             /\ request'[r].stage \in {"first", attempt.stage}
  <2>1. Active(r) /\ request'[r].x = request[r].x /\ request'[r].stage = request[r].stage
    BY <1>1 DEF SameHandlers
  <2>2. PICK x \in Binding : x = request[r].x BY <2>1, RequestTyped
  <2>3. ~Dead(x)' BY <1>1, <2>1, <2>2
  <2>4. ~Dead(x) BY <2>3, BindingsForward
  <2> QED BY <2>1, <2>2, <2>4 DEF HandlersOfAttempt
<1>2. HandlersOfAttempt' BY <1>1 DEF HandlersOfAttempt
<1>3. ASSUME NEW q \in Requests, NEW r \in Requests, Active(q)', Active(r)', OnGate(q)', OnGate(r)',
             ~Dead(attempt.x)'
      PROVE  q = r
  <2>1. /\ Active(q) /\ Active(r) /\ OnGate(q) /\ OnGate(r) /\ attempt # NoAttempt
    BY <1>3 DEF SameHandlers, OnGate
  <2>2. PICK x \in Binding : x = attempt.x BY <2>1 DEF PaidTypeOK, Attempt
  <2>3. ~Dead(x)' BY <1>3, <2>2
  <2>4. ~Dead(x) BY <2>3, BindingsForward
  <2> QED BY <2>1, <2>2, <2>4 DEF OneOnGate
<1>4. OneOnGate' BY <1>3 DEF OneOnGate
<1> QED BY <1>2, <1>4

\* The count of a handler that stands still stays fresh while nothing is reserved.
LEMMA CountKept ==
  ASSUME LedgerTypeOK, LedgerTypeOK', PaidTypeOK, AllForward, AllRetained, AttemptHolds,
         HandlersOfAttempt, NEW r \in Requests, FreshCount(r), request'[r] = request[r],
         \A x \in Binding : request[r].x = x => Used(x)' = Used(x)
  PROVE  FreshCount(r)'
<1> SUFFICES ASSUME Counting(r)', ~Dead(request[r].x)'
             PROVE  FreshCount(r)'
  BY DEF FreshCount
<1>1. Active(r) /\ Counting(r) /\ (At(r, "reserve")' <=> At(r, "reserve"))
  BY DEF Counting, Active, At
<1>2. PICK x \in Binding : x = request[r].x BY <1>1, RequestTyped
<1>3. ~Dead(x)' BY <1>2
<1>4. ~Dead(x) BY <1>3, BindingsForward
<1>5. WasBound(x) BY <1>1, <1>2, <1>4 DEF HandlersOfAttempt, AttemptHolds
<1>6. Planned(x)' = Planned(x) BY <1>5, BindingsForward DEF WasBound
<1>7. Used(x)' = Used(x) BY <1>1, <1>2
<1>8. /\ request[r].stage = "first" /\ Planned(x) = 2 => Used(x) = 0
      /\ At(r, "reserve") /\ Used(x) = Planned(x) - 1 => request[r].ready
  BY <1>1, <1>2, <1>4 DEF FreshCount
<1>9. x = request'[r].x BY <1>2
<1> QED BY <1>1, <1>6, <1>7, <1>8, <1>9 DEF FreshCount

LEMMA SlotQuiet ==
  ASSUME LedgerTypeOK, LedgerTypeOK', PaidTypeOK, AllForward, AllRetained, SlotInv,
         UNCHANGED attempt, SameHandlers, \A o \in OpIds : Exists(o)' => Exists(o),
         \A r \in Requests : request'[r] = request[r] \/ ~Counting(r)' \/ FreshCount(r)'
  PROVE  SlotInv'
<1>1. AttemptHolds' BY AttemptKept DEF SlotInv
<1>2. HandlersOfAttempt' /\ OneOnGate' BY HandlersKept DEF SlotInv
<1>3. ASSUME NEW r \in Requests PROVE FreshCount(r)'
  <2>1. CASE ~Counting(r)' BY <2>1 DEF FreshCount
  <2>2. CASE request'[r] = request[r]
    <3>1. \A x \in Binding : request[r].x = x => Used(x)' = Used(x) BY UsedGrows
    <3>2. FreshCount(r) BY DEF SlotInv, CountIsFresh
    <3> QED BY <2>2, <3>1, <3>2, CountKept DEF SlotInv
  <2> QED BY <2>1, <2>2
<1> QED BY <1>1, <1>2, <1>3 DEF SlotInv, CountIsFresh

\* Whoever counts, and can still reserve, is on the gate of the current attempt.
LEMMA CountingOnGate ==
  ASSUME PaidTypeOK, SlotInv, NEW r \in Requests, Counting(r), ~Dead(request[r].x)
  PROVE  OnGate(r) /\ ~Dead(attempt.x)
<1>1. /\ attempt # NoAttempt /\ request[r].x = attempt.x /\ ~Dead(attempt.x)
      /\ request[r].stage \in {"first", attempt.stage}
  BY DEF SlotInv, HandlersOfAttempt, Counting
<1>2. attempt.stage \in Stages BY <1>1 DEF PaidTypeOK, Attempt
<1>3. CASE attempt.stage = "repair" /\ request[r].stage = "first"
  <2>1. Used(attempt.x) >= 1 /\ Planned(attempt.x) = 2
    BY <1>1, <1>3 DEF SlotInv, AttemptHolds
  <2>2. Used(attempt.x) = 0 BY <1>1, <1>3, <2>1 DEF SlotInv, CountIsFresh, FreshCount
  <2> QED BY <2>1, <2>2
<1>4. attempt.stage # "completion" BY <1>1 DEF SlotInv, AttemptHolds
<1> QED BY <1>1, <1>2, <1>3, <1>4 DEF OnGate, Stages

\* A reservation is the only step that changes what others counted, and there is nobody
\* else to have counted.
LEMMA ReserveSlot ==
  ASSUME LedgerTypeOK, LedgerTypeOK', PaidTypeOK, AllForward, AllRetained, SlotInv,
         NEW r \in Requests, ReserveCall(r)
  PROVE  SlotInv'
<1>1. Active(r) /\ request[r] \in Request /\ At(r, "reserve") /\ UNCHANGED attempt
  BY RequestTyped DEF ReserveCall, At
<1>2. PICK o \in OpIds, p \in Plans :
        /\ Reserve(o, request[r].x, p.card, p.perOp, PhaseOf(request[r].stage))
        /\ \/ request' = [request EXCEPT ![r] = [@ EXCEPT !.pc = "mark", !.op = o]]
           \/ Finish(r)
  BY DEF ReserveCall
<1>3. /\ \A q \in Requests : q # r => request'[q] = request[q]
      /\ Active(r)' => /\ request'[r].x = request[r].x /\ request'[r].stage = request[r].stage
                       /\ request'[r].pc = "mark"
  <2>1. CASE request' = [request EXCEPT ![r] = [@ EXCEPT !.pc = "mark", !.op = o]]
    <3> DEFINE row == [request[r] EXCEPT !.pc = "mark", !.op = o]
    <3>1. row.x = request[r].x /\ row.stage = request[r].stage /\ row.pc = "mark" BY <1>1 DEF Request
    <3>2. request' = [request EXCEPT ![r] = row] /\ request \in [Requests -> Request \cup {NoRequest}]
      BY <2>1 DEF PaidTypeOK
    <3> HIDE DEF row
    <3> QED BY <3>1, <3>2
  <2>2. CASE Finish(r)
    <3>1. request' = [request EXCEPT ![r] = NoRequest] BY <2>2 DEF Finish
    <3> QED BY <3>1 DEF Active, PaidTypeOK
  <2> QED BY <1>2, <2>1, <2>2
<1>4. SameHandlers /\ ~Counting(r)' BY <1>1, <1>3 DEF SameHandlers, Active, Counting
<1>5. AttemptHolds' BY <1>1, AttemptKept DEF SlotInv
<1>6. HandlersOfAttempt' /\ OneOnGate' BY <1>1, <1>4, HandlersKept DEF SlotInv
<1>7. request[r].x \in Binding /\ PhaseOf(request[r].stage) \in Phases
  BY <1>1, RequestTyped DEF PhaseOf, Phases
<1>8. /\ op'[o] # NoOp /\ op'[o].phase = PhaseOf(request[r].stage)
      /\ \A q \in OpIds : q # o => op'[q] = op[q]
  BY <1>2, <1>7, RowReserved, PlanTyped
<1>9. ASSUME NEW q \in Requests PROVE FreshCount(q)'
  <2>1. CASE q = r BY <1>4, <2>1 DEF FreshCount
  <2>2. CASE q # r /\ request[r].stage = "completion"
    <3>1. \A x : OpsIn(x.work, "productive")' = OpsIn(x.work, "productive")
      <4>1. op'[o].phase = "completion" /\ ~Exists(o) BY <1>2, <1>8, <2>2 DEF PhaseOf, Reserve
      <4> QED BY <1>8, <4>1 DEF OpsIn, OpsOf, Exists
    <3>2. \A x \in Binding : request[q].x = x => Used(x)' = Used(x) BY <3>1 DEF Used
    <3>3. FreshCount(q) /\ request'[q] = request[q] BY <1>3, <2>2 DEF SlotInv, CountIsFresh
    <3> QED BY <3>2, <3>3, CountKept DEF SlotInv
  <2>3. CASE q # r /\ request[r].stage # "completion"
    <3>1. Counting(r) BY <1>1, <2>3 DEF Counting, At
    <3>2. ~Dead(request[r].x)
      BY <1>2, <1>7, <2>3, AuthorityAlive DEF Reserve, PhaseOf
    <3>3. OnGate(r) /\ ~Dead(attempt.x) BY <3>1, <3>2, CountingOnGate
    <3>4. ~(Counting(q) /\ ~Dead(request[q].x))
      <4> SUFFICES ASSUME Counting(q), ~Dead(request[q].x) PROVE FALSE
        OBVIOUS
      <4>1. OnGate(q) BY CountingOnGate
      <4> QED BY <1>1, <2>3, <3>3, <4>1 DEF SlotInv, OneOnGate, Counting
    <3>5. budget' = budget BY <1>2 DEF Reserve
    <3>6. request'[q] = request[q] BY <1>3, <2>3
    <3>7. ~(Counting(q)' /\ ~Dead(request[q].x)')
      BY <3>4, <3>5, <3>6 DEF Counting, Active, Dead
    <3> QED BY <3>7 DEF FreshCount
  <2> QED BY <2>1, <2>2, <2>3
<1> QED BY <1>5, <1>6, <1>9 DEF SlotInv, CountIsFresh

LEMMA HandleSlot ==
  ASSUME LedgerTypeOK, LedgerTypeOK', PaidTypeOK, AllForward, AllRetained, SlotInv,
         NEW r \in Requests, Handle(r)
  PROVE  SlotInv'
<1>1. Active(r) /\ request[r] \in Request
  BY RequestTyped DEF Handle, Boundary, Capacity, Denied, ReserveCall, MarkCall, SettleCall, Call,
                      Failed, ReleaseCall, RetainCall, At
<1>2. \A q \in Requests : q # r => request'[q] = request[q] BY HandlersElsewhere
<1>3. UNCHANGED attempt
  BY DEF Handle, Boundary, Capacity, Denied, ReserveCall, MarkCall, Call, SettleCall, Failed,
         ReleaseCall, RetainCall
<1> DEFINE same == Active(r)' => request'[r].x = request[r].x /\ request'[r].stage = request[r].stage
           norows == \A o \in OpIds : Exists(o)' => Exists(o)
<1>4. ASSUME same, norows, FreshCount(r)' PROVE SlotInv'
  <2>1. SameHandlers BY <1>1, <1>2, <1>4 DEF SameHandlers, Active
  <2>2. \A q \in Requests : request'[q] = request[q] \/ ~Counting(q)' \/ FreshCount(q)'
    BY <1>2, <1>4
  <2> QED BY <1>3, <1>4, <2>1, <2>2, SlotQuiet
<1>5. Finish(r) => same /\ FreshCount(r)' BY DEF Finish, Active, PaidTypeOK, FreshCount, Counting
<1>6. ASSUME NEW pc, Goto(r, pc)
      PROVE  /\ same
             /\ pc \notin {"capacity", "reserve"} => FreshCount(r)'
             /\ Active(r)' => request'[r].pc = pc
  BY <1>1, <1>6 DEF Goto, Active, PaidTypeOK, Request, FreshCount, Counting
<1>7. UNCHANGED op => norows BY DEF Exists
<1>8. ASSUME NEW o \in OpIds, NEW s, Writes(o, s) PROVE norows
  BY <1>8 DEF Writes, Exists
<1>9. CASE Boundary(r)
  <2>1. UNCHANGED <<op, budget>> BY <1>9 DEF Boundary, ledgerVars
  <2>2. CASE Finish(r) BY <1>4, <1>5, <1>7, <2>1, <2>2
  <2>3. CASE ~Finish(r)
    <3>1. /\ Goto(r, "capacity")
          /\ ~(/\ PhaseOf(request[r].stage) = "productive"
               /\ Used(request[r].x) >= Checkpoint(request[r].x, request[r].stage))
      BY <1>9, <2>3 DEF Boundary
    <3>2. PICK x \in Binding : x = request[r].x BY <1>1, RequestTyped
    <3>3. same /\ (Active(r)' => request'[r].pc = "capacity") BY <1>6, <3>1
    <3>4. request[r].stage = "first" /\ Planned(x) = 2 => Used(x) = 0
      BY <3>1, <3>2, UsedTyped DEF PhaseOf, Checkpoint
    <3>5. Used(x)' = Used(x) /\ Planned(x)' = Planned(x)
      BY <2>1 DEF Used, Planned, OpsIn, OpsOf, Exists
    <3>6. FreshCount(r)'
      <4> SUFFICES ASSUME Counting(r)' PROVE FreshCount(r)' BY DEF FreshCount
      <4>1. Active(r)' BY DEF Counting
      <4>2. request'[r].pc = "capacity" /\ request'[r].stage = request[r].stage /\ x = request'[r].x
        BY <3>2, <3>3, <4>1
      <4>3. ~At(r, "reserve")' BY <4>2 DEF At
      <4> QED BY <3>4, <3>5, <4>2, <4>3 DEF FreshCount
    <3> QED BY <1>4, <1>7, <2>1, <3>3, <3>6
  <2> QED BY <2>2, <2>3
<1>10. CASE Capacity(r)
  <2>1. UNCHANGED <<op, budget>> BY <1>10 DEF Capacity, ledgerVars
  <2>2. CASE Finish(r) BY <1>4, <1>5, <1>7, <2>1, <2>2
  <2>3. CASE request' = [request EXCEPT ![r] = [@ EXCEPT !.pc = "reserve", !.ready = LastSlot(r)]]
    <3>1. /\ request'[r].x = request[r].x /\ request'[r].stage = request[r].stage
          /\ request'[r].ready = LastSlot(r)
      BY <1>1, <2>3 DEF PaidTypeOK, Request
    <3>2. PICK x \in Binding : x = request[r].x BY <1>1, RequestTyped
    <3>3. Used(x)' = Used(x) /\ Planned(x)' = Planned(x) /\ (Dead(x)' <=> Dead(x))
      BY <2>1 DEF Used, Planned, OpsIn, OpsOf, Exists, Dead
    <3>4. Counting(r) <=> request[r].stage # "completion"
      BY <1>10 DEF Capacity, At, Counting
    <3>5. FreshCount(r) BY DEF SlotInv, CountIsFresh
    <3>6. FreshCount(r)'
      <4> SUFFICES ASSUME Counting(r)', ~Dead(request[r].x)' PROVE FreshCount(r)' BY DEF FreshCount
      <4>1. x = request'[r].x BY <3>1, <3>2
      <4>2. Counting(r) /\ ~Dead(x) BY <3>1, <3>3, <3>4, <4>1 DEF Counting
      <4>3. request[r].stage = "first" /\ Planned(x) = 2 => Used(x) = 0
        BY <3>2, <3>5, <4>2 DEF FreshCount
      <4>4. Used(x) = Planned(x) - 1 => request'[r].ready
        BY <3>1, <3>2, <3>4, <4>2 DEF LastSlot, PhaseOf
      <4> QED BY <3>1, <3>3, <4>1, <4>3, <4>4 DEF FreshCount
    <3> QED BY <1>4, <1>7, <2>1, <3>1, <3>6
  <2> QED BY <1>10, <2>2, <2>3 DEF Capacity
<1>11. CASE Denied(r)
  BY <1>4, <1>5, <1>7, <1>11 DEF Denied, ledgerVars
<1>12. CASE ReserveCall(r) BY <1>12, ReserveSlot
<1>13. CASE MarkCall(r) \/ ReleaseCall(r) \/ RetainCall(r) \/ SettleCall(r)
  <2>1. request[r].op \in OpIds
    BY <1>13, OperationOf DEF MarkCall, ReleaseCall, RetainCall, SettleCall
  <2>2. norows
    BY <1>7, <1>8, <1>13, <2>1, RowWritten
    DEF MarkCall, ReleaseCall, RetainCall, SettleCall, ledgerVars
  <2>3. Finish(r) \/ \E pc \in {"call", "release", "retain"} : Goto(r, pc)
    BY <1>13 DEF MarkCall, ReleaseCall, RetainCall, SettleCall
  <2>4. same /\ FreshCount(r)' BY <1>5, <1>6, <2>3
  <2> QED BY <1>4, <2>2, <2>4
<1>14. CASE Call(r) \/ Failed(r)
  <2>1. UNCHANGED op /\ \E pc \in {"wait", "release"} : Goto(r, pc)
    BY <1>14 DEF Call, Failed, ledgerVars
  <2>2. same /\ FreshCount(r)' BY <1>6, <2>1
  <2> QED BY <1>4, <1>7, <2>1, <2>2
<1> QED BY <1>9, <1>10, <1>11, <1>12, <1>13, <1>14 DEF Handle

\* A request arrives at the gate of the attempt, and on a productive one alone.
LEMMA ArriveSlot ==
  ASSUME LedgerTypeOK, LedgerTypeOK', PaidTypeOK, AllForward, AllRetained, SlotInv,
         NEW r \in Requests, Arrive(r)
  PROVE  SlotInv'
<1>1. /\ UNCHANGED <<attempt, op, budget>> /\ attempt # NoAttempt /\ ~Active(r)
      /\ attempt.stage \in Stages
  BY DEF Arrive, ledgerVars, PaidTypeOK, Attempt
<1>2. \A q \in Requests : q # r => request'[q] = request[q] BY HandlersElsewhere
<1>3. /\ request'[r].pc = "boundary" /\ request'[r].x = attempt.x
      /\ request'[r].stage = attempt.stage
  BY DEF Arrive, PaidTypeOK
<1>4. AttemptHolds' BY <1>1, AttemptKept DEF SlotInv
<1>5. HandlersOfAttempt'
  <2> SUFFICES ASSUME NEW q \in Requests, Active(q)', ~Dead(request[q].x)'
               PROVE  request'[q].x = attempt.x /\ request'[q].stage \in {"first", attempt.stage}
    BY <1>1 DEF HandlersOfAttempt
  <2>1. CASE q = r BY <1>3, <2>1
  <2>2. CASE q # r
    <3>1. Active(q) /\ request'[q] = request[q] /\ ~Dead(request[q].x)
      BY <1>1, <1>2, <2>2 DEF Active, Dead
    <3> QED BY <3>1 DEF SlotInv, HandlersOfAttempt
  <2> QED BY <2>1, <2>2
<1>6. OneOnGate'
  <2> SUFFICES ASSUME NEW p \in Requests, NEW q \in Requests, Active(p)', Active(q)', OnGate(p)',
                      OnGate(q)', ~Dead(attempt.x)'
               PROVE  p = q
    BY DEF OneOnGate
  <2>1. ~Dead(attempt.x) BY <1>1 DEF Dead
  <2>2. attempt.stage # "completion" BY <1>1, <2>1 DEF SlotInv, AttemptHolds
  <2>3. \A s \in Requests : Active(s) => ~OnGate(s) BY <2>2 DEF Arrive, PhaseOf
  <2>4. ASSUME NEW s \in Requests, s # r, Active(s)', OnGate(s)' PROVE FALSE
    BY <1>1, <1>2, <2>3, <2>4 DEF Active, OnGate
  <2> QED BY <2>4
<1>7. ASSUME NEW q \in Requests PROVE FreshCount(q)'
  <2>1. CASE q = r BY <1>3, <2>1 DEF FreshCount, Counting
  <2>2. CASE q # r
    <3>1. request'[q] = request[q] /\ FreshCount(q) BY <1>2, <2>2 DEF SlotInv, CountIsFresh
    <3>2. \A x \in Binding : request[q].x = x => Used(x)' = Used(x)
      BY <1>1, UsedGrows DEF Exists
    <3> QED BY <3>1, <3>2, CountKept DEF SlotInv
  <2> QED BY <2>1, <2>2
<1> QED BY <1>4, <1>5, <1>6, <1>7 DEF SlotInv, CountIsFresh

\* When the handlers stand still, what is dead stays dead and nothing is reserved, a change
\* of the attempt needs only the facts about the attempt.
LEMMA AttemptMoves ==
  ASSUME LedgerTypeOK, LedgerTypeOK', PaidTypeOK, AllForward, AllRetained, SlotInv,
         UNCHANGED <<op, request>>, AttemptHolds', HandlersOfAttempt', OneOnGate'
  PROVE  SlotInv'
<1>1. ASSUME NEW r \in Requests PROVE FreshCount(r)'
  <2>1. FreshCount(r) BY DEF SlotInv, CountIsFresh
  <2>2. \A x \in Binding : request[r].x = x => Used(x)' = Used(x) BY UsedGrows DEF Exists
  <2> QED BY <2>1, <2>2, CountKept DEF SlotInv
<1> QED BY <1>1 DEF SlotInv, CountIsFresh

LEMMA DispatchSlot ==
  ASSUME LedgerTypeOK, LedgerTypeOK', PaidTypeOK, AllForward, AllRetained, SlotInv,
         NEW x \in Binding, Dispatch(x), attempt = NoAttempt, attempt' = [x |-> x, stage |-> "first"]
  PROVE  SlotInv'
<1>1. UNCHANGED <<op, request>> BY DEF Dispatch, BindAuthority
<1>2. x.work \in Works BY DEF Binding
<1>3. budget[x.work] \in Budget /\ SameGeneration(budget[x.work], x)
  BY <1>2 DEF Dispatch, BindAuthority, Payable, LedgerTypeOK
<1>4. budget'[x.work] = [budget[x.work] EXCEPT !.writer = x.writer, !.authority = "active"]
  BY <1>2 DEF Dispatch, BindAuthority, LedgerTypeOK
<1>5. budget'[x.work] # NoBudget BY <1>2, <1>3, LedgerAssumption DEF AllForward, Forward
<1>6. WasBound(x)' BY <1>3, <1>4, <1>5 DEF WasBound, SameGeneration, Budget
<1>7. AttemptHolds'
  <2>1. x = attempt'.x /\ attempt'.stage = "first" OBVIOUS
  <2> QED BY <1>6, <2>1 DEF AttemptHolds
<1>8. ASSUME NEW r \in Requests, Active(r)' PROVE Active(r) /\ Dead(request[r].x)'
  <2>1. Active(r) /\ request'[r] = request[r] BY <1>1, <1>8 DEF Active
  <2>2. PICK y \in Binding : y = request[r].x BY <2>1, RequestTyped
  <2>3. Dead(y) BY <2>1, <2>2 DEF SlotInv, HandlersOfAttempt
  <2>4. Dead(y)' BY <2>3, BindingsForward
  <2> QED BY <2>1, <2>2, <2>4
<1>9. HandlersOfAttempt' BY <1>8 DEF HandlersOfAttempt
<1>10. OneOnGate'
  <2> SUFFICES ASSUME NEW q \in Requests, Active(q)', OnGate(q)' PROVE Dead(attempt.x)'
    BY DEF OneOnGate
  <2>1. request'[q].x = attempt'.x BY DEF OnGate
  <2>2. Dead(request[q].x)' BY <1>8
  <2> QED BY <2>1, <2>2 DEF Dead
<1> QED BY <1>1, <1>7, <1>9, <1>10, AttemptMoves

\* The host opens the gate of a repair: whoever counted on the first one has finished.
LEMMA RepairSlot ==
  ASSUME LedgerTypeOK, LedgerTypeOK', PaidTypeOK, AllForward, AllRetained, SlotInv, NextProductive
  PROVE  SlotInv'
<1>1. UNCHANGED <<op, budget, request>> BY DEF NextProductive, ledgerVars
<1>2. attempt \in Attempt /\ attempt # NoAttempt /\ attempt.stage = "first"
  BY DEF NextProductive, PaidTypeOK
<1>3. attempt'.x = attempt.x /\ attempt'.stage = "repair" /\ attempt' # NoAttempt
  BY <1>2, GatewayAssumption DEF NextProductive, Attempt, Stages
<1>4. PICK x \in Binding : x = attempt.x BY <1>2 DEF Attempt
<1>5. x = attempt'.x BY <1>3, <1>4
<1>6. /\ WasBound(x)' <=> WasBound(x)
      /\ Used(x)' = Used(x) /\ Planned(x)' = Planned(x)
      /\ \A y : Dead(y)' <=> Dead(y)
  BY <1>1 DEF WasBound, Used, Planned, OpsIn, OpsOf, Exists, Dead
<1>7. WasBound(x) /\ Used(x) = 1 /\ Planned(x) = 2
  BY <1>2, <1>4 DEF SlotInv, AttemptHolds, NextProductive
<1>8. AttemptHolds' BY <1>3, <1>5, <1>6, <1>7 DEF AttemptHolds
<1>9. ASSUME NEW r \in Requests, Active(r)', ~Dead(request[r].x)'
      PROVE  Active(r) /\ request'[r] = request[r] /\ request[r].x = x /\ request[r].stage = "first"
  <2>1. Active(r) /\ request'[r] = request[r] /\ ~Dead(request[r].x)
    BY <1>1, <1>9 DEF Active, Dead
  <2> QED BY <1>2, <1>4, <2>1 DEF SlotInv, HandlersOfAttempt
<1>10. HandlersOfAttempt' BY <1>3, <1>5, <1>9 DEF HandlersOfAttempt
<1>11. OneOnGate'
  <2> SUFFICES ASSUME NEW q \in Requests, Active(q)', OnGate(q)', ~Dead(attempt.x)' PROVE FALSE
    BY DEF OneOnGate
  <2>1. request'[q].x = attempt'.x /\ request'[q].stage = "repair" BY <1>3 DEF OnGate
  <2>2. ~Dead(request[q].x)' BY <2>1 DEF Dead
  <2> QED BY <1>9, <2>1, <2>2
<1> QED BY <1>1, <1>8, <1>10, <1>11, AttemptMoves

\* With completion begun, or the attempt ended, nobody is left who could reserve.
LEMMA DeadSlot ==
  ASSUME LedgerTypeOK, LedgerTypeOK', PaidTypeOK, AllForward, AllRetained, SlotInv,
         UNCHANGED <<op, request>>, attempt # NoAttempt,
         \/ attempt' = NoAttempt
         \/ attempt' # NoAttempt /\ attempt'.x = attempt.x /\ attempt'.stage = "completion",
         NEW x \in Binding, x = attempt.x, Dead(x)'
  PROVE  SlotInv'
<1>1. WasBound(x)' BY BindingsForward DEF SlotInv, AttemptHolds
<1>2. AttemptHolds'
  <2>1. attempt' # NoAttempt => x = attempt'.x /\ attempt'.stage = "completion" OBVIOUS
  <2> QED BY <1>1, <2>1 DEF AttemptHolds
<1>3. ASSUME NEW r \in Requests, Active(r)' PROVE Dead(request[r].x)'
  <2>1. Active(r) /\ request'[r] = request[r] BY <1>3 DEF Active
  <2>2. PICK y \in Binding : y = request[r].x BY <2>1, RequestTyped
  <2>3. Dead(y) \/ y = x BY <2>1, <2>2 DEF SlotInv, HandlersOfAttempt
  <2>4. Dead(y)' BY <2>3, BindingsForward
  <2> QED BY <2>1, <2>2, <2>4
<1>4. HandlersOfAttempt' BY <1>3 DEF HandlersOfAttempt
<1>5. OneOnGate'
  <2> SUFFICES ASSUME NEW q \in Requests, OnGate(q)' PROVE Dead(attempt.x)'
    BY DEF OneOnGate
  <2>1. x = attempt'.x BY DEF OnGate
  <2> QED BY <2>1
<1> QED BY <1>2, <1>4, <1>5, AttemptMoves

LEMMA EndsDead ==
  ASSUME LedgerTypeOK, LedgerTypeOK', PaidTypeOK, AllForward, SlotInv, attempt # NoAttempt,
         NEW x \in Binding, x = attempt.x, CompletionGate \/ EndAttempt
  PROVE  Dead(x)'
<1>1. x.work \in Works /\ x.writer \in Writers /\ x.generation \in Nat BY DEF Binding, Generations
<1>2. WasBound(x) /\ budget[x.work] \in Budget BY <1>1 DEF SlotInv, AttemptHolds, WasBound, LedgerTypeOK
<1>3. budget'[x.work] # NoBudget BY <1>1, <1>2 DEF AllForward, Forward, WasBound
<1>4. CASE BeginCompletion(x)
  <2>1. SameGeneration(budget[x.work], x)
    BY <1>4 DEF BeginCompletion, CompletionEligible, HoldsAuthority
  <2>2. budget'[x.work] = [budget[x.work] EXCEPT !.phase = "completion"]
    BY <1>1, <1>4 DEF BeginCompletion, LedgerTypeOK
  <2> QED BY <1>2, <1>3, <2>1, <2>2 DEF Dead, SameGeneration, Budget
<1>5. CASE FenceAuthority(x)
  <2>1. SameGeneration(budget[x.work], x) BY <1>5 DEF FenceAuthority, MatchesCurrent
  <2>2. budget'[x.work] = [budget[x.work] EXCEPT !.authority = "fenced"]
    BY <1>1, <1>5 DEF FenceAuthority, LedgerTypeOK
  <2> QED BY <1>2, <1>3, <2>1, <2>2 DEF Dead, SameGeneration, Budget
<1>6. CASE ~MatchesCurrent(budget[x.work], x)
  <2>1. Dead(x) BY <1>2, <1>6 DEF WasBound, MatchesCurrent, Dead
  <2> QED BY <2>1, BindingsForward
<1> QED BY <1>4, <1>5, <1>6 DEF CompletionGate, EndAttempt

LEMMA BoundarySlot ==
  ASSUME LedgerTypeOK, LedgerTypeOK', PaidTypeOK, SlotInv, [PaidNext]_paidVars
  PROVE  SlotInv'
<1>0. AllForward /\ AllRetained BY BoundaryStepsLedger, StepsForward, StepsRetained
<1>1. ASSUME UNCHANGED <<op, attempt, request>> PROVE SlotInv'
  <2>1. SameHandlers /\ \A o \in OpIds : Exists(o)' => Exists(o)
    BY <1>1 DEF SameHandlers, Active, Exists
  <2> QED BY <1>0, <1>1, <2>1, SlotQuiet
<1>2. ASSUME NEW r \in Requests, Arrive(r) \/ Handle(r) PROVE SlotInv'
  BY <1>0, <1>2, ArriveSlot, HandleSlot
<1>3. ASSUME NEW o \in OpIds, ProviderCharges(o) PROVE SlotInv'
  BY <1>1, <1>3 DEF ProviderCharges, ledgerVars
<1>4. ASSUME NEW w \in Works, NEW g \in Generations, NEW r \in Orders, NEW c \in Ceilings,
             NEW p \in Plans, Prepare(w, g, r, c, 1, p)
      PROVE  SlotInv'
  BY <1>1, <1>4 DEF Prepare, CreateBudget, gatewayVars
<1>5. ASSUME NEW x \in Binding, Dispatch(x) PROVE SlotInv'
  <2>1. CASE UNCHANGED attempt
    BY <1>1, <1>5, <2>1 DEF Dispatch, BindAuthority
  <2> QED BY <1>0, <1>5, <2>1, DispatchSlot DEF Dispatch
<1>6. ASSUME NEW x \in Binding, Stop(x) PROVE SlotInv'
  BY <1>1, <1>6 DEF Stop, CancelBound, Cancel, gatewayVars
<1>7. CASE NextProductive BY <1>0, <1>7, RepairSlot
<1>8. CASE CompletionGate \/ EndAttempt
  <2>1. /\ UNCHANGED <<op, request>> /\ attempt # NoAttempt /\ attempt \in Attempt
        /\ \/ attempt' = NoAttempt
           \/ attempt' = [attempt EXCEPT !.stage = "completion"]
    BY <1>8 DEF CompletionGate, EndAttempt, BeginCompletion, FenceAuthority, ledgerVars, PaidTypeOK
  <2>2. \/ attempt' = NoAttempt
        \/ attempt' # NoAttempt /\ attempt'.x = attempt.x /\ attempt'.stage = "completion"
    BY <2>1, GatewayAssumption DEF Attempt, Stages
  <2>3. PICK x \in Binding : x = attempt.x BY <2>1 DEF Attempt
  <2>4. Dead(x)' BY <1>0, <1>8, <2>1, <2>3, EndsDead
  <2> QED BY <1>0, <2>1, <2>2, <2>3, <2>4, DeadSlot
<1>9. CASE CommitCandidate BY <1>1, <1>9 DEF CommitCandidate, ledgerVars
<1>10. CASE Restart
  <2>1. attempt' = NoAttempt /\ \A r \in Requests : ~Active(r)'
    BY <1>10 DEF Restart, Active
  <2> QED BY <2>1 DEF SlotInv, AttemptHolds, HandlersOfAttempt, OneOnGate, CountIsFresh, FreshCount,
                      Counting
<1>11. CASE (Tick /\ UNCHANGED gatewayVars) \/ UNCHANGED paidVars
  BY <1>1, <1>11 DEF Tick, gatewayVars, paidVars
<1>12. CASE PaidNext
  BY <1>2, <1>3, <1>4, <1>5, <1>6, <1>7, <1>8, <1>9, <1>10, <1>11, <1>12 DEF PaidNext
<1> QED BY <1>11, <1>12

LEMMA SlotHolds == PaidSpec => []SlotInv
<1>1. PaidInit => SlotInv
  BY DEF PaidInit, SlotInv, AttemptHolds, HandlersOfAttempt, OneOnGate, CountIsFresh, FreshCount,
         Counting, Active
<1>2. LedgerTypeOK /\ LedgerTypeOK' /\ PaidTypeOK /\ SlotInv /\ [PaidNext]_paidVars => SlotInv'
  BY BoundarySlot
<1> QED BY <1>1, <1>2, BoundaryIsLedger, LedgerTyping, PTL DEF PaidSpec

\* Only a reservation takes a handler from "reserve" to "mark".
LEMMA MarkedByReserve ==
  ASSUME PaidTypeOK, [PaidNext]_paidVars, NEW r \in Requests, At(r, "reserve"), At(r, "mark")'
  PROVE  ReserveCall(r)
<1>1. request'[r] # request[r] /\ Active(r) /\ Active(r)' BY DEF At
<1>2. ASSUME NEW q \in Requests, Arrive(q) \/ Handle(q) PROVE q = r /\ Handle(r)
  <2>1. q = r BY <1>1, <1>2, HandlersElsewhere
  <2> QED BY <1>1, <1>2, <2>1 DEF Arrive
<1>3. ASSUME Handle(r) PROVE ReserveCall(r)
  <2>1. Denied(r) \/ ReserveCall(r)
    BY <1>3 DEF Handle, Boundary, Capacity, MarkCall, Call, SettleCall, Failed, ReleaseCall,
                RetainCall, At
  <2>2. ~Denied(r) BY <1>1 DEF Denied, Finish, Active, PaidTypeOK
  <2> QED BY <2>1, <2>2
<1>4. ~Restart BY <1>1 DEF Restart, Active
<1>5. PaidNext BY <1>1 DEF paidVars
<1> QED BY <1>1, <1>2, <1>3, <1>4, <1>5
        DEF PaidNext, ProviderCharges, Prepare, Dispatch, Stop, NextProductive, CompletionGate,
            CommitCandidate, EndAttempt, gatewayVars

\* A Work's last productive operation is reserved only by a handler that saw progress when
\* exactly that operation was left, through repairs, new attempts and late handlers.
THEOREM LastSlotHolds == PaidSpec => LastSlotSawProgress
<1>1. ASSUME LedgerTypeOK, PaidTypeOK, SlotInv, [PaidNext]_paidVars, NEW r \in Requests,
             At(r, "reserve"), At(r, "mark")', PhaseOf(request[r].stage) = "productive",
             Cardinality({o \in OpIds : op'[o] # NoOp /\ op'[o].binding.work = request[r].x.work
                                          /\ op'[o].phase = "productive"}) = Planned(request[r].x)
      PROVE  request[r].ready
  <2>1. ReserveCall(r) BY <1>1, MarkedByReserve
  <2>2. PICK o \in OpIds, p \in Plans :
          Reserve(o, request[r].x, p.card, p.perOp, PhaseOf(request[r].stage))
    BY <2>1 DEF ReserveCall
  <2>3. PICK x \in Binding : x = request[r].x BY <1>1, RequestTyped DEF At
  <2>4. ~Dead(x) BY <1>1, <2>2, <2>3, AuthorityAlive DEF Reserve
  <2>5. /\ ~Exists(o) /\ op'[o] # NoOp /\ op'[o].binding = x /\ op'[o].phase = "productive"
        /\ \A q \in OpIds : q # o => op'[q] = op[q]
    <3>1. "productive" \in Phases BY DEF Phases
    <3> QED BY <1>1, <2>2, <2>3, <3>1, RowReserved, PlanTyped
  <2> DEFINE A == OpsIn(x.work, "productive")
             B == {q \in OpIds : op'[q] # NoOp /\ op'[q].binding.work = x.work
                                   /\ op'[q].phase = "productive"}
  <2>6. B = A \cup {o} /\ o \notin A BY <2>5 DEF OpsIn, OpsOf, Exists
  <2>7. IsFiniteSet(A) /\ Cardinality(A) = Used(x) /\ Used(x) \in Nat BY UsedTyped DEF Used
  <2>8. Cardinality(B) = Planned(x) BY <1>1, <2>3
  <2> HIDE DEF A, B
  <2>9. Cardinality(B) = Cardinality(A) + 1 BY <2>6, <2>7, FS_AddElement
  <2>10. Used(x) = Planned(x) - 1 BY <2>7, <2>8, <2>9
  <2>11. Counting(r) BY <1>1 DEF Counting, At, PhaseOf
  <2> QED BY <1>1, <2>3, <2>4, <2>10, <2>11 DEF SlotInv, CountIsFresh, FreshCount
<1>2. LedgerTypeOK /\ PaidTypeOK /\ SlotInv /\ [PaidNext]_paidVars =>
        [\A r \in Requests :
           At(r, "reserve") /\ At(r, "mark")'
             /\ PhaseOf(request[r].stage) = "productive"
             /\ Cardinality({o \in OpIds : op'[o] # NoOp /\ op'[o].binding.work = request[r].x.work
                                              /\ op'[o].phase = "productive"}) = Planned(request[r].x)
           => request[r].ready]_paidVars
  BY <1>1
<1> QED BY <1>2, SlotHolds, BoundaryIsLedger, LedgerTyping, PTL DEF PaidSpec, LastSlotSawProgress
=============================================================================
