--------------------------- MODULE PromiseProofs ---------------------------
(***************************************************************************)
(* What two abstract promises amount to, for any Works, operations and     *)
(* runs: that of PaidWork about money and that of WorkerSlot about         *)
(* machines.  Whatever implements one of them has these properties too.    *)
(***************************************************************************)
EXTENDS Integers, FiniteSets, FiniteSetsExt, TLAPS

CONSTANTS Works, OpIds, Ceilings, Amounts, NoWork,  \* of PaidWork
          Runs, Nobody                              \* of WorkerSlot

VARIABLES ceiling, owner, stage, hold, paid,
          holder, used, machines, closed

Paid == INSTANCE PaidWork
Slot == INSTANCE WorkerSlot
-----------------------------------------------------------------------------
(* PaidWork *)

\* A charge never exceeds what its Work has committed for it, a Work has one commitment at
\* a time that may still be charged, and nothing is charged that was not committed.
ChargesCommitted ==
  /\ \A o \in OpIds : paid[o] <= hold[o]
  /\ \A w \in Works : \A o1, o2 \in Paid!Of(w) :
        stage[o1] # "closed" /\ stage[o2] # "closed" => o1 = o2
  /\ \A o \in OpIds : paid[o] > 0 => owner[o] \in Works /\ stage[o] \in {"live", "closed"}

\* Commitments are numbers, and an operation is owned exactly when it is not free.
PaidTyped ==
  /\ owner \in [OpIds -> Works \cup {NoWork}]
  /\ stage \in [OpIds -> {"free", "held", "live", "closed"}]
  /\ hold \in [OpIds -> Nat] /\ paid \in [OpIds -> Nat]
  /\ \A o \in OpIds : stage[o] = "free" <=> owner[o] = NoWork
  /\ \A o \in OpIds : stage[o] \in {"free", "held"} => paid[o] = 0

PaidInv == PaidTyped /\ ChargesCommitted

\* The provider boundary of a gateway promises it through ImplementsPaidWork: a charge is
\* within its reservation, and no two operations of a Work are open at once.
THEOREM ChargesCommittedHolds ==
  ASSUME NoWork \notin Works, Amounts \subseteq Nat
  PROVE  Paid!Spec => []ChargesCommitted
<1>1. Paid!Init => PaidInv
  BY DEF Paid!Init, PaidInv, PaidTyped, ChargesCommitted, Paid!Of
<1>2. PaidInv /\ [Paid!Next]_(Paid!paidVars) => PaidInv'
  <2> SUFFICES ASSUME PaidInv, [Paid!Next]_(Paid!paidVars) PROVE PaidInv'
    OBVIOUS
  <2> USE DEF PaidInv, PaidTyped, ChargesCommitted
  <2>1. ASSUME NEW w \in Works, NEW c \in Ceilings, Paid!Open(w, c) PROVE PaidInv'
    BY <2>1 DEF Paid!Open, Paid!Of
  <2>2. ASSUME NEW o \in OpIds, NEW w \in Works, NEW n \in Amounts, Paid!Commit(o, w, n) PROVE PaidInv'
    <3>1. /\ stage[o] = "free" /\ \A other \in Paid!Of(w) : stage[other] = "closed"
          /\ owner' = [owner EXCEPT ![o] = w] /\ stage' = [stage EXCEPT ![o] = "held"]
          /\ hold' = [hold EXCEPT ![o] = n] /\ paid' = paid
      BY <2>2 DEF Paid!Commit
    <3>2. n \in Nat /\ paid[o] = 0 BY <3>1
    <3>3. PaidTyped' BY <3>1, <3>2
    <3>4. \A q \in OpIds : paid'[q] <= hold'[q] BY <3>1, <3>2
    <3>5. ASSUME NEW v \in Works, NEW o1 \in Paid!Of(v)', NEW o2 \in Paid!Of(v)',
                 stage'[o1] # "closed", stage'[o2] # "closed"
          PROVE  o1 = o2
      <4>1. \A q \in OpIds : q # o => owner'[q] = owner[q] /\ stage'[q] = stage[q] BY <3>1
      <4>2. o1 \in OpIds /\ o2 \in OpIds /\ owner'[o1] = v /\ owner'[o2] = v /\ owner'[o] = w
        BY <3>1 DEF Paid!Of
      <4>3. CASE o1 # o /\ o2 # o BY <3>5, <4>1, <4>2, <4>3 DEF Paid!Of
      <4>4. CASE o1 = o /\ o2 # o BY <3>1, <3>5, <4>1, <4>2, <4>4 DEF Paid!Of
      <4>5. CASE o1 # o /\ o2 = o BY <3>1, <3>5, <4>1, <4>2, <4>5 DEF Paid!Of
      <4> QED BY <4>3, <4>4, <4>5
    <3>6. \A q \in OpIds : paid'[q] > 0 => owner'[q] \in Works /\ stage'[q] \in {"live", "closed"}
      BY <3>1, <3>2
    <3> QED BY <3>3, <3>4, <3>5, <3>6
  <2>3. ASSUME NEW S \in SUBSET OpIds, Paid!GoLive(S) PROVE PaidInv'
    <3>1. /\ \A o \in S : stage[o] = "held"
          /\ owner' = owner /\ hold' = hold /\ paid' = paid
          /\ stage' = [o \in OpIds |-> IF o \in S THEN "live" ELSE stage[o]]
      BY <2>3 DEF Paid!GoLive
    <3>2. \A o \in OpIds : stage'[o] # "closed" => stage[o] # "closed" BY <3>1
    <3>3. \A v \in Works : Paid!Of(v)' = Paid!Of(v) BY <3>1 DEF Paid!Of
    <3>4. PaidTyped' BY <3>1
    <3>5. \A v \in Works : \A o1, o2 \in Paid!Of(v)' :
            stage'[o1] # "closed" /\ stage'[o2] # "closed" => o1 = o2
      BY <3>2, <3>3 DEF Paid!Of
    <3> QED BY <3>1, <3>4, <3>5
  <2>4. ASSUME NEW o \in OpIds, NEW c \in 1..hold[o], Paid!Charge(o, c) PROVE PaidInv'
    <3>1. /\ stage[o] = "live" /\ c <= hold[o] /\ c \in Nat /\ paid' = [paid EXCEPT ![o] = c]
          /\ owner' = owner /\ stage' = stage /\ hold' = hold
      BY <2>4 DEF Paid!Charge
    <3> QED BY <3>1 DEF Paid!Of
  <2>5. ASSUME NEW o \in OpIds, Paid!Settled(o) \/ Paid!GivenBack(o) PROVE PaidInv'
    <3>1. /\ stage' = [stage EXCEPT ![o] = "closed"] /\ owner' = owner /\ paid' = paid
          /\ hold' = [hold EXCEPT ![o] = paid[o]]
          /\ stage[o] \in {"live", "held"}
      BY <2>5 DEF Paid!Settled, Paid!GivenBack
    <3>2. \A q \in OpIds : stage'[q] # "closed" => stage[q] # "closed" BY <3>1
    <3>3. \A v \in Works : Paid!Of(v)' = Paid!Of(v) BY <3>1 DEF Paid!Of
    <3>4. PaidTyped' BY <3>1
    <3>5. \A v \in Works : \A o1, o2 \in Paid!Of(v)' :
            stage'[o1] # "closed" /\ stage'[o2] # "closed" => o1 = o2
      BY <3>2, <3>3 DEF Paid!Of
    <3>6. \A q \in OpIds : paid'[q] <= hold'[q] BY <3>1
    <3>7. \A q \in OpIds : paid'[q] > 0 => owner'[q] \in Works /\ stage'[q] \in {"live", "closed"}
      BY <3>1
    <3> QED BY <3>4, <3>5, <3>6, <3>7
  <2>6. CASE UNCHANGED Paid!paidVars BY <2>6 DEF Paid!paidVars, Paid!Of
  <2> QED BY <2>1, <2>2, <2>3, <2>4, <2>5, <2>6 DEF Paid!Next
<1>3. PaidInv => ChargesCommitted BY DEF PaidInv
<1> QED BY <1>1, <1>2, <1>3, PTL DEF Paid!Spec
-----------------------------------------------------------------------------
(* WorkerSlot *)

Tasks == {"produce", "verify"}

\* Only the holder's machine runs, every machine that runs had the slot, and a run whose
\* outcome is recorded neither holds the slot nor has a machine running.
SlotExclusive ==
  /\ machines # {} => holder # Nobody /\ machines = {holder}
  /\ holder # Nobody => holder \in used /\ holder[1] \notin closed
  /\ \A r \in Runs : r \in closed => \A task \in Tasks : <<r, task>> \notin machines
  /\ \A r \in Runs : <<r, "verify">> \in used => <<r, "produce">> \in used

\* The holder is always a task of a run, which tells it from Nobody.
SlotTyped == /\ holder \in (Runs \X Tasks) \cup {Nobody}
             /\ used \subseteq Runs \X Tasks

SlotInv == SlotTyped /\ SlotExclusive

\* A machine runs only for the holder of the slot, is never a second one, and never runs
\* for a run whose outcome was recorded (claim, confirmCleanup, finalize of the hosted
\* store promise it through ImplementsWorkerSlot).
THEOREM SlotExclusiveHolds ==
  ASSUME Nobody \notin Runs \X Tasks
  PROVE  Slot!Spec => []SlotExclusive
<1>1. Slot!Init => SlotInv
  BY DEF Slot!Init, SlotInv, SlotTyped, SlotExclusive
<1>2. SlotInv /\ [Slot!Next]_(Slot!slotVars) => SlotInv'
  <2> SUFFICES ASSUME SlotInv, [Slot!Next]_(Slot!slotVars) PROVE SlotInv'
    OBVIOUS
  <2> USE DEF SlotInv, SlotTyped, SlotExclusive
  <2>1. ASSUME NEW r \in Runs, NEW task \in Tasks, Slot!Acquire(r, task) PROVE SlotInv'
    <3>1. machines = {} /\ machines' = {} BY <2>1 DEF Slot!Acquire
    <3>2. holder' = <<r, task>> /\ used' = used \cup {<<r, task>>} /\ closed' = closed /\ r \notin closed
      BY <2>1 DEF Slot!Acquire
    <3>3. SlotTyped' BY <3>2
    <3>4. \A q \in Runs : <<q, "verify">> \in used' => <<q, "produce">> \in used'
      BY <2>1, <3>2 DEF Slot!Acquire, Tasks
    <3> QED BY <3>1, <3>2, <3>3, <3>4
  <2>2. ASSUME NEW r \in Runs, Slot!Close(r) PROVE SlotInv'
    <3>1. /\ closed' = closed \cup {r} /\ holder' = holder /\ used' = used /\ machines' = machines
          /\ holder # Nobody => holder[1] # r
      BY <2>2 DEF Slot!Close
    <3>2. \A task \in Tasks : <<r, task>> \notin machines BY <3>1
    <3> QED BY <3>1, <3>2
  <2>3. CASE Slot!Boot
    <3>1. /\ holder # Nobody /\ machines' = {holder}
          /\ holder' = holder /\ used' = used /\ closed' = closed
      BY <2>3 DEF Slot!Boot
    <3>2. \A r \in Runs : r \in closed => \A task \in Tasks : <<r, task>> # holder BY <3>1
    <3> QED BY <3>1, <3>2
  <2>4. CASE Slot!Halt BY <2>4 DEF Slot!Halt
  <2>5. CASE Slot!Release BY <2>5 DEF Slot!Release
  <2>6. CASE UNCHANGED Slot!slotVars BY <2>6 DEF Slot!slotVars
  <2> QED BY <2>1, <2>2, <2>3, <2>4, <2>5, <2>6 DEF Slot!Next, Tasks
<1>3. SlotInv => SlotExclusive BY DEF SlotInv
<1> QED BY <1>1, <1>2, <1>3, PTL DEF Slot!Spec
=============================================================================
