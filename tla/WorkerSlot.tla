----------------------------- MODULE WorkerSlot -----------------------------
(***************************************************************************)
(* What the hosted controller promises about machines, without leases,     *)
(* deliveries, sessions or failures: there is one slot.  A run holds it    *)
(* once to produce and then at most once to verify, a machine runs only    *)
(* for the holder, the slot is given back only when no machine can run     *)
(* any more, and a closed run never holds it again.                        *)
(***************************************************************************)
CONSTANTS Runs, Nobody

VARIABLES holder,    \* <<run, task>> or Nobody
          used,      \* every <<run, task>> that held the slot
          machines,  \* the <<run, task>> whose machine is running
          closed     \* runs with a terminal outcome

slotVars == <<holder, used, machines, closed>>

Init == holder = Nobody /\ used = {} /\ machines = {} /\ closed = {}

Acquire(r, task) ==
  /\ holder = Nobody /\ r \notin closed /\ <<r, task>> \notin used
  /\ task = "verify" => <<r, "produce">> \in used
  /\ holder' = <<r, task>> /\ used' = used \cup {<<r, task>>}
  /\ UNCHANGED <<machines, closed>>

Boot == /\ holder # Nobody /\ machines' = {holder}
        /\ UNCHANGED <<holder, used, closed>>

Halt == /\ machines # {} /\ machines' = {}
        /\ UNCHANGED <<holder, used, closed>>

Release == /\ holder # Nobody /\ machines = {}
           /\ holder' = Nobody
           /\ UNCHANGED <<used, machines, closed>>

Close(r) == /\ r \notin closed /\ (holder # Nobody => holder[1] # r)
            /\ closed' = closed \cup {r}
            /\ UNCHANGED <<holder, used, machines>>

Next == \/ \E r \in Runs : Acquire(r, "produce") \/ Acquire(r, "verify") \/ Close(r)
        \/ Boot \/ Halt \/ Release

Spec == Init /\ [][Next]_slotVars
=============================================================================
