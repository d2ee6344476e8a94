---------------------------- MODULE BoundAttempt ----------------------------
(***************************************************************************)
(* What a connection is promised about an attempt it prepared              *)
(* (docs/factory-dispatch.md): it is executed at most once however often   *)
(* its dispatch is repeated, a stop that comes before the claim keeps it   *)
(* from being executed at all, and a terminal answer is final and given    *)
(* only when the execution has ended.                                      *)
(***************************************************************************)
CONSTANTS Requests

VARIABLES
  phase,     \* "open", "claimed", and then an outcome that stays
  stopping,  \* requests with a stop tombstone
  executing  \* requests that are executed now

attemptVars == <<phase, stopping, executing>>
Outcomes    == {"COMPLETED", "FAILED", "CANCELLED"}

Init == phase = [o \in Requests |-> "open"] /\ stopping = {} /\ executing = {}

Claim(o) ==
  /\ phase[o] = "open" /\ o \notin stopping
  /\ phase' = [phase EXCEPT ![o] = "claimed"]
  /\ executing' = executing \cup {o}
  /\ UNCHANGED stopping

Stop(o) ==
  /\ stopping' = stopping \cup {o}
  /\ UNCHANGED <<phase, executing>>

\* Executions end by themselves, are cancelled, or die with the supervisor.
End == executing' = {} /\ UNCHANGED <<phase, stopping>>

Terminate(o, outcome) ==
  /\ o \notin executing
  /\ \/ phase[o] = "claimed" /\ outcome \in Outcomes
     \/ phase[o] = "open" /\ o \in stopping /\ outcome = "NOT_DISPATCHED"
  /\ phase' = [phase EXCEPT ![o] = outcome]
  /\ UNCHANGED <<stopping, executing>>

Next == \/ \E o \in Requests : Claim(o) \/ Stop(o)
        \/ \E o \in Requests, outcome \in Outcomes \cup {"NOT_DISPATCHED"} : Terminate(o, outcome)
        \/ End

Spec == Init /\ [][Next]_attemptVars
=============================================================================
