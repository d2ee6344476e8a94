------------------------------ MODULE PaidWork ------------------------------
(***************************************************************************)
(* What the spend boundary promises about one provider and many Works,     *)
(* without phases, writers, generations, gateways or failures:             *)
(*   - money is committed before a call can cost anything, within a        *)
(*     ceiling that is fixed when the Work opens;                          *)
(*   - a Work has one commitment at a time that may still be charged;      *)
(*   - a charge never exceeds its commitment and happens at most once;     *)
(*   - a commitment is given back only when the call is known never to     *)
(*     have been made, or reduced to what the provider reported.           *)
(***************************************************************************)
EXTENDS Integers, FiniteSets, FiniteSetsExt

CONSTANTS Works, OpIds, Ceilings, Amounts, NoWork

VARIABLES ceiling,  \* [Works -> Nat], 0 until the Work opens
          owner,    \* [OpIds -> Works or NoWork]
          stage,    \* [OpIds -> free, held, live (the provider may charge), closed]
          hold,     \* [OpIds -> Nat] committed money
          paid      \* [OpIds -> Nat] what the provider charged

paidVars == <<ceiling, owner, stage, hold, paid>>

Of(w)        == {o \in OpIds : owner[o] = w}
Committed(w) == MapThenSumSet(LAMBDA o : hold[o], Of(w))

Init == /\ ceiling = [w \in Works |-> 0]
        /\ owner = [o \in OpIds |-> NoWork]
        /\ stage = [o \in OpIds |-> "free"]
        /\ hold = [o \in OpIds |-> 0]
        /\ paid = [o \in OpIds |-> 0]

Open(w, c) == /\ ceiling[w] = 0
              /\ ceiling' = [ceiling EXCEPT ![w] = c]
              /\ UNCHANGED <<owner, stage, hold, paid>>

Commit(o, w, n) == /\ stage[o] = "free"
                   /\ \A other \in Of(w) : stage[other] = "closed"
                   /\ Committed(w) + n <= ceiling[w]
                   /\ owner' = [owner EXCEPT ![o] = w]
                   /\ stage' = [stage EXCEPT ![o] = "held"]
                   /\ hold' = [hold EXCEPT ![o] = n]
                   /\ UNCHANGED <<ceiling, paid>>

\* From here on the call may have been made; several at once when a host restarts.
GoLive(S) == /\ S # {} /\ \A o \in S : stage[o] = "held"
             /\ stage' = [o \in OpIds |-> IF o \in S THEN "live" ELSE stage[o]]
             /\ UNCHANGED <<ceiling, owner, hold, paid>>

Charge(o, c) == /\ stage[o] = "live" /\ paid[o] = 0
                /\ c <= hold[o]
                /\ paid' = [paid EXCEPT ![o] = c]
                /\ UNCHANGED <<ceiling, owner, stage, hold>>

Settled(o) == /\ stage[o] = "live" /\ paid[o] > 0
              /\ stage' = [stage EXCEPT ![o] = "closed"]
              /\ hold' = [hold EXCEPT ![o] = paid[o]]
              /\ UNCHANGED <<ceiling, owner, paid>>

GivenBack(o) == /\ stage[o] = "held"
                /\ stage' = [stage EXCEPT ![o] = "closed"]
                /\ hold' = [hold EXCEPT ![o] = 0]
                /\ UNCHANGED <<ceiling, owner, paid>>

Next == \/ \E w \in Works, c \in Ceilings : Open(w, c)
        \/ \E o \in OpIds, w \in Works, n \in Amounts : Commit(o, w, n)
        \/ \E S \in SUBSET OpIds : GoLive(S)
        \/ \E o \in OpIds : \/ \E c \in 1..hold[o] : Charge(o, c)
                            \/ Settled(o)
                            \/ GivenBack(o)

Spec == Init /\ [][Next]_paidVars
=============================================================================
