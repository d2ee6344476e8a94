----------------------------- MODULE MCCloudWork -----------------------------
(* One deadline of two ticks, a lease of one tick, one tick of Grace. *)
EXTENDS CloudWork, TLC

CONSTANTS runA, runB, w1, w2, r1, k1, card

Bound(w, g) == [work |-> w, generation |-> g, order |-> r1, writer |-> k1]

\* One run; two generations of one Work.
Alone        == [r \in {runA} |-> Bound(w1, 1)]
Generations2 == [r \in {runA, runB} |-> Bound(w1, IF r = runA THEN 1 ELSE 2)]

\* Bound of the run with two generations: no send fails, no client is the one
\* of validations, and the later run is followed,
\* without being stopped, until its machine is recorded or its executor dies; from there
\* on it does what the earlier one does.
Followed == /\ \A r \in Runs : run[r] # NoRun => run[r].intent # "UNKNOWN" /\ ~run[r].validation
            /\ run[runB] # NoRun => ~run[runB].stopped
            /\ exec[runB].pc \in {"none", "schedule", "allocate", "create", "receipt", "done"}

AloneOps == {runA} \X Phases
PairOps  == {runA, runB} \X Phases

MCPlans == {[version |-> "V2", card |-> card, validUntil |-> 9, perOp |-> 1,
             slots |-> [p \in Phases |-> 1], maxPaid |-> 2, completionReserve |-> 1]}
=============================================================================
