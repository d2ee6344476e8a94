--------------------------- MODULE MCSpendLedger ---------------------------
(* One Work over two generations: two productive slots, one completion slot. *)
EXTENDS SpendLedger, TLC

CONSTANTS card, oldCard

MCPlan(c, expiry) ==
  [version |-> "V2", card |-> c, validUntil |-> expiry, perOp |-> 2,
   slots |-> [p \in Phases |-> IF p = "productive" THEN 2 ELSE 1],
   maxPaid |-> 3, completionReserve |-> 2]

\* The second plan does not fit any ceiling of the run, so validateBudget refuses it.
MCPlans    == {MCPlan(card, 2), [MCPlan(card, 3) EXCEPT !.completionReserve = 5]}
MCCeilings == {6}
MCSymmetry == Permutations(Orders) \cup Permutations(OpIds) \cup Permutations(Writers) \cup Permutations(Receipts)
=============================================================================
