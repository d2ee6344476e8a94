--------------------------- MODULE MCSpendGateway ---------------------------
(* One Work; two handlers; an attempt in each of two generations. *)
EXTENDS SpendGateway, TLC

CONSTANTS card

MCPlan(productive, completion) ==
  [version |-> "V2", card |-> card, validUntil |-> 2, perOp |-> 2,
   slots |-> [p \in Phases |-> IF p = "productive" THEN productive ELSE completion],
   maxPaid |-> productive + completion, completionReserve |-> 2 * completion]

RepairPlan == {MCPlan(2, 1)}
ShortPlan  == {MCPlan(1, 1)}
MCSymmetry == Permutations(OpIds) \cup Permutations(Writers) \cup Permutations(Requests) \cup Permutations(Receipts)
=============================================================================
