---------------------------- MODULE ReviewRepair ----------------------------
(***************************************************************************)
(* Verification observations, independent reviews and bounded repair of a  *)
(* candidate (apps/supervisor/src/review-repair.ts).                       *)
(*                                                                         *)
(* A failed review of a candidate may be answered by one new WorkOrder     *)
(* that starts from it.  Such a chain is the sequence `work', whose first  *)
(* element is the root.  Every record is an append-only event; a method is *)
(* one transaction.  The identities of reports and artifacts only refuse   *)
(* calls and are left out, as are the contents of findings and policies.   *)
(***************************************************************************)
EXTENDS Naturals, Sequences, FiniteSets

CONSTANTS
  Policies,    \* repair policies the owner may propose
  NoProposal   \* the link of the root

Policy == [rounds : Nat, operations : Nat, budget : Nat,          \* of the chain
           roundOperations : Nat \ {0}, roundBudget : Nat \ {0}]  \* of one repair

ASSUME PolicyAssumption == Policies \subseteq Policy

VARIABLES
  work,       \* the chain: its root and the approved repairs
  proposals,  \* repair.proposed events
  expired,    \* the deadline of the chain has passed
  requests    \* publication requests, with their approval and external action

repairVars == <<work, proposals, expired>>

Statuses  == {"PASS", "UNKNOWN"}     \* UNKNOWN stands for FAIL as well
Stages    == 3                       \* custody, protected, ci: in that order
Proposal  == [parent : Nat \ {0}, policy : Policies]
Candidate == [state : {"awaiting_approval", "queued", "ready", "failed"},
              attested : BOOLEAN, observed : Seq(Statuses), public : BOOLEAN,
              reviews : Seq({"PASS", "FAIL"}), ciAfter : BOOLEAN, link : Proposal \cup {NoProposal}]

NewWork(state, attested, link) ==
  [state |-> state, attested |-> attested, observed |-> <<>>, public |-> FALSE,
   reviews |-> <<>>, ciAfter |-> FALSE, link |-> link]

\* The root came to its candidate by a metered dispatch, with all its evidence, or otherwise.
RepairInit ==
  /\ \E attested \in BOOLEAN : work = <<NewWork("ready", attested, NoProposal)>>
  /\ proposals = {} /\ expired = FALSE
-----------------------------------------------------------------------------
Tip         == Len(work)
Rounds      == Len(work) - 1
IsRepair(i) == i > 1
Checked(i)  == work[i].state = "ready" /\ work[i].attested          \* localChecks
Passed(i, stage) == Len(work[i].observed) >= stage /\ work[i].observed[stage] = "PASS"
AllPassed(i) == \A k \in DOMAIN work[i].observed : work[i].observed[k] = "PASS"
Reviewed(i) == work[i].reviews # <<>>
Verdict(i)  == work[i].reviews[Len(work[i].reviews)]
Failed(i)   == Reviewed(i) /\ Verdict(i) = "FAIL"

Published(i) == work[i].public \/ \E q \in DOMAIN requests :
  requests[q].work = i /\ requests[q].action \in {"dispatched", "succeeded", "unknown"}

\* publicationEligible: a root needs nothing more than its checks.
Eligible(i) == IsRepair(i) => Checked(i) /\ Passed(i, 1) /\ Passed(i, 2) /\ AllPassed(i)

\* view: the operations and the budget allocated to the approved repairs.
Allocated ==
  LET upTo[i \in 1..Len(work)] ==
        IF i = 1 THEN [operations |-> 0, budget |-> 0]
        ELSE LET p == work[i].link.policy
             IN [operations |-> upTo[i - 1].operations + p.roundOperations,
                 budget |-> upTo[i - 1].budget + p.roundBudget]
  IN upTo[Len(work)]
-----------------------------------------------------------------------------
\* observe: stages in order, each once, and nothing after one that did not pass.
Observe(i, status, public) ==
  /\ Checked(i) /\ AllPassed(i) /\ Len(work[i].observed) < Stages
  /\ work' = [work EXCEPT ![i] =
       [work[i] EXCEPT !.observed = Append(work[i].observed, status), !.public = work[i].public \/ public,
          !.ciAfter = work[i].ciAfter \/ (Len(work[i].observed) = 2 /\ status = "PASS" /\ Reviewed(i))]]
  /\ UNCHANGED <<proposals, expired>>

\* recordReview: a failed review stays; a passed one only gives way to one after fresh CI.
RecordReview(i, verdict) ==
  /\ Checked(i) /\ Passed(i, 1) /\ Passed(i, 2)
  /\ Published(i) => Passed(i, 3)
  /\ Reviewed(i) => Verdict(i) = "PASS" /\ work[i].ciAfter
  /\ work' = [work EXCEPT ![i] = [work[i] EXCEPT !.reviews = Append(work[i].reviews, verdict), !.ciAfter = FALSE]]
  /\ UNCHANGED <<proposals, expired>>

\* What propose asks, and approve once more inside its transaction.
Proposable(i, p) ==
  /\ i = Tip /\ Failed(i) /\ work[i].state = "ready"
  /\ Rounds > 0 => work[2].link.policy = p
  /\ Rounds < p.rounds
  /\ Allocated.operations + p.roundOperations <= p.operations
  /\ Allocated.budget + p.roundBudget <= p.budget
  /\ IsRepair(i) => ~expired

Propose(i, p) ==
  /\ Proposable(i, p)
  /\ proposals' = proposals \cup {[parent |-> i, policy |-> p]}
  /\ UNCHANGED <<work, expired>>

Approved(p) == \E i \in DOMAIN work : work[i].link = p

\* Slip: the proposal was checked before the owner was asked.
ApproveRepairAsked(p) ==
  /\ ~Approved(p)
  /\ work' = Append(work, NewWork("awaiting_approval", FALSE, p))
  /\ UNCHANGED <<proposals, expired>>

\* The device owner was asked in between; what was checked before is checked again.
ApproveRepair(p) ==
  /\ ~Approved(p) /\ Proposable(p.parent, p.policy)
  /\ work' = Append(work, NewWork("awaiting_approval", FALSE, p))
  /\ UNCHANGED <<proposals, expired>>

\* The deadline is set by the first approval and counts for the whole chain.
Expire ==
  /\ Rounds > 0 /\ ~expired /\ expired' = TRUE
  /\ UNCHANGED <<work, proposals>>

\* claimRepairPreparation, inside prepare.
ClaimRepair(i) ==
  /\ i = Tip /\ IsRepair(i) /\ work[i].state = "awaiting_approval" /\ ~expired
  /\ work' = [work EXCEPT ![i].state = "queued"]
  /\ UNCHANGED <<proposals, expired>>

\* The dispatched run of a repair ends (FactoryDispatch): with a plan, hence with evidence.
RepairEnds(i) ==
  /\ work[i].state = "queued"
  /\ \E s \in {"ready", "failed"} : work' = [work EXCEPT ![i] = [work[i] EXCEPT !.state = s, !.attested = (s = "ready")]]
  /\ UNCHANGED <<proposals, expired>>

RepairNext ==
  \/ \E i \in DOMAIN work :
       \/ \E s \in Statuses, public \in BOOLEAN : Observe(i, s, public)
       \/ \E v \in {"PASS", "FAIL"} : RecordReview(i, v)
       \/ \E p \in Policies : Propose(i, p)
       \/ ClaimRepair(i) \/ RepairEnds(i)
  \/ \E p \in proposals : ApproveRepair(p)
  \/ Expire
-----------------------------------------------------------------------------
RepairTypeOK ==
  /\ work \in Seq(Candidate) /\ proposals \subseteq Proposal
  /\ expired \in BOOLEAN

\* The chain stays a chain within what the first approval allowed: one repair of each failed
\* candidate, all under one policy, its rounds, operations and budget never exceeded, also
\* when several proposals wait for the owner at a time (propose, approve).
ChainSound ==
  /\ \A i \in DOMAIN work : IsRepair(i) =>
       /\ work[i].link.parent = i - 1 /\ Failed(i - 1)
       /\ work[i].link.policy = work[2].link.policy
  /\ Rounds > 0 => LET p == work[2].link.policy
                   IN Rounds <= p.rounds /\ Allocated.operations <= p.operations /\ Allocated.budget <= p.budget
=============================================================================
