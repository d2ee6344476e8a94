------------------------------ MODULE WebDesk ------------------------------
(***************************************************************************)
(* The review of one WorkOrder in the browser: the polls of App.tsx, the   *)
(* panel of PublicationReview.tsx, and the routes of server.ts they read.  *)
(*                                                                         *)
(* Answers arrive late and in any order.  An effect that runs again turns  *)
(* its former loads into loads nobody waits for: their answers still come. *)
(* Attempts and candidates appear together: an attempt without a candidate *)
(* offers nothing to review.                                               *)
(***************************************************************************)
EXTENDS Naturals, Sequences, FiniteSets

CONSTANTS
  MaxDesk,   \* bound: attempts, policy revisions and proposals, each
  MaxLoads   \* bound: loads of one kind under way

ASSUME DeskBounds == MaxDesk \in Nat \ {0} /\ MaxLoads \in Nat

VARIABLES
  attempt,    \* the last attempt with a candidate
  rules,      \* the revision of the policy
  drafts,     \* publication requests: the attempt and the policy revision they name
  approved,   \* approvals: proposals with the evidence their approver had before them
  desk,       \* detail: the last attempt and the number of proposals, as displayed
  polls,      \* loads of the detail under way
  evidence,   \* the evidence on display: attempt and policy revision
  reads,      \* loads of evidence under way
  ticked,     \* acknowledged
  approving   \* the approval the panel waits for

deskVars == <<attempt, rules, drafts, approved, desk, polls, evidence, reads, ticked, approving>>

None == [attempt |-> 0, proposals |-> 0]
Bare == [attempt |-> 0, rules |-> 0]
Idle == [proposal |-> 0]

DeskInit ==
  /\ attempt = 1 /\ rules = 1 /\ drafts = <<>> /\ approved = {}
  /\ desk = None /\ polls = {} /\ evidence = Bare /\ reads = {} /\ ticked = FALSE /\ approving = Idle

Detail == [attempt |-> attempt, proposals |-> Len(drafts)]
-----------------------------------------------------------------------------
(* The supervisor, for this panel and for others *)

NewAttempt ==
  /\ attempt < MaxDesk /\ attempt' = attempt + 1
  /\ UNCHANGED <<rules, drafts, approved, desk, polls, evidence, reads, ticked, approving>>

NewRules ==
  /\ rules < MaxDesk /\ rules' = rules + 1
  /\ UNCHANGED <<attempt, drafts, approved, desk, polls, evidence, reads, ticked, approving>>

\* publication.request names the last candidate and the current policy, whoever proposes.
ProposeDraft ==
  /\ Len(drafts) < MaxDesk
  /\ drafts' = Append(drafts, [attempt |-> attempt, rules |-> rules])
  /\ UNCHANGED <<attempt, rules, approved, desk, polls, evidence, reads, ticked, approving>>
-----------------------------------------------------------------------------
(* App.tsx: the detail *)

\* Every 7 seconds and on focus, whatever is still under way.
PollDetail ==
  /\ Cardinality(polls) < MaxLoads
  /\ polls' = polls \cup {[active |-> TRUE, answer |-> None]}
  /\ UNCHANGED <<attempt, rules, drafts, approved, desk, evidence, reads, ticked, approving>>

\* workOrderDetail reads everything in one turn of the supervisor.
DetailRead(p) ==
  /\ p.answer = None
  /\ polls' = (polls \ {p}) \cup {[p EXCEPT !.answer = Detail]}
  /\ UNCHANGED <<attempt, rules, drafts, approved, desk, evidence, reads, ticked, approving>>

\* The effect of the panel depends on the attempt: another one empties the evidence, and
\* loads it anew.
Abandon  == {[r EXCEPT !.active = FALSE] : r \in reads}
Reread(n) == evidence' = Bare /\ reads' = Abandon \cup {[attempt |-> n, active |-> TRUE, rules |-> 0, diff |-> FALSE]}

DetailArrives(p) ==
  /\ p.answer # None /\ polls' = polls \ {p}
  /\ IF ~p.active THEN UNCHANGED <<desk, evidence, reads>>
     ELSE /\ desk' = p.answer
          /\ IF desk.attempt = p.answer.attempt THEN UNCHANGED <<evidence, reads>>
             ELSE Cardinality(reads) < MaxLoads /\ Reread(p.answer.attempt)
  /\ UNCHANGED <<attempt, rules, drafts, approved, ticked, approving>>

PollLost(p) ==
  /\ polls' = polls \ {p}
  /\ UNCHANGED <<attempt, rules, drafts, approved, desk, evidence, reads, ticked, approving>>
-----------------------------------------------------------------------------
(* PublicationReview.tsx: the evidence *)

\* getPolicy and the diff are two requests; the diff route refuses an attempt that is not the
\* last one (evidence_stale), which fails the load.
PolicyRead(r) ==
  /\ r.rules = 0 /\ reads' = (reads \ {r}) \cup {[r EXCEPT !.rules = rules]}
  /\ UNCHANGED <<attempt, rules, drafts, approved, desk, polls, evidence, ticked, approving>>

DiffRead(r) ==
  /\ ~r.diff /\ r.attempt = attempt /\ reads' = (reads \ {r}) \cup {[r EXCEPT !.diff = TRUE]}
  /\ UNCHANGED <<attempt, rules, drafts, approved, desk, polls, evidence, ticked, approving>>

\* The answer of an abandoned load is not shown.
EvidenceArrives(r) ==
  /\ r.rules # 0 /\ r.diff /\ reads' = reads \ {r}
  /\ evidence' = IF r.active THEN [attempt |-> r.attempt, rules |-> r.rules] ELSE evidence
  /\ UNCHANGED <<attempt, rules, drafts, approved, desk, polls, ticked, approving>>

EvidenceFails(r) ==
  /\ reads' = reads \ {r}
  /\ UNCHANGED <<attempt, rules, drafts, approved, desk, polls, evidence, ticked, approving>>

\* Retry.
RetryEvidence ==
  /\ desk # None /\ Cardinality(reads) < MaxLoads /\ Reread(desk.attempt)
  /\ UNCHANGED <<attempt, rules, drafts, approved, desk, polls, ticked, approving>>
-----------------------------------------------------------------------------
(* The decision *)

LatestProposal == drafts[desk.proposals]

\* requestMatches: the proposal against the attempt and the policy on display.
RequestMatches ==
  /\ desk.proposals > 0 /\ evidence # Bare
  /\ LatestProposal.attempt = desk.attempt /\ LatestProposal.rules = evidence.rules

\* The box stays as it is when another proposal takes the place of the one it was ticked for.
TickBox ==
  /\ RequestMatches /\ ticked' = ~ticked
  /\ UNCHANGED <<attempt, rules, drafts, approved, desk, polls, evidence, reads, approving>>

Approve ==
  /\ approving = Idle /\ RequestMatches /\ ticked
  /\ approving' = [proposal |-> desk.proposals, evidence |-> evidence]
  /\ UNCHANGED <<attempt, rules, drafts, approved, desk, polls, evidence, reads, ticked>>

\* publication.approve refuses what is not the last candidate under the current policy.
ApproveBound ==
  /\ approving # Idle
  /\ LET p == drafts[approving.proposal] IN p.attempt = attempt /\ p.rules = rules
  /\ \A a \in approved : a.proposal # approving.proposal
  /\ approved' = approved \cup {approving}
  /\ UNCHANGED <<attempt, rules, drafts, desk, polls, evidence, reads, ticked, approving>>

\* The answer, or an error: both load everything again.
ApproveEnds ==
  /\ approving # Idle /\ approving' = Idle
  /\ ticked' \in {ticked} \cup (IF approving \in approved THEN {FALSE} ELSE {})
  /\ polls' = {[p EXCEPT !.active = FALSE] : p \in polls}
  /\ Cardinality(reads) < MaxLoads /\ Reread(desk.attempt)
  /\ UNCHANGED <<attempt, rules, drafts, approved, desk>>

DeskNext ==
  \/ NewAttempt \/ NewRules \/ ProposeDraft \/ PollDetail \/ RetryEvidence \/ TickBox \/ Approve \/ ApproveBound \/ ApproveEnds
  \/ \E p \in polls : DetailRead(p) \/ DetailArrives(p) \/ PollLost(p)
  \/ \E r \in reads : PolicyRead(r) \/ DiffRead(r) \/ EvidenceArrives(r) \/ EvidenceFails(r)

DeskSpec == DeskInit /\ [][DeskNext]_deskVars
-----------------------------------------------------------------------------
DeskTypeOK ==
  /\ attempt \in 1..MaxDesk /\ rules \in 1..MaxDesk /\ Len(drafts) <= MaxDesk
  /\ desk.attempt \in 0..attempt /\ desk.proposals \in 0..Len(drafts)

\* Who approves had the diff of the very candidate before him, and the policy it is approved
\* under: the panel compares the proposal with the detail, and only the load that is awaited
\* may fill in the evidence of that detail (PublicationReview.tsx).
ApprovedSeen == \A a \in approved :
  /\ drafts[a.proposal].attempt = a.evidence.attempt
  /\ drafts[a.proposal].rules = a.evidence.rules

DeskSound == DeskTypeOK /\ ApprovedSeen
=============================================================================
