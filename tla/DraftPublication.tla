-------------------------- MODULE DraftPublication --------------------------
(***************************************************************************)
(* What a publication request promises its owner (docs/architecture and    *)
(* the action registry of actions.ts): nothing is sent to GitHub before    *)
(* the owner approved and claimed the request, and nothing after its       *)
(* outcome was recorded.  A failed request sent nothing.  An unknown one   *)
(* is never sent again, only looked up.  A succeeded one has its draft.    *)
(***************************************************************************)
CONSTANTS Requests

VARIABLES
  phase,  \* "none", "requested", "approved", "claimed", and an outcome
  sent,   \* requests for which a remote effect was asked
  drafts  \* requests whose candidate has a draft

draftVars == <<phase, sent, drafts>>

Init == phase = [q \in Requests |-> "none"] /\ sent = {} /\ drafts = {}

Move(q, from, to) == phase[q] \in from /\ phase' = [phase EXCEPT ![q] = to]

Request(q) == Move(q, {"none"}, "requested") /\ drafts' \in {drafts, drafts \cup {q}} /\ UNCHANGED sent
Approve(q) == Move(q, {"requested"}, "approved") /\ UNCHANGED <<sent, drafts>>
Claim(q)   == Move(q, {"approved"}, "claimed") /\ UNCHANGED <<sent, drafts>>

Send(q) == phase[q] = "claimed" /\ sent' = sent \cup {q} /\ UNCHANGED <<phase, drafts>>

\* What was sent arrives once, at any time, for every request of the candidate.
Appear(q) == q \in sent /\ \E new \in SUBSET Requests : q \in new /\ drafts' = drafts \cup new
                        /\ UNCHANGED <<phase, sent>>

Fail(q)    == q \notin sent /\ Move(q, {"claimed"}, "failed") /\ UNCHANGED <<sent, drafts>>
Lose(q)    == Move(q, {"claimed"}, "unknown") /\ UNCHANGED <<sent, drafts>>
Succeed(q) == q \in drafts /\ Move(q, {"claimed", "unknown"}, "succeeded") /\ UNCHANGED <<sent, drafts>>

\* The supervisor dies with all that it had claimed.
LoseAll ==
  /\ phase' = [q \in Requests |-> IF phase[q] = "claimed" THEN "unknown" ELSE phase[q]]
  /\ UNCHANGED <<sent, drafts>>

Next == LoseAll \/ \E q \in Requests :
  Request(q) \/ Approve(q) \/ Claim(q) \/ Send(q) \/ Appear(q) \/ Fail(q) \/ Lose(q) \/ Succeed(q)

\* A claimed request gets an outcome.
Answered == \A q \in Requests : phase[q] = "claimed" ~> phase[q] # "claimed"

Spec == Init /\ [][Next]_draftVars /\ Answered
=============================================================================
