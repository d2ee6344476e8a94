----------------------------- MODULE Publication -----------------------------
(***************************************************************************)
(* Publication of a reviewed candidate as a draft pull request: the        *)
(* actions publication.request, approve and publish_draft of actions.ts,   *)
(* the adapter publishDraftPullRequest of github.ts, the recovery of       *)
(* server.ts, and the policy revision.                                     *)
(*                                                                         *)
(* A handler runs from one await to the next.  What it asks of GitHub may  *)
(* arrive at once, later, after the supervisor died, or never; GitHub has  *)
(* one branch and at most one draft for a candidate.                       *)
(***************************************************************************)
EXTENDS ReviewRepair

CONSTANTS
  Handlers,     \* action calls that may be under way
  MaxRequests,  \* bound: publication requests
  MaxRevision,  \* bound: changes of the policy
  MaxRestarts,  \* bound: restarts of the supervisor
  NoCall

ASSUME PublicationBounds == MaxRequests \in Nat /\ MaxRevision \in Nat /\ MaxRestarts \in Nat

VARIABLES
  revision,  \* policy.revision
  intact,    \* candidates whose diff and logs are what was recorded
  calls,     \* [Handlers -> call under way]
  remote,    \* candidates with a branch, candidates with a draft
  inflight,  \* effects asked of GitHub and not yet decided
  restarts

hostVars == <<revision, intact, calls, remote, inflight, restarts>>
publicationVars == <<repairVars, requests, hostVars>>

Request == [work : Nat \ {0}, revision : 0..MaxRevision,
            approval : {"none", "valid", "expired"},
            action : {"none", "dispatched", "succeeded", "unknown", "failed"}, sent : BOOLEAN]
Call    == [kind : {"inspect", "push", "create"}, request : 1..MaxRequests,
            reconcile : BOOLEAN]

ASSUME CallSentinel == NoCall \notin Call

PublicationInit ==
  /\ RepairInit /\ requests = <<>>
  /\ revision = 0 /\ intact = {1} /\ calls = [h \in Handlers |-> NoCall]
  /\ remote = [branch |-> {}, draft |-> {}] /\ inflight = {} /\ restarts = 0

Calling(h, kind) == calls[h] # NoCall /\ calls[h].kind = kind
Of(h)            == calls[h].request
WorkOf(q)        == requests[q].work
Become(h, kind)  == calls' = [calls EXCEPT ![h].kind = kind]
Answer(h)        == calls' = [calls EXCEPT ![h] = NoCall]
Begin(h, kind, q, reconcile) ==
  calls[h] = NoCall /\ calls' = [calls EXCEPT ![h] = [kind |-> kind, request |-> q, reconcile |-> reconcile]]

\* currentPublicationEvidence: repair evidence, review, run state and digests.
Evidence(i) == work[i].state = "ready" /\ Eligible(i) /\ ~Failed(i) /\ i \in intact

\* currentRequestBinding
Bound(q) == requests[q].revision = revision /\ Evidence(WorkOf(q))
-----------------------------------------------------------------------------
(* Requests and approvals *)

\* An equivalent request that was not approved is returned instead.
RequestDraft(i) ==
  /\ Evidence(i) /\ Len(requests) < MaxRequests
  /\ ~\E q \in DOMAIN requests : WorkOf(q) = i /\ requests[q].revision = revision /\ requests[q].approval = "none"
  /\ requests' = Append(requests, [work |-> i, revision |-> revision, approval |-> "none",
                                   action |-> "none", sent |-> FALSE])
  /\ UNCHANGED <<repairVars, hostVars>>

\* The owner is asked between two checks, of which the second decides; an approval is unique
\* to its request.
ApproveDraft(q) ==
  /\ Bound(q) /\ requests[q].approval = "none"
  /\ requests' = [requests EXCEPT ![q].approval = "valid"]
  /\ UNCHANGED <<repairVars, hostVars>>

\* An hour passes.
ApprovalExpires(q) ==
  /\ requests[q].approval = "valid" /\ requests[q].action = "none"
  /\ requests' = [requests EXCEPT ![q].approval = "expired"]
  /\ UNCHANGED <<repairVars, hostVars>>

\* set_paused: compare and swap on the revision.
SetPaused ==
  /\ revision < MaxRevision /\ revision' = revision + 1
  /\ UNCHANGED <<repairVars, requests, intact, calls, remote, inflight, restarts>>

\* Someone changes the diff or a log on disk.
Disturb(i) ==
  /\ i \in intact /\ intact' = intact \ {i}
  /\ UNCHANGED <<repairVars, requests, revision, calls, remote, inflight, restarts>>
-----------------------------------------------------------------------------
(* publication.publish_draft *)

Claim(h, q) ==
  /\ requests[q].approval = "valid" /\ requests[q].action = "none"
  /\ requests' = [requests EXCEPT ![q].action = "dispatched"]
  /\ Begin(h, "inspect", q, FALSE)
  /\ UNCHANGED <<repairVars, revision, intact, remote, inflight, restarts>>

\* Slip: what was reviewed is not read again after the owner was asked.
DispatchAsked(h, q) == Claim(h, q)

\* The owner is asked in between here as well.  The claim: one external action of a request
\* for ever, with the binding and the approval as they are now.
Dispatch(h, q) == Bound(q) /\ Claim(h, q)

\* An unknown outcome is looked up, without the owner and without the evidence.
Reconcile(h, q) ==
  /\ requests[q].action = "unknown" /\ Begin(h, "inspect", q, TRUE)
  /\ UNCHANGED <<repairVars, requests, revision, intact, remote, inflight, restarts>>

\* executeDraftPublication: a success that was recorded meanwhile stays.
Record(h, outcome) ==
  /\ requests' = [requests EXCEPT ![Of(h)].action = IF @ = "succeeded" THEN @ ELSE outcome]
  /\ Answer(h)
  /\ UNCHANGED <<repairVars, revision, intact, remote, inflight, restarts>>
-----------------------------------------------------------------------------
(* publishDraftPullRequest *)

HasBranch(h) == WorkOf(Of(h)) \in remote.branch
HasDraft(h)  == WorkOf(Of(h)) \in remote.draft

\* The candidate, the base or GitHub could not be read as expected, before anything was sent.
InspectFails(h) == Calling(h, "inspect") /\ Record(h, IF calls[h].reconcile THEN "unknown" ELSE "failed")

\* A lookup that finds no draft proves nothing.
NotProven(h) == Calling(h, "inspect") /\ calls[h].reconcile /\ ~HasDraft(h) /\ Record(h, "unknown")

\* Any inspection may find the draft, its own or that of another request.
FoundDraft(h) ==
  /\ calls[h] # NoCall /\ calls[h].kind \in {"inspect", "push", "create"}
  /\ HasDraft(h) /\ Record(h, "succeeded")

Send(h, effect) ==
  /\ inflight' = inflight \cup {<<Of(h), effect>>}
  /\ requests' = [requests EXCEPT ![Of(h)].sent = TRUE]
  /\ Become(h, effect)
  /\ UNCHANGED <<repairVars, revision, intact, remote, restarts>>

Push(h) == Calling(h, "inspect") /\ ~calls[h].reconcile /\ ~HasBranch(h) /\ ~HasDraft(h) /\ Send(h, "push")

\* The exact branch was read, before a push or after it.
Create(h) ==
  /\ \/ Calling(h, "inspect") /\ ~calls[h].reconcile
     \/ Calling(h, "push")
  /\ HasBranch(h) /\ ~HasDraft(h) /\ Send(h, "create")

\* Slip: an outcome that was not confirmed counts as a failure.
UnconfirmedFails(h) ==
  /\ Calling(h, "push") \/ Calling(h, "create")
  /\ Record(h, "failed")

\* What was sent could not be confirmed: nothing is sent again.
Unconfirmed(h) ==
  /\ Calling(h, "push") \/ Calling(h, "create")
  /\ Record(h, "unknown")

\* A push creates the branch if there is none; a pull request needs the branch.
Land(e) ==
  /\ e \in inflight /\ inflight' = inflight \ {e}
  /\ LET i == WorkOf(e[1]) IN
       remote' = IF e[2] = "push" THEN [remote EXCEPT !.branch = @ \cup {i}]
                 ELSE [remote EXCEPT !.draft = IF i \in remote.branch THEN @ \cup {i} ELSE @]
  /\ UNCHANGED <<repairVars, requests, revision, intact, calls, restarts>>

Lost(e) ==
  /\ e \in inflight /\ inflight' = inflight \ {e}
  /\ UNCHANGED <<repairVars, requests, revision, intact, calls, remote, restarts>>
-----------------------------------------------------------------------------
\* Dispatched actions have an unknown outcome after a restart.
Restart ==
  /\ restarts < MaxRestarts /\ restarts' = restarts + 1
  /\ requests' = [q \in DOMAIN requests |->
       IF requests[q].action = "dispatched" THEN [requests[q] EXCEPT !.action = "unknown"] ELSE requests[q]]
  /\ calls' = [h \in Handlers |-> NoCall]
  /\ UNCHANGED <<work, proposals, expired, revision, intact, remote, inflight>>

\* The evidence of a new candidate is on disk.
RepairStep ==
  /\ RepairNext
  /\ intact' = intact \cup (DOMAIN work' \ DOMAIN work)
  /\ UNCHANGED <<requests, revision, calls, remote, inflight, restarts>>

Adapter(h) ==
  InspectFails(h) \/ NotProven(h) \/ FoundDraft(h) \/ Push(h) \/ Create(h) \/ Unconfirmed(h)

Owner ==
  \/ \E i \in DOMAIN work : RequestDraft(i) \/ Disturb(i)
  \/ \E q \in DOMAIN requests : ApproveDraft(q) \/ \E h \in Handlers : Dispatch(h, q) \/ Reconcile(h, q)
  \/ SetPaused

PublicationNext ==
  \/ Owner \/ (\E h \in Handlers : Adapter(h)) \/ RepairStep \/ Restart
  \/ \E q \in DOMAIN requests : ApprovalExpires(q)
  \/ \E e \in inflight : Land(e) \/ Lost(e)

\* Every call to git or gh has a time limit.
PublicationSpec ==
  /\ PublicationInit /\ [][PublicationNext]_publicationVars
  /\ \A h \in Handlers : WF_publicationVars(Adapter(h))
-----------------------------------------------------------------------------
\* Types, and that every action in progress has the one call that carries it out, also after a
\* restart: nothing is dispatched for ever (server.ts marks what it finds dispatched).
PublicationTypeOK ==
  /\ RepairTypeOK
  /\ requests \in Seq(Request) /\ Len(requests) <= MaxRequests
  /\ revision \in 0..MaxRevision /\ intact \subseteq DOMAIN work
  /\ calls \in [Handlers -> Call \cup {NoCall}]
  /\ remote.branch \subseteq DOMAIN work /\ remote.draft \subseteq remote.branch
  /\ inflight \subseteq (1..MaxRequests) \X {"push", "create"} /\ restarts \in 0..MaxRestarts
  /\ \A q \in DOMAIN requests : requests[q].action = "dispatched" =>
       \E h \in Handlers : calls[h] # NoCall /\ Of(h) = q /\ ~calls[h].reconcile
  /\ \A h \in Handlers : calls[h] # NoCall =>
       requests[Of(h)].action \in IF calls[h].reconcile THEN {"unknown", "succeeded"} ELSE {"dispatched"}

\* The types, and a repair chain that stays within its first approval: see ChainSound.
PublicationSound == PublicationTypeOK /\ ChainSound

\* A candidate is claimed for GitHub only while its review has not failed and no repair of it is
\* approved, a repair only with evidence of its own, whatever happened while the owner was asked
\* (publish_draft reads the binding again inside its transaction).  What is sent, is sent under a
\* claim; a review that failed under it does not stop that, but came only after CI had passed
\* (recordReview takes a dispatched candidate for a published one).
Claimed(q) == requests[q].action = "dispatched"
ClaimedUnfailed(q) ==
  LET i == WorkOf(q) IN
    /\ i = Tip /\ ~Failed(i) /\ requests[q].revision = revision
    /\ IsRepair(i) => Passed(i, 1) /\ Passed(i, 2)
SentClaimed(q) == Claimed(q) /\ (Failed(WorkOf(q)) => Passed(WorkOf(q), 3))
DispatchedUnfailed == [][
  /\ \A q \in DOMAIN requests : Claimed(q)' /\ ~Claimed(q) => ClaimedUnfailed(q)
  /\ \A e \in inflight' \ inflight : SentClaimed(e[1])]_publicationVars

\* Every request keeps the promise of DraftPublication.
Phase(q) == IF q \notin DOMAIN requests THEN "none"
            ELSE LET r == requests[q] IN
              IF r.action = "dispatched" THEN "claimed"
              ELSE IF r.action # "none" THEN r.action
              ELSE IF r.approval = "none" THEN "requested" ELSE "approved"
DP == INSTANCE DraftPublication WITH
  Requests <- 1..MaxRequests,
  phase    <- [q \in 1..MaxRequests |-> Phase(q)],
  sent     <- {q \in DOMAIN requests : requests[q].sent},
  drafts   <- {q \in DOMAIN requests : WorkOf(q) \in remote.draft}
ImplementsDraftPublication == DP!Spec
=============================================================================
