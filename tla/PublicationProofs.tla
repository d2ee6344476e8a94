-------------------------- MODULE PublicationProofs --------------------------
(***************************************************************************)
(* What a publication is allowed to send, for every number of calls,       *)
(* requests and restarts and every set of repair policies.                 *)
(*                                                                         *)
(* Three arguments.  A candidate that has a successor in its chain has     *)
(* failed its review for good, hence one whose review did not fail is the  *)
(* tip.  A request has one call that may send something, which ends before *)
(* the request gets an outcome: only a call that has sent nothing records  *)
(* a failure, and a lookup never sends.  And the repairs of a chain share  *)
(* the policy of the first, hence what they are allotted together is a     *)
(* multiple of it, which the next approval compares with its limits.       *)
(***************************************************************************)
EXTENDS Publication, SequenceTheorems, FiniteSetTheorems, WellFoundedInduction, TLAPS

RequestRow == [work : Nat \ {0}, revision : Nat, approval : {"none", "valid", "expired"},
               action : {"none", "dispatched", "succeeded", "unknown", "failed"}, sent : BOOLEAN]
CallRow    == [kind : {"inspect", "push", "create"}, request : Nat, reconcile : BOOLEAN]

ChainFailed == \A i \in 1..(Len(work) - 1) : Failed(i)
ChainInv    == work \in Seq(Candidate) /\ proposals \subseteq Proposal /\ ChainFailed

RowsTyped ==
  /\ requests \in Seq(RequestRow) /\ Len(requests) <= MaxRequests /\ revision \in Nat
  /\ \A q \in 1..Len(requests) : requests[q].work \in 1..Len(work)
  /\ \A q \in 1..Len(requests) : requests[q].approval = "none" => requests[q].action = "none"
  /\ calls \in [Handlers -> CallRow \cup {NoCall}]
  /\ remote \in [branch : SUBSET Nat, draft : SUBSET Nat]

Carries(h, q)  == calls[h] # NoCall /\ Of(h) = q /\ ~calls[h].reconcile
LooksUp(h, q)  == calls[h] # NoCall /\ Of(h) = q /\ calls[h].reconcile

CallInv ==
  /\ \A h \in Handlers : calls[h] # NoCall => Of(h) \in 1..Len(requests)
  /\ \A h \in Handlers, q \in 1..Len(requests) : Carries(h, q) => requests[q].action = "dispatched"
  /\ \A h \in Handlers, q \in 1..Len(requests) : LooksUp(h, q) =>
       requests[q].action \in {"unknown", "succeeded"} /\ calls[h].kind = "inspect"
  /\ \A h, k \in Handlers, q \in 1..Len(requests) : Carries(h, q) /\ Carries(k, q) => h = k

\* What was sent belongs to a request whose call is past its inspection.
SentInv ==
  /\ \A q \in 1..Len(requests) : requests[q].sent =>
       /\ requests[q].action \notin {"none", "failed"}
       /\ \A h \in Handlers : Carries(h, q) => calls[h].kind # "inspect"
  /\ \A e \in inflight : e[1] \in 1..Len(requests) /\ requests[e[1]].sent

PublicationInv == ChainInv /\ RowsTyped /\ CallInv /\ SentInv
-----------------------------------------------------------------------------
(* The chain *)

\* A candidate of the chain is written, and a review that failed is not.
LEMMA CandidateWritten ==
  ASSUME ChainInv, NEW i \in 1..Len(work), NEW row \in Candidate, work' = [work EXCEPT ![i] = row],
         proposals' \subseteq Proposal, Failed(i) => row.reviews = work[i].reviews
  PROVE  ChainInv' /\ Len(work') = Len(work)
<1>1. work' \in Seq(Candidate) /\ Len(work') = Len(work) BY DEF ChainInv
<1>2. \A j \in 1..Len(work) : work'[j] = IF j = i THEN row ELSE work[j] BY DEF ChainInv
<1>3. \A j \in 1..(Len(work) - 1) : Failed(j)'
  <2> SUFFICES ASSUME NEW j \in 1..(Len(work) - 1) PROVE Failed(j)' OBVIOUS
  <2>1. Failed(j) /\ j \in 1..Len(work) BY DEF ChainInv, ChainFailed
  <2>2. work'[j].reviews = work[j].reviews BY <1>2, <2>1
  <2> QED BY <2>1, <2>2 DEF Failed, Reviewed, Verdict
<1> QED BY <1>1, <1>3 DEF ChainInv, ChainFailed

LEMMA RepairKeepsChain ==
  ASSUME ChainInv, RepairNext
  PROVE  ChainInv' /\ Len(work') \in Nat /\ Len(work) <= Len(work')
<1>0. Len(work) \in Nat /\ DOMAIN work = 1..Len(work) /\ \A i \in 1..Len(work) : work[i] \in Candidate
  BY DEF ChainInv
<1>1. ASSUME NEW i \in 1..Len(work), NEW status \in Statuses, NEW public \in BOOLEAN, Observe(i, status, public)
      PROVE  ChainInv' /\ Len(work') = Len(work)
  <2> DEFINE seen == Append(work[i].observed, status)
             open == work[i].public \/ public
             ci   == work[i].ciAfter \/ (Len(work[i].observed) = 2 /\ status = "PASS" /\ Reviewed(i))
             row  == [work[i] EXCEPT !.observed = seen, !.public = open, !.ciAfter = ci]
  <2>1. work' = [work EXCEPT ![i] = row] /\ proposals' = proposals BY <1>1 DEF Observe
  <2>2. work[i].observed \in Seq(Statuses) BY <1>0 DEF Candidate
  <2>3. seen \in Seq(Statuses) BY <2>2
  <2>4. open \in BOOLEAN /\ ci \in BOOLEAN OBVIOUS
  <2> HIDE DEF seen, open, ci
  <2>5. row \in Candidate /\ row.reviews = work[i].reviews BY <1>0, <2>3, <2>4 DEF Candidate
  <2> HIDE DEF row
  <2> QED BY <2>1, <2>5, CandidateWritten DEF ChainInv
<1>2. ASSUME NEW i \in 1..Len(work), NEW verdict \in {"PASS", "FAIL"}, RecordReview(i, verdict)
      PROVE  ChainInv' /\ Len(work') = Len(work)
  <2> DEFINE all == Append(work[i].reviews, verdict)
             row == [work[i] EXCEPT !.reviews = all, !.ciAfter = FALSE]
  <2>1. work' = [work EXCEPT ![i] = row] /\ proposals' = proposals /\ ~Failed(i)
    BY <1>2 DEF RecordReview, Failed
  <2>2. work[i].reviews \in Seq({"PASS", "FAIL"}) BY <1>0 DEF Candidate
  <2>3. all \in Seq({"PASS", "FAIL"}) BY <2>2
  <2> HIDE DEF all
  <2>4. row \in Candidate BY <1>0, <2>3 DEF Candidate
  <2> HIDE DEF row
  <2> QED BY <2>1, <2>4, CandidateWritten DEF ChainInv
<1>3. ASSUME NEW i \in 1..Len(work), NEW p \in Policies, Propose(i, p)
      PROVE  ChainInv' /\ Len(work') = Len(work)
  <2>1. [parent |-> i, policy |-> p] \in Proposal BY <1>0 DEF Proposal
  <2> QED BY <1>3, <2>1 DEF Propose, ChainInv, ChainFailed, Failed, Reviewed, Verdict
<1>4. ASSUME NEW i \in 1..Len(work), ClaimRepair(i) PROVE ChainInv' /\ Len(work') = Len(work)
  <2> DEFINE row == [work[i] EXCEPT !.state = "queued"]
  <2>1. work' = [work EXCEPT ![i] = row] /\ proposals' = proposals BY <1>4 DEF ClaimRepair
  <2>2. row \in Candidate /\ row.reviews = work[i].reviews BY <1>0 DEF Candidate
  <2> HIDE DEF row
  <2> QED BY <2>1, <2>2, CandidateWritten DEF ChainInv
<1>5. ASSUME NEW i \in 1..Len(work), RepairEnds(i) PROVE ChainInv' /\ Len(work') = Len(work)
  <2> PICK s \in {"ready", "failed"} :
        work' = [work EXCEPT ![i] = [work[i] EXCEPT !.state = s, !.attested = (s = "ready")]]
    BY <1>5 DEF RepairEnds
  <2> DEFINE attested == s = "ready"
             row == [work[i] EXCEPT !.state = s, !.attested = attested]
  <2>1. work' = [work EXCEPT ![i] = row] /\ proposals' = proposals BY <1>5 DEF RepairEnds
  <2>2. attested \in BOOLEAN OBVIOUS
  <2> HIDE DEF attested
  <2>3. row \in Candidate /\ row.reviews = work[i].reviews BY <1>0, <2>2 DEF Candidate
  <2> HIDE DEF row
  <2> QED BY <2>1, <2>3, CandidateWritten DEF ChainInv
<1>6. ASSUME NEW p \in proposals, ApproveRepair(p) PROVE ChainInv' /\ Len(work') = Len(work) + 1
  <2> DEFINE row == NewWork("awaiting_approval", FALSE, p)
  <2>1. work' = Append(work, row) /\ proposals' = proposals /\ Failed(Len(work)) /\ p \in Proposal
    BY <1>6 DEF ApproveRepair, Proposable, Tip, ChainInv
  <2>2. row \in Candidate BY <2>1 DEF Candidate, NewWork
  <2> HIDE DEF row
  <2>3. work' \in Seq(Candidate) /\ Len(work') = Len(work) + 1 /\ \A j \in 1..Len(work) : work'[j] = work[j]
    BY <2>1, <2>2 DEF ChainInv
  <2>4. \A j \in 1..Len(work) : Failed(j)
    <3> SUFFICES ASSUME NEW j \in 1..Len(work) PROVE Failed(j) OBVIOUS
    <3>1. CASE j = Len(work) BY <2>1, <3>1
    <3>2. CASE j # Len(work)
      <4>1. Len(work) \in Nat BY <1>0
      <4>2. j \in 1..(Len(work) - 1) BY <3>2, <4>1
      <4> QED BY <4>2 DEF ChainInv, ChainFailed
    <3> QED BY <3>1, <3>2
  <2>5. \A j \in 1..Len(work) : Failed(j)' BY <2>3, <2>4 DEF Failed, Reviewed, Verdict
  <2>6. Len(work') - 1 = Len(work) BY <1>0, <2>3
  <2> QED BY <2>1, <2>3, <2>5, <2>6 DEF ChainInv, ChainFailed
<1>7. CASE Expire BY <1>7 DEF Expire, ChainInv, ChainFailed, Failed, Reviewed, Verdict
<1> QED BY <1>0, <1>1, <1>2, <1>3, <1>4, <1>5, <1>6, <1>7 DEF RepairNext, ChainInv
-----------------------------------------------------------------------------
(* Requests and calls *)

\* A row of the requests is written, and nothing else of them.
LEMMA RowWritten ==
  ASSUME RowsTyped, NEW q \in 1..Len(requests), NEW row \in RequestRow, requests' = [requests EXCEPT ![q] = row]
  PROVE  /\ requests' \in Seq(RequestRow) /\ Len(requests') = Len(requests)
         /\ \A k \in 1..Len(requests) : requests'[k] = IF k = q THEN row ELSE requests[k]
BY DEF RowsTyped

\* A call ends with an outcome; one that says "failed" carried its request and sent nothing.
LEMMA RecordKeeps ==
  ASSUME PublicationInv, NEW h \in Handlers, calls[h] # NoCall, NEW outcome, Record(h, outcome),
         \/ outcome \in {"succeeded", "unknown"}
         \/ outcome = "failed" /\ ~calls[h].reconcile /\ calls[h].kind = "inspect"
  PROVE  PublicationInv'
<1> DEFINE q   == Of(h)
           end == IF requests[q].action = "succeeded" THEN "succeeded" ELSE outcome
           row == [requests[q] EXCEPT !.action = end]
<1>1. q \in 1..Len(requests) /\ requests[q] \in RequestRow /\ calls[h] \in CallRow
  BY DEF PublicationInv, CallInv, RowsTyped
<1>2. requests' = [requests EXCEPT ![q] = row] /\ calls' = [calls EXCEPT ![h] = NoCall]
      /\ UNCHANGED <<work, proposals, revision, remote, inflight>>
  BY DEF Record, Answer, repairVars
<1>3. end \in {"succeeded", "unknown", "failed"} OBVIOUS
<1>4. end = "failed" => outcome = "failed" OBVIOUS
<1>5. LooksUp(h, q) => end # "failed" BY <1>4 DEF LooksUp
<1>6. end = "failed" => ~requests[q].sent /\ Carries(h, q) BY <1>1, <1>4 DEF PublicationInv, SentInv, Carries
<1> HIDE DEF end
<1>7. /\ row \in RequestRow /\ row.work = requests[q].work /\ row.sent = requests[q].sent /\ row.action = end
      /\ row.approval = requests[q].approval
  BY <1>1, <1>3 DEF RequestRow
<1> HIDE DEF row
<1>8. requests' \in Seq(RequestRow) /\ Len(requests') = Len(requests)
      /\ \A k \in 1..Len(requests) : requests'[k] = IF k = q THEN row ELSE requests[k]
  BY <1>1, <1>2, <1>7, RowWritten DEF PublicationInv
<1>9. \A k \in Handlers : calls'[k] = IF k = h THEN NoCall ELSE calls[k] BY <1>2 DEF PublicationInv, RowsTyped
<1>10. ChainInv' BY <1>2 DEF PublicationInv, ChainInv, ChainFailed, Failed, Reviewed, Verdict
<1>11. RowsTyped'
  <2>1. requests[q].action # "none" BY <1>1 DEF PublicationInv, CallInv, Carries, LooksUp
  <2>2. row.approval # "none" BY <1>1, <1>7, <2>1 DEF PublicationInv, RowsTyped
  <2> QED BY <1>2, <1>7, <1>8, <2>2 DEF PublicationInv, RowsTyped
<1>12. \A k \in Handlers : calls'[k] # NoCall => calls'[k] = calls[k] /\ calls[k] # NoCall /\ k # h BY <1>9
<1>13. CallInv'
  <2>1. \A k \in Handlers : calls'[k] # NoCall => Of(k)' \in 1..Len(requests')
    BY <1>8, <1>12 DEF PublicationInv, CallInv, Of
  <2>2. \A k \in Handlers, r \in 1..Len(requests') : Carries(k, r)' => requests'[r].action = "dispatched"
    <3> SUFFICES ASSUME NEW k \in Handlers, NEW r \in 1..Len(requests), Carries(k, r)'
                 PROVE  requests'[r].action = "dispatched"
      BY <1>8
    <3>1. Carries(k, r) /\ k # h BY <1>12 DEF Carries, Of
    <3>2. requests[r].action = "dispatched" BY <3>1 DEF PublicationInv, CallInv
    <3>3. r # q BY <3>1, <3>2, <1>1 DEF PublicationInv, CallInv, Carries, LooksUp
    <3> QED BY <3>2, <3>3, <1>8
  <2>3. \A k \in Handlers, r \in 1..Len(requests') : LooksUp(k, r)' =>
          requests'[r].action \in {"unknown", "succeeded"} /\ calls'[k].kind = "inspect"
    <3> SUFFICES ASSUME NEW k \in Handlers, NEW r \in 1..Len(requests), LooksUp(k, r)'
                 PROVE  requests'[r].action \in {"unknown", "succeeded"} /\ calls'[k].kind = "inspect"
      BY <1>8
    <3>1. LooksUp(k, r) /\ k # h /\ calls'[k] = calls[k] BY <1>12 DEF LooksUp, Of
    <3>2. requests[r].action \in {"unknown", "succeeded"} /\ calls[k].kind = "inspect"
      BY <3>1 DEF PublicationInv, CallInv
    <3>3. CASE r = q
      <4>1. ~Carries(h, q) BY <3>2, <3>3, <1>1 DEF PublicationInv, CallInv
      <4> QED BY <4>1, <3>1, <3>2, <3>3, <1>3, <1>6, <1>7, <1>8
    <3> QED BY <3>1, <3>2, <3>3, <1>8
  <2>4. \A k, l \in Handlers, r \in 1..Len(requests') : Carries(k, r)' /\ Carries(l, r)' => k = l
    <3> SUFFICES ASSUME NEW k \in Handlers, NEW l \in Handlers, NEW r \in 1..Len(requests),
                        Carries(k, r)', Carries(l, r)'
                 PROVE  k = l
      BY <1>8
    <3>1. Carries(k, r) /\ Carries(l, r) BY <1>12 DEF Carries, Of
    <3> QED BY <3>1 DEF PublicationInv, CallInv
  <2> QED BY <2>1, <2>2, <2>3, <2>4 DEF CallInv
<1>14. SentInv'
  <2>1. \A r \in 1..Len(requests') : requests'[r].sent =>
          /\ requests'[r].action \notin {"none", "failed"}
          /\ \A k \in Handlers : Carries(k, r)' => calls'[k].kind # "inspect"
    <3> SUFFICES ASSUME NEW r \in 1..Len(requests), requests'[r].sent
                 PROVE  /\ requests'[r].action \notin {"none", "failed"}
                        /\ \A k \in Handlers : Carries(k, r)' => calls'[k].kind # "inspect"
      BY <1>8
    <3>1. requests[r].sent BY <1>7, <1>8
    <3>2. requests'[r].action \notin {"none", "failed"} BY <3>1, <1>3, <1>6, <1>7, <1>8 DEF PublicationInv, SentInv
    <3>3. ASSUME NEW k \in Handlers, Carries(k, r)' PROVE calls'[k].kind # "inspect"
      <4>1. Carries(k, r) /\ calls'[k] = calls[k] BY <3>3, <1>12 DEF Carries, Of
      <4> QED BY <4>1, <3>1 DEF PublicationInv, SentInv
    <3> QED BY <3>2, <3>3
  <2>2. \A e \in inflight' : e[1] \in 1..Len(requests') /\ requests'[e[1]].sent
    BY <1>2, <1>7, <1>8 DEF PublicationInv, SentInv
  <2> QED BY <2>1, <2>2 DEF SentInv
<1> QED BY <1>10, <1>11, <1>13, <1>14 DEF PublicationInv

\* What is sent is sent by the call that carries the request.
LEMMA SendKeeps ==
  ASSUME PublicationInv, NEW h \in Handlers, NEW effect \in {"push", "create"},
         calls[h] # NoCall, ~calls[h].reconcile, Send(h, effect)
  PROVE  PublicationInv'
<1> DEFINE q    == Of(h)
           row  == [requests[q] EXCEPT !.sent = TRUE]
           call == [calls[h] EXCEPT !.kind = effect]
<1>1. /\ q \in 1..Len(requests) /\ requests[q] \in RequestRow /\ calls[h] \in CallRow
      /\ Carries(h, q) /\ requests[q].action = "dispatched"
  BY DEF PublicationInv, CallInv, RowsTyped, Carries
<1>2. /\ requests' = [requests EXCEPT ![q] = row] /\ calls' = [calls EXCEPT ![h] = call]
      /\ inflight' = inflight \cup {<<q, effect>>} /\ UNCHANGED <<work, proposals, revision, remote>>
  BY DEF Send, Become, repairVars
<1>3. /\ row \in RequestRow /\ row.work = requests[q].work /\ row.sent /\ row.action = requests[q].action
      /\ row.approval = requests[q].approval
  BY <1>1 DEF RequestRow
<1>4. call \in CallRow /\ call.request = calls[h].request /\ call.reconcile = calls[h].reconcile /\ call.kind = effect
  BY <1>1 DEF CallRow
<1> HIDE DEF row, call
<1>5. requests' \in Seq(RequestRow) /\ Len(requests') = Len(requests)
      /\ \A k \in 1..Len(requests) : requests'[k] = IF k = q THEN row ELSE requests[k]
  BY <1>1, <1>2, <1>3, RowWritten DEF PublicationInv
<1>6. \A k \in Handlers : calls'[k] = IF k = h THEN call ELSE calls[k] BY <1>2 DEF PublicationInv, RowsTyped
<1>7. \A r \in 1..Len(requests) : requests'[r].action = requests[r].action /\ requests'[r].work = requests[r].work
                                  /\ (requests[r].sent => requests'[r].sent)
  BY <1>3, <1>5
<1>8. ASSUME NEW k \in Handlers, calls'[k] # NoCall
      PROVE  /\ calls[k] # NoCall /\ Of(k)' = Of(k) /\ calls'[k].reconcile = calls[k].reconcile
             /\ IF k = h THEN calls'[k].kind = effect ELSE calls'[k].kind = calls[k].kind
  BY <1>1, <1>4, <1>6, <1>8 DEF Of, Carries
<1>9. ASSUME NEW k \in Handlers, NEW r \in 1..Len(requests), Carries(k, r)' PROVE Carries(k, r)
  BY <1>8, <1>9 DEF Carries
<1>10. ChainInv' BY <1>2 DEF PublicationInv, ChainInv, ChainFailed, Failed, Reviewed, Verdict
<1>11. RowsTyped'
  <2>1. calls' \in [Handlers -> CallRow \cup {NoCall}] BY <1>2, <1>4 DEF PublicationInv, RowsTyped
  <2>2. \A r \in 1..Len(requests) : requests'[r].approval = requests[r].approval BY <1>3, <1>5
  <2> QED BY <1>2, <1>5, <1>7, <2>1, <2>2 DEF PublicationInv, RowsTyped
<1>12. CallInv'
  <2>1. \A k \in Handlers : calls'[k] # NoCall => Of(k)' \in 1..Len(requests')
    BY <1>5, <1>8 DEF PublicationInv, CallInv
  <2>2. \A k \in Handlers, r \in 1..Len(requests') : Carries(k, r)' => requests'[r].action = "dispatched"
    BY <1>5, <1>7, <1>9 DEF PublicationInv, CallInv
  <2>3. \A k \in Handlers, r \in 1..Len(requests') : LooksUp(k, r)' =>
          requests'[r].action \in {"unknown", "succeeded"} /\ calls'[k].kind = "inspect"
    <3> SUFFICES ASSUME NEW k \in Handlers, NEW r \in 1..Len(requests), LooksUp(k, r)'
                 PROVE  requests'[r].action \in {"unknown", "succeeded"} /\ calls'[k].kind = "inspect"
      BY <1>5
    <3>1. LooksUp(k, r) /\ k # h BY <1>8 DEF LooksUp
    <3>2. calls'[k].kind = calls[k].kind BY <3>1, <1>8 DEF LooksUp
    <3> QED BY <3>1, <3>2, <1>7 DEF PublicationInv, CallInv
  <2>4. \A k, l \in Handlers, r \in 1..Len(requests') : Carries(k, r)' /\ Carries(l, r)' => k = l
    <3> SUFFICES ASSUME NEW k \in Handlers, NEW l \in Handlers, NEW r \in 1..Len(requests),
                        Carries(k, r)', Carries(l, r)'
                 PROVE  k = l
      BY <1>5
    <3>1. Carries(k, r) /\ Carries(l, r) BY <1>9
    <3> QED BY <3>1 DEF PublicationInv, CallInv
  <2> QED BY <2>1, <2>2, <2>3, <2>4 DEF CallInv
<1>13. SentInv'
  <2>1. \A r \in 1..Len(requests') : requests'[r].sent =>
          /\ requests'[r].action \notin {"none", "failed"}
          /\ \A k \in Handlers : Carries(k, r)' => calls'[k].kind # "inspect"
    <3> SUFFICES ASSUME NEW r \in 1..Len(requests), requests'[r].sent
                 PROVE  /\ requests'[r].action \notin {"none", "failed"}
                        /\ \A k \in Handlers : Carries(k, r)' => calls'[k].kind # "inspect"
      BY <1>5
    <3>1. CASE r = q
      <4>1. requests'[r].action = "dispatched" BY <3>1, <1>1, <1>7
      <4>2. ASSUME NEW k \in Handlers, Carries(k, r)' PROVE calls'[k].kind # "inspect"
        <5>1. k = h BY <4>2, <3>1, <1>1, <1>9 DEF PublicationInv, CallInv
        <5> QED BY <4>2, <5>1, <1>8 DEF Carries
      <4> QED BY <4>1, <4>2
    <3>2. CASE r # q
      <4>1. requests[r].sent /\ requests'[r].action = requests[r].action BY <3>2, <1>5
      <4>2. ASSUME NEW k \in Handlers, Carries(k, r)' PROVE calls'[k].kind # "inspect"
        <5>1. Carries(k, r) BY <4>2, <1>9
        <5>2. k # h BY <5>1, <3>2 DEF Carries
        <5>3. calls'[k].kind = calls[k].kind BY <4>2, <5>2, <1>8 DEF Carries
        <5> QED BY <4>1, <5>1, <5>3 DEF PublicationInv, SentInv
      <4> QED BY <4>1, <4>2 DEF PublicationInv, SentInv
    <3> QED BY <3>1, <3>2
  <2>2. \A e \in inflight' : e[1] \in 1..Len(requests') /\ requests'[e[1]].sent
    <3> SUFFICES ASSUME NEW e \in inflight' PROVE e[1] \in 1..Len(requests) /\ requests'[e[1]].sent
      BY <1>5
    <3>1. CASE e \in inflight BY <3>1, <1>7 DEF PublicationInv, SentInv
    <3>2. CASE e = <<q, effect>> BY <3>2, <1>1, <1>3, <1>5
    <3> QED BY <3>1, <3>2, <1>2
  <2> QED BY <2>1, <2>2 DEF SentInv
<1> QED BY <1>10, <1>11, <1>12, <1>13 DEF PublicationInv

\* A call begins: a claim for a request that has no action, or a lookup of an unknown outcome.
LEMMA BeginKeeps ==
  ASSUME PublicationInv, NEW h \in Handlers, NEW q \in 1..Len(requests), NEW reconcile \in BOOLEAN,
         Begin(h, "inspect", q, reconcile),
         IF reconcile THEN requests[q].action = "unknown" /\ requests' = requests
         ELSE requests[q].action = "none" /\ requests[q].approval = "valid" /\ requests' = [requests EXCEPT ![q].action = "dispatched"],
         UNCHANGED <<work, proposals, revision, remote, inflight>>
  PROVE  PublicationInv'
<1> DEFINE row  == [requests[q] EXCEPT !.action = IF reconcile THEN "unknown" ELSE "dispatched"]
           call == [kind |-> "inspect", request |-> q, reconcile |-> reconcile]
<1>1. requests[q] \in RequestRow /\ calls[h] = NoCall /\ calls' = [calls EXCEPT ![h] = call]
  BY DEF PublicationInv, RowsTyped, Begin
<1>2. requests' = [requests EXCEPT ![q] = row]
  <2>1. requests \in Seq(RequestRow) BY DEF PublicationInv, RowsTyped
  <2>2. reconcile => row = requests[q] BY <1>1 DEF RequestRow
  <2>3. [requests EXCEPT ![q] = requests[q]] = requests BY <2>1
  <2> QED BY <2>2, <2>3
<1>3. /\ row \in RequestRow /\ row.work = requests[q].work /\ row.sent = requests[q].sent
      /\ row.approval = requests[q].approval /\ row.action = IF reconcile THEN "unknown" ELSE "dispatched"
  BY <1>1 DEF RequestRow
<1>4. call \in CallRow /\ call.request = q /\ call.reconcile = reconcile /\ call.kind = "inspect"
  BY DEF CallRow, PublicationInv, RowsTyped
<1> HIDE DEF row, call
<1>5. requests' \in Seq(RequestRow) /\ Len(requests') = Len(requests)
      /\ \A k \in 1..Len(requests) : requests'[k] = IF k = q THEN row ELSE requests[k]
  BY <1>2, <1>3, RowWritten DEF PublicationInv
<1>6. \A k \in Handlers : calls'[k] = IF k = h THEN call ELSE calls[k] BY <1>1 DEF PublicationInv, RowsTyped
<1>7. \A k \in Handlers : ~Carries(k, q) BY DEF PublicationInv, CallInv
<1>8. ASSUME NEW k \in Handlers, NEW r \in 1..Len(requests), Carries(k, r)'
      PROVE  IF k = h THEN r = q /\ ~reconcile ELSE Carries(k, r) /\ r # q /\ calls'[k] = calls[k]
  BY <1>4, <1>6, <1>7, <1>8 DEF Carries, Of
<1>9. ChainInv' BY DEF PublicationInv, ChainInv, ChainFailed, Failed, Reviewed, Verdict
<1>10. RowsTyped'
  <2>1. calls' \in [Handlers -> CallRow \cup {NoCall}] BY <1>1, <1>4 DEF PublicationInv, RowsTyped
  <2>2. row.approval # "none" BY <1>3 DEF PublicationInv, RowsTyped
  <2> QED BY <1>3, <1>5, <2>1, <2>2 DEF PublicationInv, RowsTyped
<1>11. CallInv'
  <2>1. \A k \in Handlers : calls'[k] # NoCall => Of(k)' \in 1..Len(requests')
    BY <1>4, <1>5, <1>6 DEF PublicationInv, CallInv, Of
  <2>2. \A k \in Handlers, r \in 1..Len(requests') : Carries(k, r)' => requests'[r].action = "dispatched"
    BY <1>3, <1>5, <1>8 DEF PublicationInv, CallInv
  <2>3. \A k \in Handlers, r \in 1..Len(requests') : LooksUp(k, r)' =>
          requests'[r].action \in {"unknown", "succeeded"} /\ calls'[k].kind = "inspect"
    <3> SUFFICES ASSUME NEW k \in Handlers, NEW r \in 1..Len(requests), LooksUp(k, r)'
                 PROVE  requests'[r].action \in {"unknown", "succeeded"} /\ calls'[k].kind = "inspect"
      BY <1>5
    <3>1. CASE k = h BY <3>1, <1>3, <1>4, <1>5, <1>6 DEF LooksUp, Of
    <3>2. CASE k # h
      <4>1. LooksUp(k, r) /\ calls'[k] = calls[k] BY <3>2, <1>6 DEF LooksUp, Of
      <4>2. requests[r].action \in {"unknown", "succeeded"} /\ calls[k].kind = "inspect"
        BY <4>1 DEF PublicationInv, CallInv
      <4>3. r = q => reconcile BY <4>2
      <4> QED BY <4>1, <4>2, <4>3, <1>3, <1>5
    <3> QED BY <3>1, <3>2
  <2>4. \A k, l \in Handlers, r \in 1..Len(requests') : Carries(k, r)' /\ Carries(l, r)' => k = l
    <3> SUFFICES ASSUME NEW k \in Handlers, NEW l \in Handlers, NEW r \in 1..Len(requests),
                        Carries(k, r)', Carries(l, r)'
                 PROVE  k = l
      BY <1>5
    <3>1. k # h /\ l # h => Carries(k, r) /\ Carries(l, r) BY <1>8
    <3> QED BY <3>1, <1>8 DEF PublicationInv, CallInv
  <2> QED BY <2>1, <2>2, <2>3, <2>4 DEF CallInv
<1>12. SentInv'
  <2>1. ~reconcile => ~requests[q].sent BY DEF PublicationInv, SentInv
  <2>2. \A r \in 1..Len(requests') : requests'[r].sent =>
          /\ requests'[r].action \notin {"none", "failed"}
          /\ \A k \in Handlers : Carries(k, r)' => calls'[k].kind # "inspect"
    <3> SUFFICES ASSUME NEW r \in 1..Len(requests), requests'[r].sent
                 PROVE  /\ requests'[r].action \notin {"none", "failed"}
                        /\ \A k \in Handlers : Carries(k, r)' => calls'[k].kind # "inspect"
      BY <1>5
    <3>1. requests[r].sent /\ (r = q => reconcile) BY <2>1, <1>3, <1>5
    <3>2. requests'[r].action \notin {"none", "failed"} BY <3>1, <1>3, <1>5 DEF PublicationInv, SentInv
    <3>3. ASSUME NEW k \in Handlers, Carries(k, r)' PROVE calls'[k].kind # "inspect"
      <4>1. Carries(k, r) /\ calls'[k] = calls[k] BY <3>1, <3>3, <1>8
      <4> QED BY <4>1, <3>1 DEF PublicationInv, SentInv
    <3> QED BY <3>2, <3>3
  <2>3. \A e \in inflight' : e[1] \in 1..Len(requests') /\ requests'[e[1]].sent
    BY <1>3, <1>5 DEF PublicationInv, SentInv
  <2> QED BY <2>2, <2>3 DEF SentInv
<1> QED BY <1>9, <1>10, <1>11, <1>12 DEF PublicationInv

\* The owner approves, or an approval that no action used expires.
LEMMA ApprovalKeeps ==
  ASSUME PublicationInv, NEW q \in 1..Len(requests), NEW approval \in {"valid", "expired"},
         requests' = [requests EXCEPT ![q].approval = approval],
         UNCHANGED <<work, proposals, revision, calls, remote, inflight>>
  PROVE  PublicationInv'
<1> DEFINE row == [requests[q] EXCEPT !.approval = approval]
<1>1. requests[q] \in RequestRow /\ requests' = [requests EXCEPT ![q] = row] BY DEF PublicationInv, RowsTyped
<1>2. /\ row \in RequestRow /\ row.work = requests[q].work /\ row.sent = requests[q].sent
      /\ row.action = requests[q].action /\ row.approval = approval
  BY <1>1 DEF RequestRow
<1> HIDE DEF row
<1>3. requests' \in Seq(RequestRow) /\ Len(requests') = Len(requests)
      /\ \A k \in 1..Len(requests) : requests'[k] = IF k = q THEN row ELSE requests[k]
  BY <1>1, <1>2, RowWritten DEF PublicationInv
<1>4. \A k \in 1..Len(requests) : /\ requests'[k].action = requests[k].action
                                  /\ requests'[k].work = requests[k].work /\ requests'[k].sent = requests[k].sent
  BY <1>2, <1>3
<1>5. ChainInv' BY DEF PublicationInv, ChainInv, ChainFailed, Failed, Reviewed, Verdict
<1>6. RowsTyped' BY <1>2, <1>3, <1>4 DEF PublicationInv, RowsTyped
<1>7. CallInv' BY <1>3, <1>4 DEF PublicationInv, CallInv, Carries, LooksUp, Of
<1>8. SentInv' BY <1>3, <1>4 DEF PublicationInv, SentInv, Carries, Of
<1> QED BY <1>5, <1>6, <1>7, <1>8 DEF PublicationInv

LEMMA RequestKeeps ==
  ASSUME PublicationInv, NEW i \in DOMAIN work, RequestDraft(i)
  PROVE  PublicationInv'
<1> DEFINE row == [work |-> i, revision |-> revision, approval |-> "none", action |-> "none", sent |-> FALSE]
<1>1. /\ requests' = Append(requests, row) /\ Len(requests) < MaxRequests
      /\ UNCHANGED <<work, proposals, revision, calls, remote, inflight>>
  BY DEF RequestDraft, repairVars, hostVars
<1>2. i \in 1..Len(work) /\ Len(work) \in Nat BY DEF PublicationInv, ChainInv
<1>3. row \in RequestRow /\ row.work = i /\ ~row.sent /\ row.action = "none" BY <1>2 DEF RequestRow, PublicationInv, RowsTyped
<1> HIDE DEF row
<1>4. /\ requests' \in Seq(RequestRow) /\ Len(requests') = Len(requests) + 1 /\ requests'[Len(requests) + 1] = row
      /\ \A k \in 1..Len(requests) : requests'[k] = requests[k]
  BY <1>1, <1>3 DEF PublicationInv, RowsTyped
<1>5. Len(requests) \in Nat BY DEF PublicationInv, RowsTyped
<1>6. Len(requests') <= MaxRequests BY <1>1, <1>4, <1>5, PublicationBounds
<1>7. \A k \in 1..Len(requests') : k = Len(requests) + 1 \/ k \in 1..Len(requests) BY <1>4, <1>5
<1>8. ChainInv' BY <1>1 DEF PublicationInv, ChainInv, ChainFailed, Failed, Reviewed, Verdict
<1>9. RowsTyped' BY <1>1, <1>2, <1>3, <1>4, <1>6, <1>7 DEF PublicationInv, RowsTyped
<1>10. \A h \in Handlers : calls'[h] # NoCall => Of(h)' \in 1..Len(requests)
  BY <1>1 DEF PublicationInv, CallInv, Of
<1>11. \A h \in Handlers, r \in 1..Len(requests') : Carries(h, r)' \/ LooksUp(h, r)' => r \in 1..Len(requests)
  BY <1>10 DEF Carries, LooksUp
<1>12. CallInv'
  <2>1. \A h \in Handlers : calls'[h] # NoCall => Of(h)' \in 1..Len(requests') BY <1>4, <1>5, <1>10
  <2> QED BY <2>1, <1>1, <1>4, <1>11 DEF PublicationInv, CallInv, Carries, LooksUp, Of
<1>13. SentInv'
  <2>1. \A r \in 1..Len(requests') : requests'[r].sent => r \in 1..Len(requests) BY <1>3, <1>4, <1>7
  <2>2. \A r \in 1..Len(requests') : requests'[r].sent =>
          /\ requests'[r].action \notin {"none", "failed"}
          /\ \A h \in Handlers : Carries(h, r)' => calls'[h].kind # "inspect"
    BY <2>1, <1>1, <1>4 DEF PublicationInv, SentInv, Carries, Of
  <2>3. \A e \in inflight' : e[1] \in 1..Len(requests') /\ requests'[e[1]].sent
    BY <1>1, <1>4, <1>5 DEF PublicationInv, SentInv
  <2> QED BY <2>2, <2>3 DEF SentInv
<1> QED BY <1>8, <1>9, <1>12, <1>13 DEF PublicationInv

LEMMA RestartKeeps ==
  ASSUME PublicationInv, Restart
  PROVE  PublicationInv'
<1>1. /\ calls' = [h \in Handlers |-> NoCall] /\ UNCHANGED <<work, proposals, revision, remote, inflight>>
      /\ requests' = [q \in 1..Len(requests) |-> IF requests[q].action = "dispatched"
                        THEN [requests[q] EXCEPT !.action = "unknown"] ELSE requests[q]]
  BY DEF Restart, PublicationInv, RowsTyped
<1>2. \A q \in 1..Len(requests) : requests[q] \in RequestRow BY DEF PublicationInv, RowsTyped
<1>3. \A q \in 1..Len(requests) :
        /\ requests'[q] \in RequestRow /\ requests'[q].work = requests[q].work /\ requests'[q].sent = requests[q].sent
        /\ requests'[q].approval = requests[q].approval
        /\ requests'[q].action = IF requests[q].action = "dispatched" THEN "unknown" ELSE requests[q].action
  BY <1>1, <1>2 DEF RequestRow
<1>4. Len(requests) \in Nat BY DEF PublicationInv, RowsTyped
<1>5. requests' \in [1..Len(requests) -> RequestRow] BY <1>1, <1>3
<1>6. requests' \in Seq(RequestRow) /\ Len(requests') = Len(requests) BY <1>4, <1>5
<1>7. ChainInv' BY <1>1 DEF PublicationInv, ChainInv, ChainFailed, Failed, Reviewed, Verdict
<1>8. RowsTyped' BY <1>1, <1>3, <1>6 DEF PublicationInv, RowsTyped
<1>9. CallInv' BY <1>1 DEF CallInv, Carries, LooksUp
<1>10. SentInv' BY <1>1, <1>3, <1>6 DEF PublicationInv, SentInv, Carries
<1> QED BY <1>7, <1>8, <1>9, <1>10 DEF PublicationInv

\* Steps that leave the requests and the calls alone.
LEMMA OthersKeep ==
  ASSUME PublicationInv, ChainInv', Len(work') \in Nat, Len(work) <= Len(work'), UNCHANGED <<requests, calls>>,
         revision' \in Nat, remote' \in [branch : SUBSET Nat, draft : SUBSET Nat], inflight' \subseteq inflight
  PROVE  PublicationInv'
<1>1. \A q \in 1..Len(requests) : requests[q].work \in 1..Len(work') BY DEF PublicationInv, RowsTyped, ChainInv
<1>2. RowsTyped' BY <1>1 DEF PublicationInv, RowsTyped
<1>3. CallInv' BY DEF PublicationInv, CallInv, Carries, LooksUp, Of
<1>4. SentInv' BY DEF PublicationInv, SentInv, Carries, Of
<1> QED BY <1>2, <1>3, <1>4 DEF PublicationInv

LEMMA PublicationInvInit == PublicationInit => PublicationInv
<1> SUFFICES ASSUME PublicationInit PROVE PublicationInv OBVIOUS
<1>1. ChainInv
  <2> PICK attested \in BOOLEAN : work = <<NewWork("ready", attested, NoProposal)>>
    BY DEF PublicationInit, RepairInit
  <2> DEFINE row == NewWork("ready", attested, NoProposal)
  <2>1. row \in Candidate BY DEF Candidate, NewWork
  <2> HIDE DEF row
  <2>2. work = <<row>> BY DEF row
  <2> QED BY <2>1, <2>2 DEF ChainInv, ChainFailed, PublicationInit, RepairInit
<1>2. RowsTyped BY PublicationBounds DEF PublicationInit, RowsTyped
<1>3. CallInv BY DEF PublicationInit, CallInv, Carries, LooksUp
<1>4. SentInv BY DEF PublicationInit, SentInv
<1> QED BY <1>1, <1>2, <1>3, <1>4 DEF PublicationInv

LEMMA PublicationInvNext == PublicationInv /\ [PublicationNext]_publicationVars => PublicationInv'
<1> SUFFICES ASSUME PublicationInv, [PublicationNext]_publicationVars PROVE PublicationInv' OBVIOUS
<1>0. /\ Len(work) \in Nat /\ DOMAIN requests = 1..Len(requests) /\ revision \in Nat
      /\ remote \in [branch : SUBSET Nat, draft : SUBSET Nat] /\ ChainInv
  BY DEF PublicationInv, ChainInv, RowsTyped
<1> DEFINE Still == UNCHANGED <<work, proposals>>
<1>a. Still => ChainInv' /\ Len(work') \in Nat /\ Len(work) <= Len(work')
  BY <1>0 DEF ChainInv, ChainFailed, Failed, Reviewed, Verdict
<1>1. CASE UNCHANGED publicationVars
  <2>1. Still /\ UNCHANGED <<requests, calls, revision, remote, inflight>>
    BY <1>1 DEF publicationVars, repairVars, hostVars
  <2> QED BY <2>1, <1>0, <1>a, OthersKeep
<1>2. ASSUME NEW i \in DOMAIN work, RequestDraft(i) PROVE PublicationInv' BY <1>2, RequestKeeps
<1>3. ASSUME NEW i \in DOMAIN work, Disturb(i) PROVE PublicationInv'
  <2>1. Still /\ UNCHANGED <<requests, calls, revision, remote, inflight>> BY <1>3 DEF Disturb, repairVars
  <2> QED BY <2>1, <1>0, <1>a, OthersKeep
<1>4. ASSUME NEW q \in DOMAIN requests, ApproveDraft(q) PROVE PublicationInv'
  BY <1>0, <1>4, ApprovalKeeps DEF ApproveDraft, repairVars, hostVars
<1>5. ASSUME NEW q \in DOMAIN requests, NEW h \in Handlers, Dispatch(h, q) PROVE PublicationInv'
  BY <1>0, <1>5, BeginKeeps DEF Dispatch, Claim, repairVars
<1>6. ASSUME NEW q \in DOMAIN requests, NEW h \in Handlers, Reconcile(h, q) PROVE PublicationInv'
  BY <1>0, <1>6, BeginKeeps DEF Reconcile, repairVars
<1>7. CASE SetPaused
  <2>1. Still /\ UNCHANGED <<requests, calls, remote, inflight>> /\ revision' = revision + 1
    BY <1>7 DEF SetPaused, repairVars
  <2> QED BY <2>1, <1>0, <1>a, OthersKeep
<1>8. ASSUME NEW h \in Handlers, Adapter(h) PROVE PublicationInv'
  <2>1. CASE InspectFails(h) BY <1>8, <2>1, RecordKeeps DEF InspectFails, Calling
  <2>2. CASE NotProven(h) BY <1>8, <2>2, RecordKeeps DEF NotProven, Calling
  <2>3. CASE FoundDraft(h) BY <1>8, <2>3, RecordKeeps DEF FoundDraft
  <2>4. calls[h] # NoCall /\ calls[h].kind # "inspect" => ~calls[h].reconcile
    BY DEF PublicationInv, CallInv, LooksUp
  <2>5. CASE Push(h) BY <1>8, <2>5, SendKeeps DEF Push, Calling
  <2>6. CASE Create(h) BY <1>8, <2>4, <2>6, SendKeeps DEF Create, Calling
  <2>7. CASE Unconfirmed(h) BY <1>8, <2>7, RecordKeeps DEF Unconfirmed, Calling
  <2> QED BY <1>8, <2>1, <2>2, <2>3, <2>5, <2>6, <2>7 DEF Adapter
<1>9. CASE RepairStep
  <2>1. ChainInv' /\ Len(work') \in Nat /\ Len(work) <= Len(work') BY <1>0, <1>9, RepairKeepsChain DEF RepairStep
  <2>2. UNCHANGED <<requests, calls, revision, remote, inflight>> BY <1>9 DEF RepairStep
  <2> QED BY <2>1, <2>2, <1>0, OthersKeep
<1>10. CASE Restart BY <1>10, RestartKeeps
<1>11. ASSUME NEW q \in DOMAIN requests, ApprovalExpires(q) PROVE PublicationInv'
  BY <1>0, <1>11, ApprovalKeeps DEF ApprovalExpires, repairVars, hostVars
<1>12. ASSUME NEW e \in inflight, Land(e) PROVE PublicationInv'
  <2> DEFINE i == WorkOf(e[1])
             made == IF e[2] = "push" THEN [remote EXCEPT !.branch = remote.branch \cup {i}]
                     ELSE [remote EXCEPT !.draft = IF i \in remote.branch THEN remote.draft \cup {i} ELSE remote.draft]
  <2>1. remote' = made /\ Still /\ UNCHANGED <<requests, calls, revision>> /\ inflight' \subseteq inflight
    BY <1>12 DEF Land, repairVars
  <2>2. i \in Nat BY DEF PublicationInv, SentInv, RowsTyped, ChainInv, WorkOf
  <2> HIDE DEF i
  <2>3. made \in [branch : SUBSET Nat, draft : SUBSET Nat] BY <2>2, <1>0
  <2> HIDE DEF made
  <2> QED BY <2>1, <2>3, <1>0, <1>a, OthersKeep
<1>13. ASSUME NEW e \in inflight, Lost(e) PROVE PublicationInv'
  <2>1. Still /\ UNCHANGED <<requests, calls, revision, remote>> /\ inflight' \subseteq inflight
    BY <1>13 DEF Lost, repairVars
  <2> QED BY <2>1, <1>0, <1>a, OthersKeep
<1> QED BY <1>1, <1>2, <1>3, <1>4, <1>5, <1>6, <1>7, <1>8, <1>9, <1>10, <1>11, <1>12, <1>13
        DEF PublicationNext, Owner

\* PublicationInv holds of every reachable state: what the two arguments rest on.
THEOREM PublicationInvariant == PublicationSpec => []PublicationInv
<1>1. PublicationSpec => PublicationInit /\ [][PublicationNext]_publicationVars BY PTL DEF PublicationSpec
<1> QED BY <1>1, PublicationInvInit, PublicationInvNext, PTL
-----------------------------------------------------------------------------
(* What is dispatched *)

\* Only a claim of that request makes its action "dispatched".
LEMMA OnlyDispatched ==
  ASSUME PublicationInv, PublicationNext, NEW q \in DOMAIN requests,
         requests'[q].action = "dispatched", requests[q].action # "dispatched"
  PROVE  \E h \in Handlers : Dispatch(h, q)
<1>0. requests \in Seq(RequestRow) /\ DOMAIN requests = 1..Len(requests) /\ requests[q] \in RequestRow
      /\ Len(requests) \in Nat
  BY DEF PublicationInv, RowsTyped
<1>1. requests' # requests OBVIOUS
<1>2. ASSUME NEW i \in DOMAIN work, RequestDraft(i) PROVE FALSE
  <2>1. requests'[q] = requests[q] BY <1>0, <1>2 DEF RequestDraft
  <2> QED BY <2>1
<1>3. ASSUME NEW r \in DOMAIN requests, NEW approval, requests' = [requests EXCEPT ![r].approval = approval] PROVE FALSE
  <2>1. requests'[q].action = requests[q].action BY <1>0, <1>3 DEF RequestRow
  <2> QED BY <2>1
<1>4. ASSUME NEW r \in DOMAIN requests, NEW h \in Handlers, Dispatch(h, r) PROVE r = q
  BY <1>0, <1>4 DEF Dispatch, Claim
<1>5. ASSUME NEW h \in Handlers, NEW outcome \in {"succeeded", "unknown", "failed"}, Record(h, outcome) PROVE FALSE
  <2> DEFINE end == IF requests[Of(h)].action = "succeeded" THEN "succeeded" ELSE outcome
  <2>1. requests' = [requests EXCEPT ![Of(h)].action = end] BY <1>5 DEF Record
  <2>2. end # "dispatched" OBVIOUS
  <2> HIDE DEF end
  <2> QED BY <1>0, <2>1, <2>2 DEF RequestRow
<1>6. ASSUME NEW h \in Handlers, NEW effect, Send(h, effect) PROVE FALSE
  <2>1. requests'[q].action = requests[q].action BY <1>0, <1>6 DEF Send, RequestRow
  <2> QED BY <2>1
<1>7. CASE Restart
  <2>1. requests'[q] = requests[q] BY <1>0, <1>7 DEF Restart
  <2> QED BY <2>1
<1>8. ASSUME NEW h \in Handlers, Adapter(h) PROVE FALSE
  BY <1>5, <1>6, <1>8 DEF Adapter, InspectFails, NotProven, FoundDraft, Push, Create, Unconfirmed
<1>9. ASSUME Owner PROVE \E h \in Handlers : Dispatch(h, q)
  <2>1. (\E i \in DOMAIN work : Disturb(i)) \/ SetPaused => FALSE BY <1>1 DEF Disturb, SetPaused
  <2>2. \A r \in DOMAIN requests, h \in Handlers : Reconcile(h, r) => FALSE BY <1>1 DEF Reconcile
  <2>3. \A r \in DOMAIN requests : ApproveDraft(r) => FALSE BY <1>3 DEF ApproveDraft
  <2> QED BY <1>2, <1>4, <1>9, <2>1, <2>2, <2>3 DEF Owner
<1>10. \A r \in DOMAIN requests : ApprovalExpires(r) => FALSE BY <1>3 DEF ApprovalExpires
<1>11. ~RepairStep /\ \A e \in inflight : ~(Land(e) \/ Lost(e)) BY <1>1 DEF RepairStep, Land, Lost
<1> QED BY <1>7, <1>8, <1>9, <1>10, <1>11 DEF PublicationNext

\* A request that is claimed after a step was claimed before it, for the same candidate, or is now.
LEMMA ClaimedBefore ==
  ASSUME PublicationInv, PublicationNext, NEW q \in DOMAIN requests', Claimed(q)'
  PROVE  /\ q \in DOMAIN requests /\ requests'[q].work = requests[q].work
         /\ Claimed(q) \/ \E h \in Handlers : Dispatch(h, q)
<1>0. requests \in Seq(RequestRow) /\ DOMAIN requests = 1..Len(requests) /\ Len(requests) \in Nat
  BY DEF PublicationInv, RowsTyped
<1> DEFINE Same == DOMAIN requests' = DOMAIN requests /\ \A k \in DOMAIN requests : requests'[k].work = requests[k].work
<1>1. ASSUME NEW r \in DOMAIN requests, NEW row, row.work = requests[r].work, requests' = [requests EXCEPT ![r] = row]
      PROVE  Same
  BY <1>0, <1>1
<1>2. ASSUME NEW i \in DOMAIN work, RequestDraft(i) PROVE q \in DOMAIN requests /\ requests'[q] = requests[q]
  <2> DEFINE row == [work |-> i, revision |-> revision, approval |-> "none", action |-> "none", sent |-> FALSE]
  <2>1. requests' = Append(requests, row) BY <1>2 DEF RequestDraft
  <2>2. row.action # "dispatched" OBVIOUS
  <2> HIDE DEF row
  <2>3. q \in 1..(Len(requests) + 1) /\ (q = Len(requests) + 1 => requests'[q] = row) BY <1>0, <2>1
  <2>4. q \in 1..Len(requests) BY <1>0, <2>2, <2>3 DEF Claimed
  <2> QED BY <1>0, <2>1, <2>4
<1>3. ASSUME NEW r \in DOMAIN requests, NEW approval, requests' = [requests EXCEPT ![r].approval = approval] PROVE Same
  <2> DEFINE row == [requests[r] EXCEPT !.approval = approval]
  <2>1. row.work = requests[r].work BY <1>0 DEF RequestRow
  <2>2. requests' = [requests EXCEPT ![r] = row] BY <1>3
  <2> HIDE DEF row
  <2> QED BY <1>1, <2>1, <2>2
<1>4. ASSUME NEW r \in DOMAIN requests, NEW action, requests' = [requests EXCEPT ![r].action = action] PROVE Same
  <2> DEFINE row == [requests[r] EXCEPT !.action = action]
  <2>1. row.work = requests[r].work BY <1>0 DEF RequestRow
  <2>2. requests' = [requests EXCEPT ![r] = row] BY <1>4
  <2> HIDE DEF row
  <2> QED BY <1>1, <2>1, <2>2
<1>5. ASSUME NEW h \in Handlers, NEW outcome, calls[h] # NoCall, Record(h, outcome) PROVE Same
  <2> DEFINE end == IF requests[Of(h)].action = "succeeded" THEN "succeeded" ELSE outcome
  <2>1. requests' = [requests EXCEPT ![Of(h)].action = end] BY <1>5 DEF Record
  <2>2. Of(h) \in DOMAIN requests BY <1>0, <1>5 DEF PublicationInv, CallInv
  <2> HIDE DEF end
  <2> QED BY <1>4, <2>1, <2>2
<1>6. ASSUME NEW h \in Handlers, NEW effect, calls[h] # NoCall, Send(h, effect) PROVE Same
  <2> DEFINE row == [requests[Of(h)] EXCEPT !.sent = TRUE]
  <2>1. Of(h) \in DOMAIN requests BY <1>0, <1>6 DEF PublicationInv, CallInv
  <2>2. row.work = requests[Of(h)].work BY <1>0, <2>1 DEF RequestRow
  <2>3. requests' = [requests EXCEPT ![Of(h)] = row] BY <1>6 DEF Send
  <2> HIDE DEF row
  <2> QED BY <1>1, <2>1, <2>2, <2>3
<1>7. ASSUME NEW h \in Handlers, Adapter(h) PROVE Same
  BY <1>5, <1>6, <1>7
     DEF Adapter, InspectFails, NotProven, FoundDraft, Push, Create, Unconfirmed, Calling
<1>8. ASSUME Restart PROVE Same
  <2>1. DOMAIN requests' = DOMAIN requests BY <1>8 DEF Restart
  <2>2. ASSUME NEW k \in DOMAIN requests PROVE requests'[k].work = requests[k].work
    <3>1. requests'[k] = IF requests[k].action = "dispatched" THEN [requests[k] EXCEPT !.action = "unknown"]
                         ELSE requests[k]
      BY <1>8 DEF Restart
    <3>2. requests[k] \in RequestRow BY <1>0
    <3> QED BY <3>1, <3>2 DEF RequestRow
  <2> QED BY <2>1, <2>2
<1>9. ASSUME NEW r \in DOMAIN requests, NEW h \in Handlers, Dispatch(h, r) PROVE Same
  BY <1>4, <1>9 DEF Dispatch, Claim
<1>10. requests' = requests => Same OBVIOUS
<1>11. ASSUME Owner, \A i \in DOMAIN work : ~RequestDraft(i) PROVE Same
  <2>1. (\E i \in DOMAIN work : Disturb(i)) \/ SetPaused => requests' = requests BY DEF Disturb, SetPaused
  <2>2. \A r \in DOMAIN requests, h \in Handlers : Reconcile(h, r) => requests' = requests BY DEF Reconcile
  <2>3. \A r \in DOMAIN requests : ApproveDraft(r) => Same BY <1>3 DEF ApproveDraft
  <2> QED BY <1>9, <1>10, <1>11, <2>1, <2>2, <2>3 DEF Owner
<1>12. \A r \in DOMAIN requests : ApprovalExpires(r) => Same BY <1>3 DEF ApprovalExpires
<1>13. RepairStep \/ (\E e \in inflight : Land(e) \/ Lost(e)) => requests' = requests BY DEF RepairStep, Land, Lost
<1> HIDE DEF Same
<1>14. Same \/ \E i \in DOMAIN work : RequestDraft(i)
  BY <1>7, <1>8, <1>10, <1>11, <1>12, <1>13 DEF PublicationNext
<1>15. q \in DOMAIN requests /\ requests'[q].work = requests[q].work BY <1>2, <1>14 DEF Same
<1> QED BY <1>15, OnlyDispatched DEF Claimed

\* A review that failed under a claim came after CI had passed.
LateReview == \A q \in DOMAIN requests : Claimed(q) /\ Failed(WorkOf(q)) => Passed(WorkOf(q), 3)

\* A claimed candidate that fails its review in a step of the chain has passed CI.
LEMMA ReviewedLate ==
  ASSUME ChainInv, RepairNext, NEW i \in 1..Len(work), Failed(i) => Passed(i, 3), Published(i), Failed(i)'
  PROVE  Passed(i, 3)'
<1>0. Len(work) \in Nat /\ DOMAIN work = 1..Len(work) /\ \A j \in 1..Len(work) : work[j] \in Candidate
  BY DEF ChainInv
<1>a. work[i].observed \in Seq(Statuses) BY <1>0 DEF Candidate
<1> DEFINE Same == work'[i].reviews = work[i].reviews /\ work'[i].observed = work[i].observed
<1>1. CASE Same BY <1>1 DEF Failed, Reviewed, Verdict, Passed
<1>2. ASSUME NEW j \in 1..Len(work), NEW status \in Statuses, NEW public \in BOOLEAN, Observe(j, status, public), ~Same
      PROVE  Passed(i, 3)'
  <2>1. Len(work[j].observed) < 3 BY <1>2 DEF Observe, Stages
  <2>2. j = i /\ work'[i].reviews = work[i].reviews /\ work'[i].observed = Append(work[i].observed, status)
    BY <1>0, <1>2 DEF Observe, ChainInv, Candidate
  <2>3. Passed(i, 3) BY <2>2 DEF Failed, Reviewed, Verdict
  <2> QED BY <1>a, <2>1, <2>2, <2>3 DEF Passed
<1>3. ASSUME NEW j \in 1..Len(work), NEW verdict \in {"PASS", "FAIL"}, RecordReview(j, verdict), ~Same
      PROVE  Passed(i, 3)'
  <2>1. j = i /\ work'[i].observed = work[i].observed BY <1>0, <1>3 DEF RecordReview, ChainInv, Candidate
  <2>2. Passed(i, 3) BY <1>3, <2>1 DEF RecordReview
  <2> QED BY <2>1, <2>2 DEF Passed
<1>4. \A j \in 1..Len(work), p \in Policies : Propose(j, p) => Same BY DEF Propose
<1>5. ASSUME NEW j \in 1..Len(work), ClaimRepair(j) \/ RepairEnds(j) PROVE Same
  <2> PICK row : /\ work' = [work EXCEPT ![j] = row]
                 /\ row.reviews = work[j].reviews /\ row.observed = work[j].observed
    <3>1. work[j] \in Candidate BY <1>0
    <3>2. CASE ClaimRepair(j)
      <4> WITNESS [work[j] EXCEPT !.state = "queued"]
      <4> QED BY <3>1, <3>2 DEF ClaimRepair, Candidate
    <3>3. CASE RepairEnds(j)
      <4> PICK s \in {"ready", "failed"} :
            work' = [work EXCEPT ![j] = [work[j] EXCEPT !.state = s, !.attested = (s = "ready")]]
        BY <3>3 DEF RepairEnds
      <4> DEFINE attested == s = "ready"
      <4> HIDE DEF attested
      <4>1. work' = [work EXCEPT ![j] = [work[j] EXCEPT !.state = s, !.attested = attested]] BY DEF attested
      <4> WITNESS [work[j] EXCEPT !.state = s, !.attested = attested]
      <4> QED BY <3>1, <4>1 DEF Candidate
    <3> QED BY <1>5, <3>2, <3>3
  <2> QED BY <1>0 DEF ChainInv
<1>6. \A p \in proposals : ApproveRepair(p) => Same BY <1>0 DEF ApproveRepair, ChainInv
<1>7. Expire => Same BY DEF Expire
<1> QED BY <1>0, <1>1, <1>2, <1>3, <1>4, <1>5, <1>6, <1>7 DEF RepairNext

\* Only a step of the chain writes it.
LEMMA WorkStays == ASSUME PublicationNext, ~RepairStep PROVE work' = work
<1>1. Owner => work' = work
  BY DEF Owner, RequestDraft, ApproveDraft, SetPaused, Disturb, Dispatch, Claim, Reconcile, repairVars
<1>2. \A h \in Handlers : Adapter(h) => work' = work
  BY DEF Adapter, InspectFails, NotProven, FoundDraft, Push, Create, Unconfirmed, Record, Send, repairVars
<1>3. \A q \in DOMAIN requests : ApprovalExpires(q) => work' = work BY DEF ApprovalExpires, repairVars
<1>4. \A e \in inflight : Land(e) \/ Lost(e) => work' = work BY DEF Land, Lost, repairVars
<1>5. Restart => work' = work BY DEF Restart
<1> QED BY <1>1, <1>2, <1>3, <1>4, <1>5 DEF PublicationNext

LEMMA LateReviewNext == PublicationInv /\ LateReview /\ [PublicationNext]_publicationVars => LateReview'
<1> SUFFICES ASSUME PublicationInv, LateReview, [PublicationNext]_publicationVars PROVE LateReview' OBVIOUS
<1>1. CASE UNCHANGED publicationVars
  BY <1>1 DEF publicationVars, repairVars, LateReview, Claimed, WorkOf, Failed, Reviewed, Verdict, Passed
<1>2. CASE PublicationNext
  <2> SUFFICES ASSUME NEW q \in DOMAIN requests', Claimed(q)', Failed(WorkOf(q))' PROVE Passed(WorkOf(q), 3)'
    BY DEF LateReview
  <2> PICK i : i = WorkOf(q) OBVIOUS
  <2>1. /\ q \in DOMAIN requests /\ WorkOf(q)' = i /\ WorkOf(q) = i
        /\ Claimed(q) \/ \E h \in Handlers : Dispatch(h, q)
    BY <1>2, ClaimedBefore DEF WorkOf
  <2>2. i \in 1..Len(work) BY <2>1 DEF PublicationInv, RowsTyped, WorkOf
  <2>3. Failed(i)' BY <2>1 DEF Failed, Reviewed, Verdict
  <2>4. CASE RepairStep
    <3>1. RepairNext /\ requests' = requests BY <2>4 DEF RepairStep
    <3>2. Claimed(q) BY <3>1 DEF Claimed
    <3>3. Published(i) /\ (Failed(i) => Passed(i, 3)) BY <2>1, <3>2 DEF Published, Claimed, WorkOf, LateReview
    <3>4. Passed(i, 3)' BY <2>2, <2>3, <3>1, <3>3, ReviewedLate DEF PublicationInv
    <3> QED BY <2>1, <3>4 DEF Passed
  <2>5. CASE ~RepairStep
    <3>1. work' = work BY <1>2, <2>5, WorkStays
    <3>2. Failed(i) /\ (Passed(i, 3) => Passed(i, 3)') BY <2>3, <3>1 DEF Failed, Reviewed, Verdict, Passed
    <3>3. \A h \in Handlers : ~Dispatch(h, q) BY <3>2 DEF Dispatch, Bound, Evidence
    <3>4. Passed(i, 3) BY <2>1, <3>2, <3>3 DEF LateReview
    <3> QED BY <2>1, <3>2, <3>4 DEF Passed
  <2> QED BY <2>4, <2>5
<1> QED BY <1>1, <1>2

\* What is sent in a step is of a claimed request.
LEMMA SentUnderClaim ==
  ASSUME PublicationInv, PublicationNext, NEW e \in inflight' \ inflight
  PROVE  e[1] \in DOMAIN requests /\ Claimed(e[1])
<1>1. ASSUME NEW h \in Handlers, NEW effect, calls[h] # NoCall, ~calls[h].reconcile, Send(h, effect)
      PROVE  e[1] \in DOMAIN requests /\ Claimed(e[1])
  <2>1. e = <<Of(h), effect>> BY <1>1 DEF Send
  <2>2. Of(h) \in 1..Len(requests) /\ DOMAIN requests = 1..Len(requests) BY <1>1 DEF PublicationInv, CallInv, RowsTyped
  <2>3. Carries(h, Of(h)) BY <1>1 DEF Carries
  <2>4. requests[Of(h)].action = "dispatched" BY <2>2, <2>3 DEF PublicationInv, CallInv
  <2> QED BY <2>1, <2>2, <2>4 DEF Claimed
<1>2. ASSUME NEW h \in Handlers, Push(h) \/ Create(h) PROVE e[1] \in DOMAIN requests /\ Claimed(e[1])
  <2>1. calls[h] # NoCall /\ \E effect \in {"push", "create"} : Send(h, effect) BY <1>2 DEF Push, Create, Calling
  <2>2. Of(h) \in 1..Len(requests) BY <2>1 DEF PublicationInv, CallInv
  <2>3. ~calls[h].reconcile
    <3>1. LooksUp(h, Of(h)) => calls[h].kind = "inspect" BY <2>2 DEF PublicationInv, CallInv
    <3>2. calls[h].kind = "push" \/ ~calls[h].reconcile BY <1>2 DEF Push, Create, Calling
    <3>3. calls[h].reconcile => LooksUp(h, Of(h)) BY <2>1 DEF LooksUp
    <3> QED BY <3>1, <3>2, <3>3, <2>2, <2>1 DEF PublicationInv, RowsTyped, CallRow
  <2> QED BY <1>1, <2>1, <2>3
<1>3. ASSUME NEW h \in Handlers, Adapter(h) PROVE Push(h) \/ Create(h)
  BY <1>3 DEF Adapter, InspectFails, NotProven, FoundDraft, Unconfirmed, Record
<1>4. ~Owner BY DEF Owner, RequestDraft, ApproveDraft, SetPaused, Disturb, Dispatch, Claim, Reconcile, hostVars
<1>5. ~RepairStep /\ ~Restart /\ \A q \in DOMAIN requests : ~ApprovalExpires(q)
  BY DEF RepairStep, Restart, ApprovalExpires, hostVars
<1>6. \A f \in inflight : ~(Land(f) \/ Lost(f)) BY DEF Land, Lost
<1> QED BY <1>2, <1>3, <1>4, <1>5, <1>6 DEF PublicationNext

\* A candidate is claimed for GitHub only while its review has not failed and no repair of it is
\* approved, a repair only with evidence of its own, whatever happens while the owner is asked:
\* publish_draft reads the binding again in the transaction that claims the action.  What is sent
\* is sent under a claim, and a review that failed under it came after CI had passed (actions.ts,
\* review-repair.ts).
THEOREM DispatchedUnfailedHolds == PublicationSpec => DispatchedUnfailed
<1> DEFINE Unfailed ==
             /\ \A q \in DOMAIN requests : Claimed(q)' /\ ~Claimed(q) => ClaimedUnfailed(q)
             /\ \A e \in inflight' \ inflight : SentClaimed(e[1])
<1>1. PublicationInv /\ LateReview /\ [PublicationNext]_publicationVars => [Unfailed]_publicationVars
  <2> SUFFICES ASSUME PublicationInv, LateReview, PublicationNext PROVE Unfailed
    OBVIOUS
  <2>1. ASSUME NEW q \in DOMAIN requests, Claimed(q)', ~Claimed(q) PROVE ClaimedUnfailed(q)
    <3> DEFINE i == WorkOf(q)
    <3>1. Bound(q) BY <2>1, OnlyDispatched DEF Dispatch, Claimed
    <3>2. ~Failed(i) /\ requests[q].revision = revision /\ (IsRepair(i) => Passed(i, 1) /\ Passed(i, 2))
      BY <3>1 DEF Bound, Evidence, Eligible
    <3>3. i \in 1..Len(work) /\ Len(work) \in Nat BY DEF PublicationInv, RowsTyped, ChainInv, WorkOf
    <3>4. i = Tip
      <4>1. i \notin 1..(Len(work) - 1) BY <3>2 DEF PublicationInv, ChainInv, ChainFailed
      <4> QED BY <3>3, <4>1 DEF Tip
    <3> QED BY <3>2, <3>4 DEF ClaimedUnfailed
  <2>2. ASSUME NEW e \in inflight' \ inflight PROVE SentClaimed(e[1])
    BY <2>2, SentUnderClaim DEF SentClaimed, LateReview
  <2> QED BY <2>1, <2>2
<1>2. PublicationSpec => PublicationInit /\ [][PublicationNext]_publicationVars BY PTL DEF PublicationSpec
<1>3. PublicationInit => LateReview BY DEF PublicationInit, LateReview
<1> QED BY <1>1, <1>2, <1>3, LateReviewNext, PublicationInvariant, PTL DEF DispatchedUnfailed
-----------------------------------------------------------------------------
(* DraftPublication *)

RowPhase(r) == IF r.action = "dispatched" THEN "claimed"
               ELSE IF r.action # "none" THEN r.action
               ELSE IF r.approval = "none" THEN "requested" ELSE "approved"

Phases == [q \in 1..MaxRequests |-> Phase(q)]
Sents  == {q \in DOMAIN requests : requests[q].sent}
Drafts == {q \in DOMAIN requests : WorkOf(q) \in remote.draft}

\* A row that is written moves its own request, and no other.
LEMMA RowMapped ==
  ASSUME PublicationInv, NEW q \in 1..Len(requests), NEW row \in RequestRow,
         requests' = [requests EXCEPT ![q] = row], row.work = requests[q].work, requests[q].sent => row.sent
  PROVE  /\ q \in 1..MaxRequests /\ Phases[q] = RowPhase(requests[q])
         /\ Phases' = [Phases EXCEPT ![q] = RowPhase(row)]
         /\ Sents' = IF row.sent THEN Sents \cup {q} ELSE Sents
         /\ remote' = remote => Drafts' = Drafts
<1>1. /\ DOMAIN requests = 1..Len(requests) /\ Len(requests) \in Nat /\ Len(requests) <= MaxRequests
      /\ DOMAIN requests' = DOMAIN requests
      /\ \A k \in DOMAIN requests : requests'[k] = IF k = q THEN row ELSE requests[k]
  BY RowWritten DEF PublicationInv, RowsTyped
<1>2. q \in 1..MaxRequests BY <1>1, PublicationBounds
<1>3. \A k \in DOMAIN requests : Phase(k) = RowPhase(requests[k]) /\ Phase(k)' = RowPhase(requests'[k])
  BY <1>1 DEF Phase, RowPhase
<1>4. \A k : k \notin DOMAIN requests => Phase(k) = "none" /\ Phase(k)' = "none" BY <1>1 DEF Phase
<1>5. \A k \in 1..MaxRequests : Phase(k)' = IF k = q THEN RowPhase(row) ELSE Phase(k) BY <1>1, <1>3, <1>4
<1>6. Phases' = [Phases EXCEPT ![q] = RowPhase(row)] BY <1>5 DEF Phases
<1>7. Phases[q] = RowPhase(requests[q]) BY <1>1, <1>2, <1>3 DEF Phases
<1>8. Sents' = IF row.sent THEN Sents \cup {q} ELSE Sents BY <1>1 DEF Sents
<1>9. \A k \in DOMAIN requests : WorkOf(k)' = WorkOf(k) BY <1>1 DEF WorkOf
<1>10. remote' = remote => Drafts' = Drafts BY <1>1, <1>9 DEF Drafts
<1> QED BY <1>2, <1>6, <1>7, <1>8, <1>10

\* The instance, spelled with the names above.
LEMMA Spelled ==
  /\ DP!Init <=> Phases = [q \in 1..MaxRequests |-> "none"] /\ Sents = {} /\ Drafts = {}
  /\ DP!draftVars' = DP!draftVars <=> UNCHANGED <<Phases, Sents, Drafts>>
  /\ \A q, from, to : DP!Move(q, from, to) <=> Phases[q] \in from /\ Phases' = [Phases EXCEPT ![q] = to]
BY DEF DP!Init, DP!draftVars, DP!Move, Phases, Sents, Drafts

Mapped == DP!Next \/ DP!draftVars' = DP!draftVars

\* A step of one request, and the step of its promise.
LEMMA MoveMapped ==
  ASSUME NEW q \in 1..MaxRequests, NEW from, NEW to, Phases[q] = from, Phases' = [Phases EXCEPT ![q] = to],
         Sents' = Sents, Drafts' = Drafts,
         \/ from = to
         \/ from = "requested" /\ to = "approved"
         \/ from = "approved" /\ to = "claimed"
         \/ from = "claimed" /\ to = "unknown"
         \/ from = "claimed" /\ to = "failed" /\ q \notin Sents
         \/ from \in {"claimed", "unknown"} /\ to = "succeeded" /\ q \in Drafts
  PROVE  Mapped
<1>1. CASE from = to
  <2>1. Phases' = Phases BY <1>1 DEF Phases
  <2> QED BY <2>1, Spelled DEF Mapped
<1>2. CASE from = "requested" /\ to = "approved"
  <2>1. DP!Approve(q) BY <1>2, Spelled DEF DP!Approve, Sents, Drafts
  <2> QED BY <2>1 DEF Mapped, DP!Next
<1>3. CASE from = "approved" /\ to = "claimed"
  <2>1. DP!Claim(q) BY <1>3, Spelled DEF DP!Claim, Sents, Drafts
  <2> QED BY <2>1 DEF Mapped, DP!Next
<1>4. CASE from = "claimed" /\ to = "unknown"
  <2>1. DP!Lose(q) BY <1>4, Spelled DEF DP!Lose, Sents, Drafts
  <2> QED BY <2>1 DEF Mapped, DP!Next
<1>5. CASE from = "claimed" /\ to = "failed" /\ q \notin Sents
  <2>1. DP!Fail(q) BY <1>5, Spelled DEF DP!Fail, Sents, Drafts
  <2> QED BY <2>1 DEF Mapped, DP!Next
<1>6. CASE from \in {"claimed", "unknown"} /\ to = "succeeded" /\ q \in Drafts
  <2>1. DP!Succeed(q) BY <1>6, Spelled DEF DP!Succeed, Sents, Drafts
  <2> QED BY <2>1 DEF Mapped, DP!Next
<1> QED BY <1>1, <1>2, <1>3, <1>4, <1>5, <1>6

\* A call that ends moves its request to the outcome, unless a lookup found it succeeded before.
LEMMA RecordMapped ==
  ASSUME PublicationInv, NEW h \in Handlers, calls[h] # NoCall, NEW outcome, Record(h, outcome),
         \/ outcome = "succeeded" /\ HasDraft(h)
         \/ outcome = "unknown"
         \/ outcome = "failed" /\ ~calls[h].reconcile /\ calls[h].kind = "inspect"
  PROVE  Mapped
<1> DEFINE q   == Of(h)
           end == IF requests[q].action = "succeeded" THEN "succeeded" ELSE outcome
           row == [requests[q] EXCEPT !.action = end]
<1>1. q \in 1..Len(requests) /\ requests[q] \in RequestRow /\ DOMAIN requests = 1..Len(requests) /\ calls[h] \in CallRow
  BY DEF PublicationInv, CallInv, RowsTyped
<1>2. requests' = [requests EXCEPT ![q] = row] /\ remote' = remote BY DEF Record
<1>3. end \in {"succeeded", "unknown", "failed"} OBVIOUS
<1>4. Carries(h, q) \/ LooksUp(h, q) BY DEF Carries, LooksUp
<1>5. Carries(h, q) => requests[q].action = "dispatched" BY <1>1 DEF PublicationInv, CallInv
<1>6. LooksUp(h, q) => requests[q].action \in {"unknown", "succeeded"} BY <1>1 DEF PublicationInv, CallInv
<1>7. LooksUp(h, q) => outcome # "failed" BY DEF LooksUp
<1>8. outcome = "failed" => ~requests[q].sent BY <1>1, <1>4, <1>7 DEF PublicationInv, SentInv
<1>9. outcome = "succeeded" => q \in Drafts BY <1>1 DEF HasDraft, Drafts
<1>10. \/ requests[q].action = "dispatched" /\ end = outcome
       \/ requests[q].action = "unknown" /\ end = outcome /\ outcome # "failed"
       \/ requests[q].action = "succeeded" /\ end = "succeeded"
  BY <1>4, <1>5, <1>6, <1>7
<1> HIDE DEF end
<1>11. row \in RequestRow /\ row.work = requests[q].work /\ row.sent = requests[q].sent /\ row.action = end
  BY <1>1, <1>3 DEF RequestRow
<1>12. RowPhase(row) = end BY <1>3, <1>11 DEF RowPhase
<1> HIDE DEF row
<1>13. /\ q \in 1..MaxRequests /\ Phases[q] = RowPhase(requests[q]) /\ Phases' = [Phases EXCEPT ![q] = end]
       /\ Sents' = (IF row.sent THEN Sents \cup {q} ELSE Sents) /\ Drafts' = Drafts
  BY <1>1, <1>2, <1>11, <1>12, RowMapped
<1>14. Sents' = Sents BY <1>1, <1>11, <1>13 DEF Sents
<1>15. outcome = "failed" => q \notin Sents BY <1>8 DEF Sents
<1>16. CASE requests[q].action = "dispatched" /\ end = outcome
  <2>1. Phases[q] = "claimed" BY <1>13, <1>16 DEF RowPhase
  <2> QED BY <2>1, <1>9, <1>13, <1>14, <1>15, <1>16, MoveMapped
<1>17. CASE requests[q].action = "unknown" /\ end = outcome /\ outcome # "failed"
  <2>1. Phases[q] = "unknown" BY <1>13, <1>17 DEF RowPhase
  <2> QED BY <2>1, <1>9, <1>13, <1>14, <1>17, MoveMapped
<1>18. CASE requests[q].action = "succeeded" /\ end = "succeeded"
  <2>1. Phases[q] = "succeeded" BY <1>13, <1>18 DEF RowPhase
  <2> QED BY <2>1, <1>13, <1>14, <1>18, MoveMapped
<1> QED BY <1>10, <1>16, <1>17, <1>18

LEMMA SendMapped ==
  ASSUME PublicationInv, NEW h \in Handlers, NEW effect \in {"push", "create"},
         calls[h] # NoCall, ~calls[h].reconcile, Send(h, effect)
  PROVE  Mapped
<1> PICK q : q = Of(h) OBVIOUS
<1> DEFINE row == [requests[q] EXCEPT !.sent = TRUE]
<1>1. q \in 1..Len(requests) /\ requests[q] \in RequestRow /\ requests[q].action = "dispatched"
  BY DEF PublicationInv, CallInv, RowsTyped, Carries
<1>2. requests' = [requests EXCEPT ![q] = row] /\ remote' = remote BY DEF Send
<1>3. row \in RequestRow /\ row.work = requests[q].work /\ row.sent /\ row.action = "dispatched" BY <1>1 DEF RequestRow
<1>4. RowPhase(row) = "claimed" /\ RowPhase(requests[q]) = "claimed" BY <1>1, <1>3 DEF RowPhase
<1> HIDE DEF row
<1>5. /\ q \in 1..MaxRequests /\ Phases[q] = "claimed" /\ Phases' = [Phases EXCEPT ![q] = "claimed"]
      /\ Sents' = Sents \cup {q} /\ Drafts' = Drafts
  BY <1>1, <1>2, <1>3, <1>4, RowMapped
<1>6. Phases' = Phases BY <1>5 DEF Phases
<1>7. DP!Send(q) BY <1>5, <1>6 DEF DP!Send, Phases, Sents, Drafts
<1> QED BY <1>5, <1>7 DEF Mapped, DP!Next

LEMMA RequestMapped ==
  ASSUME PublicationInv, NEW i \in DOMAIN work, RequestDraft(i)
  PROVE  Mapped
<1> PICK q : q = Len(requests) + 1 OBVIOUS
<1> DEFINE row == [work |-> i, revision |-> revision, approval |-> "none", action |-> "none", sent |-> FALSE]
<1>1. requests' = Append(requests, row) /\ Len(requests) < MaxRequests /\ remote' = remote
  BY DEF RequestDraft, hostVars
<1>2. row.action = "none" /\ row.approval = "none" /\ ~row.sent OBVIOUS
<1> HIDE DEF row
<1>3. requests \in Seq(RequestRow) /\ Len(requests) \in Nat /\ DOMAIN requests = 1..Len(requests)
  BY DEF PublicationInv, RowsTyped
<1>4. /\ DOMAIN requests' = DOMAIN requests \cup {q} /\ requests'[q] = row /\ q \notin DOMAIN requests
      /\ \A k \in DOMAIN requests : requests'[k] = requests[k]
  BY <1>1, <1>3
<1>5. q \in 1..MaxRequests BY <1>1, <1>3, PublicationBounds
<1>6. Phase(q) = "none" /\ Phase(q)' = "requested" BY <1>2, <1>4 DEF Phase
<1>7. \A k \in 1..MaxRequests : k # q => Phase(k)' = Phase(k) BY <1>4 DEF Phase
<1>8. Phases' = [Phases EXCEPT ![q] = "requested"] /\ Phases[q] = "none" BY <1>5, <1>6, <1>7 DEF Phases
<1>9. Sents' = Sents BY <1>2, <1>4 DEF Sents
<1>10. Drafts' \in {Drafts, Drafts \cup {q}}
  <2>1. \A k \in DOMAIN requests : WorkOf(k)' = WorkOf(k) BY <1>4 DEF WorkOf
  <2>2. WorkOf(q)' \in remote.draft => Drafts' = Drafts \cup {q} BY <2>1, <1>1, <1>4 DEF Drafts
  <2>3. WorkOf(q)' \notin remote.draft => Drafts' = Drafts BY <2>1, <1>1, <1>4 DEF Drafts
  <2> QED BY <2>2, <2>3
<1>11. DP!Request(q) BY <1>8, <1>9, <1>10, Spelled DEF DP!Request, Sents, Drafts
<1> QED BY <1>5, <1>11 DEF Mapped, DP!Next

LEMMA RestartMapped ==
  ASSUME PublicationInv, Restart
  PROVE  Mapped
<1>1. requests' = [q \in DOMAIN requests |-> IF requests[q].action = "dispatched"
                     THEN [requests[q] EXCEPT !.action = "unknown"] ELSE requests[q]] /\ remote' = remote
  BY DEF Restart
<1>2. \A q \in DOMAIN requests : requests[q] \in RequestRow BY DEF PublicationInv, RowsTyped
<1>3. \A q \in DOMAIN requests :
        /\ requests'[q].work = requests[q].work /\ requests'[q].sent = requests[q].sent
        /\ requests'[q].approval = requests[q].approval
        /\ requests'[q].action = IF requests[q].action = "dispatched" THEN "unknown" ELSE requests[q].action
  BY <1>1, <1>2 DEF RequestRow
<1>4. DOMAIN requests' = DOMAIN requests BY <1>1
<1>5. ASSUME NEW q PROVE Phase(q)' = IF Phase(q) = "claimed" THEN "unknown" ELSE Phase(q)
  <2>1. CASE q \notin DOMAIN requests BY <2>1, <1>4 DEF Phase
  <2>2. CASE q \in DOMAIN requests /\ requests[q].action = "dispatched" BY <2>2, <1>3, <1>4 DEF Phase
  <2>3. CASE q \in DOMAIN requests /\ requests[q].action # "dispatched"
    <3>1. Phase(q)' = Phase(q) BY <2>3, <1>3, <1>4 DEF Phase
    <3>2. Phase(q) # "claimed" BY <2>3, <1>2 DEF Phase, RequestRow
    <3> QED BY <3>1, <3>2
  <2> QED BY <2>1, <2>2, <2>3
<1>6. Phases' = [q \in 1..MaxRequests |-> IF Phases[q] = "claimed" THEN "unknown" ELSE Phases[q]] BY <1>5 DEF Phases
<1>7. Sents' = Sents BY <1>3, <1>4 DEF Sents
<1>8. Drafts' = Drafts BY <1>1, <1>3, <1>4 DEF Drafts, WorkOf
<1>9. DP!LoseAll BY <1>6, <1>7, <1>8 DEF DP!LoseAll, Phases, Sents, Drafts
<1> QED BY <1>9 DEF Mapped, DP!Next

LEMMA LandMapped ==
  ASSUME PublicationInv, NEW e \in inflight, Land(e)
  PROVE  Mapped
<1> DEFINE q   == e[1]
           i   == WorkOf(q)
           new == {k \in DOMAIN requests : WorkOf(k) = i}
<1>1. /\ requests' = requests
      /\ remote' = IF e[2] = "push" THEN [remote EXCEPT !.branch = @ \cup {i}]
                   ELSE [remote EXCEPT !.draft = IF i \in remote.branch THEN @ \cup {i} ELSE @]
  BY DEF Land
<1>2. /\ DOMAIN requests = 1..Len(requests) /\ Len(requests) \in Nat /\ Len(requests) <= MaxRequests
      /\ q \in DOMAIN requests /\ requests[q].sent /\ remote \in [branch : SUBSET Nat, draft : SUBSET Nat]
  BY DEF PublicationInv, RowsTyped, SentInv
<1> HIDE DEF i
<1>3. remote'.draft = remote.draft \/ remote'.draft = remote.draft \cup {i} BY <1>1, <1>2
<1>4. Phases' = Phases /\ Sents' = Sents BY <1>1 DEF Phases, Phase, Sents
<1>5. \A k : WorkOf(k)' = WorkOf(k) BY <1>1 DEF WorkOf
<1>6. CASE remote'.draft = remote.draft
  <2>1. Drafts' = Drafts BY <1>1, <1>5, <1>6 DEF Drafts
  <2> QED BY <2>1, <1>4, Spelled DEF Mapped
<1>7. CASE remote'.draft = remote.draft \cup {i}
  <2>1. Drafts' = Drafts \cup new BY <1>1, <1>5, <1>7 DEF Drafts
  <2>2. q \in new BY <1>2 DEF i
  <2>3. new \in SUBSET (1..MaxRequests) /\ q \in 1..MaxRequests BY <1>2, PublicationBounds
  <2>4. q \in Sents BY <1>2 DEF Sents
  <2> HIDE DEF new, q
  <2>5. DP!Appear(q) BY <2>1, <2>2, <2>3, <2>4, <1>4 DEF DP!Appear, Phases, Sents, Drafts
  <2> QED BY <2>3, <2>5 DEF Mapped, DP!Next
<1> QED BY <1>3, <1>6, <1>7

\* Approvals and claims: a row is written that sends nothing.
LEMMA OwnerMapped ==
  ASSUME PublicationInv, NEW q \in DOMAIN requests,
         ApproveDraft(q) \/ ApprovalExpires(q) \/ \E h \in Handlers : Dispatch(h, q)
  PROVE  Mapped
<1>1. q \in 1..Len(requests) /\ requests[q] \in RequestRow BY DEF PublicationInv, RowsTyped
<1>3. requests[q].action = "none" => ~requests[q].sent BY <1>1 DEF PublicationInv, SentInv
<1>4. ASSUME NEW approval \in {"valid", "expired"}, requests[q].action = "none", remote' = remote,
             requests' = [requests EXCEPT ![q].approval = approval],
             IF approval = "valid" THEN requests[q].approval = "none" ELSE requests[q].approval = "valid"
      PROVE  Mapped
  <2> DEFINE row == [requests[q] EXCEPT !.approval = approval]
  <2>1. row \in RequestRow /\ row.work = requests[q].work /\ row.sent = requests[q].sent BY <1>1 DEF RequestRow
  <2>2. RowPhase(row) = "approved" BY <1>1, <1>4 DEF RowPhase, RequestRow
  <2>3. RowPhase(requests[q]) = IF approval = "valid" THEN "requested" ELSE "approved"
    BY <1>4 DEF RowPhase
  <2>4. requests' = [requests EXCEPT ![q] = row] BY <1>4
  <2> HIDE DEF row
  <2>5. /\ q \in 1..MaxRequests /\ Phases[q] = RowPhase(requests[q])
        /\ Phases' = [Phases EXCEPT ![q] = RowPhase(row)] /\ Sents' = (IF row.sent THEN Sents \cup {q} ELSE Sents)
        /\ Drafts' = Drafts
    BY ZenonT(60), <1>1, <1>4, <2>1, <2>4, RowMapped
  <2>8. Sents' = Sents /\ Phases' = [Phases EXCEPT ![q] = "approved"] BY <1>3, <1>4, <2>1, <2>2, <2>5
  <2>6. CASE approval = "valid"
    <3>1. Phases[q] = "requested" BY <2>3, <2>5, <2>6
    <3> QED BY <3>1, <2>5, <2>8, MoveMapped
  <2>7. CASE approval = "expired"
    <3>1. Phases[q] = "approved" BY <2>3, <2>5, <2>7
    <3> QED BY <3>1, <2>5, <2>8, MoveMapped
  <2> QED BY <1>4, <2>6, <2>7
<1>5. ASSUME NEW h \in Handlers, Dispatch(h, q) PROVE Mapped
  <2> DEFINE row == [requests[q] EXCEPT !.action = "dispatched"]
  <2>1. /\ requests' = [requests EXCEPT ![q] = row] /\ remote' = remote
        /\ requests[q].action = "none" /\ requests[q].approval = "valid"
    BY <1>5 DEF Dispatch, Claim
  <2>2. row \in RequestRow /\ row.work = requests[q].work /\ row.sent = requests[q].sent /\ RowPhase(row) = "claimed"
    BY <1>1 DEF RequestRow, RowPhase
  <2>3. RowPhase(requests[q]) = "approved" BY <2>1 DEF RowPhase
  <2> HIDE DEF row
  <2>4. /\ q \in 1..MaxRequests /\ Phases[q] = "approved" /\ Phases' = [Phases EXCEPT ![q] = "claimed"]
        /\ Sents' = Sents /\ Drafts' = Drafts
    BY <1>1, <1>3, <2>1, <2>2, <2>3, RowMapped
  <2> QED BY <2>4, MoveMapped
<1>6. CASE ApproveDraft(q)
  <2>1. /\ requests' = [requests EXCEPT ![q].approval = "valid"] /\ requests[q].approval = "none"
        /\ requests[q].action = "none" /\ remote' = remote
    BY <1>1, <1>6 DEF ApproveDraft, hostVars, PublicationInv, RowsTyped
  <2>2. "valid" \in {"valid", "expired"} OBVIOUS
  <2> QED BY <1>4, <2>1, <2>2
<1>7. CASE ApprovalExpires(q)
  <2>1. /\ requests' = [requests EXCEPT ![q].approval = "expired"] /\ requests[q].approval = "valid"
        /\ requests[q].action = "none" /\ remote' = remote
    BY <1>7 DEF ApprovalExpires, hostVars
  <2> QED BY <2>1, <1>4
<1> QED BY <1>5, <1>6, <1>7

\* Steps that do not touch what the promise is about.
LEMMA StillMapped == UNCHANGED <<requests, remote>> => Mapped
<1> SUFFICES ASSUME UNCHANGED <<requests, remote>> PROVE Mapped OBVIOUS
<1>1. Phases' = Phases /\ Sents' = Sents /\ Drafts' = Drafts BY DEF Phases, Phase, Sents, Drafts, WorkOf
<1> QED BY <1>1, Spelled DEF Mapped

LEMMA PublicationMapped == PublicationInv /\ [PublicationNext]_publicationVars => [DP!Next]_(DP!draftVars)
<1> SUFFICES ASSUME PublicationInv, [PublicationNext]_publicationVars PROVE Mapped BY DEF Mapped
<1>1. CASE UNCHANGED publicationVars BY <1>1, StillMapped DEF publicationVars, hostVars
<1>2. ASSUME NEW i \in DOMAIN work, RequestDraft(i) PROVE Mapped BY <1>2, RequestMapped
<1>3. ASSUME NEW i \in DOMAIN work, Disturb(i) PROVE Mapped BY <1>3, StillMapped DEF Disturb
<1>4. ASSUME NEW q \in DOMAIN requests, ApproveDraft(q) \/ ApprovalExpires(q) \/ \E h \in Handlers : Dispatch(h, q)
      PROVE  Mapped
  BY <1>4, OwnerMapped
<1>5. ASSUME NEW q \in DOMAIN requests, NEW h \in Handlers, Reconcile(h, q) PROVE Mapped
  BY <1>5, StillMapped DEF Reconcile
<1>6. CASE SetPaused BY <1>6, StillMapped DEF SetPaused
<1>7. ASSUME NEW h \in Handlers, Adapter(h) PROVE Mapped
  <2>1. CASE InspectFails(h) BY <1>7, <2>1, RecordMapped DEF InspectFails, Calling
  <2>2. CASE NotProven(h) BY <1>7, <2>2, RecordMapped DEF NotProven, Calling
  <2>3. CASE FoundDraft(h) BY <1>7, <2>3, RecordMapped DEF FoundDraft
  <2>4. calls[h] # NoCall /\ calls[h].kind # "inspect" => ~calls[h].reconcile
    BY DEF PublicationInv, CallInv, LooksUp
  <2>5. CASE Push(h) BY <1>7, <2>5, SendMapped DEF Push, Calling
  <2>6. CASE Create(h) BY <1>7, <2>4, <2>6, SendMapped DEF Create, Calling
  <2>7. CASE Unconfirmed(h) BY <1>7, <2>7, RecordMapped DEF Unconfirmed, Calling
  <2> QED BY <1>7, <2>1, <2>2, <2>3, <2>5, <2>6, <2>7 DEF Adapter
<1>8. CASE RepairStep BY <1>8, StillMapped DEF RepairStep
<1>9. CASE Restart BY <1>9, RestartMapped
<1>10. ASSUME NEW e \in inflight, Land(e) \/ Lost(e) PROVE Mapped
  BY <1>10, LandMapped, StillMapped DEF Lost
<1> QED BY <1>1, <1>2, <1>3, <1>4, <1>5, <1>6, <1>7, <1>8, <1>9, <1>10 DEF PublicationNext, Owner

\* The publication of every request keeps the promise of DraftPublication: nothing is sent before
\* the owner's claim or after an outcome, a failure sent nothing, a success has its draft, and a
\* restart loses no claim without a trace (actions.ts, github.ts, server.ts).
THEOREM PublicationKeepsPromise == PublicationSpec => DP!Init /\ [][DP!Next]_(DP!draftVars)
<1>1. PublicationInit => DP!Init
  <2> SUFFICES ASSUME PublicationInit PROVE DP!Init OBVIOUS
  <2>1. requests = <<>> BY DEF PublicationInit
  <2>2. Phases = [q \in 1..MaxRequests |-> "none"] /\ Sents = {} /\ Drafts = {}
    BY <2>1 DEF Phases, Phase, Sents, Drafts
  <2> QED BY <2>2, Spelled
<1>2. PublicationSpec => PublicationInit /\ [][PublicationNext]_publicationVars BY PTL DEF PublicationSpec
<1> QED BY <1>1, <1>2, PublicationMapped, PublicationInvariant, PTL
-----------------------------------------------------------------------------
(* What the chain is allotted.  Its repairs share one policy, so the recursion that adds up *)
(* their operations and budgets comes to a product.                                         *)

\* What the policy of the first approval allows.
Allows(field) == work[2].link.policy[field]
Linked == \A i \in 2..Len(work) : /\ work[i].link \in Proposal /\ work[i].link.parent = i - 1
                                  /\ work[i].link.policy = work[2].link.policy
Allotted == Len(work) > 1 =>
  /\ Rounds <= Allows("rounds")
  /\ Rounds * Allows("roundOperations") <= Allows("operations")
  /\ Rounds * Allows("roundBudget") <= Allows("budget")
LinkInv == Len(work) > 0 /\ Linked /\ Allotted

Unrolls(g) ==
  g = [i \in 1..Len(work) |->
         IF i = 1 THEN [operations |-> 0, budget |-> 0]
         ELSE LET p == work[i].link.policy
              IN [operations |-> g[i - 1].operations + p.roundOperations,
                  budget |-> g[i - 1].budget + p.roundBudget]]

LEMMA AllocatedUnrolls == Allocated = (CHOOSE g : Unrolls(g))[Len(work)]
BY DEF Allocated, Unrolls

\* What fails for some element of an interval fails for a least one.
LEMMA LeastIndex ==
  ASSUME NEW n \in Nat, NEW B \in SUBSET (1..n), B # {}
  PROVE  \E i \in B : \A j \in B : i <= j
<1> DEFINE C == {1..i : i \in B}
<1>0. IsFiniteSet(1..n)
  <2>1. 1 \in Int /\ n \in Int OBVIOUS
  <2> QED BY <2>1, FS_Interval
<1>1. FiniteSubsetsOf(1..n) = SUBSET (1..n) BY <1>0, FS_Subset DEF FiniteSubsetsOf
<1>2. IsWellFoundedOn(StrictSubsetOrdering(1..n), SUBSET (1..n))
  BY <1>0, <1>1, FS_StrictSubsetOrderingWellFounded
<1>3. C \in SUBSET SUBSET (1..n) /\ C # {}
  <2>1. \A i \in 1..n : (1..i) \in SUBSET (1..n) OBVIOUS
  <2>2. C # {} OBVIOUS
  <2> QED BY <2>1, <2>2
<1> HIDE DEF C
<1>4. PICK s \in C : \A t \in C : <<t, s>> \notin StrictSubsetOrdering(1..n) BY <1>2, <1>3, WFMin
<1> USE DEF C
<1>5. PICK i \in B : s = 1..i BY <1>4
<1>6. ASSUME NEW j \in B, ~(i <= j) PROVE FALSE
  <2>1. (1..j) \in C OBVIOUS
  <2>2. i \in 1..i /\ i \notin 1..j /\ (1..j) \subseteq (1..i) /\ (1..i) \subseteq (1..n) BY <1>6
  <2>3. <<1..j, s>> \in StrictSubsetOrdering(1..n) BY <1>5, <2>2 DEF StrictSubsetOrdering
  <2> QED BY <1>4, <2>1, <2>3
<1> QED BY <1>6

LEMMA UnrollUnique ==
  ASSUME Len(work) \in Nat, NEW g, NEW h, Unrolls(g), Unrolls(h)
  PROVE  \A i \in 1..Len(work) : g[i] = h[i]
<1> DEFINE B == {i \in 1..Len(work) : g[i] # h[i]}
<1>1. SUFFICES ASSUME B # {} PROVE FALSE OBVIOUS
<1>2. PICK i \in B : \A j \in B : i <= j
  <2>1. B \in SUBSET (1..Len(work)) OBVIOUS
  <2> HIDE DEF B
  <2> QED BY <1>1, <2>1, LeastIndex
<1>3. /\ g[i] = IF i = 1 THEN [operations |-> 0, budget |-> 0]
                ELSE [operations |-> g[i - 1].operations + work[i].link.policy.roundOperations,
                      budget |-> g[i - 1].budget + work[i].link.policy.roundBudget]
      /\ h[i] = IF i = 1 THEN [operations |-> 0, budget |-> 0]
                ELSE [operations |-> h[i - 1].operations + work[i].link.policy.roundOperations,
                      budget |-> h[i - 1].budget + work[i].link.policy.roundBudget]
  BY <1>2 DEF Unrolls
<1>4. i # 1 => i - 1 \in 1..Len(work) /\ ~(i <= i - 1) BY <1>2
<1>5. i # 1 => g[i - 1] = h[i - 1] BY <1>2, <1>4
<1> QED BY <1>2, <1>3, <1>5

\* The policy of a repair, and the numbers it holds.
LEMMA PolicyTyped ==
  ASSUME LinkInv, NEW i \in 2..Len(work), Len(work) \in Nat
  PROVE  /\ work[i].link.policy = work[2].link.policy /\ work[2].link.policy \in Policies
         /\ work[2].link.policy \in Policy
         /\ \A f \in {"rounds", "operations", "budget", "roundOperations", "roundBudget"} : Allows(f) \in Nat
<1>1. 2 \in 2..Len(work) OBVIOUS
<1>2. work[2].link \in Proposal /\ work[i].link.policy = work[2].link.policy BY <1>1 DEF LinkInv, Linked
<1>3. work[2].link.policy \in Policies BY <1>2 DEF Proposal
<1>4. work[2].link.policy \in Policy BY <1>3, PolicyAssumption
<1> QED BY <1>2, <1>3, <1>4 DEF Allows, Policy

LEMMA AllocatedIsProduct ==
  ASSUME LinkInv, Len(work) \in Nat
  PROVE  Allocated = IF Len(work) = 1 THEN [operations |-> 0, budget |-> 0]
                     ELSE [operations |-> Rounds * Allows("roundOperations"), budget |-> Rounds * Allows("roundBudget")]
<1> DEFINE n == Len(work)
           ro == IF n = 1 THEN 0 ELSE Allows("roundOperations")
           rb == IF n = 1 THEN 0 ELSE Allows("roundBudget")
           g  == [i \in 1..n |-> [operations |-> (i - 1) * ro, budget |-> (i - 1) * rb]]
<1>0. n \in Nat /\ n \in 1..n BY DEF LinkInv
<1>1. ro \in Nat /\ rb \in Nat
  <2>1. n # 1 => 2 \in 2..n BY <1>0
  <2> QED BY <2>1, PolicyTyped
<1>2. ASSUME NEW i \in 1..n, i # 1
      PROVE  work[i].link.policy.roundOperations = ro /\ work[i].link.policy.roundBudget = rb /\ i - 1 \in 1..n
  <2>1. i \in 2..n /\ n # 1 /\ i - 1 \in 1..n BY <1>0, <1>2
  <2> QED BY <2>1, PolicyTyped DEF Allows
<1>3. \A c \in Nat, i \in Nat : (i - 1) * c = ((i - 1) - 1) * c + c /\ (1 - 1) * c = 0 OBVIOUS
<1> HIDE DEF ro, rb
<1>4. ASSUME NEW i \in 1..n
      PROVE  [operations |-> (i - 1) * ro, budget |-> (i - 1) * rb]
             = IF i = 1 THEN [operations |-> 0, budget |-> 0]
               ELSE [operations |-> g[i - 1].operations + work[i].link.policy.roundOperations,
                     budget |-> g[i - 1].budget + work[i].link.policy.roundBudget]
  <2>1. CASE i = 1 BY <2>1, <1>1, <1>3
  <2>2. CASE i # 1
    <3>1. g[i - 1] = [operations |-> ((i - 1) - 1) * ro, budget |-> ((i - 1) - 1) * rb] BY <2>2, <1>2
    <3>2. (i - 1) * ro = ((i - 1) - 1) * ro + ro /\ (i - 1) * rb = ((i - 1) - 1) * rb + rb BY <1>1, <1>3
    <3> HIDE DEF g
    <3> QED BY <2>2, <3>1, <3>2, <1>2
  <2> QED BY <2>1, <2>2
<1>5. Unrolls(g)
  <2> SUFFICES g = [i \in 1..n |-> IF i = 1 THEN [operations |-> 0, budget |-> 0]
                      ELSE [operations |-> g[i - 1].operations + work[i].link.policy.roundOperations,
                            budget |-> g[i - 1].budget + work[i].link.policy.roundBudget]]
    BY DEF Unrolls
  <2> QED BY <1>4
<1>6. Unrolls(CHOOSE h : Unrolls(h)) BY <1>5
<1>7. Allocated = g[n]
  <2> HIDE DEF g
  <2> QED BY <1>0, <1>5, <1>6, UnrollUnique, AllocatedUnrolls
<1>8. g[n] = [operations |-> (n - 1) * ro, budget |-> (n - 1) * rb] BY <1>0
<1> HIDE DEF g
<1>9. CASE n = 1 BY <1>1, <1>3, <1>7, <1>8, <1>9
<1>10. CASE n # 1
  <2>1. ro = Allows("roundOperations") /\ rb = Allows("roundBudget") BY <1>10 DEF ro, rb
  <2> QED BY <2>1, <1>7, <1>8, <1>10 DEF Rounds
<1> QED BY <1>9, <1>10
\* Every step of the chain but an approval leaves its links alone.
LinksStay ==
  /\ Len(work') = Len(work) /\ work' \in Seq(Candidate)
  /\ \A i \in 1..Len(work) : work'[i].link = work[i].link

LEMMA LinkStays ==
  ASSUME ChainInv, NEW i \in 1..Len(work), NEW row, work' = [work EXCEPT ![i] = row], row.link = work[i].link,
         ChainInv'
  PROVE  LinksStay
BY DEF LinksStay, ChainInv

LEMMA RepairLinks ==
  ASSUME ChainInv, ChainInv', RepairNext
  PROVE  LinksStay \/ \E p \in proposals : ApproveRepair(p)
<1>0. DOMAIN work = 1..Len(work) /\ \A i \in 1..Len(work) : work[i] \in Candidate BY DEF ChainInv
<1>1. ASSUME NEW i \in 1..Len(work), NEW status, NEW public, Observe(i, status, public) PROVE LinksStay
  <2> DEFINE row == [work[i] EXCEPT !.observed = Append(work[i].observed, status), !.public = work[i].public \/ public,
                !.ciAfter = work[i].ciAfter \/ (Len(work[i].observed) = 2 /\ status = "PASS" /\ Reviewed(i))]
  <2>1. work' = [work EXCEPT ![i] = row] BY <1>1 DEF Observe
  <2>2. row.link = work[i].link BY <1>0 DEF Candidate
  <2> HIDE DEF row
  <2> QED BY <2>1, <2>2, LinkStays
<1>2. ASSUME NEW i \in 1..Len(work), NEW verdict, RecordReview(i, verdict) PROVE LinksStay
  <2> DEFINE row == [work[i] EXCEPT !.reviews = Append(work[i].reviews, verdict), !.ciAfter = FALSE]
  <2>1. work' = [work EXCEPT ![i] = row] BY <1>2 DEF RecordReview
  <2>2. row.link = work[i].link BY <1>0 DEF Candidate
  <2> HIDE DEF row
  <2> QED BY <2>1, <2>2, LinkStays
<1>3. ASSUME NEW i \in 1..Len(work), ClaimRepair(i) PROVE LinksStay
  <2> DEFINE row == [work[i] EXCEPT !.state = "queued"]
  <2>1. work' = [work EXCEPT ![i] = row] BY <1>3 DEF ClaimRepair
  <2>2. row.link = work[i].link BY <1>0 DEF Candidate
  <2> HIDE DEF row
  <2> QED BY <2>1, <2>2, LinkStays
<1>4. ASSUME NEW i \in 1..Len(work), RepairEnds(i) PROVE LinksStay
  <2> PICK s \in {"ready", "failed"} :
        work' = [work EXCEPT ![i] = [work[i] EXCEPT !.state = s, !.attested = (s = "ready")]]
    BY <1>4 DEF RepairEnds
  <2> DEFINE row == [work[i] EXCEPT !.state = s, !.attested = (s = "ready")]
  <2>1. work' = [work EXCEPT ![i] = row] OBVIOUS
  <2>2. row.link = work[i].link BY <1>0 DEF Candidate
  <2> HIDE DEF row
  <2> QED BY <2>1, <2>2, LinkStays
<1>5. ASSUME work' = work PROVE LinksStay BY <1>5 DEF LinksStay, ChainInv
<1>6. \A i \in 1..Len(work), p \in Policies : Propose(i, p) => LinksStay BY <1>5 DEF Propose
<1>7. Expire => LinksStay BY <1>5 DEF Expire
<1> QED BY <1>0, <1>1, <1>2, <1>3, <1>4, <1>6, <1>7 DEF RepairNext

LEMMA LinksKept == ASSUME ChainInv, LinkInv, LinksStay PROVE LinkInv'
<1>1. Len(work) \in Nat BY DEF ChainInv
<1>2. Len(work) > 1 => 2 \in 1..Len(work) BY <1>1
<1>3. Len(work) > 1 => \A f : Allows(f)' = Allows(f) BY <1>2 DEF Allows, LinksStay
<1>4. Linked'
  <2> SUFFICES ASSUME NEW i \in 2..Len(work)
               PROVE  /\ work'[i].link \in Proposal /\ work'[i].link.parent = i - 1
                      /\ work'[i].link.policy = work'[2].link.policy
    BY DEF Linked, LinksStay
  <2>1. i \in 1..Len(work) /\ Len(work) > 1 BY <1>1
  <2> QED BY <1>2, <2>1 DEF LinkInv, Linked, LinksStay
<1>5. Allotted' BY <1>3 DEF LinkInv, Allotted, LinksStay, Rounds
<1> QED BY <1>4, <1>5 DEF LinkInv, LinksStay

\* An approval adds one repair, of the tip, under the policy of the first, while its rounds,
\* operations and budget last.
LEMMA ApprovalLinks ==
  ASSUME ChainInv, LinkInv, NEW p \in proposals, ApproveRepair(p)
  PROVE  LinkInv'
<1> DEFINE n   == Len(work)
           row == NewWork("awaiting_approval", FALSE, p)
           c   == p.policy
<1>0. n \in Nat /\ n > 0 /\ (n = 1 \/ n > 1)
  <2>1. n \in Nat /\ n > 0 BY DEF ChainInv, LinkInv
  <2>2. \A k \in Nat : k > 0 => k = 1 \/ k > 1 OBVIOUS
  <2> HIDE DEF n
  <2> QED BY <2>1, <2>2
<1>1. /\ work' = Append(work, row) /\ p \in Proposal /\ p.parent = n
      /\ (n > 1 => work[2].link.policy = c) /\ n - 1 < c.rounds
      /\ Allocated.operations + c.roundOperations <= c.operations
      /\ Allocated.budget + c.roundBudget <= c.budget
  BY <1>0 DEF ApproveRepair, Proposable, Tip, Rounds, ChainInv
<1>2. row.link = p BY DEF NewWork
<1> HIDE DEF row
<1>3. Len(work') = n + 1 /\ work'[n + 1] = row /\ \A i \in 1..n : work'[i] = work[i] BY <1>0, <1>1 DEF ChainInv
<1>4. /\ c \in Policies /\ c.rounds \in Nat /\ c.operations \in Nat /\ c.budget \in Nat
      /\ c.roundOperations \in Nat /\ c.roundBudget \in Nat
  <2>1. c \in Policies BY <1>1 DEF Proposal
  <2>2. c \in Policy BY <2>1, PolicyAssumption
  <2> QED BY <2>1, <2>2 DEF Policy
<1>5. work'[2].link.policy = c
  <2>1. CASE n = 1 BY <2>1, <1>2, <1>3
  <2>2. CASE n > 1
    <3>1. 2 \in 1..n BY <2>2, <1>0
    <3> QED BY <3>1, <2>2, <1>1, <1>3
  <2> QED BY <1>0, <2>1, <2>2
<1>6. Allocated.operations = (n - 1) * c.roundOperations /\ Allocated.budget = (n - 1) * c.roundBudget
  <2>1. CASE n = 1
    <3>1. Allocated = [operations |-> 0, budget |-> 0] BY <2>1, <1>0, AllocatedIsProduct
    <3>2. \A k \in Nat : (1 - 1) * k = 0 OBVIOUS
    <3> QED BY <2>1, <3>1, <3>2, <1>4
  <2>2. CASE n > 1
    <3>1. Allocated = [operations |-> Rounds * Allows("roundOperations"), budget |-> Rounds * Allows("roundBudget")]
      <4>1. Len(work) \in Nat /\ Len(work) # 1
        <5>1. \A k \in Nat : k > 1 => k # 1 OBVIOUS
        <5> QED BY <2>2, <1>0, <5>1
      <4> QED BY <4>1, AllocatedIsProduct
    <3> QED BY <2>2, <3>1, <1>1 DEF Allows, Rounds
  <2> QED BY <1>0, <2>1, <2>2
<1> HIDE DEF c
<1>7. \A k \in Nat : (n - 1) * k + k = n * k BY <1>0
<1>8. n * c.roundOperations <= c.operations /\ n * c.roundBudget <= c.budget BY <1>1, <1>4, <1>6, <1>7
<1>9. n <= c.rounds BY <1>0, <1>1, <1>4
<1>10. Allotted'
  <2>1. Rounds' = n BY <1>0, <1>3 DEF Rounds
  <2>2. \A f : Allows(f)' = c[f] BY <1>5 DEF Allows
  <2> QED BY <2>1, <2>2, <1>8, <1>9 DEF Allotted
<1>11. Linked'
  <2> SUFFICES ASSUME NEW i \in 2..(n + 1)
               PROVE  work'[i].link \in Proposal /\ work'[i].link.parent = i - 1 /\ work'[i].link.policy = c
    BY <1>3, <1>5 DEF Linked
  <2>1. CASE i = n + 1
    <3>1. work'[i].link = p /\ i - 1 = n BY <2>1, <1>0, <1>2, <1>3
    <3> QED BY <3>1, <1>1 DEF c
  <2>2. CASE i # n + 1
    <3>1. i \in 2..n /\ i \in 1..n /\ n > 1 BY <2>2, <1>0
    <3> QED BY <3>1, <1>1, <1>3 DEF LinkInv, Linked
  <2> QED BY <2>1, <2>2
<1>12. Len(work') > 0 BY <1>0, <1>3
<1> QED BY <1>10, <1>11, <1>12 DEF LinkInv

\* The chain is as ChainSound says.
LEMMA LinksSound == ASSUME ChainInv, LinkInv PROVE ChainSound
<1>0. Len(work) \in Nat /\ Len(work) > 0 /\ DOMAIN work = 1..Len(work) BY DEF ChainInv, LinkInv
<1>1. ASSUME NEW i \in DOMAIN work, IsRepair(i)
      PROVE  work[i].link.parent = i - 1 /\ Failed(i - 1) /\ work[i].link.policy = work[2].link.policy
  <2>1. i \in 2..Len(work) /\ i - 1 \in 1..(Len(work) - 1) BY <1>0, <1>1 DEF IsRepair
  <2> QED BY <2>1 DEF LinkInv, Linked, ChainInv, ChainFailed
<1>2. ASSUME Rounds > 0
      PROVE  LET p == work[2].link.policy
             IN Rounds <= p.rounds /\ Allocated.operations <= p.operations /\ Allocated.budget <= p.budget
  <2>1. Len(work) > 1 BY <1>0, <1>2 DEF Rounds
  <2>2. Allocated = [operations |-> Rounds * Allows("roundOperations"), budget |-> Rounds * Allows("roundBudget")]
    BY <1>0, <2>1, AllocatedIsProduct
  <2> QED BY <2>1, <2>2 DEF LinkInv, Allotted, Allows
<1> QED BY <1>1, <1>2 DEF ChainSound
-----------------------------------------------------------------------------
(* Where everything is, and who carries what is dispatched *)

PlacesInv ==
  /\ expired \in BOOLEAN /\ restarts \in 0..MaxRestarts /\ revision \in 0..MaxRevision
  /\ \A q \in 1..Len(requests) : requests[q].revision \in 0..MaxRevision
  /\ intact \subseteq 1..Len(work)
  /\ remote.branch \subseteq 1..Len(work) /\ remote.draft \subseteq remote.branch
  /\ inflight \subseteq (Nat \X {"push", "create"})
Attended  == \A q \in 1..Len(requests) : requests[q].action = "dispatched" => \E h \in Handlers : Carries(h, q)
SoundInv  == LinkInv /\ PlacesInv /\ Attended

LEMMA SoundInvSound == ASSUME PublicationInv, SoundInv PROVE PublicationSound
<1>0. /\ Len(work) \in Nat /\ DOMAIN work = 1..Len(work) /\ Len(requests) \in Nat /\ DOMAIN requests = 1..Len(requests)
      /\ Len(requests) <= MaxRequests /\ 1..Len(requests) \subseteq 1..MaxRequests
  BY PublicationBounds DEF PublicationInv, ChainInv, RowsTyped
<1>1. ChainSound BY LinksSound DEF PublicationInv, SoundInv
<1>2. RepairTypeOK BY DEF RepairTypeOK, PublicationInv, ChainInv, SoundInv, PlacesInv
<1>3. requests \in Seq(Request)
  <2>1. \A q \in 1..Len(requests) : requests[q] \in RequestRow /\ requests[q].work \in Nat \ {0}
                                    /\ requests[q].revision \in 0..MaxRevision
    BY <1>0 DEF PublicationInv, RowsTyped, SoundInv, PlacesInv
  <2>2. \A q \in 1..Len(requests) : requests[q] \in Request BY <2>1 DEF RequestRow, Request
  <2>3. requests \in [1..Len(requests) -> Request] BY <2>2 DEF PublicationInv, RowsTyped
  <2> QED BY <1>0, <2>3
<1>4. calls \in [Handlers -> Call \cup {NoCall}]
  <2>1. ASSUME NEW h \in Handlers, calls[h] # NoCall PROVE calls[h] \in Call
    <3>1. calls[h] \in CallRow /\ calls[h].request \in 1..MaxRequests
      BY <1>0, <2>1 DEF PublicationInv, RowsTyped, CallInv, Of
    <3> QED BY <3>1 DEF CallRow, Call
  <2>2. calls \in [Handlers -> CallRow \cup {NoCall}] BY DEF PublicationInv, RowsTyped
  <2> QED BY <2>1, <2>2
<1>5. inflight \subseteq (1..MaxRequests) \X {"push", "create"}
  <2>1. \A e \in inflight : e[1] \in 1..MaxRequests BY <1>0 DEF PublicationInv, SentInv
  <2> QED BY <2>1 DEF SoundInv, PlacesInv
<1>6. \A q \in DOMAIN requests : requests[q].action = "dispatched" =>
        \E h \in Handlers : calls[h] # NoCall /\ Of(h) = q /\ ~calls[h].reconcile
  BY <1>0 DEF SoundInv, Attended, Carries
<1>7. ASSUME NEW h \in Handlers, calls[h] # NoCall
      PROVE  requests[Of(h)].action \in IF calls[h].reconcile THEN {"unknown", "succeeded"} ELSE {"dispatched"}
  <2>1. Of(h) \in 1..Len(requests) BY <1>7 DEF PublicationInv, CallInv
  <2>2. CASE calls[h].reconcile BY <1>7, <2>1, <2>2 DEF PublicationInv, CallInv, LooksUp
  <2>3. CASE ~calls[h].reconcile BY <1>7, <2>1, <2>3 DEF PublicationInv, CallInv, Carries
  <2> QED BY <2>2, <2>3
<1>8. PublicationTypeOK
  BY <1>0, <1>2, <1>3, <1>4, <1>5, <1>6, <1>7 DEF PublicationTypeOK, PublicationInv, RowsTyped, SoundInv, PlacesInv
<1> QED BY <1>1, <1>8 DEF PublicationSound

\* Attended: a call ends with an outcome of its own request, and no other call loses its request.
LEMMA RecordAttends ==
  ASSUME PublicationInv, Attended, NEW h \in Handlers, calls[h] # NoCall,
         NEW outcome \in {"succeeded", "unknown", "failed"}, Record(h, outcome)
  PROVE  Attended' /\ Len(requests') = Len(requests)
         /\ \A q \in 1..Len(requests) : requests'[q].revision = requests[q].revision
<1> DEFINE end == IF requests[Of(h)].action = "succeeded" THEN "succeeded" ELSE outcome
           row == [requests[Of(h)] EXCEPT !.action = end]
<1>1. Of(h) \in 1..Len(requests) /\ requests[Of(h)] \in RequestRow BY DEF PublicationInv, CallInv, RowsTyped
<1>2. requests' = [requests EXCEPT ![Of(h)] = row] /\ calls' = [calls EXCEPT ![h] = NoCall] BY DEF Record, Answer
<1>3. end \in {"succeeded", "unknown", "failed"} OBVIOUS
<1> HIDE DEF end
<1>4. row \in RequestRow /\ row.action = end /\ row.revision = requests[Of(h)].revision BY <1>1, <1>3 DEF RequestRow
<1> HIDE DEF row
<1>5. Len(requests') = Len(requests) /\ \A k \in 1..Len(requests) : requests'[k] = IF k = Of(h) THEN row ELSE requests[k]
  BY <1>1, <1>2, <1>4, RowWritten DEF PublicationInv
<1>6. ASSUME NEW q \in 1..Len(requests), requests'[q].action = "dispatched" PROVE \E k \in Handlers : Carries(k, q)'
  <2>1. q # Of(h) /\ requests[q].action = "dispatched" BY <1>3, <1>4, <1>5, <1>6
  <2>2. PICK k \in Handlers : Carries(k, q) BY <2>1 DEF Attended
  <2>3. k # h /\ calls'[k] = calls[k] BY <1>2, <2>1, <2>2 DEF Carries
  <2> QED BY <2>2, <2>3 DEF Carries, Of
<1> QED BY <1>4, <1>5, <1>6 DEF Attended

LEMMA SendAttends ==
  ASSUME PublicationInv, Attended, NEW h \in Handlers, calls[h] # NoCall, NEW effect \in {"push", "create"},
         Send(h, effect)
  PROVE  Attended' /\ Len(requests') = Len(requests) /\ Of(h) \in Nat
         /\ \A q \in 1..Len(requests) : requests'[q].revision = requests[q].revision
<1> DEFINE row  == [requests[Of(h)] EXCEPT !.sent = TRUE]
           call == [calls[h] EXCEPT !.kind = effect]
<1>1. Of(h) \in 1..Len(requests) /\ requests[Of(h)] \in RequestRow /\ calls[h] \in CallRow
  BY DEF PublicationInv, CallInv, RowsTyped
<1>2. requests' = [requests EXCEPT ![Of(h)] = row] /\ calls' = [calls EXCEPT ![h] = call] BY DEF Send, Become
<1>3. row \in RequestRow /\ row.action = requests[Of(h)].action /\ row.revision = requests[Of(h)].revision
  BY <1>1 DEF RequestRow
<1>4. call.request = calls[h].request /\ call.reconcile = calls[h].reconcile /\ call # NoCall
  <2>1. calls[h].request \in 1..MaxRequests BY <1>1, PublicationBounds DEF Of, PublicationInv, RowsTyped
  <2>2. call \in Call BY <1>1, <2>1 DEF CallRow, Call
  <2>3. call # NoCall BY <2>2, CallSentinel
  <2> QED BY <1>1, <2>3 DEF CallRow
<1> HIDE DEF row, call
<1>5. Len(requests') = Len(requests) /\ \A k \in 1..Len(requests) : requests'[k] = IF k = Of(h) THEN row ELSE requests[k]
  BY <1>1, <1>2, <1>3, RowWritten DEF PublicationInv
<1>6. ASSUME NEW q \in 1..Len(requests), requests'[q].action = "dispatched" PROVE \E k \in Handlers : Carries(k, q)'
  <2>1. requests[q].action = "dispatched" BY <1>3, <1>5, <1>6
  <2>2. PICK k \in Handlers : Carries(k, q) BY <2>1 DEF Attended
  <2>3. calls'[k] = IF k = h THEN call ELSE calls[k] BY <1>2 DEF PublicationInv, RowsTyped
  <2>4. calls'[k] # NoCall /\ calls'[k].request = calls[k].request /\ calls'[k].reconcile = calls[k].reconcile
    BY <1>4, <2>2, <2>3 DEF Carries
  <2> QED BY <2>2, <2>4 DEF Carries, Of
<1> QED BY <1>1, <1>3, <1>5, <1>6 DEF Attended

LEMMA BeginAttends ==
  ASSUME PublicationInv, Attended, NEW h \in Handlers, NEW q \in 1..Len(requests), NEW reconcile \in BOOLEAN,
         Begin(h, "inspect", q, reconcile),
         requests' = IF reconcile THEN requests ELSE [requests EXCEPT ![q].action = "dispatched"]
  PROVE  Attended' /\ Len(requests') = Len(requests)
         /\ \A r \in 1..Len(requests) : requests'[r].revision = requests[r].revision
<1> DEFINE call == [kind |-> "inspect", request |-> q, reconcile |-> reconcile]
<1>1. calls[h] = NoCall /\ calls' = [calls EXCEPT ![h] = call] BY DEF Begin
<1>2. q \in 1..MaxRequests BY PublicationBounds DEF PublicationInv, RowsTyped
<1>3. call \in Call BY <1>2 DEF Call
<1>4. call # NoCall /\ call.request = q /\ call.reconcile = reconcile BY <1>3, CallSentinel
<1> HIDE DEF call
<1>5. /\ Len(requests') = Len(requests)
      /\ \A r \in 1..Len(requests) : requests'[r].revision = requests[r].revision
                                     /\ (r # q => requests'[r].action = requests[r].action)
  <2>1. CASE reconcile BY <2>1
  <2>2. CASE ~reconcile
    <3> DEFINE row == [requests[q] EXCEPT !.action = "dispatched"]
    <3>1. requests[q] \in RequestRow /\ requests' = [requests EXCEPT ![q] = row] BY <2>2 DEF PublicationInv, RowsTyped
    <3>2. row \in RequestRow /\ row.revision = requests[q].revision BY <3>1 DEF RequestRow
    <3> HIDE DEF row
    <3> QED BY <3>1, <3>2, RowWritten DEF PublicationInv
  <2> QED BY <2>1, <2>2
<1>6. ASSUME NEW r \in 1..Len(requests), requests'[r].action = "dispatched" PROVE \E k \in Handlers : Carries(k, r)'
  <2>1. CASE r = q /\ ~reconcile
    <3>1. calls'[h] = call BY <1>1 DEF PublicationInv, RowsTyped
    <3> QED BY <2>1, <3>1, <1>4 DEF Carries, Of
  <2>2. CASE r # q \/ reconcile
    <3>1. requests[r].action = "dispatched" BY <2>2, <1>5, <1>6
    <3>2. PICK k \in Handlers : Carries(k, r) BY <3>1 DEF Attended
    <3>3. k # h /\ calls'[k] = calls[k] BY <1>1, <3>2 DEF Carries
    <3> QED BY <3>2, <3>3 DEF Carries, Of
  <2> QED BY <2>1, <2>2
<1> QED BY <1>5, <1>6 DEF Attended

LEMMA ApprovalAttends ==
  ASSUME PublicationInv, Attended, NEW q \in 1..Len(requests), NEW approval \in {"valid", "expired"},
         requests' = [requests EXCEPT ![q].approval = approval], calls' = calls
  PROVE  Attended' /\ Len(requests') = Len(requests)
         /\ \A r \in 1..Len(requests) : requests'[r].revision = requests[r].revision
<1> DEFINE row == [requests[q] EXCEPT !.approval = approval]
<1>1. requests[q] \in RequestRow /\ requests' = [requests EXCEPT ![q] = row] BY DEF PublicationInv, RowsTyped
<1>2. row \in RequestRow /\ row.revision = requests[q].revision /\ row.action = requests[q].action BY <1>1 DEF RequestRow
<1> HIDE DEF row
<1>3. Len(requests') = Len(requests) /\ \A k \in 1..Len(requests) : requests'[k] = IF k = q THEN row ELSE requests[k]
  BY <1>1, <1>2, RowWritten DEF PublicationInv
<1> QED BY <1>2, <1>3 DEF Attended, Carries, Of

LEMMA RequestAttends ==
  ASSUME PublicationInv, Attended, NEW i \in DOMAIN work, RequestDraft(i)
  PROVE  Attended' /\ \A r \in 1..Len(requests') :
           IF r \in 1..Len(requests) THEN requests'[r].revision = requests[r].revision ELSE requests'[r].revision = revision
<1> DEFINE row == [work |-> i, revision |-> revision, approval |-> "none", action |-> "none", sent |-> FALSE]
<1>1. requests' = Append(requests, row) /\ calls' = calls BY DEF RequestDraft, hostVars
<1>2. row.revision = revision /\ row.action = "none" OBVIOUS
<1> HIDE DEF row
<1>3. requests \in Seq(RequestRow) /\ Len(requests) \in Nat BY DEF PublicationInv, RowsTyped
<1>4. /\ Len(requests') = Len(requests) + 1 /\ requests'[Len(requests) + 1] = row
      /\ \A k \in 1..Len(requests) : requests'[k] = requests[k]
  BY <1>1, <1>3
<1>5. \A k \in 1..Len(requests') : k \notin 1..Len(requests) => k = Len(requests) + 1 BY <1>3, <1>4
<1>6. ASSUME NEW r \in 1..Len(requests'), requests'[r].action = "dispatched" PROVE \E k \in Handlers : Carries(k, r)'
  <2>1. r \in 1..Len(requests) /\ requests[r].action = "dispatched" BY <1>2, <1>4, <1>5, <1>6
  <2> QED BY <2>1, <1>1 DEF Attended, Carries, Of
<1> QED BY <1>2, <1>4, <1>5, <1>6 DEF Attended

LEMMA SoundInvInit == PublicationInit => SoundInv
<1> SUFFICES ASSUME PublicationInit PROVE SoundInv OBVIOUS
<1>1. Len(work) = 1 BY DEF PublicationInit, RepairInit
<1>2. LinkInv BY <1>1 DEF LinkInv, Linked, Allotted
<1>3. requests = <<>> /\ expired = FALSE /\ revision = 0 /\ intact = {1} /\ inflight = {} /\ restarts = 0
      /\ remote = [branch |-> {}, draft |-> {}]
  BY DEF PublicationInit, RepairInit
<1>4. 0 \in 0..MaxRestarts /\ 0 \in 0..MaxRevision BY PublicationBounds
<1>5. Len(requests) = 0 /\ \A q : q \notin 1..Len(requests) BY <1>3
<1>6. PlacesInv
  <2>1. {1} \subseteq 1..Len(work) BY <1>1
  <2>2. remote.branch = {} /\ remote.draft = {} BY <1>3
  <2> QED BY <1>3, <1>4, <1>5, <2>1, <2>2 DEF PlacesInv
<1>7. Attended BY <1>5 DEF Attended
<1> QED BY <1>2, <1>6, <1>7 DEF SoundInv

\* Steps that leave the chain and where everything is alone.
LEMMA PlacesKept ==
  ASSUME SoundInv, Attended', UNCHANGED <<repairVars, revision, intact, remote, restarts>>,
         \A q \in 1..Len(requests') : requests'[q].revision \in 0..MaxRevision,
         inflight' \subseteq (Nat \X {"push", "create"})
  PROVE  SoundInv'
<1>1. work' = work /\ expired' = expired BY DEF repairVars
<1>2. LinkInv' BY <1>1 DEF SoundInv, LinkInv, Linked, Allotted, Rounds, Allows
<1>3. PlacesInv' BY <1>1 DEF SoundInv, PlacesInv
<1> QED BY <1>2, <1>3 DEF SoundInv

LEMMA SoundInvNext ==
  PublicationInv /\ PublicationInv' /\ SoundInv /\ [PublicationNext]_publicationVars => SoundInv'
<1> SUFFICES ASSUME PublicationInv, PublicationInv', SoundInv, [PublicationNext]_publicationVars PROVE SoundInv'
  OBVIOUS
<1>0. /\ DOMAIN requests = 1..Len(requests) /\ Len(requests) \in Nat /\ DOMAIN work = 1..Len(work) /\ Len(work) \in Nat
      /\ ChainInv /\ ChainInv' /\ Attended /\ PlacesInv /\ LinkInv
      /\ inflight \subseteq (Nat \X {"push", "create"})
      /\ \A q \in 1..Len(requests) : requests[q].revision \in 0..MaxRevision
  BY DEF PublicationInv, ChainInv, RowsTyped, SoundInv, PlacesInv
<1>a. requests' = requests /\ calls' = calls => Attended' BY <1>0 DEF Attended, Carries, Of
<1>1. CASE UNCHANGED publicationVars
  <2>1. UNCHANGED <<repairVars, requests, revision, intact, calls, remote, inflight, restarts>>
    BY <1>1 DEF publicationVars, hostVars
  <2> QED BY <2>1, <1>0, <1>a, PlacesKept
<1>2. ASSUME NEW i \in DOMAIN work, RequestDraft(i) PROVE SoundInv'
  <2>1. Attended' /\ \A r \in 1..Len(requests') : requests'[r].revision \in 0..MaxRevision
    <3>1. revision \in 0..MaxRevision BY <1>0 DEF PlacesInv
    <3> QED BY <3>1, <1>0, <1>2, RequestAttends
  <2>2. UNCHANGED <<repairVars, revision, intact, remote, inflight, restarts>> BY <1>2 DEF RequestDraft, hostVars
  <2> QED BY <2>1, <2>2, <1>0, PlacesKept
<1>3. ASSUME NEW i \in DOMAIN work, Disturb(i) PROVE SoundInv'
  <2>1. UNCHANGED <<work, expired, requests, revision, calls, remote, inflight, restarts>> /\ intact' \subseteq intact
    BY <1>3 DEF Disturb, repairVars
  <2>2. LinkInv' BY <1>0, <2>1 DEF LinkInv, Linked, Allotted, Rounds, Allows
  <2>3. PlacesInv' BY <1>0, <2>1 DEF PlacesInv
  <2> QED BY <1>a, <2>1, <2>2, <2>3 DEF SoundInv
<1>4. ASSUME NEW q \in DOMAIN requests, ApproveDraft(q) \/ ApprovalExpires(q) PROVE SoundInv'
  <2>1. /\ \E approval \in {"valid", "expired"} : requests' = [requests EXCEPT ![q].approval = approval]
        /\ UNCHANGED <<repairVars, revision, intact, calls, remote, inflight, restarts>>
    BY <1>4 DEF ApproveDraft, ApprovalExpires, hostVars
  <2>2. Attended' /\ \A r \in 1..Len(requests') : requests'[r].revision \in 0..MaxRevision
    BY <1>0, <2>1, ApprovalAttends
  <2> QED BY <2>1, <2>2, <1>0, PlacesKept
<1>5. ASSUME NEW q \in DOMAIN requests, NEW h \in Handlers, Dispatch(h, q) \/ Reconcile(h, q) PROVE SoundInv'
  <2>1. /\ \E reconcile \in BOOLEAN : /\ Begin(h, "inspect", q, reconcile)
             /\ requests' = IF reconcile THEN requests ELSE [requests EXCEPT ![q].action = "dispatched"]
        /\ UNCHANGED <<repairVars, revision, intact, remote, inflight, restarts>>
    BY <1>5 DEF Dispatch, Claim, Reconcile
  <2>2. Attended' /\ \A r \in 1..Len(requests') : requests'[r].revision \in 0..MaxRevision
    BY <1>0, <2>1, BeginAttends
  <2> QED BY <2>1, <2>2, <1>0, PlacesKept
<1>6. CASE SetPaused
  <2>1. UNCHANGED <<work, expired, requests, intact, calls, remote, inflight, restarts>> /\ revision' \in 0..MaxRevision
    <3>1. revision \in 0..MaxRevision /\ revision < MaxRevision /\ revision' = revision + 1
      BY <1>0, <1>6 DEF SetPaused, PlacesInv
    <3>2. revision' \in 0..MaxRevision BY <3>1, PublicationBounds
    <3> QED BY <3>2, <1>6 DEF SetPaused, repairVars
  <2>2. LinkInv' BY <1>0, <2>1 DEF LinkInv, Linked, Allotted, Rounds, Allows
  <2>3. PlacesInv' BY <1>0, <2>1 DEF PlacesInv
  <2> QED BY <1>a, <2>1, <2>2, <2>3 DEF SoundInv
<1>7. ASSUME NEW h \in Handlers, Adapter(h) PROVE SoundInv'
  <2>1. ASSUME NEW outcome \in {"succeeded", "unknown", "failed"}, calls[h] # NoCall, Record(h, outcome) PROVE SoundInv'
    <3>1. Attended' /\ \A r \in 1..Len(requests') : requests'[r].revision \in 0..MaxRevision
      BY <1>0, <2>1, RecordAttends
    <3>2. UNCHANGED <<repairVars, revision, intact, remote, inflight, restarts>> BY <2>1 DEF Record
    <3> QED BY <3>1, <3>2, <1>0, PlacesKept
  <2>2. ASSUME NEW effect \in {"push", "create"}, calls[h] # NoCall, Send(h, effect) PROVE SoundInv'
    <3>1. Attended' /\ Of(h) \in Nat /\ \A r \in 1..Len(requests') : requests'[r].revision \in 0..MaxRevision
      BY <1>0, <2>2, SendAttends
    <3>2. UNCHANGED <<repairVars, revision, intact, remote, restarts>> /\ inflight' = inflight \cup {<<Of(h), effect>>}
      BY <2>2 DEF Send
    <3>3. inflight' \subseteq (Nat \X {"push", "create"}) BY <1>0, <3>1, <3>2
    <3> QED BY <3>1, <3>2, <3>3, <1>0, PlacesKept
  <2>3. CASE InspectFails(h) BY <2>1, <2>3 DEF InspectFails, Calling
  <2>4. CASE NotProven(h) BY <2>1, <2>4 DEF NotProven, Calling
  <2>5. CASE FoundDraft(h) BY <2>1, <2>5 DEF FoundDraft
  <2>6. CASE Push(h) BY <2>2, <2>6 DEF Push, Calling
  <2>7. CASE Create(h) BY <2>2, <2>7 DEF Create, Calling
  <2>8. CASE Unconfirmed(h) BY <2>1, <2>8 DEF Unconfirmed, Calling
  <2> QED BY <1>7, <2>3, <2>4, <2>5, <2>6, <2>7, <2>8 DEF Adapter
<1>8. CASE RepairStep
  <2>1. RepairNext /\ UNCHANGED <<requests, revision, calls, remote, inflight, restarts>>
        /\ intact' = intact \cup (DOMAIN work' \ DOMAIN work)
    BY <1>8 DEF RepairStep
  <2>2. LinkInv'
    <3>1. CASE LinksStay BY <3>1, <1>0, LinksKept
    <3>2. CASE \E p \in proposals : ApproveRepair(p) BY <3>2, <1>0, ApprovalLinks
    <3> QED BY <3>1, <3>2, <2>1, <1>0, RepairLinks
  <2>3. Len(work) <= Len(work') /\ Len(work') \in Nat BY <1>0, <2>1, RepairKeepsChain
  <2>4. DOMAIN work' = 1..Len(work') /\ 1..Len(work) \subseteq 1..Len(work') BY <1>0, <2>3 DEF ChainInv
  <2>5. expired' \in BOOLEAN
    BY <1>0, <2>1 DEF RepairNext, Observe, RecordReview, Propose, ClaimRepair, RepairEnds, ApproveRepair, Expire, PlacesInv
  <2>6. PlacesInv' BY <1>0, <2>1, <2>4, <2>5 DEF PlacesInv
  <2> QED BY <1>a, <2>1, <2>2, <2>6 DEF SoundInv
<1>9. CASE Restart
  <2>1. /\ UNCHANGED <<work, proposals, expired, revision, intact, remote, inflight>> /\ restarts' \in 0..MaxRestarts
        /\ requests' = [q \in 1..Len(requests) |-> IF requests[q].action = "dispatched"
                          THEN [requests[q] EXCEPT !.action = "unknown"] ELSE requests[q]]
    <3>1. restarts \in 0..MaxRestarts /\ restarts < MaxRestarts /\ restarts' = restarts + 1
      BY <1>0, <1>9 DEF Restart, PlacesInv
    <3>2. restarts' \in 0..MaxRestarts BY <3>1, PublicationBounds
    <3> QED BY <3>2, <1>0, <1>9 DEF Restart
  <2>2. \A q \in 1..Len(requests) : requests[q] \in RequestRow BY DEF PublicationInv, RowsTyped
  <2>3. \A q \in 1..Len(requests) : requests'[q].revision = requests[q].revision /\ requests'[q].action # "dispatched"
    BY <2>1, <2>2 DEF RequestRow
  <2>4. Len(requests') = Len(requests) BY <1>0, <2>1 DEF PublicationInv, RowsTyped
  <2>5. Attended' BY <2>3, <2>4 DEF Attended
  <2>6. LinkInv' BY <1>0, <2>1 DEF LinkInv, Linked, Allotted, Rounds, Allows
  <2>7. PlacesInv' BY <1>0, <2>1, <2>3, <2>4 DEF PlacesInv
  <2> QED BY <2>5, <2>6, <2>7 DEF SoundInv
<1>10. ASSUME NEW e \in inflight, Land(e) PROVE SoundInv'
  <2> PICK i : i = WorkOf(e[1]) OBVIOUS
  <2>1. /\ UNCHANGED <<work, expired, requests, revision, intact, calls, restarts>> /\ inflight' \subseteq inflight
        /\ remote' = IF e[2] = "push" THEN [remote EXCEPT !.branch = @ \cup {i}]
                     ELSE [remote EXCEPT !.draft = IF i \in remote.branch THEN @ \cup {i} ELSE @]
    BY <1>10 DEF Land, repairVars
  <2>2. i \in 1..Len(work) /\ remote \in [branch : SUBSET Nat, draft : SUBSET Nat]
    BY DEF PublicationInv, SentInv, RowsTyped, WorkOf
  <2>3. remote'.branch \subseteq 1..Len(work) /\ remote'.draft \subseteq remote'.branch
    <3>1. CASE e[2] = "push"
      <4>1. remote'.branch = remote.branch \cup {i} /\ remote'.draft = remote.draft BY <2>1, <2>2, <3>1
      <4> QED BY <4>1, <2>2, <1>0 DEF PlacesInv
    <3>2. CASE e[2] # "push"
      <4>1. remote'.branch = remote.branch /\ remote'.draft = IF i \in remote.branch THEN remote.draft \cup {i} ELSE remote.draft
        BY <2>1, <2>2, <3>2
      <4> QED BY <4>1, <1>0 DEF PlacesInv
    <3> QED BY <3>1, <3>2
  <2>4. LinkInv' BY <1>0, <2>1 DEF LinkInv, Linked, Allotted, Rounds, Allows
  <2>5. PlacesInv' BY <1>0, <2>1, <2>3 DEF PlacesInv
  <2> QED BY <1>a, <2>1, <2>4, <2>5 DEF SoundInv
<1>11. ASSUME NEW e \in inflight, Lost(e) PROVE SoundInv'
  <2>1. UNCHANGED <<repairVars, requests, revision, intact, calls, remote, restarts>> /\ inflight' \subseteq inflight
    BY <1>11 DEF Lost
  <2> QED BY <2>1, <1>0, <1>a, PlacesKept
<1> QED BY <1>1, <1>2, <1>3, <1>4, <1>5, <1>6, <1>7, <1>8, <1>9, <1>10, <1>11 DEF PublicationNext, Owner

\* The repair chain stays within what the owner's first approval allowed, one repair of each
\* failed candidate, and every dispatched publication has the one call that carries it out,
\* also after a restart (review-repair.ts propose and approve, actions.ts, server.ts).
THEOREM PublicationSoundHolds == PublicationSpec => []PublicationSound
<1>1. PublicationSpec => PublicationInit /\ [][PublicationNext]_publicationVars BY PTL DEF PublicationSpec
<1>2. PublicationSpec => [](PublicationInv /\ SoundInv)
  BY <1>1, PublicationInvariant, SoundInvInit, SoundInvNext, PTL
<1>3. PublicationInv /\ SoundInv => PublicationSound BY SoundInvSound
<1> QED BY <1>2, <1>3, PTL
=============================================================================
