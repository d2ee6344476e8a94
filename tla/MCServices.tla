----------------------------- MODULE MCServices -----------------------------
(* The services, the Results a supervisor signs, and the page of the feedback-hub template. *)
EXTENDS Services, ResultSigning, FeedbackHub

\* The build before the last migration, and the present one.
MCKnown == [p \in Processes |-> IF p = "old" THEN 8 ELSE 9]

\* Parts that share nothing are followed one at a time: the services, the Results, the
\* hub; among the services intake with previews, the store, the streams.  A restart meets each of these.
MCInit  == ServicesInit /\ SigningInit /\ HubInit
NoneYet == SigningInit /\ attempt.state = "absent" /\ rings[1].keys[1].until > 0
MCNext ==
  \/ NoneYet /\ HubInit /\ ServicesNext /\ UNCHANGED <<signingVars, hubVars>>
  \/ ServicesInit /\ HubInit /\ SigningNext /\ UNCHANGED <<serviceVars, hubVars>>
  \/ NoneYet /\ ServicesInit /\ HubNext /\ UNCHANGED <<serviceVars, signingVars>>
MCSpec == MCInit /\ [][MCNext]_<<serviceVars, signingVars, hubVars>> /\ ServicesFairness

Moved == << ~IntakeInit \/ ~PreviewInit, ~StoreInit, ~FeedInit >>
OnePart == Cardinality({i \in 1..3 : Moved[i]}) <= 1

\* Intake and previews meet only at a restart.  Once there was a preview no creation and no
\* poll is followed; the synchronization of one WorkOrder and a restart meet it in every order.
PreviewAlone == (\E a \in Apps : event[a] # "none") =>
  poll = NoCall /\ (\A c \in Creators : creating[c] = NoCall) /\ Len(orders) <= 1

\* The builds open the file in every order.  The rows are followed with the migrations done
\* and one process, of one table's kind at a time.
RowsMoved == << policy.revision > 1 \/ (\E c \in Callers : asking[c] # NoAnswer), runs # <<>>,
                releases # <<>>, \E i \in DOMAIN signals : signals[i] # NoSignal >>
OneTable ==
  /\ Cardinality({i \in 1..4 : RowsMoved[i]}) <= 1
  /\ (\E i \in 1..4 : RowsMoved[i]) => version = 9 /\ connection["old"] = 0
  /\ (\E i \in 2..4 : RowsMoved[i]) => restarts = 0   \* Close loses the process as well

\* The hub's records have three revisions between them, are interchangeable, and its list
\* hides one of the two statuses at most.
HubBounded ==
  /\ filter # "planned" /\ SumFunction([f \in Feedback |-> Len(records[f])]) <= 3
  /\ Existing # {} => (CHOOSE f \in Feedback : TRUE) \in Existing

\* Nothing is attested of an interrupted attempt, nor of one that was made before.
Attested == attempt.state # "interrupted" /\ (attempt.snapshot \/ attempt.state = "absent" \/ Len(rings) = 1)

Followed == OnePart /\ PreviewAlone /\ OneTable /\ HubBounded /\ Attested

\* What is saved once: the rows of the store, and the Result among them.
RecordsSound == StoreSound /\ ResultSound

\* The steps of the store and of the hub's page: see StoreForward and ShownForward.
ServicesForward == [][StoreForward /\ ShownForward]_<<storeVars, hubVars>>
=============================================================================
