----------------------------- MODULE MCApprovals -----------------------------
(* Publication, the owner's policy at the hosted factory and its qualification, and the web
   application in which the owner looks and decides. *)
EXTENDS Publication, CapabilityPolicy, Qualification, EnvironmentRouting, WebDesk, WebPages, WebPanels

MCPolicies == {[rounds |-> 1, operations |-> 4, budget |-> 4, roundOperations |-> 2, roundBudget |-> 2],
               [rounds |-> 2, operations |-> 4, budget |-> 3, roundOperations |-> 2, roundBudget |-> 2]}

\* A resource that two environments of its type could serve.
MCKinds == {[s \in Sites |-> t] : t \in {"OWNER_COMPUTER", "LOCAL_FACTORY"}}

hostedVars == <<capabilityVars, qualificationVars, routingVars>>
webVars    == <<deskVars, pageVars, panelsVars>>
mcVars     == <<publicationVars, hostedVars, webVars>>

\* The parts share nothing and are followed one at a time, from one initial state of the others.
RoutedInit == RoutingInit /\ resource # "repository" /\ \A s \in Sites : kind[s] = Wanted
HostedInit == CapabilityInit /\ QualificationInit /\ RoutedInit
WebInit    == DeskInit /\ PagesInit /\ PanelsInit
MCInit     == PublicationInit /\ HostedInit /\ WebInit
HostedHome == HostedInit /\ Older = {} /\ resource = "owner"
WebHome    == WebInit /\ panel = "preview"
Home       == PublicationInit /\ ~work[1].attested /\ HostedHome

MCNext ==
  \/ HostedHome /\ WebHome /\ PublicationNext /\ UNCHANGED <<hostedVars, webVars>>
  \/ PublicationInit /\ ~work[1].attested /\ WebHome /\ UNCHANGED <<publicationVars, webVars>>
     /\ \/ resource = "owner" /\ RoutedInit /\ QualificationInit /\ CapabilityNext
           /\ UNCHANGED <<qualificationVars, routingVars>>
        \/ resource = "owner" /\ RoutedInit /\ CapabilityInit /\ Older = {} /\ QualificationNext
           /\ UNCHANGED <<capabilityVars, routingVars>>
        \/ Older = {} /\ CapabilityInit /\ QualificationInit /\ RoutingNext
           /\ UNCHANGED <<capabilityVars, qualificationVars>>
  \/ Home /\ UNCHANGED <<publicationVars, hostedVars>>
     /\ \/ panel = "preview" /\ PagesInit /\ PanelsInit /\ DeskNext /\ UNCHANGED <<pageVars, panelsVars>>
        \/ panel = "preview" /\ DeskInit /\ PanelsInit /\ PagesNext /\ UNCHANGED <<deskVars, panelsVars>>
        \/ DeskInit /\ PagesInit /\ PanelsNext /\ UNCHANGED <<deskVars, pageVars>>
MCSpec ==
  /\ MCInit /\ [][MCNext]_mcVars
  /\ \A h \in Handlers : WF_publicationVars(Adapter(h))

\* Two stories.  The candidate of an ordinary run cannot be observed or reviewed: two requests
\* by two handlers, restarts, revisions and disturbed evidence in every order.  A candidate
\* with evidence is reviewed and repaired in every order with one request and one handler.
Stories ==
  work[1].attested =>
    /\ Len(requests) <= 1 /\ revision = 0 /\ restarts = 0 /\ intact = DOMAIN work
    /\ Cardinality({h \in Handlers : calls[h] # NoCall}) <= 1

\* One of the two trials.
OneTrialKind == check = NoRow \/ Known = {}

\* Attempts, policies and drafts of the desk grow by two between them.
DeskBounded == attempt + rules + Len(drafts) <= 4 /\ Cardinality(polls) + Cardinality(reads) <= 2

\* Two WorkOrders are made.  Only a form's request is carried out after its answer was lost, and the
\* question leaves a slot for the cancellation.
PagesBounded ==
  /\ Len(made) <= 2 /\ (dialog => Len(asked) < MaxAsked)
  /\ \A s \in DOMAIN asked : asked[s].awaited \/ asked[s].kind = "create"

\* Evidence matters to admissions: with a control it lapses while an admission is open.
LapseBounded == lapsed => admitting # NoRun \/ controlled = <<>>

\* The panel or the switch.
OnePanel == (policy.revision = 1 /\ switch = Unread) \/ (acting = "no" /\ served = 0 /\ loads = {Load})

\* Runs are alike, and so are attempts: the first that is admitted or reserved has the first name.
FirstNamed ==
  /\ (\E r \in Runs : Admitted(r)) => Admitted(CHOOSE r \in Runs : TRUE)
  /\ Known # {} => (CHOOSE a \in Attempts : TRUE) \in Known

Followed == FirstNamed /\ Stories /\ OneTrialKind /\ LapseBounded /\ DeskBounded /\ PagesBounded /\ OnePanel

\* Who may act at a hosted factory, and where: the policy and the routing.
TrustSound == CapabilitySound /\ RoutingSound

\* What the web application shows is what is acted on: the desk, the pages and the panels.
WebSound == DeskSound /\ PagesSound /\ PanelsSound
=============================================================================
