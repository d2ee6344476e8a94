---------------------------- MODULE FactoryStore ----------------------------
(***************************************************************************)
(* The supervisor's database (packages/storage): how it is opened by the   *)
(* processes and builds that share its file, and the rows whose changes    *)
(* other modules take for one step.                                        *)
(*                                                                         *)
(* A write is one immediate transaction: one step.  What a build does      *)
(* between its writes is not: it reads the schema's version before it      *)
(* takes the lock it migrates under, and a caller asks the owner between   *)
(* the policy it read and the policy it changes.                           *)
(***************************************************************************)
EXTENDS Naturals, Sequences, FiniteSets

CONSTANTS
  Processes,  \* processes that open the file
  Known,      \* [Processes -> the number of migrations of the process's build]
  Owners,     \* callers that are the device owner
  Agents,     \* callers that are agents
  MaxPolicy,  \* bound: revisions of the policy
  MaxRows     \* bound: rows of a table

VARIABLES
  schema,      \* tables and columns that exist
  version,     \* PRAGMA user_version
  connection,  \* [Processes -> 0 if closed, else the migration it runs next]
  policy,      \* factory_policy
  decisions,   \* policy_events
  asking,      \* [caller -> the decision the owner is asked to confirm]
  signals,     \* signals, by identity
  runs,        \* runs
  requests,    \* publication_requests
  drafts,      \* external_actions of kind draft_pr
  releases     \* releases: their status

storeVars == <<schema, version, connection, policy, decisions, asking, signals, runs, requests, drafts, releases>>

FactoryObjects ==
  << {"work_orders", "runs", "factory_events", "checks", "external_actions"},
     {"work_orders.expected_failure_text"} >>
PublicationObjects ==
  << {"checks.log_sha256", "factory_policy", "policy_events", "publication_requests", "publication_approvals"},
     {"signals", "releases"},
     {"external_actions.publication_request_id", "external_actions.destination"} >>
\* The last migration rebuilds work_spend_operations and leaves what there was: alone of all
\* it may run twice.
SpendObjects ==
  << {"work_order_intake", "linear_links"}, {"work_spend_budgets", "work_spend_operations"},
     {"work_spend_budgets.contract_version", "work_spend_operations.phase"}, {} >>

migrations == FactoryObjects \o PublicationObjects \o SpendObjects

ASSUME StoreBounds ==
  /\ Known \in [Processes -> 1..Len(migrations)] /\ MaxPolicy \in Nat \ {0} /\ MaxRows \in Nat
  /\ Owners \cap Agents = {}

(* Rows: an identity of an order or a run is its place, 0 is NULL *)
PolicyRow  == [revision : 1..MaxPolicy, paused : BOOLEAN]
SignalRow  == [content : 0..2, order : 0..2]
RunRow     == [order : {1, 2}, state : {"planning", "failed"}, attempt : 1..MaxRows]
RequestRow == [order : {1, 2}, run : 1..MaxRows]
DraftRow   == [order : {1, 2}, run : 1..MaxRows, request : 0..MaxRows, state : {"prepared", "dispatched"}]
ReleaseRow == {"candidate", "deployed", "rolled_back"}

Callers == Owners \cup Agents
NoAnswer == [revision |-> 0]
NoSignal == [content |-> 0, order |-> 0]

StoreInit ==
  /\ schema = {} /\ version = 0 /\ connection = [p \in Processes |-> 0]
  /\ policy = [revision |-> 1, paused |-> FALSE] /\ decisions = <<>>
  /\ asking = [c \in Callers |-> NoAnswer]
  /\ signals = [identity \in {"a", "b"} |-> NoSignal]
  /\ runs = <<>> /\ requests = <<>> /\ drafts = <<>> /\ releases = <<>>
-----------------------------------------------------------------------------
(* Opening *)

Opened(p) == connection[p] > Known[p]
\* A build that has the first n migrations serves the operations they brought.
Serves(n) == \E p \in Processes : Opened(p) /\ Known[p] >= n

rowVars == <<policy, decisions, signals, runs, requests, drafts, releases>>

\* A schema of a later build is refused.
Open(p) ==
  /\ connection[p] = 0 /\ version <= Known[p]
  /\ connection' = [connection EXCEPT ![p] = version + 1]
  /\ UNCHANGED <<schema, version, asking, rowVars>>

\* What exists cannot be created again: the migration is undone and the open fails.
Migrate(p) ==
  /\ connection[p] # 0 /\ ~Opened(p)
  /\ LET n == connection[p] IN
     IF migrations[n] \cap schema = {}
     THEN /\ schema' = schema \cup migrations[n] /\ version' = n
          /\ connection' = [connection EXCEPT ![p] = n + 1]
     ELSE connection' = [connection EXCEPT ![p] = 0] /\ UNCHANGED <<schema, version>>
  /\ UNCHANGED <<asking, rowVars>>

\* close, a crash, or a lock that was busy for too long.
Close(p) ==
  /\ connection[p] # 0 /\ connection' = [connection EXCEPT ![p] = 0]
  /\ UNCHANGED <<schema, version, asking, rowVars>>
-----------------------------------------------------------------------------
(* The dispatch policy *)

\* dispatch.set_paused up to the owner's confirmation.  The caller names the revision it was
\* shown, which has to be the current one; an agent only pauses.
AskPaused(c, paused) ==
  /\ Serves(3) /\ asking[c] = NoAnswer /\ policy.paused # paused /\ (c \in Agents => paused)
  /\ asking' = [asking EXCEPT ![c] = [revision |-> policy.revision, paused |-> paused]]
  /\ UNCHANGED <<schema, version, connection, rowVars>>

\* The owner does not confirm.
Refuse(c) ==
  /\ asking[c] # NoAnswer /\ asking' = [asking EXCEPT ![c] = NoAnswer]
  /\ UNCHANGED <<schema, version, connection, rowVars>>

Decide(paused) ==
  /\ policy' = [revision |-> policy.revision + 1, paused |-> paused]
  /\ decisions' = Append(decisions, [revision |-> policy.revision + 1, paused |-> paused])

\* Slip: the last caller wins.
SetDispatchPausedBlindly(c) ==
  /\ Serves(3) /\ asking[c] # NoAnswer /\ asking' = [asking EXCEPT ![c] = NoAnswer]
  /\ policy.revision < MaxPolicy /\ Decide(asking[c].paused)
  /\ UNCHANGED <<schema, version, connection, signals, runs, requests, drafts, releases>>

SetDispatchPaused(c) ==
  /\ Serves(3) /\ asking[c] # NoAnswer /\ asking' = [asking EXCEPT ![c] = NoAnswer]
  /\ IF asking[c].revision = policy.revision
     THEN policy.revision < MaxPolicy /\ Decide(asking[c].paused)
     ELSE UNCHANGED <<policy, decisions>>
  /\ UNCHANGED <<schema, version, connection, signals, runs, requests, drafts, releases>>
-----------------------------------------------------------------------------
(* Signals *)

otherVars == <<schema, version, connection, asking, policy, decisions>>

\* signal.record: what is reported again under its identity is the same signal.
UpsertSignal(identity, content) ==
  /\ Serves(4) /\ signals' = [signals EXCEPT ![identity].content = content]
  /\ UNCHANGED <<otherVars, runs, requests, drafts, releases>>

\* Slip: a link may be made again.
LinkSignalAgain(identity, order) ==
  /\ Serves(4) /\ signals[identity] # NoSignal
  /\ signals' = [signals EXCEPT ![identity].order = order]
  /\ UNCHANGED <<otherVars, runs, requests, drafts, releases>>

LinkSignal(identity, order) ==
  /\ Serves(4) /\ signals[identity] # NoSignal /\ signals[identity].order = 0
  /\ signals' = [signals EXCEPT ![identity].order = order]
  /\ UNCHANGED <<otherVars, runs, requests, drafts, releases>>
-----------------------------------------------------------------------------
(* Runs, requests, drafts and releases; order 1 and order 2 exist *)

AttemptsOf(order) == {r \in DOMAIN runs : runs[r].order = order}

CreateRun(order) ==
  /\ Serves(1) /\ Len(runs) < MaxRows
  /\ runs' = Append(runs, [order |-> order, state |-> "planning",
                           attempt |-> 1 + Cardinality(AttemptsOf(order))])
  /\ UNCHANGED <<otherVars, signals, requests, drafts, releases>>

\* Whatever state the caller's copy has.
SaveRun(r, state) ==
  /\ Serves(1) /\ runs' = [runs EXCEPT ![r].state = state]
  /\ UNCHANGED <<otherVars, signals, requests, drafts, releases>>

\* The row's keys do not tie the run to the order: publication.request does.
CreateRequest(order, r) ==
  /\ Serves(3) /\ Len(requests) < MaxRows
  /\ requests' = Append(requests, [order |-> order, run |-> r])
  /\ UNCHANGED <<otherVars, signals, runs, drafts, releases>>

Drafted(q) == \E d \in DOMAIN drafts : drafts[d].request = q

\* createExternalAction with and without a request, and the unique index.
FitsRequest(order, r, q) == q # 0 => ~Drafted(q) /\ requests[q] = [order |-> order, run |-> r]

CreateExternalAction(order, r, q) ==
  /\ Serves(5) /\ Len(drafts) < MaxRows
  /\ runs[r].order = order /\ FitsRequest(order, r, q)
  /\ drafts' = Append(drafts, [order |-> order, run |-> r, request |-> q, state |-> "prepared"])
  /\ UNCHANGED <<otherVars, signals, runs, requests, releases>>

SaveExternalAction(d, state) ==
  /\ Serves(5) /\ drafts' = [drafts EXCEPT ![d].state = state]
  /\ UNCHANGED <<otherVars, signals, runs, requests, releases>>

CreateRelease ==
  /\ Serves(4) /\ Len(releases) < MaxRows /\ releases' = Append(releases, "candidate")
  /\ UNCHANGED <<otherVars, signals, runs, requests, drafts>>

SetReleaseStatus(i, status) ==
  /\ Serves(4) /\ releases' = [releases EXCEPT ![i] = status]
  /\ UNCHANGED <<otherVars, signals, runs, requests, drafts>>

\* A process stops with the questions it asked.
StoreRestart(p) ==
  /\ connection' = [connection EXCEPT ![p] = 0] /\ asking' = [c \in Callers |-> NoAnswer]
  /\ UNCHANGED <<schema, version, rowVars>>

StoreNext ==
  \/ \E p \in Processes : Open(p) \/ Migrate(p) \/ Close(p)
  \/ \E c \in Callers : Refuse(c) \/ SetDispatchPaused(c) \/ \E paused \in BOOLEAN : AskPaused(c, paused)
  \/ \E identity \in DOMAIN signals :
       UpsertSignal(identity, 1) \/ UpsertSignal(identity, 2) \/ LinkSignal(identity, 1) \/ LinkSignal(identity, 2)
  \/ \E order \in {1, 2} :
       \/ CreateRun(order)
       \/ \E r \in DOMAIN runs :
            CreateRequest(order, r) \/ \E q \in {0} \cup DOMAIN requests : CreateExternalAction(order, r, q)
  \/ \E r \in DOMAIN runs : SaveRun(r, "failed")
  \/ \E d \in DOMAIN drafts : SaveExternalAction(d, "dispatched")
  \/ CreateRelease \/ \E i \in DOMAIN releases, status \in {"deployed", "rolled_back"} : SetReleaseStatus(i, status)

StoreSpec == StoreInit /\ [][StoreNext]_storeVars
-----------------------------------------------------------------------------
\* Whatever builds open the file at a time and wherever one stops, the schema is what its
\* version says, and who has it open finds every table of his build (#migrate).
SchemaSound ==
  /\ version \in 0..Len(migrations) /\ schema = UNION {migrations[n] : n \in 1..version}
  /\ \A p \in Processes : Opened(p) => Known[p] <= version

\* Two answers of the owner never decide on the same policy: each decision turns the one
\* before it, and the policy is the last (dispatch.set_paused, setDispatchPaused).
DecisionsSound ==
  /\ policy.revision = 1 + Len(decisions)
  /\ \A i \in DOMAIN decisions : decisions[i] = [revision |-> i + 1, paused |-> i % 2 = 1]
  /\ policy.paused = (Len(decisions) % 2 = 1)

\* A draft for a request is that request's alone, of its order and run; the attempts of an
\* order are numbered without a gap (createExternalAction, createRun).
RowsSound ==
  /\ \A d \in DOMAIN drafts : LET q == drafts[d].request IN
       q # 0 => requests[q].order = drafts[d].order /\ runs[requests[q].run].order = drafts[d].order
  /\ \A d, e \in DOMAIN drafts : d # e => drafts[d].request = 0 \/ drafts[d].request # drafts[e].request
  /\ \A order \in {1, 2} : {runs[r].attempt : r \in AttemptsOf(order)} = 1..Cardinality(AttemptsOf(order))

StoreTypeOK ==
  /\ policy \in PolicyRow /\ decisions \in Seq(PolicyRow) /\ signals \in [{"a", "b"} -> SignalRow]
  /\ runs \in Seq(RunRow) /\ requests \in Seq(RequestRow) /\ drafts \in Seq(DraftRow) /\ releases \in Seq(ReleaseRow)

StoreSound == StoreTypeOK /\ SchemaSound /\ DecisionsSound /\ RowsSound

\* No build takes the schema back, and a signal stays with the WorkOrder it was linked to,
\* also when it is reported again (#migrate, linkSignalToWorkOrder, upsertSignal).
StoreForward ==
  /\ version <= version'
  /\ \A identity \in DOMAIN signals : signals[identity].order # 0 => signals'[identity].order = signals[identity].order
=============================================================================
