---------------------------- MODULE HostedIntake ----------------------------
(***************************************************************************)
(* Where WorkOrders come from and how each gets its Linear issue: the      *)
(* actions workorder.create and linear.sync, LinearIntegration             *)
(* (linear.ts), the poll of HostedIntake (hosted-intake.ts) and the        *)
(* requests hosted clients leave at Linear (packages/hosted-routing).      *)
(*                                                                         *)
(* A key stands for an actor and its idempotency key with one input: a     *)
(* second input under a key is refused.  Issues of hosted requests are     *)
(* named by their keys, other issues by numbers.                           *)
(***************************************************************************)
EXTENDS Naturals, Sequences, FiniteSets

CONSTANTS
  Hosted,     \* keys of hosted clients
  Local,      \* keys of local callers
  Creators,   \* workorder.create calls that may be under way
  MaxIssues,  \* bound: issue identities made
  NoIssue, NoCall

Keys      == Hosted \cup Local
Issues    == 1..MaxIssues
MaxOrders == 4   \* bound: WorkOrders

VARIABLES
  orders,    \* WorkOrders with their intake key and Linear link
  creating,  \* [Creators -> call that waits for the owner]
  syncing,   \* [1..MaxOrders -> "none", "lookup" or "create"]: inFlight
  poll,      \* the one poll under way
  queue,     \* hosted requests at Linear
  receipts,  \* [Hosted -> order named by the receipt on the issue, 0 if none]
  remote,    \* other issues at Linear
  fresh      \* issue identities used

intakeVars == <<orders, creating, syncing, poll, queue, receipts, remote, fresh>>

Order   == [key : Keys, link : {"none", "pending", "syncing", "unknown", "synced"},
            issue : Issues \cup Hosted \cup {NoIssue}, asked : SUBSET Issues]
Poll    == [left : SUBSET Hosted, key : Hosted \cup {NoCall}, order : 0..MaxOrders,
            step : {"next", "link", "receipt"}]

ASSUME IntakeBounds ==
  /\ MaxIssues \in Nat /\ Issues \cap Hosted = {} /\ NoIssue \notin Issues \cup Hosted
  /\ NoCall \notin Hosted \cup Poll \cup [key : Local, sync : BOOLEAN]

IntakeInit ==
  /\ orders = <<>> /\ creating = [c \in Creators |-> NoCall] /\ syncing = [o \in 1..MaxOrders |-> "none"]
  /\ poll = NoCall /\ queue = {} /\ receipts = [k \in Hosted |-> 0] /\ remote = {} /\ fresh = 0

OfKey(k)      == {o \in DOMAIN orders : orders[o].key = k}
NewOrder(k)   == [key |-> k, link |-> "none", issue |-> NoIssue, asked |-> {}]
Prepared(r)   == [r EXCEPT !.link = "pending", !.issue = fresh + 1]
Link(o, s)    == orders' = [orders EXCEPT ![o].link = s]
Step(o, s)    == syncing' = [syncing EXCEPT ![o] = s]
-----------------------------------------------------------------------------
(* workorder.create *)

\* A known key is answered with its WorkOrder; otherwise the owner is asked.
AskCreate(c, k, sync) ==
  /\ creating[c] = NoCall /\ OfKey(k) = {}
  /\ creating' = [creating EXCEPT ![c] = [key |-> k, sync |-> sync]]
  /\ UNCHANGED <<orders, syncing, poll, queue, receipts, remote, fresh>>

Deny(c) ==
  /\ creating[c] # NoCall /\ creating' = [creating EXCEPT ![c] = NoCall]
  /\ UNCHANGED <<orders, syncing, poll, queue, receipts, remote, fresh>>

\* The WorkOrder, its key and its link are one transaction.
Insert(k, sync) ==
  /\ Len(orders) < MaxOrders
  /\ sync => fresh < MaxIssues
  /\ orders' = Append(orders, IF sync THEN Prepared(NewOrder(k)) ELSE NewOrder(k))
  /\ fresh' = IF sync THEN fresh + 1 ELSE fresh

\* Slip: the key is not looked up again after the owner was asked.
CreateAsked(c) ==
  /\ creating[c] # NoCall /\ Insert(creating[c].key, creating[c].sync)
  /\ creating' = [creating EXCEPT ![c] = NoCall]
  /\ UNCHANGED <<syncing, poll, queue, receipts, remote>>

\* A call under the same key may have finished while the owner was asked.
Create(c) ==
  /\ creating[c] # NoCall
  /\ IF OfKey(creating[c].key) # {} THEN UNCHANGED <<orders, fresh>>
     ELSE Insert(creating[c].key, creating[c].sync)
  /\ creating' = [creating EXCEPT ![c] = NoCall]
  /\ UNCHANGED <<syncing, poll, queue, receipts, remote>>
-----------------------------------------------------------------------------
(* LinearIntegration *)

\* Slip: every synchronization names its own issue.
SyncAnew(o) ==
  /\ syncing[o] = "none" /\ orders[o].link # "synced" /\ fresh < MaxIssues
  /\ orders' = [orders EXCEPT ![o] = [Prepared(@) EXCEPT !.link = "syncing"]]
  /\ fresh' = fresh + 1
  /\ Step(o, "lookup") /\ UNCHANGED <<creating, poll, queue, receipts, remote>>

\* sync, after a creation or asked by a caller: one at a time for a WorkOrder, and under the
\* issue identity that prepare saved once.
Sync(o) ==
  /\ syncing[o] = "none" /\ orders[o].link # "synced"
  /\ LET saved == IF orders[o].link = "none" THEN Prepared(orders[o]) ELSE orders[o] IN
       /\ orders[o].link = "none" => fresh < MaxIssues
       /\ orders' = [orders EXCEPT ![o] = [saved EXCEPT !.link = "syncing"]]
       /\ fresh' = IF orders[o].link = "none" THEN fresh + 1 ELSE fresh
  /\ Step(o, "lookup") /\ UNCHANGED <<creating, poll, queue, receipts, remote>>

Synced(o) ==
  /\ orders[o].issue \in remote
  /\ Link(o, "synced") /\ Step(o, "none") /\ UNCHANGED <<creating, poll, queue, receipts, remote, fresh>>

Found(o)    == syncing[o] = "lookup" /\ Synced(o)
NotFound(o) ==
  /\ syncing[o] = "lookup" /\ orders[o].issue \notin remote
  /\ orders' = [orders EXCEPT ![o].asked = @ \cup {orders[o].issue}]
  /\ Step(o, "create") /\ UNCHANGED <<creating, poll, queue, receipts, remote, fresh>>
Created(o)  == syncing[o] = "create" /\ Synced(o)

\* An error, a refusal or 15 seconds without an answer.
SyncFails(o) ==
  /\ syncing[o] # "none"
  /\ Link(o, "unknown") /\ Step(o, "none") /\ UNCHANGED <<creating, poll, queue, receipts, remote, fresh>>

\* Linear creates an issue of one identity once, at any time after it was asked.
Appear(o, i) ==
  /\ i \in orders[o].asked \ remote /\ remote' = remote \cup {i}
  /\ UNCHANGED <<orders, creating, syncing, poll, queue, receipts, fresh>>

SyncStep(o) == Found(o) \/ NotFound(o) \/ Created(o) \/ SyncFails(o)
-----------------------------------------------------------------------------
(* Hosted requests *)

\* submitHostedRequest: the issue is named by client and key, so that a retry finds it.
Submit(k) ==
  /\ k \notin queue /\ queue' = queue \cup {k}
  /\ UNCHANGED <<orders, creating, syncing, poll, receipts, remote, fresh>>

Polling(step) == poll # NoCall /\ poll.step = step
NextIssue(left) == poll' = [left |-> left, key |-> NoCall, order |-> 0, step |-> "next"]

PollStart ==
  /\ poll = NoCall /\ queue # {} /\ NextIssue(queue)
  /\ UNCHANGED <<orders, creating, syncing, queue, receipts, remote, fresh>>

PollEnds ==
  /\ Polling("next") /\ poll.left = {} /\ poll' = NoCall
  /\ UNCHANGED <<orders, creating, syncing, queue, receipts, remote, fresh>>

\* Linear or the disk fails, or the issue of the link is another: the page is read again later.
PollAborts ==
  /\ poll # NoCall /\ poll' = NoCall
  /\ UNCHANGED <<orders, creating, syncing, queue, receipts, remote, fresh>>

\* An unregistered client, or a request that is not as signed, or expired before admission.
PollRejects ==
  /\ Polling("next")
  /\ \E k \in poll.left : NextIssue(poll.left \ {k})
  /\ UNCHANGED <<orders, creating, syncing, queue, receipts, remote, fresh>>

\* workorder.create for the client, without synchronization: its WorkOrder or a new one.
PollCreate ==
  /\ Polling("next")
  /\ \E k \in poll.left :
       /\ IF OfKey(k) # {} THEN UNCHANGED <<orders, fresh>> ELSE Insert(k, FALSE)
       /\ poll' = [left |-> poll.left \ {k}, key |-> k, step |-> "link",
                   order |-> CHOOSE o \in DOMAIN orders' : orders'[o].key = k]
  /\ UNCHANGED <<creating, syncing, queue, receipts, remote>>

\* Another transaction binds the WorkOrder to the issue of the request.
PollLink ==
  /\ Polling("link")
  /\ LET o == poll.order IN
       \/ /\ orders[o].link = "none"
          /\ orders' = [orders EXCEPT ![o] = [@ EXCEPT !.link = "synced", !.issue = poll.key]]
       \/ orders[o].issue = poll.key /\ UNCHANGED orders
  /\ poll' = [poll EXCEPT !.step = "receipt"]
  /\ UNCHANGED <<creating, syncing, queue, receipts, remote, fresh>>

\* The receipt is written unless it is there.
PollReceipt ==
  /\ Polling("receipt")
  /\ receipts' = [receipts EXCEPT ![poll.key] = poll.order] /\ NextIssue(poll.left)
  /\ UNCHANGED <<orders, creating, syncing, queue, remote, fresh>>
-----------------------------------------------------------------------------
IntakeNext ==
  \/ \E c \in Creators : Deny(c) \/ Create(c) \/ \E k \in Local, sync \in BOOLEAN : AskCreate(c, k, sync)
  \/ \E o \in DOMAIN orders : Sync(o) \/ SyncStep(o) \/ \E i \in Issues : Appear(o, i)
  \/ \E k \in Hosted : Submit(k)
  \/ PollStart \/ PollEnds \/ PollAborts \/ PollRejects \/ PollCreate \/ PollLink \/ PollReceipt

\* Calls are forgotten; a synchronization that was under way has an unknown outcome.
IntakeRestart ==
  /\ creating' = [c \in Creators |-> NoCall] /\ syncing' = [o \in 1..MaxOrders |-> "none"] /\ poll' = NoCall
  /\ orders' = [o \in DOMAIN orders |->
       IF orders[o].link = "syncing" THEN [orders[o] EXCEPT !.link = "unknown"] ELSE orders[o]]
  /\ UNCHANGED <<queue, receipts, remote, fresh>>
-----------------------------------------------------------------------------
IntakeSound ==
  /\ orders \in Seq(Order) /\ creating \in [Creators -> [key : Local, sync : BOOLEAN] \cup {NoCall}]
  /\ poll \in Poll \cup {NoCall} /\ queue \subseteq Hosted /\ remote \subseteq Issues /\ fresh \in 0..MaxIssues
  /\ \A o, p \in DOMAIN orders : o # p => orders[o].key # orders[p].key /\ (orders[o].issue = orders[p].issue => orders[o].issue = NoIssue)
  /\ \A o \in 1..MaxOrders : syncing[o] # "none" <=> o \in DOMAIN orders /\ orders[o].link = "syncing"
  /\ \A k \in Hosted : receipts[k] # 0 => k \in queue /\ OfKey(k) = {receipts[k]} /\ orders[receipts[k]].issue = k

IO == INSTANCE IssueOnce WITH
  Orders <- 1..MaxOrders,
  link   <- [o \in 1..MaxOrders |-> IF o \in DOMAIN orders THEN orders[o].link ELSE "none"],
  asked  <- {o \in DOMAIN orders : orders[o].asked # {}},
  issues <- [o \in 1..MaxOrders |-> IF o \in DOMAIN orders THEN Cardinality(orders[o].asked \cap remote) ELSE 0]
=============================================================================
