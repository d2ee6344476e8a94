---------------------------- MODULE Qualification ----------------------------
(***************************************************************************)
(* How the hosted deployment qualifies its infrastructure, apart from any  *)
(* Work: the trial of a machine (infrastructure-lifecycle.mjs with its     *)
(* store and provider) and the trial of the queue (queue-delivery.mjs).    *)
(*                                                                         *)
(* A handler holds the session lock of its database connection and loses   *)
(* both together.  A request that gets no answer may take effect later,    *)
(* but not after the deadline with its grace; a machine stops by itself.   *)
(* The trial of the queue is one check with one message.                   *)
(***************************************************************************)
EXTENDS Naturals, FiniteSets

CONSTANTS
  Servers,   \* requests served at the same time
  Attempts,   \* ids of attempts
  Limit,      \* rows of infrastructure_attempts (8 in the code)
  Message,    \* the id the queue gives the message
  NoMessage,
  NoRow,
  NoWork,
  NoServer

AttemptRow == [state : {"ALLOCATING", "RUNNING", "COLLECTED", "UNKNOWN", "DESTROYED"},
               outcome : {"NONE", "PASS", "UNKNOWN"}, artifact : BOOLEAN, cleanup_confirmed : BOOLEAN]
Lifecycle  == [id : Attempts, sandbox : BOOLEAN,
               stage : {"allocate", "record", "execute", "collect", "failed", "finally", "reconcile",
                        "confirm", "unclean"}]
CheckRow   == [state : {"SENDING", "ACCEPTED", "UNKNOWN", "DELIVERED"}, message_id : {Message, NoMessage}]

ASSUME QualificationBounds ==
  /\ Limit \in Nat /\ NoServer \notin Servers /\ Message # NoMessage
  /\ NoRow \notin AttemptRow \cup CheckRow /\ NoWork \notin Lifecycle

VARIABLES
  attempts,   \* [Attempts -> row of infrastructure_attempts or NoRow]
  machines,   \* [Attempts -> the machine of that name]
  overdue,    \* attempts past their deadline and its grace
  lock,       \* the handler that holds the advisory lock
  serving,    \* [Servers -> the lifecycle it runs or NoWork]
  check,      \* row of queue_delivery_checks
  senders,    \* [Servers -> the sending of the check as it stands]
  posted,     \* the message is with the queue
  handled     \* how often receiveQueueCheck answered true

trialVars == <<attempts, machines, overdue, lock, serving>>
queueVars == <<check, senders, posted, handled>>
qualificationVars == <<attempts, machines, overdue, lock, serving, check, senders, posted, handled>>

Unresolved == {a \in Attempts : attempts[a] # NoRow /\ ~attempts[a].cleanup_confirmed}
Known      == {a \in Attempts : attempts[a] # NoRow}
Busy(h, stage) == serving[h] # NoWork /\ serving[h].stage = stage

QualificationInit ==
  /\ attempts = [a \in Attempts |-> NoRow] /\ machines = [a \in Attempts |-> "none"]
  /\ overdue = {} /\ lock = NoServer /\ serving = [h \in Servers |-> NoWork]
  /\ check = NoRow /\ senders = [h \in Servers |-> "none"] /\ posted = FALSE /\ handled = 0
-----------------------------------------------------------------------------
(* The store *)

\* update: it needs the connection, which a handler holds as long as the lock.
Update(h, fields) == attempts' =
  IF lock = h THEN [attempts EXCEPT ![serving[h].id] = fields] ELSE attempts
Row(h) == attempts[serving[h].id]
Then(h, stage) == serving' = [serving EXCEPT ![h].stage = stage]

Leave(h) == serving' = [serving EXCEPT ![h] = NoWork] /\ lock' = IF lock = h THEN NoServer ELSE lock

\* reserve, under the lock: one unresolved attempt, and few in all.
Reserve(h, a) ==
  /\ lock = NoServer /\ serving[h] = NoWork /\ attempts[a] = NoRow
  /\ Unresolved = {} /\ Cardinality(Known) < Limit
  /\ attempts' = [attempts EXCEPT ![a] =
       [state |-> "ALLOCATING", outcome |-> "NONE", artifact |-> FALSE, cleanup_confirmed |-> FALSE]]
  /\ lock' = h /\ serving' = [serving EXCEPT ![h] = [id |-> a, stage |-> "allocate", sandbox |-> FALSE]]
  /\ UNCHANGED <<machines, overdue, queueVars>>
-----------------------------------------------------------------------------
(* executeInfrastructure *)

\* allocate: the machine is there, or may still come, or is there with another image.
Allocate(h) ==
  /\ Busy(h, "allocate")
  /\ LET a == serving[h].id IN
       \/ /\ a \notin overdue /\ machines' = [machines EXCEPT ![a] = "live"]
          /\ serving' = [serving EXCEPT ![h] = [@ EXCEPT !.stage = "record", !.sandbox = TRUE]]
       \/ /\ a \notin overdue /\ \E m \in {"none", "pending", "other"} : machines' = [machines EXCEPT ![a] = m]
          /\ Then(h, "failed")
       \/ a \in overdue /\ Then(h, "failed") /\ UNCHANGED machines
  /\ UNCHANGED <<attempts, overdue, lock, queueVars>>

RecordSession(h) ==
  /\ Busy(h, "record") /\ Update(h, [Row(h) EXCEPT !.state = "RUNNING"])
  /\ Then(h, IF lock = h THEN "execute" ELSE "failed")
  /\ UNCHANGED <<machines, overdue, lock, queueVars>>

\* execute, with the evidence it records on its way.
Execute(h) ==
  /\ Busy(h, "execute") /\ Update(h, [Row(h) EXCEPT !.outcome = "UNKNOWN"])
  /\ \/ lock = h /\ machines[serving[h].id] = "live" /\ Then(h, "collect")
     \/ Then(h, "failed")
  /\ UNCHANGED <<machines, overdue, lock, queueVars>>

\* collect reads back what it stored before the row says so.
Collect(h) ==
  /\ Busy(h, "collect")
  /\ \/ /\ lock = h /\ Then(h, "finally")
        /\ Update(h, [Row(h) EXCEPT !.state = "COLLECTED", !.outcome = "PASS", !.artifact = TRUE])
     \/ Then(h, "failed") /\ UNCHANGED attempts
  /\ UNCHANGED <<machines, overdue, lock, queueVars>>

\* The catch, which may itself throw.
Fail(h) ==
  /\ Busy(h, "failed") /\ Update(h, [Row(h) EXCEPT !.state = "UNKNOWN", !.outcome = "UNKNOWN"])
  /\ Then(h, "finally")
  /\ UNCHANGED <<machines, overdue, lock, queueVars>>

\* Without a receipt the slot stays taken.
Finish(h) ==
  /\ Busy(h, "finally") /\ ~serving[h].sandbox /\ Leave(h)
  /\ UNCHANGED <<attempts, machines, overdue, queueVars>>

\* destroy, of the machine it holds or by name: confirmed only if none of that name is found.
Destroy(h) ==
  /\ Busy(h, "reconcile") \/ (Busy(h, "finally") /\ serving[h].sandbox)
  /\ LET a == serving[h].id IN
       \/ /\ machines[a] # "other" /\ Then(h, "confirm")
          /\ machines' = IF machines[a] = "live" THEN [machines EXCEPT ![a] = "gone"] ELSE machines
       \/ /\ \/ UNCHANGED machines
             \/ machines[a] = "live" /\ machines' = [machines EXCEPT ![a] = "gone"]
          /\ Then(h, "unclean")
  /\ UNCHANGED <<attempts, overdue, lock, queueVars>>

Confirm(h) ==
  /\ Busy(h, "confirm")
  /\ Update(h, [Row(h) EXCEPT !.state = "DESTROYED", !.cleanup_confirmed = TRUE,
                              !.outcome = IF @ = "NONE" THEN "UNKNOWN" ELSE @])
  /\ Leave(h) /\ UNCHANGED <<machines, overdue, queueVars>>

\* Only the executor notes a destruction that failed; a reconciliation just throws.
Unclean(h) ==
  /\ Busy(h, "unclean")
  /\ IF serving[h].sandbox THEN Update(h, [Row(h) EXCEPT !.state = "UNKNOWN", !.outcome = "UNKNOWN"])
     ELSE UNCHANGED attempts
  /\ Leave(h) /\ UNCHANGED <<machines, overdue, queueVars>>
-----------------------------------------------------------------------------
(* reconcileInfrastructure *)

\* Slip: the machine is looked for at once.
ReconcileTrialEarly(h, a) ==
  /\ lock = NoServer /\ serving[h] = NoWork /\ a \in Unresolved
  /\ lock' = h /\ serving' = [serving EXCEPT ![h] = [id |-> a, stage |-> "reconcile", sandbox |-> FALSE]]
  /\ UNCHANGED <<attempts, machines, overdue, queueVars>>

\* Never before what was asked for can no longer come.
ReconcileTrial(h, a) ==
  /\ lock = NoServer /\ serving[h] = NoWork /\ a \in Unresolved /\ a \in overdue
  /\ lock' = h /\ serving' = [serving EXCEPT ![h] = [id |-> a, stage |-> "reconcile", sandbox |-> FALSE]]
  /\ UNCHANGED <<attempts, machines, overdue, queueVars>>
-----------------------------------------------------------------------------
(* The world of the trial *)

LateCreate(a) ==
  /\ machines[a] = "pending" /\ machines' = [machines EXCEPT ![a] = "live"]
  /\ UNCHANGED <<attempts, overdue, lock, serving, queueVars>>

\* A machine that was asked for and has not come by the deadline and its grace will not come.
Pass(a) ==
  /\ a \in Known \ overdue /\ overdue' = overdue \cup {a}
  /\ machines' = IF machines[a] = "pending" THEN [machines EXCEPT ![a] = "none"] ELSE machines
  /\ UNCHANGED <<attempts, lock, serving, queueVars>>

\* The provider stops a machine at its deadline.
Timeout(a) ==
  /\ a \in overdue /\ machines[a] \in {"live", "other"} /\ machines' = [machines EXCEPT ![a] = "gone"]
  /\ UNCHANGED <<attempts, overdue, lock, serving, queueVars>>

\* The connection is lost with the lock; the handler learns of it at its next update.
Disconnect(h) ==
  /\ lock = h /\ lock' = NoServer
  /\ UNCHANGED <<attempts, machines, overdue, serving, queueVars>>

Abort(h) == serving[h] # NoWork /\ Leave(h) /\ UNCHANGED <<attempts, machines, overdue, queueVars>>
-----------------------------------------------------------------------------
(* The trial of the queue *)

ReserveCheck(h) ==
  /\ senders[h] = "none" /\ check = NoRow
  /\ check' = [state |-> "SENDING", message_id |-> NoMessage]
  /\ senders' = [senders EXCEPT ![h] = "sending"]
  /\ UNCHANGED <<posted, handled, trialVars>>

\* send, once for a row: accepted, or nobody knows.
SendCheck(h) ==
  /\ senders[h] = "sending"
  /\ \/ posted' = TRUE /\ \E s \in {"accepted", "unknown"} : senders' = [senders EXCEPT ![h] = s]
     \/ posted' = posted /\ senders' = [senders EXCEPT ![h] = "unknown"]
  /\ UNCHANGED <<check, handled, trialVars>>

\* sent: delivery may have beaten it.
Sent(h) ==
  /\ senders[h] = "accepted" /\ senders' = [senders EXCEPT ![h] = "none"]
  /\ check' = IF check.state = "SENDING" THEN [state |-> "ACCEPTED", message_id |-> Message] ELSE check
  /\ UNCHANGED <<posted, handled, trialVars>>

\* unknown
Unsure(h) ==
  /\ senders[h] = "unknown" /\ senders' = [senders EXCEPT ![h] = "none"]
  /\ check' = IF check.state = "SENDING" THEN [check EXCEPT !.state = "UNKNOWN"] ELSE check
  /\ UNCHANGED <<posted, handled, trialVars>>

\* delivered: the queue delivers at least once, for as long as it keeps the message.
Deliver ==
  /\ posted /\ check.state \in {"SENDING", "ACCEPTED", "UNKNOWN"} /\ check.message_id \in {NoMessage, Message}
  /\ check' = [state |-> "DELIVERED", message_id |-> Message] /\ handled' = handled + 1
  /\ UNCHANGED <<senders, posted, trialVars>>

Drop(h) ==
  /\ senders[h] # "none" /\ senders' = [senders EXCEPT ![h] = "none"]
  /\ UNCHANGED <<check, posted, handled, trialVars>>

QualificationNext ==
  \/ Deliver
  \/ \E a \in Attempts : LateCreate(a) \/ Pass(a) \/ Timeout(a)
  \/ \E h \in Servers :
       \/ Allocate(h) \/ RecordSession(h) \/ Execute(h) \/ Collect(h) \/ Fail(h) \/ Finish(h)
       \/ Destroy(h) \/ Confirm(h) \/ Unclean(h) \/ Disconnect(h) \/ Abort(h)
       \/ ReserveCheck(h) \/ SendCheck(h) \/ Sent(h) \/ Unsure(h) \/ Drop(h)
       \/ \E a \in Attempts : Reserve(h, a) \/ ReconcileTrial(h, a)

QualificationSpec == QualificationInit /\ [][QualificationNext]_qualificationVars
-----------------------------------------------------------------------------
(* Properties *)

QualificationTypeOK ==
  /\ attempts \in [Attempts -> AttemptRow \cup {NoRow}] /\ serving \in [Servers -> Lifecycle \cup {NoWork}]
  /\ machines \in [Attempts -> {"none", "pending", "live", "other", "gone"}]
  /\ check \in CheckRow \cup {NoRow} /\ senders \in [Servers -> {"none", "sending", "accepted", "unknown"}]
  /\ overdue \subseteq Known /\ lock \in Servers \cup {NoServer} /\ posted \in BOOLEAN

\* An attempt that is said to be cleaned up has no machine and will never have one, whoever
\* cleaned up, however late the answer (infrastructure-lifecycle.mjs, reconcile).
ConfirmedMeansGone == \A a \in Known : attempts[a].cleanup_confirmed =>
  /\ machines[a] \in {"none", "gone"}
  /\ \A h \in Servers : ~(Busy(h, "allocate") /\ serving[h].id = a /\ a \notin overdue)

\* One trial at a time: no second machine is there, asked for, or about to be.
OneTrial == Cardinality({a \in Attempts : machines[a] \in {"pending", "live", "other"}}) <= 1

\* A trial that passed left its report (infrastructure-lifecycle.mjs, executeInfrastructure).
PassProven == \A a \in Known : attempts[a].outcome = "PASS" => attempts[a].artifact

\* One check is sent and handled once, whichever of receipt and delivery comes first
\* (queue-delivery.mjs, sent and delivered).
HandledOnce == handled <= 1 /\ (handled = 1 => check.state = "DELIVERED")

QualificationSound == QualificationTypeOK /\ ConfirmedMeansGone /\ OneTrial /\ PassProven /\ HandledOnce
=============================================================================
