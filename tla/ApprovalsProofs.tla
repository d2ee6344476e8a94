--------------------------- MODULE ApprovalsProofs ---------------------------
(***************************************************************************)
(* What the parts of the approvals run promise, for every number of       *)
(* runs, sites, requests, attempts, WorkOrders and revisions: the trials   *)
(* of the hosted infrastructure, the owner's policy and the routing, and   *)
(* the web application.  The parts share nothing, and each is proved of    *)
(* its own specification.                                                  *)
(***************************************************************************)
EXTENDS MCApprovals, SequenceTheorems, FiniteSetTheorems, WellFoundedInduction, TLAPS

(***************************************************************************)
(* The trials.                                                             *)
(*                                                                         *)
(* The lock alone does not keep two handlers from one machine: it goes     *)
(* with the connection, and its holder learns of that later.  The argument *)
(* rests on who may still ask for a machine.  An attempt has one executor  *)
(* for ever, and everyone else waits until what it asked for can no longer *)
(* come.                                                                   *)
(***************************************************************************)

Serves(h, a)   == serving[h] # NoWork /\ serving[h].id = a
Active(a)      == machines[a] \in {"pending", "live", "other"}

\* The handler that reserved the attempt, wherever it is by now.
Executor(h, a) == Serves(h, a) /\ serving[h].stage # "reconcile"
                  /\ (serving[h].stage \in {"confirm", "unclean"} => serving[h].sandbox)

ServedKnown == \A h \in Servers : serving[h] # NoWork => serving[h].id \in Known

OneExecutor == \A h, k \in Servers, a \in Attempts : Executor(h, a) /\ Executor(k, a) => h = k

\* Who is not the executor came after the deadline and its grace.
OthersLate == \A h \in Servers, a \in Attempts : Serves(h, a) /\ ~Executor(h, a) => a \in overdue

\* A handler without a machine has not been past its allocation with one.
TrialStages == \A h \in Servers : serving[h] # NoWork =>
  /\ serving[h].sandbox => serving[h].stage \notin {"allocate", "reconcile"}
  /\ serving[h].stage \in {"record", "execute", "collect"} => serving[h].sandbox

NoneToCome ==
  /\ \A a \in overdue : machines[a] # "pending"
  /\ \A h \in Servers, a \in Attempts : Serves(h, a) /\ serving[h].sandbox => machines[a] \in {"live", "gone"}
  /\ \A h \in Servers, a \in Attempts : Serves(h, a) /\ serving[h].stage = "confirm" => machines[a] \in {"none", "gone"}

OneUnresolved == \A a, b \in Unresolved : a = b

ActiveKnown == \A a \in Attempts : Active(a) => a \in Known

QueueInv ==
  /\ handled \in {0, 1} /\ (handled = 1 => check # NoRow /\ check.state = "DELIVERED")
  /\ \A h \in Servers : senders[h] # "none" => check # NoRow
  /\ posted => check # NoRow

TrialInv == /\ QualificationTypeOK /\ ServedKnown /\ OneExecutor /\ OthersLate /\ TrialStages /\ NoneToCome
            /\ OneUnresolved /\ ActiveKnown /\ ConfirmedMeansGone /\ PassProven

LEMMA SentinelsApart == NoRow \notin AttemptRow /\ NoRow \notin CheckRow /\ NoWork \notin Lifecycle /\ NoServer \notin Servers
BY QualificationBounds
-----------------------------------------------------------------------------
(* The queue *)

LEMMA QueueStep ==
  ASSUME QualificationTypeOK, QueueInv, NEW h \in Servers,
         Deliver \/ ReserveCheck(h) \/ SendCheck(h) \/ Sent(h) \/ Unsure(h) \/ Drop(h)
  PROVE  QueueInv' /\ (check \in CheckRow \cup {NoRow})' /\ posted' \in BOOLEAN
         /\ (senders \in [Servers -> {"none", "sending", "accepted", "unknown"}])' /\ UNCHANGED trialVars
<1> USE SentinelsApart DEF QualificationTypeOK, QueueInv
<1>1. check # NoRow => check \in CheckRow OBVIOUS
<1>2. CASE Deliver BY <1>1, <1>2 DEF Deliver, CheckRow
<1>3. CASE ReserveCheck(h) BY <1>1, <1>3 DEF ReserveCheck, CheckRow
<1>4. CASE SendCheck(h) BY <1>1, <1>4 DEF SendCheck, CheckRow
<1>5. CASE Sent(h) BY <1>1, <1>5 DEF Sent, CheckRow
<1>6. CASE Unsure(h) BY <1>1, <1>6 DEF Unsure, CheckRow
<1>7. CASE Drop(h) BY <1>1, <1>7 DEF Drop, CheckRow
<1> QED BY <1>2, <1>3, <1>4, <1>5, <1>6, <1>7
-----------------------------------------------------------------------------
(* The machines *)

\* What an update that does not confirm a cleanup leaves of the rows.
RowsKept ==
  /\ attempts' \in [Attempts -> AttemptRow \cup {NoRow}]
  /\ \A a \in Attempts : attempts'[a] = NoRow <=> attempts[a] = NoRow
  /\ \A a \in Known :
       /\ attempts'[a].cleanup_confirmed = attempts[a].cleanup_confirmed
       /\ attempts'[a].outcome = "PASS" => attempts'[a].artifact

\* Nobody else serves an attempt before its deadline and its grace.
LEMMA Alone ==
  ASSUME OneExecutor, OthersLate, NEW h \in Servers, NEW a \in Attempts \ overdue, Executor(h, a),
         NEW k \in Servers, Serves(k, a)
  PROVE  k = h
BY DEF OneExecutor, OthersLate

LEMMA Updated ==
  ASSUME TrialInv, NEW h \in Servers, serving[h] # NoWork, NEW row \in AttemptRow, Update(h, row),
         row.cleanup_confirmed = Row(h).cleanup_confirmed,
         lock = h => (row.outcome = "PASS" => row.artifact)
  PROVE  RowsKept
<1>1. serving[h].id \in Known BY DEF TrialInv, ServedKnown
<1> USE SentinelsApart DEF TrialInv, QualificationTypeOK, PassProven, RowsKept, Known
<1>2. CASE lock = h BY <1>1, <1>2 DEF Update, Row
<1>3. CASE lock # h BY <1>3 DEF Update
<1> QED BY <1>2, <1>3

\* A handler goes on with its attempt: what has to be shown of its machine and of where it is.
LEMMA Moves ==
  ASSUME TrialInv, RowsKept, NEW h \in Servers, serving[h] # NoWork, NEW next \in Lifecycle,
         next.id = serving[h].id, serving' = [serving EXCEPT ![h] = next],
         next.stage \notin {"allocate", "reconcile"},
         next.stage \in {"record", "execute", "collect"} => next.sandbox,
         serving[h].sandbox => next.sandbox, next.sandbox => Executor(h, next.id),
         ~next.sandbox => (next.stage \in {"confirm", "unclean"} <=> ~Executor(h, next.id)),
         overdue' = overdue, lock' = lock, posted' = posted, check' = check, senders' = senders,
         NEW m \in {"none", "pending", "live", "other", "gone"}, machines' = [machines EXCEPT ![next.id] = m],
         \/ m = machines[next.id]
         \/ m = "gone"
         \/ serving[h].stage = "allocate" /\ next.id \notin overdue,
         next.sandbox => m \in {"live", "gone"},
         next.stage = "confirm" => m \in {"none", "gone"}
  PROVE  TrialInv'
<1> DEFINE a == next.id
<1> USE SentinelsApart DEF TrialInv
<1>0. a \in Known /\ a \in Attempts /\ Known' = Known /\ Unresolved' = Unresolved /\ Serves(h, a)
  <2>1. a \in Known /\ a \in Attempts /\ Serves(h, a) BY DEF ServedKnown, Known, Serves
  <2>2. Known' = Known BY DEF RowsKept, Known
  <2>3. Unresolved' = Unresolved BY DEF RowsKept, Known, Unresolved
  <2> QED BY <2>1, <2>2, <2>3
<1>1. \A k \in Servers : k # h => serving'[k] = serving[k] BY DEF QualificationTypeOK
<1>2. serving'[h] = next /\ next # NoWork BY DEF QualificationTypeOK
<1>3. \A b \in Attempts : machines'[b] = IF b = a THEN m ELSE machines[b] BY <1>0 DEF QualificationTypeOK
<1>4. \A k \in Servers, b \in Attempts : Serves(k, b)' <=> Serves(k, b) BY <1>1, <1>2 DEF Serves
<1>5. \A k \in Servers, b \in Attempts : Executor(k, b)' <=> Executor(k, b)
  <2>1. \A k \in Servers, b \in Attempts : k # h => (Executor(k, b)' <=> Executor(k, b)) BY <1>1 DEF Executor, Serves
  <2>2. \A b \in Attempts : Executor(h, b)' <=> Executor(h, b) BY <1>2 DEF Executor, Serves
  <2> QED BY <2>1, <2>2
<1>6. QualificationTypeOK' BY <1>0, <1>3 DEF QualificationTypeOK, RowsKept
<1>7. ServedKnown' BY <1>0, <1>1, <1>2 DEF ServedKnown
<1>8. OneExecutor' BY <1>5 DEF OneExecutor
<1>9. OthersLate' BY <1>4, <1>5 DEF OthersLate
<1>10. TrialStages' BY <1>1, <1>2 DEF TrialStages
<1>11. m # machines[a] /\ m # "gone" => \A k \in Servers : Serves(k, a) => k = h
  <2>1. serving[h].stage = "allocate" => Executor(h, a) BY <1>0 DEF Executor
  <2> QED BY <1>0, <2>1, Alone
<1>12. NoneToCome'
  <2>1. \A b \in overdue' : machines'[b] # "pending"
    BY <1>0, <1>3 DEF NoneToCome, QualificationTypeOK, Known
  <2>2. \A k \in Servers, b \in Attempts : Serves(k, b)' /\ serving'[k].sandbox => machines'[b] \in {"live", "gone"}
    <3> SUFFICES ASSUME NEW k \in Servers, NEW b \in Attempts, Serves(k, b), serving'[k].sandbox
                 PROVE  machines'[b] \in {"live", "gone"}
      BY <1>4
    <3>1. CASE k = h BY <3>1, <1>2, <1>3 DEF Serves
    <3>2. CASE k # h BY <3>2, <1>1, <1>3, <1>11 DEF NoneToCome
    <3> QED BY <3>1, <3>2
  <2>3. \A k \in Servers, b \in Attempts : Serves(k, b)' /\ serving'[k].stage = "confirm" => machines'[b] \in {"none", "gone"}
    <3> SUFFICES ASSUME NEW k \in Servers, NEW b \in Attempts, Serves(k, b), serving'[k].stage = "confirm"
                 PROVE  machines'[b] \in {"none", "gone"}
      BY <1>4
    <3>1. CASE k = h BY <3>1, <1>2, <1>3 DEF Serves
    <3>2. CASE k # h BY <3>2, <1>1, <1>3, <1>11 DEF NoneToCome
    <3> QED BY <3>1, <3>2
  <2> QED BY <2>1, <2>2, <2>3 DEF NoneToCome
<1>13. OneUnresolved' BY <1>0 DEF OneUnresolved
<1>14. ActiveKnown' BY <1>0, <1>3 DEF ActiveKnown, Active
<1>15. ConfirmedMeansGone'
  <2> SUFFICES ASSUME NEW b \in Known, attempts[b].cleanup_confirmed
               PROVE  /\ machines'[b] \in {"none", "gone"}
                      /\ \A k \in Servers : ~(Busy(k, "allocate")' /\ serving'[k].id = b /\ b \notin overdue)
    BY <1>0 DEF ConfirmedMeansGone, RowsKept, Known, Busy
  <2>1. machines[b] \in {"none", "gone"} /\ \A k \in Servers : ~(Busy(k, "allocate") /\ serving[k].id = b /\ b \notin overdue)
    BY DEF ConfirmedMeansGone
  <2>2. machines'[b] \in {"none", "gone"} BY <1>3, <2>1 DEF Busy, Known
  <2>3. \A k \in Servers : ~(Busy(k, "allocate")' /\ serving'[k].id = b /\ b \notin overdue)
    BY <1>1, <1>2, <2>1 DEF Busy
  <2> QED BY <2>2, <2>3
<1>16. PassProven' BY DEF PassProven, RowsKept, Known
<1> QED BY <1>6, <1>7, <1>8, <1>9, <1>10, <1>12, <1>13, <1>14, <1>15, <1>16

\* A handler ends.  What is confirmed here has no machine, and nobody will ask for one.
LEMMA Leaves ==
  ASSUME TrialInv, NEW h \in Servers, serving[h] # NoWork, serving' = [serving EXCEPT ![h] = NoWork],
         lock' \in Servers \cup {NoServer}, UNCHANGED <<machines, overdue, posted, check, senders>>,
         attempts' \in [Attempts -> AttemptRow \cup {NoRow}],
         \A a \in Attempts : attempts'[a] = NoRow <=> attempts[a] = NoRow,
         \A a \in Known : attempts'[a].outcome = "PASS" => attempts'[a].artifact,
         \A a \in Known : \/ attempts'[a].cleanup_confirmed = attempts[a].cleanup_confirmed
                          \/ /\ attempts'[a].cleanup_confirmed
                             /\ Serves(h, a) /\ serving[h].stage = "confirm"
  PROVE  TrialInv'
<1> USE SentinelsApart DEF TrialInv
<1>1. \A k \in Servers : serving'[k] = IF k = h THEN NoWork ELSE serving[k] BY DEF QualificationTypeOK
<1>2. Known' = Known BY DEF Known
<1>3. Unresolved' \subseteq Unresolved BY <1>2 DEF Unresolved, Known
<1>4. QualificationTypeOK' BY <1>2 DEF QualificationTypeOK
<1>5. ServedKnown' BY <1>1, <1>2 DEF ServedKnown
<1>6. OneExecutor' BY <1>1 DEF OneExecutor, Executor, Serves
<1>7. OthersLate' BY <1>1 DEF OthersLate, Executor, Serves
<1>8. TrialStages' BY <1>1 DEF TrialStages
<1>9. NoneToCome' BY <1>1 DEF NoneToCome, Serves
<1>10. OneUnresolved' BY <1>3 DEF OneUnresolved
<1>11. ActiveKnown' BY <1>2 DEF ActiveKnown, Active
<1>12. ConfirmedMeansGone'
  <2> SUFFICES ASSUME NEW b \in Known, attempts'[b].cleanup_confirmed
               PROVE  /\ machines[b] \in {"none", "gone"}
                      /\ \A k \in Servers : ~(Busy(k, "allocate")' /\ serving'[k].id = b /\ b \notin overdue)
    BY <1>2 DEF ConfirmedMeansGone
  <2>1. CASE attempts[b].cleanup_confirmed
    BY <1>1, <2>1 DEF ConfirmedMeansGone, Busy
  <2>2. CASE ~attempts[b].cleanup_confirmed
    <3>1. Serves(h, b) /\ serving[h].stage = "confirm" /\ b \in Attempts BY <2>2 DEF Known
    <3>2. machines[b] \in {"none", "gone"} BY <3>1 DEF NoneToCome
    <3>3. \A k \in Servers : Busy(k, "allocate") /\ serving[k].id = b /\ b \notin overdue => k = h
      <4>1. \A k \in Servers : Busy(k, "allocate") /\ serving[k].id = b => Executor(k, b)
        BY DEF Busy, Executor, Serves
      <4> QED BY <3>1, <4>1, Alone
    <3> QED BY <1>1, <3>2, <3>3 DEF Busy
  <2> QED BY <2>1, <2>2
<1>13. PassProven' BY <1>2 DEF PassProven
<1> QED BY <1>4, <1>5, <1>6, <1>7, <1>8, <1>9, <1>10, <1>11, <1>12, <1>13

LEMMA ReserveStep ==
  ASSUME TrialInv, NEW h \in Servers, NEW a \in Attempts, Reserve(h, a)
  PROVE  TrialInv'
<1> USE SentinelsApart DEF TrialInv
<1> DEFINE row  == [state |-> "ALLOCATING", outcome |-> "NONE", artifact |-> FALSE, cleanup_confirmed |-> FALSE]
           next == [id |-> a, stage |-> "allocate", sandbox |-> FALSE]
<1>1. row \in AttemptRow /\ next \in Lifecycle BY DEF AttemptRow, Lifecycle
<1>2. /\ serving[h] = NoWork /\ attempts[a] = NoRow /\ Unresolved = {} /\ lock' = h
      /\ attempts' = [attempts EXCEPT ![a] = row] /\ serving' = [serving EXCEPT ![h] = next]
      /\ UNCHANGED <<machines, overdue, check, senders, posted>>
  BY DEF Reserve, queueVars
<1>3. \A k \in Servers : serving'[k] = IF k = h THEN next ELSE serving[k] BY <1>2 DEF QualificationTypeOK
<1>4. \A b \in Attempts : attempts'[b] = IF b = a THEN row ELSE attempts[b] BY <1>2 DEF QualificationTypeOK
<1>5. next.id = a /\ next.stage = "allocate" /\ ~next.sandbox /\ row.outcome = "NONE" /\ ~row.cleanup_confirmed
  OBVIOUS
<1> HIDE DEF row, next
<1>6. Known' = Known \cup {a} BY <1>1, <1>4 DEF Known
<1>7. Unresolved' = {a} BY <1>1, <1>2, <1>4, <1>5 DEF Unresolved
<1>8. a \notin Known /\ \A k \in Servers : k # h => ~Serves(k, a)'
  BY <1>2, <1>3 DEF Known, Serves, ServedKnown
<1>9. QualificationTypeOK' BY <1>1, <1>2, <1>6 DEF QualificationTypeOK
<1>10. ServedKnown' BY <1>3, <1>5, <1>6 DEF ServedKnown
<1>11. \A k \in Servers, b \in Attempts : k # h =>
        (Executor(k, b)' <=> Executor(k, b)) /\ (Serves(k, b)' <=> Serves(k, b))
  BY <1>3 DEF Executor, Serves
<1>12. \A b \in Attempts : (Serves(h, b)' <=> b = a) /\ (Executor(h, b)' <=> b = a)
  <2>1. serving'[h] = next /\ next # NoWork BY <1>1, <1>3
  <2>2. \A b \in Attempts : Serves(h, b)' <=> b = a BY <1>5, <2>1 DEF Serves
  <2> QED BY <1>5, <2>1, <2>2 DEF Executor
<1>13. OneExecutor' BY <1>8, <1>11, <1>12 DEF OneExecutor, Executor
<1>14. OthersLate' BY <1>2, <1>11, <1>12 DEF OthersLate
<1>15. TrialStages' BY <1>3, <1>5 DEF TrialStages
<1>16. NoneToCome' BY <1>2, <1>3, <1>5 DEF NoneToCome, Serves
<1>17. OneUnresolved' BY <1>7 DEF OneUnresolved
<1>18. ActiveKnown' BY <1>2, <1>6 DEF ActiveKnown, Active
<1>19. ConfirmedMeansGone' BY <1>2, <1>3, <1>4, <1>5, <1>6, <1>8 DEF ConfirmedMeansGone, Busy, Known
<1>20. PassProven' BY <1>4, <1>5, <1>6, <1>8 DEF PassProven, Known
<1> QED BY <1>9, <1>10, <1>13, <1>14, <1>15, <1>16, <1>17, <1>18, <1>19, <1>20

LEMMA ReconcileStep ==
  ASSUME TrialInv, NEW h \in Servers, NEW a \in Attempts, ReconcileTrial(h, a)
  PROVE  TrialInv'
<1> USE SentinelsApart DEF TrialInv
<1> DEFINE next == [id |-> a, stage |-> "reconcile", sandbox |-> FALSE]
<1>1. next \in Lifecycle BY DEF Lifecycle
<1>2. /\ serving[h] = NoWork /\ a \in Unresolved /\ a \in overdue /\ lock' = h
      /\ serving' = [serving EXCEPT ![h] = next]
      /\ UNCHANGED <<attempts, machines, overdue, check, senders, posted>>
  BY DEF ReconcileTrial, queueVars
<1>3. \A k \in Servers : serving'[k] = IF k = h THEN next ELSE serving[k] BY <1>2 DEF QualificationTypeOK
<1>4. next.id = a /\ next.stage = "reconcile" /\ ~next.sandbox OBVIOUS
<1> HIDE DEF next
<1>5. Known' = Known /\ Unresolved' = Unresolved /\ a \in Known BY <1>2 DEF Known, Unresolved
<1>6. QualificationTypeOK' BY <1>1, <1>2, <1>5 DEF QualificationTypeOK
<1>7. ServedKnown' BY <1>3, <1>4, <1>5 DEF ServedKnown
<1>8. OneExecutor' BY <1>3, <1>4 DEF OneExecutor, Executor, Serves
<1>9. OthersLate' BY <1>2, <1>3, <1>4 DEF OthersLate, Executor, Serves
<1>10. TrialStages' BY <1>3, <1>4 DEF TrialStages
<1>11. NoneToCome' BY <1>2, <1>3, <1>4 DEF NoneToCome, Serves
<1>12. OneUnresolved' BY <1>5 DEF OneUnresolved
<1>13. ActiveKnown' BY <1>2, <1>5 DEF ActiveKnown, Active
<1>14. ConfirmedMeansGone' BY <1>2, <1>3, <1>4, <1>5 DEF ConfirmedMeansGone, Busy
<1>15. PassProven' BY <1>2, <1>5 DEF PassProven
<1> QED BY <1>6, <1>7, <1>8, <1>9, <1>10, <1>11, <1>12, <1>13, <1>14, <1>15

\* A machine comes late, its time passes, the provider stops it, the connection is lost.
LEMMA WorldStep ==
  ASSUME TrialInv,
         \/ \E a \in Attempts : LateCreate(a) \/ Pass(a) \/ Timeout(a)
         \/ \E h \in Servers : Disconnect(h)
  PROVE  TrialInv'
<1> USE DEF TrialInv
<1>1. /\ UNCHANGED <<attempts, serving, check, senders, posted>> /\ overdue \subseteq overdue'
      /\ overdue' \subseteq Known /\ lock' \in Servers \cup {NoServer}
      /\ machines' \in [Attempts -> {"none", "pending", "live", "other", "gone"}]
      /\ \A a \in Attempts : machines'[a] # machines[a] =>
           \/ machines[a] = "pending" /\ machines'[a] = "live"
           \/ machines'[a] = "none" /\ machines[a] = "pending"
           \/ machines'[a] = "gone"
      /\ \A a \in overdue' : machines'[a] # "pending"
  BY DEF LateCreate, Pass, Timeout, Disconnect, QualificationTypeOK, NoneToCome, queueVars, Known
<1>2. Known' = Known /\ Unresolved' = Unresolved BY <1>1 DEF Known, Unresolved
<1>3. QualificationTypeOK' BY <1>1, <1>2 DEF QualificationTypeOK
<1>4. ServedKnown' BY <1>1, <1>2 DEF ServedKnown
<1>5. OneExecutor' BY <1>1 DEF OneExecutor, Executor, Serves
<1>6. OthersLate' BY <1>1 DEF OthersLate, Executor, Serves
<1>7. TrialStages' BY <1>1 DEF TrialStages
<1>8. NoneToCome' BY <1>1 DEF NoneToCome, Serves
<1>9. OneUnresolved' BY <1>2 DEF OneUnresolved
<1>10. ActiveKnown' BY <1>1, <1>2 DEF ActiveKnown, Active
<1>11. ConfirmedMeansGone' BY <1>1, <1>2 DEF ConfirmedMeansGone, Busy, Known
<1>12. PassProven' BY <1>1, <1>2 DEF PassProven
<1> QED BY <1>3, <1>4, <1>5, <1>6, <1>7, <1>8, <1>9, <1>10, <1>11, <1>12

\* The lifecycle of an attempt, one step of its handler.
LEMMA HandlerStep ==
  ASSUME TrialInv, NEW h \in Servers,
         \/ Allocate(h) \/ RecordSession(h) \/ Execute(h) \/ Collect(h) \/ Fail(h) \/ Finish(h)
         \/ Destroy(h) \/ Confirm(h) \/ Unclean(h) \/ Abort(h)
  PROVE  TrialInv'
<1> DEFINE a == serving[h].id
<1> USE DEF TrialInv
<1>0. /\ serving[h] # NoWork /\ serving[h] \in Lifecycle /\ a \in Known /\ a \in Attempts /\ Row(h) \in AttemptRow
      /\ machines[a] \in {"none", "pending", "live", "other", "gone"} /\ Serves(h, a)
  <2>1. serving[h] # NoWork
    BY DEF Busy, Allocate, RecordSession, Execute, Collect, Fail, Finish, Destroy, Confirm, Unclean, Abort
  <2>2. a \in Known /\ a \in Attempts BY <2>1 DEF ServedKnown, Known
  <2> QED BY <2>1, <2>2 DEF QualificationTypeOK, Row, Known, Serves
<1>1. Row(h).outcome = "PASS" => Row(h).artifact BY <1>0 DEF PassProven, Row
<1>2. UNCHANGED attempts => RowsKept
  BY DEF RowsKept, QualificationTypeOK, PassProven
<1>3. UNCHANGED machines => machines' = [machines EXCEPT ![a] = machines[a]] BY <1>0 DEF QualificationTypeOK
<1>4. CASE Allocate(h)
  <2>1. /\ serving[h].stage = "allocate" /\ ~serving[h].sandbox /\ Executor(h, a) /\ RowsKept
        /\ UNCHANGED <<attempts, overdue, lock, posted, check, senders>>
    BY <1>0, <1>2, <1>4 DEF Allocate, Busy, Executor, TrialStages, queueVars
  <2>2. CASE a \notin overdue /\ machines' = [machines EXCEPT ![a] = "live"]
             /\ serving' = [serving EXCEPT ![h] = [serving[h] EXCEPT !.stage = "record", !.sandbox = TRUE]]
    <3> DEFINE next == [serving[h] EXCEPT !.stage = "record", !.sandbox = TRUE]
    <3>1. /\ next \in Lifecycle /\ next.id = a /\ next.stage = "record" /\ next.sandbox
          /\ serving' = [serving EXCEPT ![h] = next]
      BY <1>0, <2>2 DEF Lifecycle
    <3> HIDE DEF next
    <3> QED BY <1>0, <2>1, <2>2, <3>1, Moves
  <2>3. ASSUME NEW m \in {"none", "pending", "live", "other", "gone"}, machines' = [machines EXCEPT ![a] = m],
               m = machines[a] \/ a \notin overdue, Then(h, "failed")
        PROVE  TrialInv'
    <3> DEFINE next == [serving[h] EXCEPT !.stage = "failed"]
    <3>1. /\ next \in Lifecycle /\ next.id = a /\ next.stage = "failed" /\ ~next.sandbox
          /\ serving' = [serving EXCEPT ![h] = next]
      BY <1>0, <2>1, <2>3 DEF Lifecycle, Then
    <3> HIDE DEF next
    <3> QED BY <1>0, <2>1, <2>3, <3>1, Moves
  <2> QED BY <1>0, <1>3, <1>4, <2>2, <2>3 DEF Allocate
<1>5. ASSUME NEW row \in AttemptRow, Update(h, row), row.cleanup_confirmed = Row(h).cleanup_confirmed,
             lock = h => (row.outcome = "PASS" => row.artifact)
      PROVE  RowsKept
  BY <1>0, <1>5, Updated
<1>6. ASSUME RowsKept, UNCHANGED <<machines, overdue, lock, posted, check, senders>>,
             Executor(h, a), NEW stage \in {"record", "execute", "collect", "failed", "finally"}, Then(h, stage),
             stage \in {"record", "execute", "collect"} => serving[h].sandbox
      PROVE  TrialInv'
  <2> DEFINE next == [serving[h] EXCEPT !.stage = stage]
  <2>1. /\ next \in Lifecycle /\ next.id = a /\ next.stage = stage /\ next.sandbox = serving[h].sandbox
        /\ serving' = [serving EXCEPT ![h] = next]
    BY <1>0, <1>6 DEF Lifecycle, Then
  <2>2. next.sandbox => machines[a] \in {"live", "gone"} BY <1>0, <2>1 DEF NoneToCome
  <2> HIDE DEF next
  <2> QED BY ZenonT(60), <1>0, <1>3, <1>6, <2>1, <2>2, Moves
<1>7. CASE RecordSession(h)
  <2> DEFINE row == [Row(h) EXCEPT !.state = "RUNNING"]
  <2>1. /\ row \in AttemptRow /\ row.cleanup_confirmed = Row(h).cleanup_confirmed
        /\ row.outcome = Row(h).outcome /\ row.artifact = Row(h).artifact /\ Update(h, row)
    BY <1>0, <1>7 DEF AttemptRow, RecordSession
  <2> HIDE DEF row
  <2>2. RowsKept BY <1>1, <1>5, <2>1
  <2>3. /\ Executor(h, a) /\ serving[h].sandbox /\ UNCHANGED <<machines, overdue, lock, posted, check, senders>>
        /\ \E stage \in {"execute", "failed"} : Then(h, stage)
    BY <1>0, <1>7 DEF RecordSession, Busy, Executor, TrialStages, queueVars
  <2> QED BY <1>6, <2>2, <2>3
<1>8. CASE Execute(h)
  <2> DEFINE row == [Row(h) EXCEPT !.outcome = "UNKNOWN"]
  <2>1. /\ row \in AttemptRow /\ row.cleanup_confirmed = Row(h).cleanup_confirmed
        /\ row.outcome = "UNKNOWN" /\ Update(h, row)
    BY <1>0, <1>8 DEF AttemptRow, Execute
  <2> HIDE DEF row
  <2>2. RowsKept BY <1>5, <2>1
  <2>3. /\ Executor(h, a) /\ serving[h].sandbox /\ UNCHANGED <<machines, overdue, lock, posted, check, senders>>
        /\ \E stage \in {"collect", "failed"} : Then(h, stage)
    BY <1>0, <1>8 DEF Execute, Busy, Executor, TrialStages, queueVars
  <2> QED BY <1>6, <2>2, <2>3
<1>9. CASE Collect(h)
  <2> DEFINE row == [Row(h) EXCEPT !.state = "COLLECTED", !.outcome = "PASS", !.artifact = TRUE]
  <2>1. row \in AttemptRow /\ row.cleanup_confirmed = Row(h).cleanup_confirmed /\ row.artifact
    BY <1>0 DEF AttemptRow
  <2>2. Update(h, row) \/ UNCHANGED attempts BY <1>9 DEF Collect
  <2> HIDE DEF row
  <2>3. RowsKept BY <1>2, <1>5, <2>1, <2>2
  <2>4. /\ Executor(h, a) /\ UNCHANGED <<machines, overdue, lock, posted, check, senders>>
        /\ \E stage \in {"finally", "failed"} : Then(h, stage)
    BY <1>0, <1>9 DEF Collect, Busy, Executor, TrialStages, queueVars
  <2> QED BY <1>6, <2>3, <2>4
<1>10. CASE Fail(h)
  <2> DEFINE row == [Row(h) EXCEPT !.state = "UNKNOWN", !.outcome = "UNKNOWN"]
  <2>1. /\ row \in AttemptRow /\ row.cleanup_confirmed = Row(h).cleanup_confirmed
        /\ row.outcome = "UNKNOWN" /\ Update(h, row)
    BY <1>0, <1>10 DEF AttemptRow, Fail
  <2> HIDE DEF row
  <2>2. RowsKept BY <1>5, <2>1
  <2>3. Executor(h, a) /\ UNCHANGED <<machines, overdue, lock, posted, check, senders>> /\ Then(h, "finally")
    BY <1>0, <1>10 DEF Fail, Busy, Executor, queueVars
  <2> QED BY <1>6, <2>2, <2>3
<1>11. CASE Destroy(h)
  <2>1. PICK stage \in {"confirm", "unclean"}, m \in {machines[a], "gone"} :
          /\ Then(h, stage) /\ machines' = [machines EXCEPT ![a] = m]
          /\ stage = "confirm" => machines[a] # "other" /\ (machines[a] = "live" => m = "gone")
    BY <1>0, <1>3, <1>11 DEF Destroy
  <2>2. UNCHANGED <<attempts, overdue, lock, posted, check, senders>> /\ RowsKept
    BY <1>2, <1>11 DEF Destroy, queueVars
  <2> DEFINE next == [serving[h] EXCEPT !.stage = stage]
  <2>3. /\ next \in Lifecycle /\ next.id = a /\ next.stage = stage /\ next.sandbox = serving[h].sandbox
        /\ serving' = [serving EXCEPT ![h] = next]
    BY <1>0, <2>1 DEF Lifecycle, Then
  <2>4. next.sandbox => machines[a] \in {"live", "gone"} BY <1>0, <2>3 DEF NoneToCome
  <2>5. Executor(h, a) <=> next.sandbox
    BY <1>0, <1>11, <2>3 DEF Destroy, Busy, Executor, TrialStages
  <2>6. ~next.sandbox => machines[a] # "pending"
    BY <1>0, <2>5 DEF OthersLate, NoneToCome
  <2>7. stage = "confirm" => m \in {"none", "gone"} BY <1>0, <2>1, <2>4, <2>6
  <2> HIDE DEF next
  <2> QED BY <1>0, <2>1, <2>2, <2>3, <2>4, <2>5, <2>7, Moves
<1>12. CASE Finish(h) \/ Abort(h)
  BY <1>0, <1>12, Leaves DEF Finish, Abort, Leave, QualificationTypeOK, PassProven, queueVars
<1>13. CASE Confirm(h)
  <2> DEFINE outcome == IF Row(h).outcome = "NONE" THEN "UNKNOWN" ELSE Row(h).outcome
             row     == [Row(h) EXCEPT !.state = "DESTROYED", !.cleanup_confirmed = TRUE, !.outcome = outcome]
  <2>1. row \in AttemptRow /\ row.cleanup_confirmed /\ (row.outcome = "PASS" => row.artifact)
    BY <1>0, <1>1 DEF AttemptRow
  <2>2. Update(h, row) BY <1>13 DEF Confirm
  <2> HIDE DEF row
  <2>3. serving[h].stage = "confirm" /\ serving' = [serving EXCEPT ![h] = NoWork]
        /\ lock' \in Servers \cup {NoServer} /\ UNCHANGED <<machines, overdue, posted, check, senders>>
    BY <1>13 DEF Confirm, Busy, Leave, QualificationTypeOK, queueVars
  <2>4. CASE lock = h
    <3>1. \A b \in Attempts : attempts'[b] = IF b = a THEN row ELSE attempts[b]
      BY <2>2, <2>4 DEF Update, QualificationTypeOK
    <3>2. attempts' \in [Attempts -> AttemptRow \cup {NoRow}]
      BY <2>1, <2>2, <2>4 DEF Update, QualificationTypeOK
    <3>3. \A b \in Attempts : attempts'[b] = NoRow <=> attempts[b] = NoRow
      BY <1>0, <2>1, <3>1, SentinelsApart DEF Known
    <3> QED BY <1>0, <2>1, <2>3, <3>1, <3>2, <3>3, Leaves DEF PassProven, Known
  <2>5. CASE lock # h
    BY <1>0, <2>2, <2>3, <2>5, Leaves DEF Update, QualificationTypeOK, PassProven
  <2> QED BY <2>4, <2>5
<1>14. CASE Unclean(h)
  <2> DEFINE row == [Row(h) EXCEPT !.state = "UNKNOWN", !.outcome = "UNKNOWN"]
  <2>1. row \in AttemptRow /\ row.cleanup_confirmed = Row(h).cleanup_confirmed /\ row.outcome = "UNKNOWN"
    BY <1>0 DEF AttemptRow
  <2>2. Update(h, row) \/ UNCHANGED attempts BY <1>14 DEF Unclean
  <2> HIDE DEF row
  <2>3. RowsKept BY <1>2, <1>5, <2>1, <2>2
  <2>4. serving' = [serving EXCEPT ![h] = NoWork] /\ lock' \in Servers \cup {NoServer}
        /\ UNCHANGED <<machines, overdue, posted, check, senders>>
    BY <1>14 DEF Unclean, Leave, QualificationTypeOK, queueVars
  <2> QED BY <1>0, <2>3, <2>4, Leaves DEF RowsKept
<1> QED BY <1>4, <1>7, <1>8, <1>9, <1>10, <1>11, <1>12, <1>13, <1>14
-----------------------------------------------------------------------------
LEMMA TrialInvInit == QualificationInit => TrialInv /\ QueueInv
<1> SUFFICES ASSUME QualificationInit PROVE TrialInv /\ QueueInv OBVIOUS
<1> USE DEF QualificationInit
<1>1. Known = {} /\ Unresolved = {} BY DEF Known, Unresolved
<1>2. QualificationTypeOK BY <1>1 DEF QualificationTypeOK
<1>3. ServedKnown /\ OneExecutor /\ OthersLate /\ TrialStages /\ NoneToCome
  BY DEF ServedKnown, OneExecutor, OthersLate, TrialStages, NoneToCome, Executor, Serves
<1>4. OneUnresolved /\ ActiveKnown /\ ConfirmedMeansGone /\ PassProven
  BY <1>1 DEF OneUnresolved, ActiveKnown, Active, ConfirmedMeansGone, PassProven
<1> QED BY <1>2, <1>3, <1>4 DEF TrialInv, QueueInv

LEMMA QualificationStep ==
  TrialInv /\ QueueInv /\ [QualificationNext]_qualificationVars => TrialInv' /\ QueueInv'
<1> SUFFICES ASSUME TrialInv, QueueInv, [QualificationNext]_qualificationVars PROVE TrialInv' /\ QueueInv' OBVIOUS
<1>1. UNCHANGED queueVars => QueueInv' BY DEF queueVars, QueueInv
<1>2. ASSUME UNCHANGED trialVars, (check \in CheckRow \cup {NoRow})', posted' \in BOOLEAN,
             (senders \in [Servers -> {"none", "sending", "accepted", "unknown"}])'
      PROVE  TrialInv'
  BY <1>2 DEF trialVars, TrialInv, QualificationTypeOK, ServedKnown, OneExecutor, OthersLate, TrialStages, NoneToCome,
       OneUnresolved, ActiveKnown, ConfirmedMeansGone, PassProven, Known, Unresolved, Executor, Serves, Active, Busy
<1>3. CASE UNCHANGED qualificationVars
  BY <1>1, <1>2, <1>3 DEF qualificationVars, queueVars, trialVars, TrialInv, QualificationTypeOK
<1>4. CASE \E a \in Attempts : LateCreate(a) \/ Pass(a) \/ Timeout(a)
  <2>1. UNCHANGED queueVars BY <1>4 DEF LateCreate, Pass, Timeout
  <2> QED BY <1>1, <1>4, <2>1, WorldStep
<1>5. ASSUME NEW h \in Servers,
             \/ Allocate(h) \/ RecordSession(h) \/ Execute(h) \/ Collect(h) \/ Fail(h) \/ Finish(h)
             \/ Destroy(h) \/ Confirm(h) \/ Unclean(h) \/ Abort(h)
      PROVE  TrialInv' /\ QueueInv'
  <2>1. UNCHANGED queueVars
    BY <1>5 DEF Allocate, RecordSession, Execute, Collect, Fail, Finish, Destroy, Confirm, Unclean, Abort
  <2> QED BY <1>1, <1>5, <2>1, HandlerStep
<1>6. ASSUME NEW h \in Servers, Disconnect(h) PROVE TrialInv' /\ QueueInv'
  <2>1. UNCHANGED queueVars BY <1>6 DEF Disconnect
  <2> QED BY <1>1, <1>6, <2>1, WorldStep
<1>7. ASSUME NEW h \in Servers, NEW a \in Attempts, Reserve(h, a) \/ ReconcileTrial(h, a) PROVE TrialInv' /\ QueueInv'
  <2>1. UNCHANGED queueVars BY <1>7 DEF Reserve, ReconcileTrial
  <2> QED BY <1>1, <1>7, <2>1, ReserveStep, ReconcileStep
<1>8. ASSUME NEW h \in Servers, ReserveCheck(h) \/ SendCheck(h) \/ Sent(h) \/ Unsure(h) \/ Drop(h)
      PROVE  TrialInv' /\ QueueInv'
  BY <1>2, <1>8, QueueStep DEF TrialInv
<1>9. CASE Deliver
  <2>1. UNCHANGED trialVars /\ UNCHANGED <<senders, posted>> BY <1>9 DEF Deliver
  <2>2. QueueInv' /\ (check \in CheckRow \cup {NoRow})'
    BY <1>9, SentinelsApart DEF Deliver, QueueInv, TrialInv, QualificationTypeOK, CheckRow
  <2> QED BY <1>2, <2>1, <2>2 DEF TrialInv, QualificationTypeOK
<1> QED BY <1>3, <1>4, <1>5, <1>6, <1>7, <1>8, <1>9 DEF QualificationNext

LEMMA OneTrialFollows == TrialInv => OneTrial
<1> SUFFICES ASSUME TrialInv PROVE OneTrial OBVIOUS
<1> DEFINE there == {a \in Attempts : machines[a] \in {"pending", "live", "other"}}
<1>1. there \subseteq Unresolved
  BY DEF TrialInv, ActiveKnown, Active, ConfirmedMeansGone, Known, Unresolved
<1>2. \A a, b \in there : a = b BY <1>1 DEF TrialInv, OneUnresolved
<1>3. CASE there = {} BY <1>3, FS_EmptySet DEF OneTrial
<1>4. CASE there # {}
  <2> PICK a \in there : TRUE BY <1>4
  <2>1. there = {a} BY <1>2
  <2>2. Cardinality({a}) = 1 BY FS_Singleton
  <2> QED BY <2>1, <2>2 DEF OneTrial
<1> QED BY <1>3, <1>4

\* Both trials keep their promises, for any number of handlers, attempts and lost
\* connections (infrastructure-lifecycle.mjs and queue-delivery.mjs).
THEOREM QualificationSoundHolds == QualificationSpec => []QualificationSound
<1>1. QualificationInit => TrialInv /\ QueueInv BY TrialInvInit
<1>2. (TrialInv /\ QueueInv) /\ [QualificationNext]_qualificationVars => (TrialInv /\ QueueInv)' BY QualificationStep
<1>3. TrialInv /\ QueueInv => QualificationSound
  BY OneTrialFollows DEF TrialInv, QueueInv, QualificationSound, HandledOnce
<1> QED BY <1>1, <1>2, <1>3, PTL DEF QualificationSpec

(***************************************************************************)
(* The policy and its controls.                                            *)
(*                                                                         *)
(* A change of the policy goes to the witness before the database, so that *)
(* what both agree on is the last revision.  A run is admitted only at the *)
(* last revision, and only when that has no control; so every run that a   *)
(* control finds was admitted before it, and the reconciliation has either *)
(* suspended it or lists it as pending.                                    *)
(***************************************************************************)

ControlRow == [operation : {"pause", "revoke"}, revision : Nat]
ReplyRow   == [complete : BOOLEAN, pending : SUBSET Runs]
RunState   == [older : BOOLEAN, revision : Nat, at : Nat, paused : SUBSET Nat, revoked : SUBSET Nat,
               machine : {"none", "live", "gone"}, verifier : {"none", "live", "gone"}]

Controlling(p) == \E c \in Capabilities : p.controls[c] # "none"

\* The witness is never behind: what agrees with it is the last policy it was shown.
HeadInv ==
  /\ history \in Seq(OwnerStates) /\ stored \in 1..Len(history)
  /\ head \in [revision : Nat, policy : OwnerStates] /\ head.revision = Len(history)
  /\ changing # NoPolicy => /\ changing \in {"none", "pause", "revoke"} /\ Len(history) = stored + 1
                            /\ changing # "none" => Controlling(history[Len(history)])

\* A control is part of the policy of its revision.
ControlsInv ==
  /\ controlled \in Seq(ControlRow) /\ replies \in Seq(ReplyRow) /\ Len(replies) = Len(controlled)
  /\ \A c \in 1..Len(controlled) :
       controlled[c].revision \in 1..Len(history) /\ Controlling(history[controlled[c].revision])

\* A run is admitted at the last revision, which has no control.
RunOK(r) ==
  /\ r \in RunState /\ r.revision = r.at /\ r.at <= Len(history)
  /\ r.at > 0 => ~Controlling(history[r.at])
  /\ r.at = 0 => r.paused = {} /\ r.revoked = {}
  /\ r.paused \cup r.revoked \subseteq 1..Len(controlled)
  /\ \A c \in r.paused \cup r.revoked : r.at < controlled[c].revision

RunsOK == DOMAIN run = Runs /\ \A r \in Runs : RunOK(run[r])

Quiet(r) == r.machine # "live" /\ r.verifier # "live" /\ (r.paused # {} \/ r.revoked # {})

\* What a completed control is about is quiet: a run that was admitted before it, and not by
\* an older source.
CompleteInv == \A c \in 1..Len(controlled) : replies[c].complete =>
  \A r \in Runs : ~run[r].older /\ (run[r].at > 0 /\ run[r].at < controlled[c].revision => Quiet(run[r]))

AdmittingOK == admitting \in Runs \cup {NoRun}
  /\ (admitting # NoRun => run[admitting].at = 0 /\ ~run[admitting].older)

CapabilityInv == HeadInv /\ ControlsInv /\ RunsOK /\ CompleteInv /\ AdmittingOK

LEMMA CapabilityStarts == CapabilityInit => CapabilityInv
<1> SUFFICES ASSUME CapabilityInit PROVE CapabilityInv
  OBVIOUS
<1> DEFINE first == [enabled |-> Capabilities, controls |-> [c \in Capabilities |-> "none"]]
<1>1. first \in OwnerStates BY DEF OwnerStates
<1>2. HeadInv
  <2> HIDE DEF first
  <2>1. history = <<first>> /\ stored = 1 /\ changing = NoPolicy BY DEF CapabilityInit, first
  <2>2. head = [revision |-> 1, policy |-> first] BY <2>1 DEF CapabilityInit, OwnerState
  <2> QED BY <1>1, <2>1, <2>2 DEF HeadInv
<1>3. ControlsInv BY DEF CapabilityInit, ControlsInv
<1>4. RunsOK
  <2>1. DOMAIN run = Runs /\ \A r \in Runs : run[r] \in {NewRun, OlderRun} BY DEF CapabilityInit
  <2>2. NewRun \in RunState /\ OlderRun \in RunState BY DEF NewRun, OlderRun, RunState
  <2>3. \A r \in {NewRun, OlderRun} : r.at = 0 /\ r.revision = 0 /\ r.paused = {} /\ r.revoked = {}
    BY DEF NewRun, OlderRun
  <2>4. Len(history) \in Nat BY <1>2 DEF HeadInv
  <2> QED BY <2>1, <2>2, <2>3, <2>4 DEF RunsOK, RunOK
<1>5. CompleteInv BY DEF CapabilityInit, CompleteInv
<1> QED BY <1>2, <1>3, <1>4, <1>5 DEF CapabilityInv, CapabilityInit, AdmittingOK

\* Steps that leave the runs and the controls alone.
LEMMA RunsLeft ==
  ASSUME CapabilityInv, UNCHANGED <<controlled, run, replies>>, HeadInv', AdmittingOK',
         Len(history) <= Len(history'), \A v \in 1..Len(history) : history'[v] = history[v]
  PROVE  CapabilityInv'
<1>1. Len(history) \in Nat /\ Len(history') \in Nat BY DEF CapabilityInv, HeadInv
<1>2. ControlsInv' BY <1>1 DEF CapabilityInv, ControlsInv
<1>3. RunsOK'
  <2> SUFFICES ASSUME NEW r \in Runs PROVE RunOK(run[r])' BY DEF CapabilityInv, RunsOK
  <2>1. RunOK(run[r]) BY DEF CapabilityInv, RunsOK
  <2>2. run[r].at \in Nat /\ run[r].at <= Len(history) BY <2>1 DEF RunOK, RunState
  <2>3. run[r].at > 0 => run[r].at \in 1..Len(history) BY <1>1, <2>2
  <2> QED BY <1>1, <2>1, <2>2, <2>3 DEF RunOK
<1>4. CompleteInv' BY DEF CapabilityInv, CompleteInv
<1> QED BY <1>2, <1>3, <1>4 DEF CapabilityInv

\* The next policy.
LEMMA AdvanceKeeps ==
  ASSUME CapabilityInv, NEW operation \in {"none", "pause", "revoke"}, NEW after \in OwnerStates,
         operation # "none" => Controlling(after), AdvanceWitness(operation, after)
  PROVE  CapabilityInv'
<1>1. stored = Len(history) /\ Len(history) \in Nat /\ history \in Seq(OwnerStates)
  BY DEF CapabilityInv, HeadInv, AdvanceWitness, HeadMatches, recoveryHead
<1>2. history' = Append(history, after)
  <2>1. SubSeq(history, 1, stored) = history BY <1>1, SubSeqFull
  <2> QED BY <2>1 DEF AdvanceWitness
<1>3. /\ history' \in Seq(OwnerStates) /\ Len(history') = Len(history) + 1 /\ history'[Len(history')] = after
      /\ \A v \in 1..Len(history) : history'[v] = history[v]
  BY <1>1, <1>2
<1>4. HeadInv'
  <2>1. head' = [revision |-> stored + 1, policy |-> after] /\ changing' = operation /\ stored' = stored
    BY DEF AdvanceWitness
  <2>2. head' \in [revision : Nat, policy : OwnerStates] /\ head'.revision = Len(history') BY <1>1, <1>3, <2>1
  <2>3. stored' \in 1..Len(history') BY <1>1, <1>3, <2>1 DEF CapabilityInv, HeadInv
  <2> QED BY <1>1, <1>3, <2>1, <2>2, <2>3 DEF HeadInv
<1>5. AdmittingOK' BY DEF AdvanceWitness, CapabilityInv, AdmittingOK
<1>6. Len(history) <= Len(history') BY <1>1, <1>3
<1> QED BY <1>3, <1>4, <1>5, <1>6, RunsLeft DEF AdvanceWitness

LEMMA ChangeKeeps == ASSUME CapabilityInv, Change PROVE CapabilityInv'
<1>1. OwnerState \in OwnerStates
  <2>1. history \in Seq(OwnerStates) /\ stored \in 1..Len(history) BY DEF CapabilityInv, HeadInv
  <2> QED BY <2>1 DEF OwnerState
<1>2. PICK o \in OwnerStates : o = OwnerState BY <1>1
<1>3. o.enabled \subseteq Capabilities /\ o.controls \in [Capabilities -> {"none", "pause", "revoke"}]
  BY DEF OwnerStates
<1>4. ASSUME NEW c \in Capabilities, NEW operation \in {"pause", "revoke"},
             AdvanceWitness(operation, [OwnerState EXCEPT !.controls[c] = operation])
      PROVE  CapabilityInv'
  <2> DEFINE after == [o EXCEPT !.controls[c] = operation]
  <2>1. after \in OwnerStates /\ after.controls[c] = operation BY <1>3 DEF OwnerStates
  <2>2. Controlling(after) BY <2>1 DEF Controlling
  <2>3. AdvanceWitness(operation, after) BY <1>2, <1>4
  <2> HIDE DEF after
  <2> QED BY <2>1, <2>2, <2>3, AdvanceKeeps
<1>5. ASSUME NEW c \in Capabilities,
             AdvanceWitness("none", [OwnerState EXCEPT !.controls[c] = "none", !.enabled = @ \cup {c}])
      PROVE  CapabilityInv'
  <2> DEFINE after == [o EXCEPT !.controls[c] = "none", !.enabled = @ \cup {c}]
  <2>1. after \in OwnerStates BY <1>3 DEF OwnerStates
  <2>2. AdvanceWitness("none", after) BY <1>2, <1>5
  <2> HIDE DEF after
  <2> QED BY <2>1, <2>2, AdvanceKeeps
<1>6. ASSUME NEW c, AdvanceWitness("none", [OwnerState EXCEPT !.enabled = @ \ {c}])
      PROVE  CapabilityInv'
  <2> DEFINE after == [o EXCEPT !.enabled = @ \ {c}]
  <2>1. after \in OwnerStates BY <1>3 DEF OwnerStates
  <2>2. AdvanceWitness("none", after) BY <1>2, <1>6
  <2> HIDE DEF after
  <2> QED BY <2>1, <2>2, AdvanceKeeps
<1> QED BY <1>4, <1>5, <1>6 DEF Change

LEMMA CommitPolicyKeeps == ASSUME CapabilityInv, CommitPolicy PROVE CapabilityInv'
<1>1. /\ stored + 1 = Len(history) /\ Len(history) \in Nat /\ stored' = Len(history) /\ changing' = NoPolicy
      /\ UNCHANGED <<history, head>> /\ changing # NoPolicy
  BY DEF CapabilityInv, HeadInv, CommitPolicy
<1>2. PICK operation \in {"none", "pause", "revoke"} : operation = changing BY <1>1 DEF CapabilityInv, HeadInv
<1>3. operation # "none" => Controlling(history[Len(history)]) BY <1>1, <1>2 DEF CapabilityInv, HeadInv
<1>4. HeadInv'
  <2>1. stored' \in 1..Len(history) BY <1>1 DEF CapabilityInv, HeadInv
  <2> QED BY <1>1, <2>1 DEF CapabilityInv, HeadInv
<1>5. AdmittingOK' BY DEF CommitPolicy, CapabilityInv, AdmittingOK
<1>6. CASE operation = "none"
  <2>1. UNCHANGED <<controlled, run, replies>> BY <1>2, <1>6 DEF CommitPolicy
  <2> QED BY <1>1, <1>4, <1>5, <2>1, RunsLeft
<1>7. CASE operation # "none"
  <2> DEFINE row == [operation |-> operation, revision |-> stored'] answer == [complete |-> FALSE, pending |-> {}]
  <2>1. controlled' = Append(controlled, row) /\ replies' = Append(replies, answer) /\ run' = run
    BY <1>2, <1>7 DEF CommitPolicy
  <2>2. row \in ControlRow /\ row.revision = Len(history) /\ answer \in ReplyRow /\ ~answer.complete
    BY <1>1, <1>7 DEF ControlRow, ReplyRow
  <2> HIDE DEF row, answer
  <2>3. controlled \in Seq(ControlRow) /\ replies \in Seq(ReplyRow) /\ Len(replies) = Len(controlled)
    BY DEF CapabilityInv, ControlsInv
  <2>4. /\ controlled' \in Seq(ControlRow) /\ replies' \in Seq(ReplyRow) /\ Len(replies') = Len(controlled')
        /\ Len(controlled) \in Nat /\ Len(controlled') = Len(controlled) + 1
        /\ controlled'[Len(controlled')] = row /\ replies'[Len(controlled')] = answer
        /\ \A c \in 1..Len(controlled) : controlled'[c] = controlled[c] /\ replies'[c] = replies[c]
    BY <2>1, <2>2, <2>3
  <2>5. ControlsInv'
    <3> SUFFICES ASSUME NEW c \in 1..Len(controlled')
                 PROVE  controlled'[c].revision \in 1..Len(history) /\ Controlling(history[controlled'[c].revision])
      BY <1>1, <2>4 DEF ControlsInv
    <3>1. CASE c = Len(controlled')
      <4>1. Len(history) \in 1..Len(history) BY <1>1 DEF CapabilityInv, HeadInv
      <4> QED BY <1>3, <1>7, <2>2, <2>4, <3>1, <4>1
    <3>2. CASE c \in 1..Len(controlled) BY <2>4, <3>2 DEF CapabilityInv, ControlsInv
    <3> QED BY <2>4, <3>1, <3>2
  <2>6. RunsOK'
    <3> SUFFICES ASSUME NEW r \in Runs PROVE RunOK(run[r])' BY <2>1 DEF CapabilityInv, RunsOK
    <3>1. RunOK(run[r]) /\ run'[r] = run[r] BY <2>1 DEF CapabilityInv, RunsOK
    <3>2. PICK row0 \in RunState : row0 = run[r] BY <3>1 DEF RunOK
    <3>3. row0.paused \cup row0.revoked \subseteq 1..Len(controlled)
          /\ \A c \in row0.paused \cup row0.revoked : row0.at < controlled[c].revision
      BY <3>1, <3>2 DEF RunOK
    <3>4. ASSUME NEW c \in row0.paused \cup row0.revoked
          PROVE  c \in 1..Len(controlled') /\ row0.at < controlled'[c].revision
      BY <2>4, <3>3
    <3>5. RunOK(row0)' BY <1>1, <3>1, <3>2, <3>4 DEF RunOK
    <3> QED BY <3>1, <3>2, <3>5
  <2>7. CompleteInv'
    <3> SUFFICES ASSUME NEW c \in 1..Len(controlled'), replies'[c].complete
                 PROVE  \A r \in Runs : ~run'[r].older /\ (run'[r].at > 0 /\ run'[r].at < controlled'[c].revision => Quiet(run'[r]))
      BY DEF CompleteInv
    <3>1. c \in 1..Len(controlled) BY <2>2, <2>4
    <3> QED BY <2>1, <2>4, <3>1 DEF CapabilityInv, CompleteInv
  <2> QED BY <1>4, <1>5, <2>5, <2>6, <2>7 DEF CapabilityInv
<1> QED BY <1>6, <1>7

LEMMA PolicyKeeps == ASSUME CapabilityInv, LosePolicy \/ RestorePolicy \/ ExpireEvidence PROVE CapabilityInv'
<1>1. UNCHANGED <<controlled, run, replies, history, head>> /\ AdmittingOK'
  BY DEF LosePolicy, RestorePolicy, ExpireEvidence, CapabilityInv, AdmittingOK
<1>2. HeadInv /\ Len(history) \in Nat BY DEF CapabilityInv, HeadInv
<1>3. HeadInv'
  <2>1. CASE LosePolicy BY <1>2, <2>1 DEF LosePolicy, HeadInv
  <2>2. CASE RestorePolicy BY <1>2, <2>2 DEF RestorePolicy, HeadInv, Unlocked
  <2>3. CASE ExpireEvidence BY <1>2, <2>3 DEF ExpireEvidence, HeadInv
  <2> QED BY <2>1, <2>2, <2>3
<1> QED BY <1>1, <1>2, <1>3, RunsLeft DEF CapabilityInv

\* Steps that write the runs alone, each of them to what it may be.
LEMMA RunsWritten ==
  ASSUME CapabilityInv, UNCHANGED <<history, stored, head, changing, controlled, replies>>,
         AdmittingOK', DOMAIN run' = Runs,
         \A r \in Runs : RunOK(run'[r]) /\ (run'[r].older <=> run[r].older)
                         /\ \/ run'[r].at = run[r].at /\ (Quiet(run[r]) => Quiet(run'[r]))
                            \/ run'[r].at = Len(history)
  PROVE  CapabilityInv'
<1>1. HeadInv' /\ ControlsInv' BY DEF CapabilityInv, HeadInv, ControlsInv
<1>2. RunsOK' BY DEF RunsOK, RunOK
<1>3. CompleteInv'
  <2> SUFFICES ASSUME NEW c \in 1..Len(controlled), replies[c].complete, NEW r \in Runs
               PROVE  ~run'[r].older /\ (run'[r].at > 0 /\ run'[r].at < controlled[c].revision => Quiet(run'[r]))
    BY DEF CompleteInv
  <2>1. ~run[r].older /\ (run[r].at > 0 /\ run[r].at < controlled[c].revision => Quiet(run[r]))
    BY DEF CapabilityInv, CompleteInv
  <2>2. controlled[c].revision \in 1..Len(history) /\ Len(history) \in Nat BY DEF CapabilityInv, ControlsInv, HeadInv
  <2>3. ~(Len(history) < controlled[c].revision) BY <2>2
  <2> QED BY <2>1, <2>3
<1> QED BY <1>1, <1>2, <1>3 DEF CapabilityInv

LEMMA AdmissionKeeps == ASSUME CapabilityInv, CommitAdmission \/ \E r \in Runs : BeginAdmission(r) PROVE CapabilityInv'
<1>1. ASSUME NEW r \in Runs, BeginAdmission(r) PROVE CapabilityInv'
  <2>1. HeadInv' BY <1>1 DEF CapabilityInv, HeadInv, BeginAdmission
  <2>2. Len(history) \in Nat BY DEF CapabilityInv, HeadInv
  <2>3. run[r].revision = run[r].at /\ run[r].at \in Nat BY DEF CapabilityInv, RunsOK, RunOK, RunState
  <2>4. AdmittingOK' BY <1>1, <2>3 DEF AdmittingOK, BeginAdmission, Admitted, Older
  <2> QED BY <1>1, <2>1, <2>2, <2>4, RunsLeft DEF BeginAdmission
<1>2. ASSUME CommitAdmission PROVE CapabilityInv'
  <2>1. /\ UNCHANGED <<history, stored, head, changing, controlled, replies>> /\ admitting' = NoRun
        /\ admitting \in Runs
    BY <1>2 DEF CommitAdmission, CapabilityInv, AdmittingOK
  <2>2. CASE ~CapabilityAdmission
    <3>1. run' = run BY <1>2, <2>2 DEF CommitAdmission
    <3> QED BY <2>1, <3>1, RunsWritten DEF CapabilityInv, RunsOK, AdmittingOK
  <2>3. CASE CapabilityAdmission
    <3>1. stored = Len(history) /\ Len(history) \in Nat /\ stored \in 1..Len(history)
      BY <2>3 DEF CapabilityInv, HeadInv, CapabilityAdmission, HeadMatches, recoveryHead
    <3>2. ~Controlling(history[stored])
      BY <2>3 DEF CapabilityAdmission, Required, Capabilities, Controlling, OwnerState
    <3>3. PICK k \in Runs : k = admitting BY <2>1
    <3>4. PICK row \in RunState : row = run[k] /\ RunOK(row) BY DEF CapabilityInv, RunsOK, RunOK
    <3> DEFINE next == [row EXCEPT !.revision = stored, !.at = Len(history)]
    <3>5. /\ next \in RunState /\ next.revision = next.at /\ next.at = Len(history) /\ next.older = row.older
          /\ next.paused = row.paused /\ next.revoked = row.revoked
      BY <3>1 DEF RunState
    <3>6. run' = [run EXCEPT ![k] = next] BY <1>2, <2>3, <3>3, <3>4 DEF CommitAdmission
    <3> HIDE DEF next
    <3>7. row.at = 0 /\ ~row.older BY <3>3, <3>4, CapabilityBounds DEF CapabilityInv, AdmittingOK
    <3>8. row.paused = {} /\ row.revoked = {} BY <3>4, <3>7 DEF RunOK
    <3>9. RunOK(next) BY <3>1, <3>2, <3>5, <3>8 DEF RunOK
    <3> QED
      <4> SUFFICES ASSUME NEW r \in Runs
                   PROVE  RunOK(run'[r]) /\ (run'[r].older <=> run[r].older)
                          /\ \/ run'[r].at = run[r].at /\ (Quiet(run[r]) => Quiet(run'[r]))
                             \/ run'[r].at = Len(history)
        BY <2>1, <3>6, RunsWritten, CapabilityBounds DEF CapabilityInv, RunsOK, AdmittingOK
      <4>1. CASE r = k BY <3>4, <3>5, <3>6, <3>9, <4>1 DEF CapabilityInv, RunsOK
      <4>2. CASE r # k BY <3>6, <4>2 DEF CapabilityInv, RunsOK
      <4> QED BY <4>1, <4>2
  <2> QED BY <2>2, <2>3
<1> QED BY <1>1, <1>2

\* What becomes of a run without a control: its machines come and go.
LEMMA MachinesKeep ==
  ASSUME CapabilityInv, NEW k \in Runs, NEW row \in RunState, NEW next \in RunState,
         row = run[k], next = [row EXCEPT !.machine = next.machine, !.verifier = next.verifier],
         Quiet(row) => Quiet(next), run' = [run EXCEPT ![k] = next],
         UNCHANGED <<history, stored, head, changing, controlled, replies, admitting>>
  PROVE  CapabilityInv'
<1>1. RunOK(row) /\ DOMAIN run = Runs BY DEF CapabilityInv, RunsOK
<1>2. /\ next.older = row.older /\ next.at = row.at /\ next.revision = row.revision /\ next.paused = row.paused
      /\ next.revoked = row.revoked
  BY DEF RunState
<1>3. RunOK(next) BY <1>1, <1>2 DEF RunOK
<1> SUFFICES ASSUME NEW r \in Runs
             PROVE  RunOK(run'[r]) /\ (run'[r].older <=> run[r].older)
                    /\ \/ run'[r].at = run[r].at /\ (Quiet(run[r]) => Quiet(run'[r]))
                       \/ run'[r].at = Len(history)
  <2>1. AdmittingOK' BY <1>1, <1>2 DEF CapabilityInv, AdmittingOK
  <2> QED BY <1>1, <2>1, RunsWritten
<1>4. CASE r = k BY <1>1, <1>2, <1>3, <1>4
<1>5. CASE r # k BY <1>1, <1>5 DEF CapabilityInv, RunsOK
<1> QED BY <1>4, <1>5

LEMMA MachineSteps ==
  ASSUME CapabilityInv, NEW r \in Runs, ClaimMachine(r) \/ ClaimVerifier(r) \/ ConfirmCleanup(r)
  PROVE  CapabilityInv'
<1>1. PICK row \in RunState : row = run[r] BY DEF CapabilityInv, RunsOK, RunOK
<1>2. UNCHANGED <<history, stored, head, changing, controlled, replies, admitting>>
  BY DEF ClaimMachine, ClaimVerifier, ConfirmCleanup
<1> DEFINE claimed == [row EXCEPT !.machine = "live"] checked == [row EXCEPT !.verifier = "live"]
           freed == [row EXCEPT !.machine = "gone"] ended == [row EXCEPT !.verifier = "gone"]
<1>3. /\ claimed \in RunState /\ claimed = [row EXCEPT !.machine = claimed.machine, !.verifier = claimed.verifier]
      /\ checked \in RunState /\ checked = [row EXCEPT !.machine = checked.machine, !.verifier = checked.verifier]
      /\ freed \in RunState /\ freed = [row EXCEPT !.machine = freed.machine, !.verifier = freed.verifier]
      /\ ended \in RunState /\ ended = [row EXCEPT !.machine = ended.machine, !.verifier = ended.verifier]
  BY DEF RunState
<1>4. (Quiet(row) => Quiet(freed)) /\ (Quiet(row) => Quiet(ended)) BY DEF Quiet, RunState
<1>5. CASE ClaimMachine(r)
  <2>1. run' = [run EXCEPT ![r] = claimed] BY <1>1, <1>5 DEF ClaimMachine
  <2>2. ~Quiet(row) BY <1>1, <1>5 DEF ClaimMachine, Suspended, Quiet
  <2> QED BY ONLY CapabilityInv, <1>1, <1>2, <1>3, <2>1, <2>2, MachinesKeep
<1>6. CASE ClaimVerifier(r)
  <2>1. run' = [run EXCEPT ![r] = checked] BY <1>1, <1>6 DEF ClaimVerifier
  <2>2. ~Quiet(row) BY <1>1, <1>6 DEF ClaimVerifier, Suspended, Quiet
  <2> QED BY ONLY CapabilityInv, <1>1, <1>2, <1>3, <2>1, <2>2, MachinesKeep
<1>7. CASE ConfirmCleanup(r)
  <2>1. run' = [run EXCEPT ![r] = freed] \/ run' = [run EXCEPT ![r] = ended] BY <1>1, <1>7 DEF ConfirmCleanup
  <2>2. CASE run' = [run EXCEPT ![r] = freed]
    BY ONLY CapabilityInv, <1>1, <1>2, <1>3, <1>4, <2>2, MachinesKeep
  <2>3. CASE run' = [run EXCEPT ![r] = ended]
    BY ONLY CapabilityInv, <1>1, <1>2, <1>3, <1>4, <2>3, MachinesKeep
  <2> QED BY <2>1, <2>2, <2>3
<1> QED BY <1>5, <1>6, <1>7

LEMMA ReconcileKeeps ==
  ASSUME CapabilityInv, NEW c \in 1..Len(controlled), NEW r \in Runs, ReconcileControl(c, r)
  PROVE  CapabilityInv'
<1>1. PICK row \in RunState : row = run[r] BY DEF CapabilityInv, RunsOK, RunOK
<1> DEFINE next == [row EXCEPT !.machine = Destroyed(row.machine), !.verifier = Destroyed(row.verifier)]
<1>2. next \in RunState /\ next = [row EXCEPT !.machine = next.machine, !.verifier = next.verifier]
  BY DEF RunState, Destroyed
<1>3. Quiet(row) => Quiet(next) BY DEF Quiet, RunState, Destroyed
<1>4. run' = [run EXCEPT ![r] = next]
  <2>1. run' = [run EXCEPT ![r].machine = Destroyed(@), ![r].verifier = Destroyed(@)] BY DEF ReconcileControl
  <2>2. DOMAIN run = Runs BY DEF CapabilityInv, RunsOK
  <2> QED BY <1>1, <2>1, <2>2
<1>5. UNCHANGED <<history, stored, head, changing, controlled, replies, admitting>> BY DEF ReconcileControl
<1> HIDE DEF next
<1> QED BY <1>1, <1>2, <1>3, <1>4, <1>5, MachinesKeep

\* What a control marks was admitted before it, and what is complete is quiet.
LEMMA ApplyKeeps == ASSUME CapabilityInv, NEW c \in 1..Len(controlled), ApplyControl(c) PROVE CapabilityInv'
<1> DEFINE Marked(r) == IF controlled[c].operation = "pause" THEN [run[r] EXCEPT !.paused = @ \cup {c}]
                        ELSE [run[r] EXCEPT !.revoked = @ \cup {c}]
           unclean == {r \in Subject(c) : ~Clean(r)}
<1>1. /\ run' = [r \in Runs |-> IF r \notin Subject(c) THEN run[r] ELSE Marked(r)]
      /\ replies' = [replies EXCEPT ![c] = [complete |-> unclean = {} /\ Older = {}, pending |-> unclean]]
      /\ UNCHANGED <<history, stored, head, changing, controlled, admitting>>
  BY DEF ApplyControl
<1>2. /\ controlled \in Seq(ControlRow) /\ replies \in Seq(ReplyRow) /\ Len(replies) = Len(controlled)
      /\ controlled[c].revision \in 1..Len(history) /\ Controlling(history[controlled[c].revision])
      /\ Len(history) \in Nat
  BY DEF CapabilityInv, ControlsInv, HeadInv
<1>3. ASSUME NEW r \in Subject(c)
      PROVE  /\ r \in Runs /\ run[r].at > 0 /\ run[r].at < controlled[c].revision /\ ~run[r].older
             /\ RunOK(Marked(r)) /\ Marked(r).older = run[r].older /\ Marked(r).at = run[r].at
             /\ (Quiet(run[r]) => Quiet(Marked(r))) /\ (Clean(r) => Quiet(Marked(r)))
  <2>1. r \in Runs /\ r \notin Older /\ run[r].revision > 0 /\ run[r].revision <= controlled[c].revision
    BY DEF Subject, Admitted
  <2>2. PICK row \in RunState : row = run[r] /\ RunOK(row) BY <2>1 DEF CapabilityInv, RunsOK, RunOK
  <2>3. ~row.older BY <2>1, <2>2 DEF Older
  <2>4. row.at = row.revision /\ row.at > 0 /\ row.at <= controlled[c].revision /\ row.at \in Nat
    BY <2>1, <2>2 DEF RunOK, RunState
  <2>5. row.at # controlled[c].revision BY <1>2, <2>2, <2>4 DEF RunOK
  <2>6. row.at < controlled[c].revision BY <1>2, <2>4, <2>5
  <2> DEFINE next == IF controlled[c].operation = "pause" THEN [row EXCEPT !.paused = @ \cup {c}]
                     ELSE [row EXCEPT !.revoked = @ \cup {c}]
  <2>7. Marked(r) = next BY <2>2
  <2>8. /\ next \in RunState /\ next.older = row.older /\ next.at = row.at /\ next.revision = row.revision
        /\ next.machine = row.machine /\ next.verifier = row.verifier
        /\ next.paused \cup next.revoked = row.paused \cup row.revoked \cup {c}
    BY DEF RunState
  <2> HIDE DEF next
  <2>9. RunOK(next) BY <2>2, <2>4, <2>6, <2>8 DEF RunOK
  <2>10. (Quiet(row) => Quiet(next)) /\ (Clean(r) => Quiet(next)) BY <2>2, <2>8 DEF Quiet, Clean
  <2> QED BY ONLY <2>1, <2>2, <2>3, <2>4, <2>6, <2>7, <2>8, <2>9, <2>10
<1> HIDE DEF Marked
<1>4. ASSUME NEW r \in Runs
      PROVE  /\ RunOK(run'[r]) /\ run'[r].older = run[r].older /\ run'[r].at = run[r].at
             /\ (Quiet(run[r]) => Quiet(run'[r]))
             /\ (r \in Subject(c) /\ Clean(r) => Quiet(run'[r]))
  <2>1. RunOK(run[r]) BY DEF CapabilityInv, RunsOK
  <2>2. CASE r \in Subject(c)
    <3>1. run'[r] = Marked(r) BY <1>1, <2>2
    <3> QED BY ONLY <1>3, <2>2, <3>1
  <2>3. CASE r \notin Subject(c)
    <3>1. run'[r] = run[r] BY <1>1, <2>3
    <3> QED BY <2>1, <2>3, <3>1
  <2> QED BY <2>2, <2>3
<1>5. unclean \in SUBSET Runs BY DEF Subject
<1>6. /\ replies' \in Seq(ReplyRow) /\ Len(replies') = Len(controlled)
      /\ replies'[c].complete = (unclean = {} /\ Older = {})
      /\ \A d \in 1..Len(controlled) : d # c => replies'[d] = replies[d]
  <2> DEFINE answer == [complete |-> unclean = {} /\ Older = {}, pending |-> unclean]
  <2>1. answer \in ReplyRow BY <1>5 DEF ReplyRow
  <2>2. answer.complete = (unclean = {} /\ Older = {}) OBVIOUS
  <2>3. replies' = [replies EXCEPT ![c] = answer] BY <1>1
  <2> HIDE DEF answer, unclean
  <2> QED BY <1>2, <2>1, <2>2, <2>3
<1>7. HeadInv' /\ ControlsInv' BY <1>1, <1>2, <1>6 DEF CapabilityInv, HeadInv, ControlsInv
<1>8. RunsOK' BY <1>1, <1>4 DEF RunsOK, RunOK
<1>9. CompleteInv'
  <2> SUFFICES ASSUME NEW d \in 1..Len(controlled), replies'[d].complete, NEW r \in Runs
               PROVE  ~run'[r].older /\ (run'[r].at > 0 /\ run'[r].at < controlled[d].revision => Quiet(run'[r]))
    BY <1>1 DEF CompleteInv
  <2>1. CASE d # c
    <3>1. replies[d].complete BY <1>6, <2>1
    <3>2. ~run[r].older /\ (run[r].at > 0 /\ run[r].at < controlled[d].revision => Quiet(run[r]))
      BY <3>1 DEF CapabilityInv, CompleteInv
    <3> QED BY <1>4, <3>2
  <2>2. CASE d = c
    <3>1. unclean = {} /\ Older = {} BY <1>6, <2>2
    <3>2. ~run[r].older BY <3>1 DEF Older
    <3>3. run[r].at > 0 /\ run[r].at < controlled[c].revision => r \in Subject(c) /\ Clean(r)
      <4>1. run[r].at = run[r].revision /\ run[r].at \in Nat /\ controlled[c].revision \in Nat
        BY <1>2 DEF CapabilityInv, RunsOK, RunOK, RunState
      <4> QED BY <3>1, <4>1 DEF Subject, Admitted
    <3> QED BY <1>4, <2>2, <3>2, <3>3
  <2> QED BY <2>1, <2>2
<1>10. AdmittingOK' BY <1>1, <1>4 DEF CapabilityInv, AdmittingOK
<1> QED BY <1>7, <1>8, <1>9, <1>10 DEF CapabilityInv

LEMMA CapabilityKept == CapabilityInv /\ [CapabilityNext]_capabilityVars => CapabilityInv'
<1> SUFFICES ASSUME CapabilityInv, CapabilityNext \/ UNCHANGED capabilityVars PROVE CapabilityInv'
  OBVIOUS
<1>1. CASE UNCHANGED capabilityVars
  <2>1. HeadInv' /\ AdmittingOK' /\ Len(history) \in Nat BY <1>1 DEF capabilityVars, CapabilityInv, HeadInv, AdmittingOK
  <2> QED BY <1>1, <2>1, RunsLeft DEF capabilityVars
<1>2. CASE Change BY <1>2, ChangeKeeps
<1>3. CASE CommitPolicy BY <1>3, CommitPolicyKeeps
<1>4. CASE LosePolicy \/ RestorePolicy \/ ExpireEvidence BY <1>4, PolicyKeeps
<1>5. CASE CommitAdmission \/ \E r \in Runs : BeginAdmission(r) BY <1>5, AdmissionKeeps
<1>6. CASE \E r \in Runs : ClaimMachine(r) \/ ClaimVerifier(r) \/ ConfirmCleanup(r) BY <1>6, MachineSteps
<1>7. CASE \E c \in DOMAIN controlled : ApplyControl(c) \/ \E r \in Runs : ReconcileControl(c, r)
  <2>1. DOMAIN controlled = 1..Len(controlled) BY DEF CapabilityInv, ControlsInv
  <2> QED BY <1>7, <2>1, ApplyKeeps, ReconcileKeeps
<1> QED BY <1>1, <1>2, <1>3, <1>4, <1>5, <1>6, <1>7 DEF CapabilityNext

LEMMA CapabilityInvSound == CapabilityInv => CapabilitySound
<1> SUFFICES ASSUME CapabilityInv PROVE CapabilitySound
  OBVIOUS
<1>1. CapabilityTypeOK
  BY DEF CapabilityInv, HeadInv, ControlsInv, AdmittingOK, CapabilityTypeOK
<1>2. AdmittedCurrent BY DEF AdmittedCurrent, CapabilityInv, RunsOK, RunOK
<1>3. ControlsForward BY DEF ControlsForward, CapabilityInv, RunsOK, RunOK
<1>4. AcknowledgedQuiet
  <2> SUFFICES ASSUME NEW c \in DOMAIN replies, replies[c].complete, NEW r \in Runs, Admitted(r),
                      run[r].at < controlled[c].revision
               PROVE  Clean(r) /\ Suspended(r)
    BY DEF AcknowledgedQuiet
  <2>1. c \in 1..Len(controlled) BY DEF CapabilityInv, ControlsInv
  <2>2. ~run[r].older /\ (run[r].at > 0 /\ run[r].at < controlled[c].revision => Quiet(run[r]))
    BY <2>1 DEF CapabilityInv, CompleteInv
  <2>3. run[r].revision = run[r].at BY DEF CapabilityInv, RunsOK, RunOK
  <2>4. Quiet(run[r]) BY <2>2, <2>3 DEF Admitted, Older
  <2> QED BY <2>4 DEF Quiet, Clean, Suspended
<1> QED BY <1>1, <1>2, <1>3, <1>4 DEF CapabilitySound

LEMMA CapabilityHolds == CapabilitySpec => []CapabilitySound
<1> QED BY CapabilityStarts, CapabilityKept, CapabilityInvSound, PTL DEF CapabilitySpec

(***************************************************************************)
(* The routing.                                                            *)
(*                                                                         *)
(* A binding is granted only for what is routable as it is described now.  *)
(* Versions only grow, so a site whose identity is no longer the one bound *)
(* has a later version.                                                    *)
(***************************************************************************)

RoutingInv ==
  /\ RoutingTypeOK /\ clock \in Nat /\ authority.sites \subseteq Sites
  /\ bound # NoBinding =>
       bound.identity = <<bound.site, bound.identity[2]>> /\ bound.identity[2] <= site[bound.site].version

\* Sites are numbers, and there are finitely many: the first of some is one of them.
LEMMA FirstIsOne == ASSUME NEW S, S \subseteq Sites, S # {} PROVE First(S) \in S
<1> DEFINE Below(s) == {t \in S : t < s}
           C == {Below(s) : s \in S}
<1>1. S \subseteq Nat BY RoutingBounds
<1>2. IsWellFoundedOn(StrictSubsetOrdering(S), SUBSET S)
  <2>1. IsFiniteSet(S) BY RoutingBounds, FS_Subset
  <2>2. FiniteSubsetsOf(S) = SUBSET S BY <2>1, FS_Subset DEF FiniteSubsetsOf
  <2> QED BY <2>2, FS_StrictSubsetOrderingWellFounded
<1>3. C \subseteq SUBSET S /\ C # {} OBVIOUS
<1>4. PICK b \in C : \A c \in C : <<c, b>> \notin StrictSubsetOrdering(S) BY <1>2, <1>3, WFMin
<1>5. PICK s \in S : b = Below(s) OBVIOUS
<1>6. \A t \in S : s <= t
  <2> SUFFICES ASSUME NEW t \in S, ~(s <= t) PROVE FALSE
    OBVIOUS
  <2>1. t < s /\ s \in Nat /\ t \in Nat BY <1>1
  <2>2. Below(t) \subseteq Below(s) /\ t \in Below(s) /\ t \notin Below(t)
    <3>1. \A x \in S : x < t => x < s BY <1>1, <2>1
    <3>2. ~(t < t) BY <2>1
    <3> QED BY <2>1, <3>1, <3>2
  <2>3. Below(t) \in C /\ Below(t) \in SUBSET S /\ Below(s) \in SUBSET S OBVIOUS
  <2>4. <<Below(t), Below(s)>> \in StrictSubsetOrdering(S) BY <2>2, <2>3 DEF StrictSubsetOrdering
  <2> QED BY <1>4, <1>5, <2>3, <2>4
<1>7. \E f \in S : \A t \in S : f <= t BY <1>6
<1> QED BY <1>7 DEF First

\* What is selected is routable, and is bound as it is now.
LEMMA SelectedRoutable ==
  ASSUME RoutingInv, RouteEnvironment.state = "SELECTED"
  PROVE  /\ RouteEnvironment.binding \in Binding /\ Routable(RouteEnvironment.binding.site)
         /\ RouteEnvironment.binding.identity = Identity(RouteEnvironment.binding.site)
         /\ bound = NoBinding
<1> DEFINE S == {t \in Sites : Routable(t)}
<1>1. ~(bound # NoBinding) /\ Granted /\ \E s \in Sites : Routable(s)
  BY DEF RouteEnvironment
<1>2. PICK s : s = First(S) OBVIOUS
<1>3. s \in S
  <2>1. PICK T : T = S OBVIOUS
  <2>2. T \subseteq Sites /\ T # {} BY <1>1, <2>1
  <2> QED BY <1>2, <2>1, <2>2, FirstIsOne
<1>4. RouteEnvironment.binding = [site |-> s, identity |-> Identity(s), generation |-> generation]
  BY <1>1, <1>2 DEF RouteEnvironment
<1>5. s \in Sites /\ Routable(s) BY <1>3
<1>6. Identity(s) \in Sites \X (1..2) /\ generation \in 1..2
  BY <1>5 DEF Identity, RoutingInv, RoutingTypeOK, Descriptor
<1>7. [site |-> s, identity |-> Identity(s), generation |-> generation] \in Binding BY <1>5, <1>6 DEF Binding
<1> QED BY <1>1, <1>4, <1>5, <1>7

LEMMA RoutingStarts == RoutingInit => RoutingInv
<1> SUFFICES ASSUME RoutingInit PROVE RoutingInv
  OBVIOUS
<1> DEFINE fresh == [version |-> 1, online |-> TRUE, seen |-> 0, capacity |-> 1, able |-> TRUE,
                     revoked |-> FALSE, protocol |-> 1]
<1>1. fresh \in Descriptor BY DEF Descriptor
<1>2. site \in [Sites -> Descriptor] BY <1>1 DEF RoutingInit
<1>3. records \subseteq QualificationRecord
  <2>1. records = {[identity |-> <<s, 1>>, from |-> 0, until |-> 2, revoked |-> FALSE] : s \in Sites} BY DEF RoutingInit
  <2>2. ASSUME NEW s \in Sites
        PROVE  [identity |-> <<s, 1>>, from |-> 0, until |-> 2, revoked |-> FALSE] \in QualificationRecord
    BY DEF QualificationRecord
  <2> QED BY <2>1, <2>2
<1> QED BY <1>2, <1>3 DEF RoutingInit, RoutingInv, RoutingTypeOK

LEMMA AskRouteKeeps == ASSUME RoutingInv, AskRoute PROVE RoutingInv'
<1>1. PICK b \in Binding : b = RouteEnvironment.binding /\ b.identity = Identity(b.site)
  BY SelectedRoutable DEF AskRoute
<1>2. bound' = b /\ UNCHANGED inputVars BY <1>1 DEF AskRoute
<1>3. b.identity = <<b.site, site[b.site].version>> /\ b.site \in Sites /\ site[b.site].version \in 1..2
  BY <1>1 DEF Identity, Binding, RoutingInv, RoutingTypeOK, Descriptor
<1> QED BY <1>2, <1>3 DEF RoutingInv, RoutingTypeOK, inputVars

\* What routing is given changes, and versions go up.
LEMMA InputsKeep ==
  ASSUME RoutingInv, UNCHANGED <<resource, kind, bound>>, site' \in [Sites -> Descriptor],
         \A s \in Sites : site[s].version <= site'[s].version,
         twice' \subseteq Sites, records' \subseteq QualificationRecord, generation' \in 1..2, clock' \in Nat,
         authority'.sites \subseteq Sites
  PROVE  RoutingInv'
<1>1. bound # NoBinding =>
        bound.identity = <<bound.site, bound.identity[2]>> /\ bound.identity[2] <= site'[bound.site].version
  <2> SUFFICES ASSUME bound # NoBinding
               PROVE  bound.identity = <<bound.site, bound.identity[2]>> /\ bound.identity[2] <= site'[bound.site].version
    OBVIOUS
  <2>1. bound.site \in Sites /\ bound.identity[2] \in 1..2 BY DEF RoutingInv, RoutingTypeOK, Binding
  <2>2. site[bound.site].version \in 1..2 /\ site'[bound.site].version \in 1..2
    BY <2>1 DEF RoutingInv, RoutingTypeOK, Descriptor
  <2> QED BY <2>1, <2>2 DEF RoutingInv
<1> QED BY <1>1 DEF RoutingInv, RoutingTypeOK

LEMMA ReportKeeps ==
  ASSUME RoutingInv, NEW s \in Sites, Report(s)
  PROVE  site' \in [Sites -> Descriptor] /\ \A t \in Sites : site'[t].version = site[t].version
<1>1. PICK status \in {"ready", "offline"} \cup (IF kind[s] = "LOCAL_FACTORY" THEN {} ELSE {"revoked"}),
           free \in BOOLEAN, seen \in {0, clock, clock + 1} :
        site' = [site EXCEPT ![s].online = (status = "ready"), ![s].revoked = (status = "revoked"), ![s].seen = seen,
                   ![s].capacity = IF (IF kind[s] = "OWNER_COMPUTER" THEN status = "ready" ELSE free) THEN 1 ELSE 0,
                   ![s].able = IF kind[s] = "OWNER_COMPUTER" THEN free ELSE status = "ready"]
  BY Zenon DEF Report
<1> DEFINE room == IF (IF kind[s] = "OWNER_COMPUTER" THEN status = "ready" ELSE free) THEN 1 ELSE 0
           able == IF kind[s] = "OWNER_COMPUTER" THEN free ELSE status = "ready"
<1>2. PICK row \in Descriptor : row = site[s] BY DEF RoutingInv, RoutingTypeOK
<1> DEFINE next == [row EXCEPT !.online = (status = "ready"), !.revoked = (status = "revoked"), !.seen = seen,
                               !.capacity = room, !.able = able]
<1>3. room \in 0..1 /\ able \in BOOLEAN /\ seen \in Nat
  <2>1. room \in {0, 1} BY Zenon
  <2>2. able \in BOOLEAN BY Zenon
  <2>3. seen \in Nat BY DEF RoutingInv
  <2> QED BY <2>1, <2>2, <2>3
<1>4. site' = [site EXCEPT ![s] = next] BY <1>1, <1>2 DEF RoutingInv, RoutingTypeOK
<1> HIDE DEF room, able
<1>5. next \in Descriptor /\ next.version = row.version BY <1>3 DEF Descriptor
<1> HIDE DEF next
<1> QED BY <1>2, <1>4, <1>5 DEF RoutingInv, RoutingTypeOK

LEMMA InstallKeeps ==
  ASSUME RoutingInv, NEW s \in Sites, Install(s)
  PROVE  site' \in [Sites -> Descriptor] /\ \A t \in Sites : site[t].version <= site'[t].version
<1>1. PICK p \in 1..2 : site' = [site EXCEPT ![s].version = 2, ![s].protocol = p] BY DEF Install
<1>2. PICK row \in Descriptor : row = site[s] BY DEF RoutingInv, RoutingTypeOK
<1> DEFINE next == [row EXCEPT !.version = 2, !.protocol = p]
<1>3. next \in Descriptor /\ next.version = 2 /\ row.version \in 1..2
  <2>1. 2 \in 1..2 OBVIOUS
  <2>2. next \in Descriptor BY <2>1 DEF Descriptor
  <2> QED BY <2>2 DEF Descriptor
<1>4. site' = [site EXCEPT ![s] = next] BY <1>1, <1>2 DEF RoutingInv, RoutingTypeOK
<1> HIDE DEF next
<1>5. \A t \in Sites : site[t].version \in 1..2 BY DEF RoutingInv, RoutingTypeOK, Descriptor
<1>6. site' \in [Sites -> Descriptor] /\ \A t \in Sites : site'[t] = IF t = s THEN next ELSE site[t]
  BY <1>3, <1>4 DEF RoutingInv, RoutingTypeOK
<1> QED BY <1>2, <1>3, <1>5, <1>6

LEMMA VersionsStay ==
  ASSUME RoutingInv, site' = site \/ \A t \in Sites : site'[t].version = site[t].version
  PROVE  \A t \in Sites : site[t].version <= site'[t].version
<1>1. \A t \in Sites : site[t].version \in 1..2 BY DEF RoutingInv, RoutingTypeOK, Descriptor
<1> QED BY <1>1

LEMMA InputChangesKeeps == ASSUME RoutingInv, InputChanges PROVE RoutingInv'
<1> USE DEF InputChanges
<1>1. UNCHANGED <<resource, kind, bound>> OBVIOUS
<1>2. ASSUME NEW s \in Sites, Report(s) PROVE RoutingInv'
  BY <1>1, <1>2, ReportKeeps, VersionsStay, InputsKeep DEF Report, RoutingInv, RoutingTypeOK
<1>3. ASSUME NEW s \in Sites, Install(s) PROVE RoutingInv'
  BY <1>1, <1>3, InstallKeeps, InputsKeep DEF Install, RoutingInv, RoutingTypeOK
<1>4. ASSUME NEW s \in Sites, ListTwice(s) PROVE RoutingInv'
  BY <1>1, <1>4, VersionsStay, InputsKeep DEF ListTwice, RoutingInv, RoutingTypeOK
<1>5. ASSUME NEW s \in Sites, Qualify(s) PROVE RoutingInv'
  <2>1. PICK from \in clock..(clock + 1) :
          records' = records \cup {[identity |-> Identity(s), from |-> from, until |-> clock + 2, revoked |-> FALSE]}
    BY <1>5 DEF Qualify
  <2>2. Identity(s) \in Sites \X (1..2) BY DEF Identity, RoutingInv, RoutingTypeOK, Descriptor
  <2>3. clock + 2 \in Nat /\ from \in Nat BY DEF RoutingInv
  <2>4. [identity |-> Identity(s), from |-> from, until |-> clock + 2, revoked |-> FALSE] \in QualificationRecord
    BY <2>2, <2>3 DEF QualificationRecord
  <2>5. records' \subseteq QualificationRecord BY <2>1, <2>4 DEF RoutingInv, RoutingTypeOK
  <2> QED BY <1>1, <1>5, <2>5, VersionsStay, InputsKeep DEF Qualify, RoutingInv, RoutingTypeOK
<1>6. ASSUME Disqualify PROVE RoutingInv'
  <2>1. PICK q \in records : records' = (records \ {q}) \cup {[q EXCEPT !.revoked = TRUE]} BY <1>6 DEF Disqualify
  <2>2. q \in QualificationRecord BY DEF RoutingInv, RoutingTypeOK
  <2>3. [q EXCEPT !.revoked = TRUE] \in QualificationRecord BY <2>2 DEF QualificationRecord
  <2>4. records' \subseteq QualificationRecord BY <2>1, <2>3 DEF RoutingInv, RoutingTypeOK
  <2> QED BY <1>1, <1>6, <2>4, VersionsStay, InputsKeep DEF Disqualify, RoutingInv, RoutingTypeOK
<1>7. ASSUME Grant PROVE RoutingInv'
  <2>1. authority'.sites \subseteq Sites BY <1>7 DEF Grant
  <2> QED BY <1>1, <1>7, <2>1, VersionsStay, InputsKeep DEF Grant, RoutingInv, RoutingTypeOK
<1>8. ASSUME Regenerate PROVE RoutingInv'
  BY <1>1, <1>8, VersionsStay, InputsKeep DEF Regenerate, RoutingInv, RoutingTypeOK
<1>9. ASSUME RoutingTick PROVE RoutingInv'
  BY <1>1, <1>9, VersionsStay, InputsKeep DEF RoutingTick, RoutingInv, RoutingTypeOK
<1> QED BY <1>2, <1>3, <1>4, <1>5, <1>6, <1>7, <1>8, <1>9

LEMMA RoutingKept == RoutingInv /\ [RoutingNext]_routingVars => RoutingInv'
<1> SUFFICES ASSUME RoutingInv, RoutingNext \/ UNCHANGED routingVars PROVE RoutingInv'
  OBVIOUS
<1>1. CASE UNCHANGED routingVars BY <1>1 DEF routingVars, RoutingInv, RoutingTypeOK
<1> QED BY <1>1, AskRouteKeeps, InputChangesKeeps DEF RoutingNext

LEMMA RoutingInvSound == RoutingInv => RoutingSound
<1> SUFFICES ASSUME RoutingInv PROVE RoutingSound
  OBVIOUS
<1>1. SelectionShown
  <2>1. ASSUME NEW s, Routable(s) PROVE Summary(s) = [status |-> "ONLINE", able |-> TRUE]
    BY <2>1 DEF Routable, Summary
  <2>2. RouteEnvironment.state = "SELECTED" => Summary(RouteEnvironment.binding.site) = [status |-> "ONLINE", able |-> TRUE]
    <3> SUFFICES ASSUME RouteEnvironment.state = "SELECTED"
                 PROVE  Summary(RouteEnvironment.binding.site) = [status |-> "ONLINE", able |-> TRUE]
      OBVIOUS
    <3>1. PICK s : s = RouteEnvironment.binding.site OBVIOUS
    <3>2. Routable(s) BY <3>1, SelectedRoutable
    <3> QED BY <2>1, <3>1, <3>2
  <2>3. ASSUME RouteEnvironment.state = "WAITING_FOR_ENVIRONMENT", NEW s \in Sites, kind[s] = Wanted,
               s \in Named \cap authority.sites, Summary(s).able
        PROVE  site[s].capacity = 0 \/ ~Qualified(s)
    <3>1. ~Routable(s) BY <2>3 DEF RouteEnvironment
    <3>2. site[s].online /\ Fresh(s) /\ ~site[s].revoked /\ site[s].protocol = 1 /\ site[s].able
      BY <2>3 DEF Summary
    <3>3. site[s].capacity \in 0..1 BY DEF RoutingInv, RoutingTypeOK, Descriptor
    <3> QED BY <2>3, <3>1, <3>2, <3>3 DEF Routable
  <2> QED BY <2>2, <2>3 DEF SelectionShown
<1>2. IdentityPinned
  <2> SUFFICES ASSUME bound # NoBinding
               PROVE  Identity(bound.site) = bound.identity \/ site[bound.site].version > bound.identity[2]
    BY DEF IdentityPinned
  <2>1. bound \in Binding BY DEF RoutingInv, RoutingTypeOK
  <2>2. bound.site \in Sites /\ bound.identity[2] \in 1..2 BY <2>1 DEF Binding
  <2>3. site[bound.site].version \in 1..2 BY <2>2 DEF RoutingInv, RoutingTypeOK, Descriptor
  <2> QED BY <2>2, <2>3 DEF RoutingInv, Identity
<1>3. BoundStays BY DEF BoundStays, RouteEnvironment, Granted
<1> QED BY <1>1, <1>2, <1>3 DEF RoutingInv, RoutingSound

LEMMA RoutingHolds == RoutingSpec => []RoutingSound
<1> QED BY RoutingStarts, RoutingKept, RoutingInvSound, PTL DEF RoutingSpec

(***************************************************************************)
(* The desk.                                                               *)
(*                                                                         *)
(* What may still fill in the evidence on display is of the attempt on     *)
(* display: selecting another attempt makes the earlier reads inactive.    *)
(* An approval takes its evidence from the display.                        *)
(***************************************************************************)

DetailRow   == [attempt : Nat, proposals : Nat]
PollRow     == [active : BOOLEAN, answer : DetailRow]
DraftRow    == [attempt : Nat, rules : Nat]
EvidenceRow == [attempt : Nat, rules : Nat]
ReadRow     == [attempt : Nat, active : BOOLEAN, rules : Nat, diff : BOOLEAN]

\* What was read of the detail was so, and neither attempts nor proposals go away.
DetailSeen(d) == d \in DetailRow /\ d.attempt <= attempt /\ d.proposals <= Len(drafts)

\* An approval names a proposal, with the evidence for it.
Meant(a) == a.proposal \in 1..Len(drafts) /\ drafts[a.proposal].attempt = a.evidence.attempt
            /\ drafts[a.proposal].rules = a.evidence.rules

ServedInv ==
  /\ attempt \in 1..MaxDesk /\ rules \in 1..MaxDesk
  /\ drafts \in Seq(DraftRow) /\ Len(drafts) <= MaxDesk
  /\ DetailSeen(desk) /\ \A p \in polls : p \in PollRow /\ DetailSeen(p.answer)

\* The evidence on display, and what may still fill it in, is of the attempt on display.
EvidenceInv ==
  /\ evidence \in EvidenceRow /\ (evidence # Bare => evidence.attempt = desk.attempt)
  /\ \A r \in reads : r \in ReadRow /\ (r.active => r.attempt = desk.attempt)

ApprovalInv == (\A a \in approved : Meant(a)) /\ (approving # Idle => Meant(approving))

DeskInv == ServedInv /\ EvidenceInv /\ ApprovalInv

LEMMA NoneBare == None \in DetailRow /\ Bare \in EvidenceRow
BY DEF None, Bare, DetailRow, EvidenceRow

LEMMA DeskStarts == DeskInit => DeskInv
<1> SUFFICES ASSUME DeskInit PROVE DeskInv
  OBVIOUS
<1>1. /\ drafts \in Seq(DraftRow) /\ Len(drafts) = 0 /\ Len(drafts) <= MaxDesk
      /\ attempt = 1 /\ rules = 1 /\ 1 \in 1..MaxDesk
  BY DeskBounds DEF DeskInit
<1>2. None.attempt = 0 /\ None.proposals = 0 BY DEF None
<1>3. DetailSeen(desk) BY <1>1, <1>2, NoneBare DEF DeskInit, DetailSeen
<1> QED BY <1>1, <1>3, NoneBare DEF DeskInit, DeskInv, ServedInv, EvidenceInv, ApprovalInv

\* The supervisor goes on.
LEMMA SupervisorKeeps == ASSUME DeskInv, NewAttempt \/ NewRules \/ ProposeDraft PROVE DeskInv'
<1>1. UNCHANGED <<approved, desk, polls, evidence, reads, approving>> BY DEF NewAttempt, NewRules, ProposeDraft
<1>2. /\ attempt' \in 1..MaxDesk /\ rules' \in 1..MaxDesk /\ attempt <= attempt'
      /\ drafts' \in Seq(DraftRow) /\ Len(drafts) <= Len(drafts') /\ Len(drafts') <= MaxDesk
      /\ \A i \in 1..Len(drafts) : drafts'[i] = drafts[i]
      /\ Len(drafts) \in Nat /\ Len(drafts') \in Nat
  <2>1. attempt \in 1..MaxDesk /\ rules \in 1..MaxDesk /\ drafts \in Seq(DraftRow) /\ Len(drafts) <= MaxDesk /\ MaxDesk \in Nat
    BY DeskBounds DEF DeskInv, ServedInv
  <2>2. CASE NewAttempt \/ NewRules BY <2>1, <2>2 DEF NewAttempt, NewRules
  <2>3. CASE ProposeDraft
    <3>1. [attempt |-> attempt, rules |-> rules] \in DraftRow BY <2>1 DEF DraftRow
    <3> QED BY <2>1, <2>3, <3>1 DEF ProposeDraft
  <2> QED BY <2>2, <2>3
<1>3. ASSUME NEW d, DetailSeen(d) PROVE d \in DetailRow /\ d.attempt <= attempt' /\ d.proposals <= Len(drafts')
  BY <1>2, <1>3 DEF DetailSeen, DetailRow, DeskInv, ServedInv
<1>4. ServedInv' BY <1>1, <1>2, <1>3 DEF DeskInv, ServedInv, DetailSeen
<1>5. EvidenceInv' BY <1>1 DEF DeskInv, EvidenceInv
<1>6. ASSUME NEW a, Meant(a)
      PROVE  a.proposal \in 1..Len(drafts') /\ drafts'[a.proposal].attempt = a.evidence.attempt
             /\ drafts'[a.proposal].rules = a.evidence.rules
  BY <1>2, <1>6 DEF Meant
<1>7. ApprovalInv' BY <1>1, <1>6 DEF DeskInv, ApprovalInv, Meant
<1> QED BY <1>4, <1>5, <1>7 DEF DeskInv

\* A step of the browser leaves the supervisor as it is.
LEMMA BrowserKeeps ==
  ASSUME DeskInv, UNCHANGED <<attempt, rules, drafts>>, DetailSeen(desk)',
         \A p \in polls' : p \in polls \/ (p \in PollRow /\ (\E q \in polls : p.answer = q.answer))
                           \/ (p \in PollRow /\ p.answer \in {None, Detail}),
         EvidenceInv', ApprovalInv'
  PROVE  DeskInv'
<1>1. attempt \in Nat /\ rules \in Nat /\ Len(drafts) \in Nat BY DeskBounds DEF DeskInv, ServedInv
<1>2. DetailSeen(None) /\ DetailSeen(Detail)
  <2>1. Detail \in DetailRow /\ Detail.attempt = attempt /\ Detail.proposals = Len(drafts)
    BY <1>1 DEF Detail, DetailRow
  <2>2. None.attempt = 0 /\ None.proposals = 0 BY DEF None
  <2> QED BY <1>1, <2>1, <2>2, NoneBare DEF DetailSeen
<1>3. \A p \in polls' : p \in PollRow /\ DetailSeen(p.answer) BY <1>2 DEF DeskInv, ServedInv
<1>4. \A p \in polls' : DetailSeen(p.answer)' BY <1>3 DEF DetailSeen
<1> QED BY <1>3, <1>4 DEF DeskInv, ServedInv

LEMMA SeenStays == ASSUME DeskInv, UNCHANGED <<attempt, drafts>>, NEW d, DetailSeen(d) PROVE DetailSeen(d)'
BY DEF DetailSeen

\* The evidence is emptied and loaded anew, for the attempt on display by then.
LEMMA RereadKeeps == ASSUME DeskInv, NEW n \in Nat, Reread(n), desk'.attempt = n PROVE EvidenceInv'
<1> DEFINE added == [attempt |-> n, active |-> TRUE, rules |-> 0, diff |-> FALSE]
<1>1. evidence' = Bare /\ reads' = Abandon \cup {added} BY DEF Reread
<1>2. added \in ReadRow /\ added.attempt = n BY DEF ReadRow
<1> HIDE DEF added
<1>3. ASSUME NEW r \in Abandon PROVE r \in ReadRow /\ ~r.active
  <2>1. PICK q \in reads : r = [q EXCEPT !.active = FALSE] BY DEF Abandon
  <2>2. q \in ReadRow BY DEF DeskInv, EvidenceInv
  <2> QED BY <2>1, <2>2 DEF ReadRow
<1> QED BY <1>1, <1>2, <1>3, NoneBare DEF EvidenceInv

LEMMA PollSteps ==
  ASSUME DeskInv, PollDetail \/ \E p \in polls : DetailRead(p) \/ PollLost(p)
  PROVE  DeskInv'
<1>1. UNCHANGED <<attempt, rules, drafts, approved, desk, evidence, reads, approving>>
  BY DEF PollDetail, DetailRead, PollLost
<1>2. EvidenceInv' /\ ApprovalInv' BY <1>1 DEF DeskInv, EvidenceInv, ApprovalInv, Meant
<1>3. DetailSeen(desk)' BY <1>1, SeenStays DEF DeskInv, ServedInv, DetailSeen
<1>4. CASE PollDetail
  <2> DEFINE added == [active |-> TRUE, answer |-> None]
  <2>1. added \in PollRow /\ added.answer = None /\ polls' = polls \cup {added} BY <1>4, NoneBare DEF PollRow, PollDetail
  <2> HIDE DEF added
  <2> QED BY <1>1, <1>2, <1>3, <1>4, <2>1, BrowserKeeps DEF PollDetail
<1>5. ASSUME NEW p \in polls, DetailRead(p) PROVE DeskInv'
  <2>1. p \in PollRow BY DEF DeskInv, ServedInv
  <2>2. Detail \in DetailRow BY DeskBounds DEF Detail, DetailRow, DeskInv, ServedInv
  <2>3. [p EXCEPT !.answer = Detail] \in PollRow /\ [p EXCEPT !.answer = Detail].answer = Detail
    BY <2>1, <2>2 DEF PollRow
  <2> QED BY <1>1, <1>2, <1>3, <1>5, <2>3, BrowserKeeps DEF DetailRead
<1>6. ASSUME NEW p \in polls, PollLost(p) PROVE DeskInv'
  BY <1>1, <1>2, <1>3, <1>6, BrowserKeeps DEF PollLost
<1> QED BY <1>4, <1>5, <1>6

LEMMA DetailArrivesKeeps == ASSUME DeskInv, NEW p \in polls, DetailArrives(p) PROVE DeskInv'
<1>1. UNCHANGED <<attempt, rules, drafts, approved, approving>> /\ polls' = polls \ {p} BY DEF DetailArrives
<1>2. p \in PollRow /\ DetailSeen(p.answer) BY DEF DeskInv, ServedInv
<1>3. ApprovalInv' BY <1>1 DEF DeskInv, ApprovalInv, Meant
<1>4. CASE ~p.active
  <2>1. UNCHANGED <<desk, evidence, reads>> BY <1>4 DEF DetailArrives
  <2>2. EvidenceInv' /\ DetailSeen(desk)' BY <1>1, <2>1 DEF DeskInv, EvidenceInv, ServedInv, DetailSeen
  <2> QED BY <1>1, <1>3, <2>2, BrowserKeeps
<1>5. CASE p.active
  <2>1. PICK d \in DetailRow : d = p.answer /\ desk' = d /\ DetailSeen(d) BY <1>2, <1>5 DEF DetailArrives, DetailSeen
  <2>2. DetailSeen(desk)' BY <1>1, <2>1 DEF DetailSeen
  <2>3. EvidenceInv'
    <3>1. CASE desk.attempt = d.attempt
      <4>1. UNCHANGED <<evidence, reads>> BY <1>5, <2>1, <3>1 DEF DetailArrives
      <4> QED BY <2>1, <3>1, <4>1 DEF DeskInv, EvidenceInv
    <3>2. CASE desk.attempt # d.attempt
      <4>1. Reread(d.attempt) BY <1>5, <2>1, <3>2 DEF DetailArrives
      <4>2. d.attempt \in Nat BY DEF DetailRow
      <4> QED BY <2>1, <4>1, <4>2, RereadKeeps
    <3> QED BY <3>1, <3>2
  <2> QED BY <1>1, <1>3, <2>2, <2>3, BrowserKeeps
<1> QED BY <1>4, <1>5

LEMMA EvidenceSteps ==
  ASSUME DeskInv, NEW r \in reads, PolicyRead(r) \/ DiffRead(r) \/ EvidenceArrives(r) \/ EvidenceFails(r)
  PROVE  DeskInv'
<1>1. UNCHANGED <<attempt, rules, drafts, approved, desk, polls, approving>>
  BY DEF PolicyRead, DiffRead, EvidenceArrives, EvidenceFails
<1>2. ApprovalInv' /\ DetailSeen(desk)' BY <1>1 DEF DeskInv, ApprovalInv, Meant, ServedInv, DetailSeen
<1>3. r \in ReadRow /\ (r.active => r.attempt = desk.attempt) BY DEF DeskInv, EvidenceInv
<1>4. EvidenceInv'
  <2>1. CASE PolicyRead(r)
    <3> DEFINE next == [r EXCEPT !.rules = rules]
    <3>1. rules \in Nat BY DeskBounds DEF DeskInv, ServedInv
    <3>2. next \in ReadRow /\ next.active = r.active /\ next.attempt = r.attempt BY <1>3, <3>1 DEF ReadRow
    <3>3. reads' = (reads \ {r}) \cup {next} /\ evidence' = evidence BY <2>1 DEF PolicyRead
    <3> HIDE DEF next
    <3> QED BY <1>1, <1>3, <3>2, <3>3 DEF DeskInv, EvidenceInv
  <2>2. CASE DiffRead(r)
    <3> DEFINE next == [r EXCEPT !.diff = TRUE]
    <3>2. next \in ReadRow /\ next.active = r.active /\ next.attempt = r.attempt BY <1>3 DEF ReadRow
    <3>3. reads' = (reads \ {r}) \cup {next} /\ evidence' = evidence BY <2>2 DEF DiffRead
    <3> HIDE DEF next
    <3> QED BY <1>1, <1>3, <3>2, <3>3 DEF DeskInv, EvidenceInv
  <2>3. CASE EvidenceArrives(r)
    <3> DEFINE shown == [attempt |-> r.attempt, rules |-> r.rules]
    <3>1. shown \in EvidenceRow /\ shown.attempt = r.attempt BY <1>3 DEF EvidenceRow, ReadRow
    <3>2. reads' = reads \ {r} /\ evidence' = IF r.active THEN shown ELSE evidence BY <2>3 DEF EvidenceArrives
    <3> HIDE DEF shown
    <3> QED BY <1>1, <1>3, <3>1, <3>2 DEF DeskInv, EvidenceInv
  <2>4. CASE EvidenceFails(r) BY <1>1, <2>4 DEF EvidenceFails, DeskInv, EvidenceInv
  <2> QED BY <2>1, <2>2, <2>3, <2>4
<1> QED BY <1>1, <1>2, <1>4, BrowserKeeps

LEMMA DecisionSteps ==
  ASSUME DeskInv, RetryEvidence \/ TickBox \/ Approve \/ ApproveBound \/ ApproveEnds
  PROVE  DeskInv'
<1>1. UNCHANGED <<attempt, rules, drafts, desk>> BY DEF RetryEvidence, TickBox, Approve, ApproveBound, ApproveEnds
<1>2. DetailSeen(desk)' BY <1>1 DEF DeskInv, ServedInv, DetailSeen
<1>3. desk.attempt \in Nat BY DEF DeskInv, ServedInv, DetailSeen, DetailRow
<1>4. CASE RetryEvidence
  <2>1. UNCHANGED <<approved, approving, polls>> /\ Reread(desk.attempt) BY <1>4 DEF RetryEvidence
  <2>2. EvidenceInv' BY <1>1, <1>3, <2>1, RereadKeeps
  <2>3. ApprovalInv' BY <1>1, <2>1 DEF DeskInv, ApprovalInv, Meant
  <2> QED BY <1>1, <1>2, <2>1, <2>2, <2>3, BrowserKeeps
<1>5. CASE TickBox
  <2>1. UNCHANGED <<approved, approving, polls, evidence, reads>> BY <1>5 DEF TickBox
  <2>2. EvidenceInv' /\ ApprovalInv' BY <1>1, <2>1 DEF DeskInv, EvidenceInv, ApprovalInv, Meant
  <2> QED BY <1>1, <1>2, <2>1, <2>2, BrowserKeeps
<1>6. CASE Approve
  <2>1. UNCHANGED <<approved, polls, evidence, reads>> /\ approving' = [proposal |-> desk.proposals, evidence |-> evidence]
    BY <1>6 DEF Approve
  <2>2. EvidenceInv' BY <1>1, <2>1 DEF DeskInv, EvidenceInv
  <2>3. approving'.proposal = desk.proposals /\ approving'.evidence = evidence BY <2>1
  <2>4. desk.proposals \in 1..Len(drafts)
    BY <1>6 DEF Approve, RequestMatches, DeskInv, ServedInv, DetailSeen, DetailRow
  <2>5. drafts[desk.proposals].attempt = evidence.attempt /\ drafts[desk.proposals].rules = evidence.rules
    BY <1>6 DEF Approve, RequestMatches, LatestProposal, DeskInv, EvidenceInv
  <2>6. ApprovalInv' BY <1>1, <2>1, <2>3, <2>4, <2>5 DEF DeskInv, ApprovalInv, Meant
  <2> QED BY <1>1, <1>2, <2>1, <2>2, <2>6, BrowserKeeps
<1>7. CASE ApproveBound
  <2>1. UNCHANGED <<approving, polls, evidence, reads>> /\ approved' = approved \cup {approving} /\ approving # Idle
    BY <1>7 DEF ApproveBound
  <2>2. EvidenceInv' /\ ApprovalInv' BY <1>1, <2>1 DEF DeskInv, EvidenceInv, ApprovalInv, Meant
  <2> QED BY <1>1, <1>2, <2>1, <2>2, BrowserKeeps
<1>8. CASE ApproveEnds
  <2>1. approved' = approved /\ approving' = Idle /\ Reread(desk.attempt)
        /\ polls' = {[p EXCEPT !.active = FALSE] : p \in polls}
    BY <1>8 DEF ApproveEnds
  <2>2. EvidenceInv' BY <1>1, <1>3, <2>1, RereadKeeps
  <2>3. ApprovalInv' BY <1>1, <2>1 DEF DeskInv, ApprovalInv, Meant
  <2>4. ASSUME NEW q \in polls PROVE [q EXCEPT !.active = FALSE] \in PollRow /\ [q EXCEPT !.active = FALSE].answer = q.answer
    <3>1. q \in PollRow BY DEF DeskInv, ServedInv
    <3> QED BY <3>1 DEF PollRow
  <2>5. \A p \in polls' : p \in PollRow /\ \E q \in polls : p.answer = q.answer BY <2>1, <2>4
  <2> QED BY <1>1, <1>2, <2>2, <2>3, <2>5, BrowserKeeps
<1> QED BY <1>4, <1>5, <1>6, <1>7, <1>8

LEMMA DeskKept == DeskInv /\ [DeskNext]_deskVars => DeskInv'
<1> SUFFICES ASSUME DeskInv, DeskNext \/ UNCHANGED deskVars PROVE DeskInv'
  OBVIOUS
<1>1. CASE UNCHANGED deskVars
  BY <1>1 DEF deskVars, DeskInv, ServedInv, EvidenceInv, ApprovalInv, Meant, DetailSeen
<1> QED BY <1>1, SupervisorKeeps, PollSteps, DetailArrivesKeeps, EvidenceSteps, DecisionSteps DEF DeskNext

LEMMA DeskInvSound == DeskInv => DeskSound
<1> SUFFICES ASSUME DeskInv PROVE DeskSound
  OBVIOUS
<1>1. DeskTypeOK BY DeskBounds DEF DeskTypeOK, DeskInv, ServedInv, DetailSeen, DetailRow
<1>2. ApprovedSeen BY DEF ApprovedSeen, DeskInv, ApprovalInv, Meant
<1> QED BY <1>1, <1>2 DEF DeskSound

LEMMA DeskHolds == DeskSpec => []DeskSound
<1> QED BY DeskStarts, DeskKept, DeskInvSound, PTL DEF DeskSpec

(***************************************************************************)
(* The pages.                                                              *)
(*                                                                         *)
(* The address of a page and the page of an address are inverse to each    *)
(* other, and what is selected is in the address even where a page         *)
(* strayed.  A key has one WorkOrder from the transaction on that finds it *)
(* has none, so that every answer to a form is that WorkOrder.             *)
(***************************************************************************)

Flags  == [selected : Nat, creating : BOOLEAN, queue : BOOLEAN, builder : BOOLEAN, connections : BOOLEAN]
Asking == [kind : {"create", "builder", "start", "cancel"}, subject : Nat, answer : {"none", "presence", "done"},
           order : Nat, awaited : BOOLEAN]

\* What the browser's history may hold when there are n WorkOrders.
Places(n) == {View(v) : v \in Views} \cup {Overview} \cup {Order(i) : i \in 1..n}

\* Only actions that make Work are answered with a WorkOrder, and a form with its own.
RowOK(q, m) ==
  /\ q \in Asking /\ q.order <= Len(m)
  /\ q.answer = "done" /\ q.kind \in {"create", "builder"} => q.order > 0
  /\ q.answer = "done" /\ q.kind = "create" => m[q.order] = q.subject

HistoryInv == addresses \in Seq(Places(Len(made))) /\ at \in 1..Len(addresses)

PageInv == /\ page \in Flags /\ page.selected <= Len(made) /\ AddressShown /\ ActsOnAddressed
           /\ forms \in Nat /\ form \in 0..forms

OnePerKey == \A i, j \in DOMAIN made : made[i] > 0 /\ made[i] = made[j] => i = j

RowsInv == asked \in Seq(Asking) /\ \A s \in DOMAIN asked : RowOK(asked[s], made)
MadeInv == made \in Seq(Nat) /\ OnePerKey /\ RowsInv

PagesInv == HistoryInv /\ PageInv /\ MadeInv /\ PendingTrue

LEMMA BlankShown == Blank \in Flags /\ Blank.selected = 0 /\ Rendered(Blank) = Overview
BY DEF Blank, Flags, Rendered, Overview

\* One flag alone shows its page.
LEMMA OneFlag ==
  /\ [Blank EXCEPT !.creating = TRUE] \in Flags /\ [Blank EXCEPT !.creating = TRUE].selected = 0
     /\ Rendered([Blank EXCEPT !.creating = TRUE]) = View("new")
  /\ [Blank EXCEPT !.queue = TRUE] \in Flags /\ [Blank EXCEPT !.queue = TRUE].selected = 0
     /\ Rendered([Blank EXCEPT !.queue = TRUE]) = View("queue")
  /\ [Blank EXCEPT !.builder = TRUE] \in Flags /\ [Blank EXCEPT !.builder = TRUE].selected = 0
     /\ Rendered([Blank EXCEPT !.builder = TRUE]) = View("builder")
  /\ [Blank EXCEPT !.connections = TRUE] \in Flags /\ [Blank EXCEPT !.connections = TRUE].selected = 0
     /\ Rendered([Blank EXCEPT !.connections = TRUE]) = View("connections")
<1>1. 0 \in Nat /\ ~(0 > 0) OBVIOUS
<1>2. /\ Blank.selected = 0 /\ ~Blank.creating /\ ~Blank.queue /\ ~Blank.builder /\ ~Blank.connections
      /\ DOMAIN Blank = {"selected", "creating", "queue", "builder", "connections"}
      /\ Blank \in Flags
  BY <1>1, Zenon DEF Blank, Flags
<1>3. /\ [Blank EXCEPT !.creating = TRUE] \in Flags /\ [Blank EXCEPT !.creating = TRUE].selected = 0
      /\ Rendered([Blank EXCEPT !.creating = TRUE]) = View("new")
  <2> DEFINE p == [Blank EXCEPT !.creating = TRUE]
  <2>1. p \in Flags BY <1>2, Zenon DEF Flags
  <2>2. p.selected = 0 BY <1>2, Zenon
  <2>3. p.creating /\ ~p.queue /\ ~p.builder /\ ~p.connections BY <1>2, Zenon
  <2>4. Rendered(p) = View("new")
    <3> HIDE DEF p
    <3> QED BY <1>1, <2>1, <2>2, <2>3 DEF Rendered
  <2> QED BY <2>1, <2>2, <2>4
<1>4. /\ [Blank EXCEPT !.queue = TRUE] \in Flags /\ [Blank EXCEPT !.queue = TRUE].selected = 0
      /\ Rendered([Blank EXCEPT !.queue = TRUE]) = View("queue")
  <2> DEFINE p == [Blank EXCEPT !.queue = TRUE]
  <2>1. p \in Flags BY <1>2, Zenon DEF Flags
  <2>2. p.selected = 0 BY <1>2, Zenon
  <2>3. ~p.creating /\ p.queue /\ ~p.builder /\ ~p.connections BY <1>2, Zenon
  <2>4. Rendered(p) = View("queue")
    <3> HIDE DEF p
    <3> QED BY <1>1, <2>1, <2>2, <2>3 DEF Rendered
  <2> QED BY <2>1, <2>2, <2>4
<1>5. /\ [Blank EXCEPT !.builder = TRUE] \in Flags /\ [Blank EXCEPT !.builder = TRUE].selected = 0
      /\ Rendered([Blank EXCEPT !.builder = TRUE]) = View("builder")
  <2> DEFINE p == [Blank EXCEPT !.builder = TRUE]
  <2>1. p \in Flags BY <1>2, Zenon DEF Flags
  <2>2. p.selected = 0 BY <1>2, Zenon
  <2>3. ~p.creating /\ ~p.queue /\ p.builder /\ ~p.connections BY <1>2, Zenon
  <2>4. Rendered(p) = View("builder")
    <3> HIDE DEF p
    <3> QED BY <1>1, <2>1, <2>2, <2>3 DEF Rendered
  <2> QED BY <2>1, <2>2, <2>4
<1>6. /\ [Blank EXCEPT !.connections = TRUE] \in Flags /\ [Blank EXCEPT !.connections = TRUE].selected = 0
      /\ Rendered([Blank EXCEPT !.connections = TRUE]) = View("connections")
  <2> DEFINE p == [Blank EXCEPT !.connections = TRUE]
  <2>1. p \in Flags BY <1>2, Zenon DEF Flags
  <2>2. p.selected = 0 BY <1>2, Zenon
  <2>3. ~p.creating /\ ~p.queue /\ ~p.builder /\ p.connections BY <1>2, Zenon
  <2>4. Rendered(p) = View("connections")
    <3> HIDE DEF p
    <3> QED BY <1>1, <2>1, <2>2, <2>3 DEF Rendered
  <2> QED BY <2>1, <2>2, <2>4
<1> QED BY <1>3, <1>4, <1>5, <1>6

\* The page of an address is rendered as that address.
LEMMA PlaceShown ==
  ASSUME NEW n \in Nat, NEW a \in Places(n)
  PROVE  /\ PageOf(a) \in Flags /\ PageOf(a).selected <= n /\ Rendered(PageOf(a)) = a
         /\ PageOf(a).selected > 0 => a = Order(PageOf(a).selected)
<1>1. ASSUME NEW i \in 1..n, a = Order(i)
      PROVE  PageOf(a) \in Flags /\ PageOf(a).selected = i /\ Rendered(PageOf(a)) = a
  <2>1. "order" \in DOMAIN a /\ a.order = i BY <1>1 DEF Order
  <2>2. PageOf(a) = [Blank EXCEPT !.selected = i] BY <2>1 DEF PageOf
  <2>3. i > 0 /\ i \in Nat /\ i <= n OBVIOUS
  <2> QED BY <1>1, <2>2, <2>3 DEF Blank, Flags, Rendered
<1>2. ASSUME NEW v \in {"overview", "queue", "new", "builder", "connections"}, a = View(v)
      PROVE  PageOf(a) \in Flags /\ PageOf(a).selected = 0 /\ Rendered(PageOf(a)) = a
  <2>1. "order" \notin DOMAIN a /\ a.view = v BY <1>2 DEF View
  <2>2. PageOf(a) = CASE v = "new"         -> [Blank EXCEPT !.creating = TRUE]
                      [] v = "queue"       -> [Blank EXCEPT !.queue = TRUE]
                      [] v = "builder"     -> [Blank EXCEPT !.builder = TRUE]
                      [] v = "connections" -> [Blank EXCEPT !.connections = TRUE]
                      [] OTHER             -> Blank
    BY <2>1 DEF PageOf
  <2>3. CASE v = "new"
    <3>1. PageOf(a) = [Blank EXCEPT !.creating = TRUE] BY <2>2, <2>3
    <3> QED BY <1>2, <2>3, <3>1, OneFlag
  <2>4. CASE v = "queue"
    <3>1. PageOf(a) = [Blank EXCEPT !.queue = TRUE] BY <2>2, <2>4
    <3> QED BY <1>2, <2>4, <3>1, OneFlag
  <2>5. CASE v = "builder"
    <3>1. PageOf(a) = [Blank EXCEPT !.builder = TRUE] BY <2>2, <2>5
    <3> QED BY <1>2, <2>5, <3>1, OneFlag
  <2>6. CASE v = "connections"
    <3>1. PageOf(a) = [Blank EXCEPT !.connections = TRUE] BY <2>2, <2>6
    <3> QED BY <1>2, <2>6, <3>1, OneFlag
  <2>7. CASE v = "overview"
    <3>1. PageOf(a) = Blank BY <2>2, <2>7
    <3> QED BY <1>2, <2>7, <3>1, BlankShown DEF Overview
  <2> QED BY <2>3, <2>4, <2>5, <2>6, <2>7
<1>3. CASE \E i \in 1..n : a = Order(i)
  <2>1. PICK i \in 1..n : a = Order(i) BY <1>3
  <2> QED BY <1>1, <2>1
<1>4. CASE a = Overview \/ \E v \in Views : a = View(v)
  <2>1. PICK v \in {"overview", "queue", "new", "builder", "connections"} : a = View(v) BY <1>4, PagesBounds DEF Overview
  <2>2. ~(0 > 0) /\ 0 <= n OBVIOUS
  <2> QED BY <1>2, <2>1, <2>2
<1> QED BY <1>3, <1>4 DEF Places

LEMMA PagesStart == PagesInit => PagesInv
<1> SUFFICES ASSUME PagesInit PROVE PagesInv
  OBVIOUS
<1>1. made \in Seq(Nat) /\ Len(made) = 1 /\ made[1] = 0 BY DEF PagesInit
<1>2. HistoryInv
  <2>1. Overview \in Places(Len(made)) BY DEF Places
  <2>2. addresses = <<Overview>> /\ at = 1 BY DEF PagesInit
  <2> QED BY <2>1, <2>2 DEF HistoryInv
<1>3. PageInv
  <2>1. page = Blank /\ addresses[at] = Overview /\ form = 0 /\ forms = 0 BY DEF PagesInit
  <2> QED BY <1>1, <2>1, BlankShown DEF PageInv, AddressShown, ActsOnAddressed, Shown
<1>4. MadeInv
  <2>1. asked \in Seq(Asking) /\ DOMAIN asked = {} BY DEF PagesInit
  <2> QED BY <1>1, <2>1 DEF MadeInv, RowsInv, OnePerKey
<1>5. PendingTrue BY DEF PagesInit, PendingTrue
<1> QED BY <1>2, <1>3, <1>4, <1>5 DEF PagesInv

\* What is displayed is a page, with a form of its own if it shows one.
LEMMA Displayed ==
  ASSUME PagesInv, NEW p \in Flags, Display(p)
  PROVE  page' = p /\ forms' \in Nat /\ form' \in 0..forms'
<1>1. forms \in Nat /\ form \in 0..forms BY DEF PagesInv, PageInv
<1> QED BY <1>1 DEF Display

\* pushState leaves the address of the page as the last one.
LEMMA Navigated ==
  ASSUME PagesInv, NEW a \in Places(Len(made)), Navigate(a), UNCHANGED made
  PROVE  HistoryInv' /\ addresses'[at'] = a
<1> DEFINE P == Places(Len(made))
<1>1. addresses \in Seq(P) /\ at \in 1..Len(addresses) BY DEF PagesInv, HistoryInv
<1>2. PICK Q : Q = P OBVIOUS
<1> HIDE DEF P
<1>3. SubSeq(addresses, 1, at) \in Seq(Q) /\ Len(SubSeq(addresses, 1, at)) = at BY <1>1, <1>2, SubSeqProperties
<1>4. /\ addresses' \in Seq(Q) /\ Len(addresses') = at + 1 /\ addresses'[at + 1] = a /\ at' = at + 1
  BY <1>2, <1>3 DEF Navigate, P
<1>5. P' = P BY DEF P, Places
<1>6. at' \in 1..Len(addresses') BY <1>1, <1>4
<1> QED BY <1>2, <1>4, <1>5, <1>6 DEF HistoryInv, P

(* The actions under way *)

\* Without one of them, the others are still there.
LEMMA Removed ==
  ASSUME NEW S, NEW q \in Seq(S), NEW s \in DOMAIN q
  PROVE  /\ RemoveAt(q, s) \in Seq(S)
         /\ \A t \in DOMAIN RemoveAt(q, s) : \E u \in DOMAIN q : RemoveAt(q, s)[t] = q[u]
         /\ \A u \in DOMAIN q \ {s} : \E t \in DOMAIN RemoveAt(q, s) : RemoveAt(q, s)[t] = q[u]
<1>1. s \in 1..Len(q) /\ DOMAIN q = 1..Len(q) /\ Len(q) \in Nat OBVIOUS
<1> DEFINE l == SubSeq(q, 1, s - 1)
           r == SubSeq(q, s + 1, Len(q))
<1>2. l \in Seq(S) /\ Len(l) = s - 1 /\ \A t \in 1..Len(l) : l[t] = q[t]
  BY <1>1, SubSeqProperties
<1>3. r \in Seq(S) /\ Len(r) = Len(q) - s /\ \A t \in 1..Len(r) : r[t] = q[s + t]
  <2>1. CASE s < Len(q)
    <3>1. s + 1 \in 1..Len(q) + 1 /\ Len(q) \in s + 1 - 1..Len(q) BY <1>1, <2>1
    <3>2. r \in Seq(S) /\ Len(r) = Len(q) - (s + 1) + 1 /\ \A t \in 1..Len(r) : r[t] = q[s + 1 + t - 1] BY <1>1, <3>1, SubSeqProperties
    <3> QED BY <1>1, <3>2
  <2>2. CASE s = Len(q)
    <3>1. r = << >> BY <1>1, <2>2, SubSeqProperties
    <3> QED BY <1>1, <2>2, <3>1
  <2> QED BY <1>1, <2>1, <2>2
<1>4. RemoveAt(q, s) = l \o r BY DEF RemoveAt
<1> HIDE DEF l, r
<1>5. /\ l \o r \in Seq(S) /\ Len(l \o r) = Len(q) - 1 /\ DOMAIN (l \o r) = 1..Len(q) - 1
      /\ \A t \in 1..Len(q) - 1 : (l \o r)[t] = IF t < s THEN q[t] ELSE q[t + 1]
  <2>1. l \o r \in Seq(S) /\ Len(l \o r) = Len(l) + Len(r) BY <1>2, <1>3, ConcatProperties
  <2>2. \A t \in 1..Len(l) + Len(r) : (l \o r)[t] = IF t <= Len(l) THEN l[t] ELSE r[t - Len(l)]
    BY <1>2, <1>3, ConcatProperties
  <2>3. Len(l) + Len(r) = Len(q) - 1 BY <1>1, <1>2, <1>3
  <2>4. ASSUME NEW t \in 1..Len(q) - 1 PROVE (l \o r)[t] = IF t < s THEN q[t] ELSE q[t + 1]
    <3>1. CASE t < s BY <1>1, <1>2, <2>2, <2>3, <3>1
    <3>2. CASE ~(t < s)
      <4>1. PICK k : k = t - Len(l) OBVIOUS
      <4>2. k \in 1..Len(r) /\ s + k = t + 1 /\ ~(t <= Len(l)) BY <1>1, <1>2, <1>3, <3>2, <4>1
      <4>3. (l \o r)[t] = r[k] BY <2>2, <2>3, <4>1, <4>2
      <4>4. r[k] = q[t + 1] BY <1>3, <4>2
      <4> QED BY <3>2, <4>3, <4>4
    <3> QED BY <3>1, <3>2
  <2>5. DOMAIN (l \o r) = 1..Len(q) - 1 BY <2>1, <2>3
  <2> QED BY <2>1, <2>3, <2>4, <2>5
<1>6. ASSUME NEW t \in 1..Len(q) - 1 PROVE \E u \in 1..Len(q) : (l \o r)[t] = q[u]
  <2>1. t \in 1..Len(q) /\ t + 1 \in 1..Len(q) BY <1>1
  <2> QED BY <1>5, <2>1
<1>7. ASSUME NEW u \in 1..Len(q), u # s PROVE \E t \in 1..Len(q) - 1 : (l \o r)[t] = q[u]
  <2>1. CASE u < s
    <3>1. u \in 1..Len(q) - 1 BY <1>1, <2>1
    <3> QED BY <1>5, <2>1, <3>1
  <2>2. CASE u > s
    <3>1. u - 1 \in 1..Len(q) - 1 /\ ~(u - 1 < s) /\ u - 1 + 1 = u BY <1>1, <2>2
    <3> QED BY <1>5, <3>1
  <2>3. u < s \/ u > s BY <1>1, <1>7
  <2> QED BY <2>1, <2>2, <2>3
<1> QED BY <1>1, <1>4, <1>5, <1>6, <1>7

\* One action is no longer under way.
LEMMA RowGone ==
  ASSUME PagesInv, NEW s \in DOMAIN asked, asked' = RemoveAt(asked, s)
  PROVE  /\ asked' \in Seq(Asking)
         /\ \A t \in DOMAIN asked' : \E u \in DOMAIN asked : asked'[t] = asked[u]
         /\ \A u \in DOMAIN asked \ {s} : \E t \in DOMAIN asked' : asked'[t] = asked[u]
<1>1. PICK q \in Seq(Asking) : q = asked BY DEF PagesInv, MadeInv, RowsInv
<1>2. s \in DOMAIN q /\ asked' = RemoveAt(q, s) BY <1>1
<1> QED BY <1>1, <1>2, Removed

\* One action is a step further.
LEMMA RowNext ==
  ASSUME PagesInv, NEW s \in DOMAIN asked, NEW row \in Asking, asked' = [asked EXCEPT ![s] = row]
  PROVE  /\ asked' \in Seq(Asking) /\ s \in DOMAIN asked' /\ asked'[s] = row
         /\ \A t \in DOMAIN asked' : asked'[t] = row \/ \E u \in DOMAIN asked : asked'[t] = asked[u]
         /\ \A u \in DOMAIN asked \ {s} : u \in DOMAIN asked' /\ asked'[u] = asked[u]
<1>1. asked \in Seq(Asking) BY DEF PagesInv, MadeInv, RowsInv
<1> QED BY <1>1

\* Rows stay right while WorkOrders are added.
LEMMA AskedKept ==
  ASSUME PagesInv, made' \in Seq(Nat), Len(made) <= Len(made'), \A i \in 1..Len(made) : made'[i] = made[i],
         asked' \in Seq(Asking),
         \A t \in DOMAIN asked' : (\E u \in DOMAIN asked : asked'[t] = asked[u]) \/ RowOK(asked'[t], made')
  PROVE  RowsInv'
<1>1. made \in Seq(Nat) /\ Len(made) \in Nat /\ Len(made') \in Nat BY DEF PagesInv, MadeInv
<1>2. ASSUME NEW q \in Asking, RowOK(q, made) PROVE RowOK(q, made')
  <2>1. q.order \in Nat /\ q.order <= Len(made) BY <1>2 DEF RowOK, Asking
  <2>2. q.order > 0 => q.order \in 1..Len(made) BY <1>1, <2>1
  <2> QED BY <1>1, <1>2, <2>1, <2>2 DEF RowOK
<1>3. \A u \in DOMAIN asked : asked[u] \in Asking /\ RowOK(asked[u], made) BY DEF PagesInv, MadeInv, RowsInv
<1>4. \A t \in DOMAIN asked' : RowOK(asked'[t], made') BY <1>2, <1>3
<1> QED BY <1>4 DEF RowsInv

\* Steps that make no WorkOrder.
LEMMA MadeStays ==
  ASSUME PagesInv, UNCHANGED made, asked' \in Seq(Asking),
         \A t \in DOMAIN asked' : (\E u \in DOMAIN asked : asked'[t] = asked[u]) \/ RowOK(asked'[t], made)
  PROVE  MadeInv'
<1>1. made \in Seq(Nat) /\ Len(made) \in Nat /\ OnePerKey BY DEF PagesInv, MadeInv
<1>2. RowsInv' BY <1>1, AskedKept
<1> QED BY <1>1, <1>2 DEF MadeInv, OnePerKey

LEMMA SameRows ==
  ASSUME PagesInv, UNCHANGED asked
  PROVE  asked' \in Seq(Asking) /\ \A t \in DOMAIN asked' : \E u \in DOMAIN asked : asked'[t] = asked[u]
BY DEF PagesInv, MadeInv, RowsInv

(* The pages *)

\* The browser stays where it is.
LEMMA PageStays ==
  ASSUME PagesInv, UNCHANGED <<browserVars, made>>
  PROVE  HistoryInv' /\ PageInv'
BY DEF browserVars, PagesInv, HistoryInv, PageInv, AddressShown, ActsOnAddressed, Shown, Places

\* The browser goes to another page.
LEMMA PageMoves ==
  ASSUME PagesInv, NEW p \in Flags, p.selected <= Len(made), Display(p), UNCHANGED made,
         Rendered(p) = addresses'[at'] \/ strayed', p.selected > 0 => addresses'[at'] = Order(p.selected)
  PROVE  PageInv'
<1>1. page' = p /\ forms' \in Nat /\ form' \in 0..forms' BY Displayed
<1> QED BY <1>1 DEF PageInv, AddressShown, ActsOnAddressed, Shown

LEMMA OpenKeeps == ASSUME PagesInv, NEW a \in Places(Len(made)), Open(a) PROVE PagesInv'
<1>1. UNCHANGED <<made, asked, pending>> /\ Display(PageOf(a)) /\ Navigate(a) BY DEF Open
<1>2. Len(made) \in Nat BY DEF PagesInv, MadeInv
<1>3. /\ PageOf(a) \in Flags /\ PageOf(a).selected <= Len(made) /\ Rendered(PageOf(a)) = a
      /\ PageOf(a).selected > 0 => a = Order(PageOf(a).selected)
  BY <1>2, PlaceShown
<1>4. HistoryInv' /\ addresses'[at'] = a BY <1>1, Navigated
<1>5. PageInv' BY <1>1, <1>3, <1>4, PageMoves
<1>6. MadeInv' BY <1>1, SameRows, MadeStays
<1>7. PendingTrue' BY <1>1 DEF PagesInv, PendingTrue
<1> QED BY <1>4, <1>5, <1>6, <1>7 DEF PagesInv

LEMMA TravelKeeps == ASSUME PagesInv, NEW k \in DOMAIN addresses, Travel(k) PROVE PagesInv'
<1>1. /\ at' = k /\ Display(PageOf(addresses[k])) /\ UNCHANGED <<addresses, made, asked, pending>>
  BY DEF Travel
<1>2. Len(made) \in Nat /\ k \in 1..Len(addresses) /\ addresses[k] \in Places(Len(made))
  BY DEF PagesInv, MadeInv, HistoryInv
<1>3. PICK a \in Places(Len(made)) : a = addresses[k] BY <1>2
<1>4. /\ PageOf(a) \in Flags /\ PageOf(a).selected <= Len(made) /\ Rendered(PageOf(a)) = a
      /\ PageOf(a).selected > 0 => a = Order(PageOf(a).selected)
  BY <1>2, PlaceShown
<1>5. HistoryInv' BY <1>1, <1>2 DEF PagesInv, HistoryInv, Places
<1>6. PageInv' BY <1>1, <1>3, <1>4, PageMoves
<1>7. MadeInv' BY <1>1, SameRows, MadeStays
<1>8. PendingTrue' BY <1>1 DEF PagesInv, PendingTrue
<1> QED BY <1>5, <1>6, <1>7, <1>8 DEF PagesInv

(* Asking *)

LEMMA Asked ==
  ASSUME PagesInv, NEW what \in {"create", "builder", "start", "cancel"}, NEW subject \in Nat, Ask(what, subject),
         UNCHANGED made
  PROVE  MadeInv' /\ PendingTrue'
<1> DEFINE row == [kind |-> what, subject |-> subject, answer |-> "none", order |-> 0, awaited |-> TRUE]
<1>1. row \in Asking
  <2>1. 0 \in Nat OBVIOUS
  <2> QED BY <2>1, Zenon DEF Asking
<1>2. row.order = 0 /\ row.answer = "none" /\ row.kind = what OBVIOUS
<1>3. row.awaited BY Zenon
<1>4. asked' = Append(asked, row) /\ pending' = what BY DEF Ask
<1> HIDE DEF row
<1>5. asked \in Seq(Asking) /\ made \in Seq(Nat) /\ Len(made) \in Nat BY DEF PagesInv, MadeInv, RowsInv
<1>6. RowOK(row, made) BY <1>1, <1>2, <1>5 DEF RowOK
<1>7. /\ asked' \in Seq(Asking) /\ Len(asked) + 1 \in DOMAIN asked' /\ asked'[Len(asked) + 1] = row
      /\ \A t \in DOMAIN asked' : (t \in DOMAIN asked /\ asked'[t] = asked[t]) \/ asked'[t] = row
  BY <1>1, <1>4, <1>5
<1>8. MadeInv' BY <1>6, <1>7, MadeStays
<1>9. PendingTrue'
  <2>1. PICK n \in DOMAIN asked' : asked'[n] = row BY <1>7
  <2>2. asked'[n].awaited BY <1>3, <2>1
  <2>3. asked'[n].kind = pending' BY <1>2, <1>4, <2>1
  <2> QED BY <2>2, <2>3, Zenon DEF PendingTrue
<1> QED BY <1>8, <1>9

LEMMA AskSteps == ASSUME PagesInv, SubmitForm \/ SubmitBrief \/ StartRun PROVE PagesInv'
<1>1. UNCHANGED <<browserVars, made>> BY DEF SubmitForm, SubmitBrief, StartRun
<1>2. HistoryInv' /\ PageInv' BY <1>1, PageStays
<1>3. form \in Nat /\ page.selected \in Nat BY DEF PagesInv, PageInv, Flags
<1>4. PICK what \in {"create", "builder", "start", "cancel"}, subject \in Nat : Ask(what, subject)
  BY <1>3 DEF SubmitForm, SubmitBrief, StartRun
<1>5. MadeInv' /\ PendingTrue' BY <1>1, <1>4, Asked
<1> QED BY <1>2, <1>5 DEF PagesInv

LEMMA CancelSteps == ASSUME PagesInv, AskCancel \/ KeepRunning \/ CancelRun PROVE PagesInv'
<1>1. UNCHANGED <<browserVars, made>> BY DEF AskCancel, KeepRunning, CancelRun
<1>2. HistoryInv' /\ PageInv' BY <1>1, PageStays
<1>3. page.selected \in Nat BY DEF PagesInv, PageInv, Flags
<1>4. CASE UNCHANGED <<asked, pending>>
  <2>1. MadeInv' BY <1>1, <1>4, SameRows, MadeStays
  <2>2. PendingTrue' BY <1>4 DEF PagesInv, PendingTrue
  <2> QED BY <1>2, <2>1, <2>2 DEF PagesInv
<1>5. CASE Ask("cancel", page.selected)
  <2>1. PICK subject \in Nat : subject = page.selected BY <1>3
  <2>2. MadeInv' /\ PendingTrue' BY <1>1, <1>5, <2>1, Asked
  <2> QED BY <1>2, <2>2 DEF PagesInv
<1> QED BY <1>4, <1>5 DEF AskCancel, KeepRunning, CancelRun

(* The supervisor *)

\* Whatever becomes of an action nobody awaits, and what goes on with one that is awaited.
LEMMA PendingStays ==
  ASSUME PagesInv, NEW s \in DOMAIN asked, UNCHANGED pending,
         \A u \in DOMAIN asked \ {s} : \E t \in DOMAIN asked' : asked'[t] = asked[u],
         asked[s].awaited => \E t \in DOMAIN asked' : asked'[t].kind = asked[s].kind /\ asked'[t].awaited
  PROVE  PendingTrue'
<1> SUFFICES ASSUME pending # "none" PROVE \E t \in DOMAIN asked' : asked'[t].kind = pending /\ asked'[t].awaited
  BY DEF PendingTrue
<1>1. PICK u \in DOMAIN asked : asked[u].kind = pending /\ asked[u].awaited BY DEF PagesInv, PendingTrue
<1>2. CASE u = s BY <1>1, <1>2, Zenon
<1>3. CASE u # s
  <2>1. PICK t \in DOMAIN asked' : asked'[t] = asked[u] BY <1>3
  <2> QED BY <1>1, <2>1, Zenon
<1> QED BY <1>2, <1>3

\* An action is carried out, with a WorkOrder of its key.
LEMMA DoneKeeps ==
  ASSUME PagesInv, NEW s \in DOMAIN asked, NEW i \in Nat, Done(s, i), UNCHANGED pending,
         made' \in Seq(Nat), Len(made) <= Len(made'), \A k \in 1..Len(made) : made'[k] = made[k],
         i <= Len(made'), asked[s].kind \in {"create", "builder"} => i > 0,
         asked[s].kind = "create" => made'[i] = asked[s].subject
  PROVE  RowsInv' /\ PendingTrue'
<1>1. PICK q \in Asking : q = asked[s] BY DEF PagesInv, MadeInv, RowsInv
<1>2. CASE ~q.awaited
  <2>1. asked' = RemoveAt(asked, s) BY <1>1, <1>2, Zenon DEF Done
  <2>2. RowsInv' BY <2>1, RowGone, AskedKept
  <2>3. \A u \in DOMAIN asked \ {s} : \E t \in DOMAIN asked' : asked'[t] = asked[u] BY <2>1, RowGone
  <2>4. ~asked[s].awaited BY <1>1, <1>2, Zenon
  <2> QED BY <2>2, <2>3, <2>4, PendingStays
<1>3. CASE q.awaited
  <2> DEFINE row == [q EXCEPT !.answer = "done", !.order = i]
  <2>1. asked' = [asked EXCEPT ![s] = row]
    <3>1. asked[s].awaited BY <1>1, <1>3, Zenon
    <3> QED BY <1>1, <3>1, Zenon DEF Done
  <2>2. row \in Asking BY Zenon DEF Asking
  <2>3. row.kind = q.kind /\ row.subject = q.subject /\ row.answer = "done" /\ row.order = i BY DEF Asking
  <2>4. row.awaited BY <1>3, Zenon DEF Asking
  <2> HIDE DEF row
  <2>5. RowOK(row, made') BY <1>1, <2>2, <2>3 DEF RowOK
  <2>6. RowsInv' BY <2>1, <2>2, <2>5, RowNext, AskedKept
  <2>7. \A u \in DOMAIN asked \ {s} : \E t \in DOMAIN asked' : asked'[t] = asked[u] BY <2>1, <2>2, RowNext
  <2>8. \E t \in DOMAIN asked' : asked'[t].kind = asked[s].kind /\ asked'[t].awaited
    <3>1. s \in DOMAIN asked' /\ asked'[s] = row BY <2>1, <2>2, RowNext
    <3>2. asked'[s].kind = asked[s].kind BY <1>1, <2>3, <3>1
    <3>3. asked'[s].awaited BY <2>4, <3>1, Zenon
    <3> QED BY <3>1, <3>2, <3>3, Zenon
  <2> QED BY <2>6, <2>7, <2>8, PendingStays
<1> QED BY <1>2, <1>3

\* A WorkOrder is added, of a key that has none.
LEMMA Added ==
  ASSUME PagesInv, NEW key \in Nat, WithKey(key) = {}, made' = Append(made, key)
  PROVE  /\ made' \in Seq(Nat) /\ Len(made') = Len(made) + 1 /\ made'[Len(made) + 1] = key
         /\ \A k \in 1..Len(made) : made'[k] = made[k]
         /\ OnePerKey'
<1>1. made \in Seq(Nat) /\ Len(made) \in Nat BY DEF PagesInv, MadeInv
<1>2. /\ made' \in Seq(Nat) /\ Len(made') = Len(made) + 1 /\ made'[Len(made')] = key
      /\ \A i \in 1..Len(made) : made'[i] = made[i]
      /\ DOMAIN made = 1..Len(made) /\ DOMAIN made' = 1..Len(made')
  BY <1>1
<1>3. OnePerKey'
  <2> SUFFICES ASSUME NEW i \in 1..Len(made'), NEW j \in 1..Len(made'), made'[i] > 0, made'[i] = made'[j]
               PROVE  i = j
    BY <1>2 DEF OnePerKey
  <2>1. \A k \in 1..Len(made) : key > 0 => made[k] # key BY <1>2 DEF WithKey
  <2>2. CASE i \in 1..Len(made) /\ j \in 1..Len(made) BY <1>2, <2>2 DEF PagesInv, MadeInv, OnePerKey
  <2>3. CASE i = Len(made') /\ j \in 1..Len(made) BY <1>2, <2>1, <2>3
  <2>4. CASE j = Len(made') /\ i \in 1..Len(made) BY <1>2, <2>1, <2>4
  <2>5. CASE i = Len(made') /\ j = Len(made') BY <2>5
  <2> QED BY <1>1, <1>2, <2>2, <2>3, <2>4, <2>5
<1> QED BY <1>2, <1>3

\* The page and its history stay while a WorkOrder is added.
LEMMA PageStaysAdded ==
  ASSUME PagesInv, UNCHANGED browserVars, made' \in Seq(Nat), Len(made') = Len(made) + 1
  PROVE  HistoryInv' /\ PageInv'
<1>1. made \in Seq(Nat) /\ Len(made) \in Nat BY DEF PagesInv, MadeInv
<1>2. HistoryInv'
  <2>1. PICK n \in Nat : n = Len(made) BY <1>1
  <2>2. Places(n) \subseteq Places(n + 1) BY DEF Places
  <2>3. addresses \in Seq(Places(n)) /\ at \in 1..Len(addresses) BY <2>1 DEF PagesInv, HistoryInv
  <2>4. addresses \in Seq(Places(n + 1)) BY <2>2, <2>3
  <2>5. Len(made') = n + 1 /\ Places(n + 1) = Places(Len(made))' BY <2>1 DEF Places
  <2> QED BY <2>3, <2>4, <2>5 DEF HistoryInv, browserVars
<1>3. PageInv'
  <2>1. page.selected \in Nat BY DEF PagesInv, PageInv, Flags
  <2> QED BY <1>1, <2>1 DEF PagesInv, PageInv, AddressShown, ActsOnAddressed, Shown, browserVars
<1> QED BY <1>2, <1>3

\* A key makes one WorkOrder: who comes with it again is given that one.
LEMMA AgainKeeps ==
  ASSUME PagesInv, NEW s \in DOMAIN asked, asked[s].kind = "create",
         NEW i \in WithKey(asked[s].subject), Done(s, i), UNCHANGED <<browserVars, made, pending>>
  PROVE  PagesInv'
<1>1. made \in Seq(Nat) /\ Len(made) \in Nat /\ OnePerKey BY DEF PagesInv, MadeInv
<1>2. i \in 1..Len(made) /\ made[i] = asked[s].subject BY <1>1 DEF WithKey
<1>3. PICK w \in Nat : w = i BY <1>2
<1>4. Done(s, w) /\ w <= Len(made) /\ w > 0 /\ made[w] = asked[s].subject BY <1>1, <1>2, <1>3
<1>5. RowsInv' /\ PendingTrue' BY <1>1, <1>4, DoneKeeps
<1>6. MadeInv' BY <1>1, <1>5 DEF MadeInv, OnePerKey
<1>7. HistoryInv' /\ PageInv' BY PageStays
<1> QED BY <1>5, <1>6, <1>7 DEF PagesInv

LEMMA AddedKeeps ==
  ASSUME PagesInv, NEW s \in DOMAIN asked, NEW key \in Nat, WithKey(key) = {}, made' = Append(made, key),
         Done(s, Len(made) + 1), asked[s].kind = "create" => key = asked[s].subject, UNCHANGED <<browserVars, pending>>
  PROVE  PagesInv'
<1>1. made \in Seq(Nat) /\ Len(made) \in Nat BY DEF PagesInv, MadeInv
<1>2. /\ made' \in Seq(Nat) /\ Len(made') = Len(made) + 1 /\ made'[Len(made) + 1] = key
      /\ (\A k \in 1..Len(made) : made'[k] = made[k]) /\ OnePerKey'
  BY Added
<1>3. PICK w \in Nat : w = Len(made) + 1 BY <1>1
<1>4. Done(s, w) /\ w <= Len(made') /\ w > 0 /\ Len(made) <= Len(made') BY <1>1, <1>2, <1>3
<1>5. asked[s].kind = "create" => made'[w] = asked[s].subject BY <1>2, <1>3
<1>6. RowsInv' /\ PendingTrue' BY <1>2, <1>4, <1>5, DoneKeeps
<1>7. MadeInv' BY <1>2, <1>6 DEF MadeInv
<1>8. HistoryInv' /\ PageInv' BY <1>2, PageStaysAdded
<1> QED BY <1>6, <1>7, <1>8 DEF PagesInv

LEMMA ReceiveKeeps == ASSUME PagesInv, NEW s \in DOMAIN asked, Receive(s) PROVE PagesInv'
<1>1. UNCHANGED <<browserVars, made, pending>> /\ asked[s].kind = "create" BY DEF Receive
<1>2. CASE \E i \in WithKey(asked[s].subject) : Done(s, i) BY <1>1, <1>2, AgainKeeps
<1>3. CASE asked' = [asked EXCEPT ![s].answer = "presence"]
  <2>1. PICK q \in Asking : q = asked[s] /\ RowOK(q, made) BY DEF PagesInv, MadeInv, RowsInv
  <2> DEFINE row == [q EXCEPT !.answer = "presence"]
  <2>2. asked' = [asked EXCEPT ![s] = row] BY <1>3, <2>1
  <2>3. row \in Asking BY Zenon DEF Asking
  <2>4. row.kind = q.kind /\ row.answer = "presence" /\ row.order = q.order BY DEF Asking
  <2>5. row.awaited = q.awaited BY Zenon DEF Asking
  <2> HIDE DEF row
  <2>6. RowOK(row, made) BY <2>1, <2>3, <2>4 DEF RowOK
  <2>7. MadeInv' BY <1>1, <2>2, <2>3, <2>6, RowNext, MadeStays
  <2>8. \A u \in DOMAIN asked \ {s} : \E t \in DOMAIN asked' : asked'[t] = asked[u] BY <2>2, <2>3, RowNext
  <2>9. asked[s].awaited => \E t \in DOMAIN asked' : asked'[t].kind = asked[s].kind /\ asked'[t].awaited
    <3>1. s \in DOMAIN asked' /\ asked'[s] = row BY <2>2, <2>3, RowNext
    <3>2. asked'[s].kind = asked[s].kind BY <2>1, <2>4, <3>1
    <3>3. asked'[s].awaited = asked[s].awaited BY <2>1, <2>5, <3>1, Zenon
    <3> QED BY <3>1, <3>2, <3>3, Zenon
  <2>10. PendingTrue' BY <1>1, <2>8, <2>9, PendingStays
  <2>11. HistoryInv' /\ PageInv' BY <1>1, PageStays
  <2> QED BY <2>7, <2>10, <2>11 DEF PagesInv
<1> QED BY <1>2, <1>3 DEF Receive

LEMMA RecordKeeps == ASSUME PagesInv, NEW s \in DOMAIN asked, RecordOrder(s) PROVE PagesInv'
<1>1. UNCHANGED <<browserVars, pending>> /\ asked[s].kind = "create" BY DEF RecordOrder
<1>2. CASE made' = made /\ \E i \in WithKey(asked[s].subject) : Done(s, i) BY <1>1, <1>2, AgainKeeps
<1>3. CASE WithKey(asked[s].subject) = {} /\ made' = Append(made, asked[s].subject) /\ Done(s, Len(made) + 1)
  <2>1. PICK q \in Asking : q = asked[s] BY DEF PagesInv, MadeInv, RowsInv
  <2>2. PICK key \in Nat : key = asked[s].subject BY <2>1 DEF Asking
  <2> QED BY <1>1, <1>3, <2>2, AddedKeeps
<1> QED BY <1>2, <1>3 DEF RecordOrder

LEMMA CarryKeeps == ASSUME PagesInv, NEW s \in DOMAIN asked, CarryOut(s) PROVE PagesInv'
<1>1. UNCHANGED <<browserVars, pending>> BY DEF CarryOut
<1>2. CASE asked[s].kind = "builder" /\ made' = Append(made, 0) /\ Done(s, Len(made) + 1)
  <2>1. WithKey(0) = {} BY DEF WithKey
  <2> QED BY <1>1, <1>2, <2>1, AddedKeeps
<1>3. CASE asked[s].kind \in {"start", "cancel"} /\ made' = made /\ Done(s, 0)
  <2>1. made \in Seq(Nat) /\ Len(made) \in Nat /\ OnePerKey BY DEF PagesInv, MadeInv
  <2>2. RowsInv' /\ PendingTrue' BY <1>1, <1>3, <2>1, DoneKeeps
  <2>3. MadeInv' BY <1>3, <2>1, <2>2 DEF MadeInv, OnePerKey
  <2>4. HistoryInv' /\ PageInv' BY <1>1, <1>3, PageStays
  <2> QED BY <2>2, <2>3, <2>4 DEF PagesInv
<1> QED BY <1>2, <1>3 DEF CarryOut

\* Nobody is told of what nobody awaits.
LEMMA RefuseKeeps == ASSUME PagesInv, NEW s \in DOMAIN asked, Refuse(s) PROVE PagesInv'
<1>1. UNCHANGED <<browserVars, made>> /\ asked' = RemoveAt(asked, s) BY DEF Refuse
<1>2. HistoryInv' /\ PageInv' BY <1>1, PageStays
<1>3. MadeInv' BY <1>1, RowGone, MadeStays
<1>4. PendingTrue'
  <2>1. CASE asked[s].awaited
    <3>1. pending' = "none" BY <2>1, Zenon DEF Refuse
    <3> QED BY <3>1 DEF PendingTrue
  <2>2. CASE ~asked[s].awaited
    <3>1. pending' = pending BY <2>2, Zenon DEF Refuse
    <3>2. \A u \in DOMAIN asked \ {s} : \E t \in DOMAIN asked' : asked'[t] = asked[u] BY <1>1, RowGone
    <3> QED BY <2>2, <3>1, <3>2, PendingStays
  <2> QED BY <2>1, <2>2
<1> QED BY <1>2, <1>3, <1>4 DEF PagesInv

(* Answers *)

LEMMA AnswerLostKeeps == ASSUME PagesInv, NEW s \in DOMAIN asked, AnswerLost(s) PROVE PagesInv'
<1>1. UNCHANGED <<browserVars, made>> /\ pending' = "none" BY DEF AnswerLost
<1>2. HistoryInv' /\ PageInv' BY <1>1, PageStays
<1>3. PendingTrue' BY <1>1 DEF PendingTrue
<1>4. CASE asked' = RemoveAt(asked, s)
  <2>1. MadeInv' BY <1>1, <1>4, RowGone, MadeStays
  <2> QED BY <1>2, <1>3, <2>1 DEF PagesInv
<1>5. CASE asked' = [asked EXCEPT ![s].awaited = FALSE]
  <2>1. PICK q \in Asking : q = asked[s] /\ RowOK(q, made) BY DEF PagesInv, MadeInv, RowsInv
  <2> DEFINE row == [q EXCEPT !.awaited = FALSE]
  <2>2. asked' = [asked EXCEPT ![s] = row] BY <1>5, <2>1
  <2>3. row \in Asking BY Zenon DEF Asking
  <2>4. row.kind = q.kind /\ row.answer = q.answer /\ row.order = q.order /\ row.subject = q.subject BY Zenon DEF Asking
  <2> HIDE DEF row
  <2>5. RowOK(row, made) BY <2>1, <2>3, <2>4 DEF RowOK
  <2>6. MadeInv' BY <1>1, <2>2, <2>3, <2>5, RowNext, MadeStays
  <2> QED BY <1>2, <1>3, <2>6 DEF PagesInv
<1> QED BY <1>4, <1>5 DEF AnswerLost

LEMMA RunAnsweredKeeps == ASSUME PagesInv, NEW s \in DOMAIN asked, RunAnswered(s) PROVE PagesInv'
<1>1. UNCHANGED <<browserVars, made>> /\ asked' = RemoveAt(asked, s) /\ pending' = "none" BY DEF RunAnswered, Answered
<1>2. HistoryInv' /\ PageInv' /\ MadeInv' BY <1>1, PageStays, RowGone, MadeStays
<1>3. PendingTrue' BY <1>1 DEF PendingTrue
<1> QED BY <1>2, <1>3 DEF PagesInv

\* The answer takes its user to the new WorkOrder.
LEMMA AnswerMoves ==
  ASSUME PagesInv, NEW s \in DOMAIN asked, CreateAnswered(s) \/ ScaffoldAnswered(s)
  PROVE  PagesInv'
<1>1. /\ asked' = RemoveAt(asked, s) /\ pending' = "none" /\ Navigate(Order(asked[s].order)) /\ UNCHANGED made
      /\ asked[s].answer = "done" /\ asked[s].kind \in {"create", "builder"}
  BY DEF CreateAnswered, ScaffoldAnswered, Answered
<1>2. PICK i \in 1..Len(made) : i = asked[s].order
  <2>1. RowOK(asked[s], made) /\ Len(made) \in Nat BY DEF PagesInv, MadeInv, RowsInv
  <2> QED BY <1>1, <2>1 DEF RowOK, Asking
<1>3. Len(made) \in Nat /\ Order(i) \in Places(Len(made)) BY DEF Places, PagesInv, MadeInv
<1>4. HistoryInv' /\ addresses'[at'] = Order(i) BY <1>1, <1>2, <1>3, Navigated
<1>5. MadeInv' BY <1>1, RowGone, MadeStays
<1>6. PendingTrue' BY <1>1 DEF PendingTrue
<1>7. PageInv'
  <2>1. CASE CreateAnswered(s)
    <3>1. PageOf(Order(i)) \in Flags /\ PageOf(Order(i)).selected <= Len(made) /\ Rendered(PageOf(Order(i))) = Order(i)
      BY <1>3, PlaceShown
    <3>2. PageOf(Order(i)).selected = i BY DEF PageOf, Order, Blank
    <3>3. Display(PageOf(Order(i))) BY <1>2, <2>1 DEF CreateAnswered
    <3> QED BY <1>1, <1>4, <3>1, <3>2, <3>3, PageMoves
  <2>2. CASE ScaffoldAnswered(s)
    <3>1. PICK shown \in Flags : shown = page BY DEF PagesInv, PageInv
    <3> DEFINE next == [shown EXCEPT !.selected = i, !.builder = FALSE, !.connections = FALSE]
    <3>2. next \in Flags /\ next.selected = i /\ next.creating = shown.creating /\ ~next.builder /\ ~next.connections
      <4>1. i \in Nat OBVIOUS
      <4>2. next \in Flags BY Zenon, <4>1 DEF Flags
      <4>3. next.selected = i BY DEF Flags
      <4>4. next.creating = shown.creating BY Zenon DEF Flags
      <4>5. ~next.builder /\ ~next.connections BY Zenon DEF Flags
      <4> QED BY <4>2, <4>3, <4>4, <4>5
    <3>3. Display(next) /\ strayed' = shown.creating BY <1>2, <2>2, <3>1 DEF ScaffoldAnswered
    <3> HIDE DEF next
    <3>4. next.selected <= Len(made) /\ addresses'[at'] = Order(next.selected) BY <1>3, <1>4, <3>2
    <3>5. CASE shown.creating
      <4>1. strayed' BY Zenon, <3>3, <3>5
      <4> QED BY <1>1, <3>2, <3>3, <3>4, <4>1, PageMoves
    <3>6. CASE ~shown.creating
      <4>1. ~next.creating BY Zenon, <3>2, <3>6
      <4>2. next.selected > 0 BY <3>2
      <4>3. Rendered(next) = Order(i) BY <3>2, <4>1, <4>2 DEF Rendered
      <4> QED BY <1>1, <1>4, <3>2, <3>3, <3>4, <4>3, PageMoves
    <3> QED BY <3>5, <3>6
  <2> QED BY <2>1, <2>2
<1> QED BY <1>4, <1>5, <1>6, <1>7 DEF PagesInv

LEMMA PagesKept == PagesInv /\ [PagesNext]_pageVars => PagesInv'
<1> SUFFICES ASSUME PagesInv, PagesNext \/ UNCHANGED pageVars PROVE PagesInv'
  OBVIOUS
<1>1. CASE UNCHANGED pageVars
  <2>1. UNCHANGED <<browserVars, made, asked, pending>> BY <1>1 DEF pageVars, browserVars
  <2>2. HistoryInv' /\ PageInv' /\ MadeInv' BY <2>1, PageStays, SameRows, MadeStays
  <2>3. PendingTrue' BY <2>1 DEF PagesInv, PendingTrue
  <2> QED BY <2>2, <2>3 DEF PagesInv
<1>2. CASE (\E v \in Views : Open(View(v))) \/ Open(Overview) \/ \E a \in Orders : Open(a)
  <2>1. DOMAIN made = 1..Len(made) BY DEF PagesInv, MadeInv
  <2>2. \A v \in Views : View(v) \in Places(Len(made)) BY DEF Places
  <2>3. Overview \in Places(Len(made)) BY DEF Places
  <2>4. \A a \in Orders : a \in Places(Len(made)) BY <2>1 DEF Places, Orders, Order
  <2> QED BY <1>2, <2>2, <2>3, <2>4, OpenKeeps
<1>3. CASE \E s \in DOMAIN asked : Receive(s) \/ RecordOrder(s) \/ CarryOut(s) \/ Refuse(s)
  BY <1>3, ReceiveKeeps, RecordKeeps, CarryKeeps, RefuseKeeps
<1>4. CASE \E s \in DOMAIN asked : AnswerLost(s) \/ RunAnswered(s) \/ CreateAnswered(s) \/ ScaffoldAnswered(s)
  BY <1>4, AnswerLostKeeps, RunAnsweredKeeps, AnswerMoves
<1> QED BY <1>1, <1>2, <1>3, <1>4, AskSteps, CancelSteps, TravelKeeps DEF PagesNext

LEMMA PagesHold == PagesSpec => []PagesSound
<1>1. PagesInv => PagesSound
  <2> SUFFICES ASSUME PagesInv PROVE PagesSound
    OBVIOUS
  <2>1. PagesTypeOK BY DEF PagesInv, HistoryInv, PageInv, MadeInv, Flags, PagesTypeOK
  <2>2. OneOrderPerForm BY DEF PagesInv, MadeInv, OnePerKey, RowsInv, RowOK, OneOrderPerForm
  <2> QED BY <2>1, <2>2 DEF PagesInv, PageInv, PagesSound
<1> QED BY <1>1, PagesStart, PagesKept, PTL DEF PagesSpec

(***************************************************************************)
(* The panels.                                                             *)
(*                                                                         *)
(* While a panel does not act, what it waits for was asked after its last  *)
(* action.  The change of the switch carries the revision it was shown,    *)
(* and the dispatcher refuses any other.                                   *)
(***************************************************************************)

LoadRow == [active : BOOLEAN, answer : (0..MaxActions) \cup {Unread}]

Awaits == \E l \in loads : l.active

\* While a panel does not act, what it waits for and shows is as of its last action.
PanelInv ==
  /\ served \in 0..MaxActions /\ display \in (0..served) \cup {Unread} /\ acting \in {"no", "asked", "served"}
  /\ acting = "asked" => served < MaxActions
  /\ \A l \in loads : l \in LoadRow /\ (l.answer # Unread => l.answer <= served)
                      /\ (acting = "no" /\ l.active /\ l.answer # Unread => l.answer = served)
  /\ acting = "no" => Awaits \/ trouble \/ display = served

\* A revision says whether dispatch is paused: every change turns the switch.
PolicyOK(p) == p \in [revision : Nat, paused : BOOLEAN] /\ (p.paused <=> p.revision % 2 = 0)

SwitchInv ==
  /\ PolicyOK(policy) /\ (switch = Unread \/ PolicyOK(switch))
  /\ \A p \in refreshes : p = Unread \/ PolicyOK(p)
  /\ change \in [shown : {change.shown}, answer : {"none", "done", "refused", "error"}]
  /\ change.shown = Unread \/ PolicyOK(change.shown)
  /\ change.answer # "none" => change.shown # Unread
  /\ \A c \in switched : c.shown = c.met

LEMMA PanelsStart == PanelsInit => PanelInv /\ SwitchInv
<1> SUFFICES ASSUME PanelsInit PROVE PanelInv /\ SwitchInv
  OBVIOUS
<1>1. Load \in LoadRow /\ Load.active /\ Load.answer = Unread BY DEF Load, LoadRow
<1>2. PanelInv BY <1>1, PanelBounds DEF PanelsInit, PanelInv, Awaits
<1>3. PolicyOK(policy) BY DEF PanelsInit, PolicyOK
<1>4. SwitchInv BY <1>3 DEF PanelsInit, SwitchInv, NoChange
<1> QED BY <1>2, <1>4

LEMMA LoadNew == Load \in LoadRow /\ Load.active /\ Load.answer = Unread
BY DEF Load, LoadRow

\* After the effect ran again there is one load that is awaited, without an answer yet.
LEMMA RerunLoads ==
  ASSUME PanelInv, Rerun
  PROVE  /\ \A l \in loads' : l \in LoadRow /\ (l.answer # Unread => l.answer <= served)
                              /\ (l.active => l.answer = Unread)
         /\ Awaits'
<1>1. loads' = {[l EXCEPT !.active = FALSE] : l \in loads} \cup {Load} BY DEF Rerun
<1>2. ASSUME NEW l \in loads
      PROVE  /\ [l EXCEPT !.active = FALSE] \in LoadRow /\ ~[l EXCEPT !.active = FALSE].active
             /\ [l EXCEPT !.active = FALSE].answer = l.answer
  <2>1. l \in LoadRow BY DEF PanelInv
  <2> QED BY <2>1 DEF LoadRow
<1>3. \A l \in loads : l.answer # Unread => l.answer <= served BY DEF PanelInv
<1> QED BY <1>1, <1>2, <1>3, LoadNew DEF Awaits

LEMMA StatusKeeps == ASSUME PanelInv, NEW l \in loads, ReadStatus(l) \/ StatusArrives(l) PROVE PanelInv'
<1>1. UNCHANGED <<served, acting>> BY DEF ReadStatus, StatusArrives
<1>2. l \in LoadRow /\ (l.answer # Unread => l.answer <= served)
      /\ (acting = "no" /\ l.active /\ l.answer # Unread => l.answer = served)
  BY DEF PanelInv
<1>3. CASE ReadStatus(l)
  <2> DEFINE next == [l EXCEPT !.answer = served]
  <2>1. next \in LoadRow /\ next.answer = served /\ next.active = l.active /\ served <= served
    BY <1>2 DEF LoadRow, PanelInv
  <2>2. loads' = (loads \ {l}) \cup {next} /\ UNCHANGED <<display, trouble>> BY <1>3 DEF ReadStatus
  <2> HIDE DEF next
  <2>3. Awaits => Awaits' BY <2>1, <2>2 DEF Awaits
  <2> QED BY <1>1, <2>1, <2>2, <2>3 DEF PanelInv
<1>4. CASE StatusArrives(l)
  <2>1. loads' = loads \ {l} BY <1>4 DEF StatusArrives
  <2>2. CASE ~l.active
    <3>1. UNCHANGED <<display, trouble>> BY <1>4, <2>2 DEF StatusArrives
    <3>2. Awaits => Awaits' BY <2>1, <2>2 DEF Awaits
    <3> QED BY <1>1, <2>1, <3>1, <3>2 DEF PanelInv
  <2>3. CASE l.active /\ l.answer # Unread /\ display' = l.answer /\ trouble' = FALSE
    <3>1. l.answer \in 0..served /\ (acting = "no" => l.answer = served) BY <1>2, <2>3 DEF LoadRow, PanelInv
    <3> QED BY <1>1, <2>1, <2>3, <3>1 DEF PanelInv
  <2>4. CASE l.active /\ trouble' = TRUE /\ display' \in {Unread, display}
    BY <1>1, <2>1, <2>4 DEF PanelInv
  <2> QED BY <1>4, <2>2, <2>3, <2>4 DEF StatusArrives
<1> QED BY <1>3, <1>4

LEMMA PanelSteps == ASSUME PanelInv, LoadAgain \/ Perform \/ Carry \/ PerformAnswered PROVE PanelInv'
<1>1. CASE LoadAgain
  <2>1. UNCHANGED <<served, acting, display, trouble>> BY <1>1 DEF LoadAgain
  <2>2. CASE Rerun BY <2>1, <2>2, RerunLoads DEF PanelInv
  <2>3. CASE loads' = loads \cup {Load}
    <3>1. Awaits' BY <2>3, LoadNew DEF Awaits
    <3> QED BY <2>1, <2>3, <3>1, LoadNew DEF PanelInv
  <2> QED BY <1>1, <2>2, <2>3 DEF LoadAgain
<1>2. CASE Perform
  <2>1. UNCHANGED <<served, display, trouble>> /\ acting' = "asked" /\ served < MaxActions BY <1>2 DEF Perform
  <2>2. CASE Rerun BY <2>1, <2>2, RerunLoads DEF PanelInv
  <2>3. CASE UNCHANGED loads BY <2>1, <2>3 DEF PanelInv
  <2> QED BY <1>2, <2>2, <2>3 DEF Perform
<1>3. CASE Carry
  <2>1. UNCHANGED <<loads, display, trouble>> /\ acting' = "served" /\ served' = served + 1 /\ served < MaxActions
    BY <1>3 DEF Carry, PanelInv
  <2>2. served \in Nat /\ served' \in 0..MaxActions BY <2>1, PanelBounds DEF PanelInv
  <2>3. \A l \in loads : l.answer # Unread => l.answer <= served'
    <3> SUFFICES ASSUME NEW l \in loads, l.answer # Unread PROVE l.answer <= served'
      OBVIOUS
    <3>1. l \in LoadRow /\ l.answer <= served BY DEF PanelInv
    <3>2. l.answer \in Nat BY <3>1 DEF LoadRow
    <3> QED BY <2>1, <2>2, <3>1, <3>2
  <2>4. display \in (0..served') \cup {Unread} BY <2>1, <2>2 DEF PanelInv
  <2> QED BY <2>1, <2>2, <2>3, <2>4 DEF PanelInv
<1>4. CASE PerformAnswered
  <2>1. UNCHANGED <<served, display, trouble>> /\ acting' = "no" /\ Rerun BY <1>4 DEF PerformAnswered
  <2> QED BY <2>1, RerunLoads DEF PanelInv
<1> QED BY <1>1, <1>2, <1>3, <1>4

\* The next revision is paused if this one is not.
LEMMA TurnedOK ==
  ASSUME NEW p, PolicyOK(p)
  PROVE  PolicyOK([revision |-> p.revision + 1, paused |-> ~p.paused])
<1> DEFINE next == [revision |-> p.revision + 1, paused |-> ~p.paused]
<1>1. p.revision \in Nat /\ p.paused \in BOOLEAN /\ (p.paused <=> p.revision % 2 = 0) BY DEF PolicyOK
<1>2. p.revision + 1 \in Nat BY <1>1
<1>3. next \in [revision : Nat, paused : BOOLEAN] BY <1>2
<1>4. (p.revision + 1) % 2 = 0 <=> p.revision % 2 # 0 BY <1>1
<1>5. next.revision = p.revision + 1 /\ (next.paused <=> ~p.paused) OBVIOUS
<1> HIDE DEF next
<1>6. next.paused <=> next.revision % 2 = 0
  <2>1. ~p.paused <=> (p.revision + 1) % 2 = 0 BY ONLY <1>1, <1>4
  <2> QED BY ONLY <1>5, <2>1
<1> QED BY <1>3, <1>6 DEF PolicyOK, next

\* Two policies of one revision are the same.
LEMMA SamePolicy == ASSUME NEW p, NEW q, PolicyOK(p), PolicyOK(q), p.revision = q.revision PROVE p = q
<1>1. p.paused \in BOOLEAN /\ q.paused \in BOOLEAN /\ (p.paused <=> q.paused) BY DEF PolicyOK
<1>2. p.paused = q.paused BY Zenon, <1>1
<1>3. p = [revision |-> p.revision, paused |-> p.paused] /\ q = [revision |-> q.revision, paused |-> q.paused]
  BY DEF PolicyOK
<1> QED BY ONLY <1>2, <1>3, p.revision = q.revision

LEMMA SwitchReads ==
  ASSUME SwitchInv, Refresh \/ ReadPolicy \/ ChangePaused \/ \E p \in refreshes : PolicyArrives(p)
  PROVE  SwitchInv'
<1>1. UNCHANGED <<policy, switched>> BY DEF Refresh, ReadPolicy, ChangePaused, PolicyArrives
<1>2. CASE Refresh \/ ReadPolicy
  BY <1>1, <1>2 DEF Refresh, ReadPolicy, SwitchInv, PolicyOK
<1>3. CASE ChangePaused
  <2>1. switch # Unread /\ PolicyOK(switch) /\ UNCHANGED <<switch, refreshes>> BY <1>3 DEF ChangePaused, SwitchInv
  <2>2. change' = [shown |-> switch, answer |-> "none"] BY <1>3 DEF ChangePaused
  <2>3. change'.shown = switch /\ change'.answer = "none" BY <2>2
  <2>4. change' \in [shown : {change'.shown}, answer : {"none", "done", "refused", "error"}] BY <2>2, <2>3
  <2> QED BY <1>1, <2>1, <2>3, <2>4 DEF SwitchInv, PolicyOK
<1>4. ASSUME NEW p \in refreshes, PolicyArrives(p) PROVE SwitchInv'
  <2>1. /\ refreshes' = refreshes \ {p} /\ switch' \in (IF p = Unread THEN {switch} ELSE {p})
        /\ change' = IF change.answer = "error" THEN NoChange ELSE change
    BY <1>4 DEF PolicyArrives
  <2>2. switch' = Unread \/ PolicyOK(switch') BY <2>1 DEF SwitchInv
  <2>3. CASE change.answer = "error"
    <3>1. change' = NoChange BY <2>1, <2>3
    <3>2. change'.shown = Unread /\ change'.answer = "none"
          /\ change' \in [shown : {change'.shown}, answer : {"none", "done", "refused", "error"}]
      BY <3>1 DEF NoChange
    <3> QED BY <1>1, <2>1, <2>2, <3>2 DEF SwitchInv, PolicyOK
  <2>4. CASE change.answer # "error"
    <3>1. change' = change BY <2>1, <2>4
    <3> QED BY <1>1, <2>1, <2>2, <3>1 DEF SwitchInv, PolicyOK
  <2> QED BY <2>3, <2>4
<1> QED BY <1>2, <1>3, <1>4

LEMMA SwitchWrites == ASSUME SwitchInv, OthersChange \/ SetPausedShown \/ ChangeAnswered PROVE SwitchInv'
<1> DEFINE Turned(p) == [revision |-> p.revision + 1, paused |-> ~p.paused]
<1>1. CASE OthersChange
  <2>1. policy' = Turned(policy) BY <1>1 DEF OthersChange, SwitchInv, PolicyOK
  <2>2. PolicyOK(policy') BY <2>1, TurnedOK DEF SwitchInv
  <2>3. UNCHANGED <<switch, refreshes, change, switched>> BY <1>1 DEF OthersChange
  <2> QED BY <2>2, <2>3 DEF SwitchInv, PolicyOK
<1>2. CASE SetPausedShown
  <2>1. /\ UNCHANGED <<switch, refreshes>> /\ change.shown # Unread /\ PolicyOK(change.shown)
        /\ change.answer = "none"
    BY <1>2 DEF SetPausedShown, SwitchInv
  <2>2. ASSUME NEW answer \in {"done", "refused"}, change' = [change EXCEPT !.answer = answer]
        PROVE  /\ change'.shown = change.shown /\ change' \in [shown : {change'.shown}, answer : {"none", "done", "refused", "error"}]
    <3>1. change \in [shown : {change.shown}, answer : {"none", "done", "refused", "error"}] BY DEF SwitchInv
    <3> QED BY <2>2, <3>1
  <2>3. CASE change' = [change EXCEPT !.answer = "refused"] /\ UNCHANGED <<policy, switched>>
    BY <2>1, <2>2, <2>3 DEF SwitchInv, PolicyOK
  <2>4. CASE /\ change.shown.revision = policy.revision
             /\ policy' = [revision |-> policy.revision + 1, paused |-> ~change.shown.paused]
             /\ change' = [change EXCEPT !.answer = "done"]
             /\ switched' = switched \cup {[shown |-> change.shown, met |-> policy]}
    <3>1. change.shown = policy BY <2>1, <2>4, SamePolicy DEF SwitchInv
    <3>2. policy' = Turned(policy) BY <2>4, <3>1
    <3>3. PolicyOK(policy') BY <3>2, TurnedOK DEF SwitchInv
    <3>4. \A c \in switched' : c.shown = c.met BY <2>4, <3>1 DEF SwitchInv
    <3>5. change'.shown = change.shown /\ change' \in [shown : {change'.shown}, answer : {"none", "done", "refused", "error"}]
      BY <2>2, <2>4
    <3> QED BY <2>1, <3>3, <3>4, <3>5 DEF SwitchInv, PolicyOK
  <2> QED BY <1>2, <2>3, <2>4 DEF SetPausedShown
<1>3. CASE ChangeAnswered
  <2>1. UNCHANGED <<policy, switched>> /\ change.answer # "none" /\ PolicyOK(change.shown)
    BY <1>3 DEF ChangeAnswered, SwitchInv
  <2>2. CASE change' = NoChange /\ switch' = Turned(change.shown) /\ UNCHANGED refreshes
    <3>1. PolicyOK(switch') BY <2>1, <2>2, TurnedOK
    <3>2. change'.shown = Unread /\ change'.answer = "none"
          /\ change' \in [shown : {change'.shown}, answer : {"none", "done", "refused", "error"}]
      BY <2>2 DEF NoChange
    <3> QED BY <2>1, <2>2, <3>1, <3>2 DEF SwitchInv, PolicyOK
  <2>3. CASE change' = [change EXCEPT !.answer = "error"] /\ refreshes' = refreshes \cup {Unread} /\ UNCHANGED switch
    <3>1. change \in [shown : {change.shown}, answer : {"none", "done", "refused", "error"}] BY DEF SwitchInv
    <3>2. change'.shown = change.shown /\ change'.answer = "error"
          /\ change' \in [shown : {change'.shown}, answer : {"none", "done", "refused", "error"}]
      BY <2>3, <3>1
    <3>3. change.shown # Unread BY <2>1 DEF SwitchInv
    <3> QED BY <2>1, <2>3, <3>2, <3>3 DEF SwitchInv, PolicyOK
  <2> QED BY <1>3, <2>2, <2>3 DEF ChangeAnswered
<1> QED BY <1>1, <1>2, <1>3

LEMMA PanelsKept == PanelInv /\ SwitchInv /\ [PanelsNext]_panelsVars => PanelInv' /\ SwitchInv'
<1> SUFFICES ASSUME PanelInv, SwitchInv, PanelsNext \/ UNCHANGED panelsVars PROVE PanelInv' /\ SwitchInv'
  OBVIOUS
<1>1. ASSUME UNCHANGED panelVars PROVE PanelInv' BY <1>1 DEF panelVars, PanelInv, Awaits
<1>2. ASSUME UNCHANGED switchVars PROVE SwitchInv' BY <1>2 DEF switchVars, SwitchInv, PolicyOK
<1>3. CASE UNCHANGED panelsVars BY <1>1, <1>2, <1>3 DEF panelsVars, panelVars, switchVars
<1>4. CASE LoadAgain \/ Perform \/ Carry \/ PerformAnswered
  BY <1>2, <1>4, PanelSteps DEF LoadAgain, Perform, Carry, PerformAnswered
<1>5. CASE \E l \in loads : ReadStatus(l) \/ StatusArrives(l)
  BY <1>2, <1>5, StatusKeeps DEF ReadStatus, StatusArrives
<1>6. CASE Refresh \/ ReadPolicy \/ ChangePaused \/ \E p \in refreshes : PolicyArrives(p)
  BY <1>1, <1>6, SwitchReads DEF Refresh, ReadPolicy, ChangePaused, PolicyArrives
<1>7. CASE OthersChange \/ SetPausedShown \/ ChangeAnswered
  BY <1>1, <1>7, SwitchWrites DEF OthersChange, SetPausedShown, ChangeAnswered
<1> QED BY <1>3, <1>4, <1>5, <1>6, <1>7 DEF PanelsNext

LEMMA PanelsHold == PanelsSpec => []PanelsSound
<1>1. PanelInv /\ SwitchInv => PanelsSound
  BY DEF PanelInv, SwitchInv, PanelsSound, PanelsTypeOK, ShowsOwnAction, SwitchMeant, Awaits
<1> QED BY <1>1, PanelsStart, PanelsKept, PTL DEF PanelsSpec

(***************************************************************************)
(* The properties of the run.                                              *)
(***************************************************************************)

\* Whatever order policies, admissions, controls, lapses, losses and restores come in, a run is
\* admitted under the policy in force, no control touches Work admitted after it, and once a control
\* is acknowledged what it is about has no machine and gets none; and however the environments
\* change, what is selected is what the owner is shown, and a bound Work goes nowhere else
\* (capability-controls.mjs, recovery-witness.ts, environment-router.ts).
THEOREM TrustSoundHolds == CapabilitySpec /\ RoutingSpec => []TrustSound
BY CapabilityHolds, RoutingHolds, PTL DEF TrustSound

\* Whatever order answers, clicks and the browser's history come in, an approval names the draft
\* and the evidence that were on display, the address is the page's, a start and a cancellation are
\* of the WorkOrder in the address, a form makes one WorkOrder, what is pending is under way, a panel
\* shows its own last action and a switch turns what it showed (PublicationReview.tsx, App.tsx,
\* CreateWorkOrderForm.tsx, DispatchControl.tsx).
THEOREM WebSoundHolds == DeskSpec /\ PagesSpec /\ PanelsSpec => []WebSound
BY DeskHolds, PagesHold, PanelsHold, PTL DEF WebSound
=============================================================================
