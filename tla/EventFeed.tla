----------------------------- MODULE EventFeed -----------------------------
(***************************************************************************)
(* The events of one WorkOrder as their subscribers see them: factory_     *)
(* events, appended by every part of the supervisor, and the stream that   *)
(* server.ts opens on them.                                                *)
(*                                                                         *)
(* An event is appended and announced in one turn, or appended and not     *)
(* announced: dispatch, review and producer results do the latter.  What   *)
(* is destroyed is closed in a later turn.                                 *)
(***************************************************************************)
EXTENDS Naturals, Sequences, SequencesExt

CONSTANTS
  Streams,    \* clients of the route
  MaxEvents,  \* bound: events
  MaxSets     \* bound: sets of listeners

ASSUME FeedBounds == MaxEvents \in Nat /\ MaxSets \in Nat

VARIABLES
  announced,  \* factory_events in the order of their ids: whether notify was called
  stream,     \* [Streams -> what is open, the Set it is in, what was written to it]
  listeners,  \* [set -> its streams], every Set made so far
  subscribed  \* the Set that subscribers has for the WorkOrder, 0 if none

feedVars == <<announced, stream, listeners, subscribed>>

Away == [phase |-> "closed", set |-> 0, written |-> <<>>]

FeedInit ==
  /\ announced = <<>> /\ stream = [s \in Streams |-> Away]
  /\ listeners = <<>> /\ subscribed = 0

\* The client's cursor: the last id it was sent.
Cursor(s) == IF stream[s].written = <<>> THEN 0 ELSE Last(stream[s].written)
After(n)  == [i \in 1..(Len(announced) - n) |-> n + i]
-----------------------------------------------------------------------------
\* storage.appendEvent alone.
AppendSilently ==
  /\ Len(announced) < MaxEvents /\ announced' = Append(announced, FALSE)
  /\ UNCHANGED <<stream, listeners, subscribed>>

\* A Set that becomes empty is not kept.
Leave(gone) ==
  /\ listeners' = [listeners EXCEPT ![subscribed] = @ \ gone]
  /\ subscribed' = IF listeners'[subscribed] = {} THEN 0 ELSE subscribed

\* appendEvent and notify.  A stream whose client reads too slowly is destroyed.
AppendAnnounced ==
  /\ Len(announced) < MaxEvents /\ announced' = Append(announced, TRUE)
  /\ IF subscribed = 0 THEN UNCHANGED <<stream, listeners, subscribed>>
     ELSE \E slow \in SUBSET listeners[subscribed] :
       /\ stream' = [s \in Streams |->
            IF s \in slow THEN [stream[s] EXCEPT !.phase = "destroyed"]
            ELSE IF s \in listeners[subscribed]
                 THEN [stream[s] EXCEPT !.written = Append(@, Len(announced'))]
                 ELSE stream[s]]
       /\ Leave(slow)

\* Slip: only what is announced from now on.
MissedNothing(s) == <<>>

\* Everything after the cursor, whether or not it was announced.
Missed(s) == After(Cursor(s))

\* GET .../events?after=cursor, in one turn.
Connect(s) ==
  /\ stream[s].phase = "closed"
  /\ LET n == IF subscribed = 0 THEN Len(listeners) + 1 ELSE subscribed IN
     /\ n <= MaxSets
     /\ stream' = [stream EXCEPT ![s] = [phase |-> "open", set |-> n, written |-> @.written \o Missed(s)]]
     /\ listeners' = IF subscribed = 0 THEN Append(listeners, {s}) ELSE [listeners EXCEPT ![n] = @ \cup {s}]
     /\ subscribed' = n
  /\ UNCHANGED announced

\* The handler of close still has the Set it put the stream in: when that is empty it forgets
\* whatever Set the WorkOrder has by then.
CloseStream(s) ==
  /\ stream[s].phase # "closed"
  /\ LET n == stream[s].set IN
     /\ listeners' = [listeners EXCEPT ![n] = @ \ {s}]
     /\ subscribed' = IF listeners'[n] = {} THEN 0 ELSE subscribed
  /\ stream' = [stream EXCEPT ![s] = [phase |-> "closed", set |-> 0, written |-> @.written]]
  /\ UNCHANGED announced

\* The supervisor stops: what was appended stays.
FeedRestart ==
  /\ stream' = [s \in Streams |-> [stream[s] EXCEPT !.phase = "closed", !.set = 0]]
  /\ listeners' = <<>> /\ subscribed' = 0
  /\ UNCHANGED announced

FeedNext ==
  \/ AppendSilently \/ AppendAnnounced
  \/ \E s \in Streams : Connect(s) \/ CloseStream(s)

FeedSpec == FeedInit /\ [][FeedNext]_feedVars
-----------------------------------------------------------------------------
\* The stream is among the listeners that notify looks up.
Subscribed(s) == subscribed # 0 /\ s \in listeners[subscribed]

FeedTypeOK ==
  /\ announced \in Seq(BOOLEAN) /\ subscribed \in 0..Len(listeners)
  /\ \A s \in Streams : stream[s].phase \in {"open", "destroyed", "closed"}

\* A client that asks again from the last id it was sent gets every event once and in order,
\* and all that were announced while it is subscribed: what it lacks was appended silently
\* while it was connected, and no later request brings that back (server.ts).
FeedSound ==
  /\ FeedTypeOK
  /\ \A s \in Streams : LET written == stream[s].written IN
       /\ \A i \in 1..(Len(written) - 1) : written[i] < written[i + 1]
       /\ Subscribed(s) =>
            \A n \in DOMAIN announced : announced[n] => n \in ToSet(written)
=============================================================================
