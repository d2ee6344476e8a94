--------------------------- MODULE ServicesProofs ---------------------------
(***************************************************************************)
(* What the services of a supervisor, its database, the Results it signs   *)
(* and the page of the feedback-hub template promise, for every number of  *)
(* what takes part and with restarts of the supervisor at any point.       *)
(*                                                                         *)
(* The streams: whoever is among the listeners has been sent every event   *)
(* that was announced, because connecting replays what was missed in the   *)
(* same turn, and an event is announced to all of them or ends them.  A    *)
(* close that forgets a newer Set only ends subscriptions.                 *)
(*                                                                         *)
(* The others: HubInv, StoreInv, SigningInv and IntakeInv are inductive,   *)
(* each over the steps of its own part and its restart; PreviewSound is so *)
(* as it stands.  What IssueOnce and PreviewLifecycle allow is shown step  *)
(* by step from IntakeInv and PreviewSound.                                *)
(***************************************************************************)
EXTENDS MCServices, SequenceTheorems, FiniteSetTheorems, TLAPS

StreamRow == [phase : {"open", "destroyed", "closed"}, set : Nat, written : Seq(Nat)]

\* What may have been sent of n events.
Sendable(written, n) ==
  /\ written \in Seq(Nat)
  /\ \A i, j \in 1..Len(written) : i < j => written[i] < written[j]
  /\ \A i \in 1..Len(written) : written[i] \in 1..n

Highest(written) == IF written = <<>> THEN 0 ELSE written[Len(written)]
Sent(written, n) == \E i \in 1..Len(written) : written[i] = n

\* No hole below the cursor, and none at all for a listener.
Complete(s) == \A n \in 1..Len(announced) :
  announced[n] /\ (n <= Highest(stream[s].written) \/ Subscribed(s)) => Sent(stream[s].written, n)

FeedInv ==
  /\ announced \in Seq(BOOLEAN) /\ listeners \in Seq(SUBSET Streams) /\ subscribed \in 0..Len(listeners)
  /\ stream \in [Streams -> StreamRow]
  /\ \A n \in 1..Len(listeners) : \A s \in listeners[n] : stream[s].phase # "closed" /\ stream[s].set = n
  /\ \A s \in Streams : /\ stream[s].phase # "closed" => stream[s].set \in 1..Len(listeners)
                        /\ Sendable(stream[s].written, Len(announced))
                        /\ Complete(s)
-----------------------------------------------------------------------------
LEMMA AppendSendable ==
  ASSUME NEW n \in Nat, NEW w, Sendable(w, n)
  PROVE  /\ Sendable(Append(w, n + 1), n + 1) /\ Highest(Append(w, n + 1)) = n + 1
         /\ \A k : Sent(Append(w, n + 1), k) <=> Sent(w, k) \/ k = n + 1
<1> USE DEF Sendable
<1> DEFINE v == Append(w, n + 1)
<1>1. v \in Seq(Nat) /\ Len(v) = Len(w) + 1 /\ Len(w) \in Nat OBVIOUS
<1>2. \A i \in 1..Len(v) : v[i] = IF i = Len(w) + 1 THEN n + 1 ELSE w[i] OBVIOUS
<1>3. v # <<>> BY <1>1
<1> HIDE DEF v
<1>0. \A i \in 1..Len(v) : i # Len(w) + 1 => i \in 1..Len(w) /\ v[i] = w[i] BY <1>1, <1>2
<1>4. Sendable(v, n + 1)
  <2>1. ASSUME NEW i \in 1..Len(v) PROVE v[i] \in 1..(n + 1)
    <3>1. CASE i = Len(w) + 1 BY <1>2, <3>1
    <3>2. CASE i # Len(w) + 1
      <4>1. i \in 1..Len(w) /\ v[i] = w[i] BY <1>0, <3>2
      <4>2. w[i] \in 1..n BY <4>1
      <4> QED BY <4>1, <4>2
    <3> QED BY <3>1, <3>2
  <2>2. ASSUME NEW i \in 1..Len(v), NEW j \in 1..Len(v), i < j PROVE v[i] < v[j]
    <3>1. i \in 1..Len(w) /\ v[i] = w[i] BY <1>0, <1>1, <2>2
    <3>2. CASE j = Len(w) + 1 BY <1>2, <3>1, <3>2
    <3>3. CASE j # Len(w) + 1 BY <1>0, <2>2, <3>1, <3>3
    <3> QED BY <3>2, <3>3
  <2> QED BY <1>1, <2>1, <2>2
<1>5. Highest(v) = n + 1 BY <1>1, <1>2, <1>3 DEF Highest
<1>6. \A k : Sent(v, k) <=> Sent(w, k) \/ k = n + 1
  <2>1. v[Len(w) + 1] = n + 1 /\ Len(w) + 1 \in 1..Len(v) BY <1>1, <1>2
  <2>2. \A i \in 1..Len(w) : i \in 1..Len(v) /\ v[i] = w[i] BY <1>1, <1>2
  <2> QED BY <1>0, <2>1, <2>2 DEF Sent
<1> QED BY <1>4, <1>5, <1>6 DEF v

LEMMA LaterSendable ==
  ASSUME NEW n \in Nat, NEW w, Sendable(w, n)
  PROVE  Sendable(w, n + 1) /\ Highest(w) \in 0..n /\ \A i \in 1..Len(w) : w[i] <= Highest(w)
<1> USE DEF Sendable
<1>1. Sendable(w, n + 1) OBVIOUS
<1>2. w # <<>> => Len(w) \in 1..Len(w) OBVIOUS
<1>3. \A i \in 1..Len(w) : w[i] <= Highest(w)
  <2> SUFFICES ASSUME NEW i \in 1..Len(w) PROVE w[i] <= w[Len(w)] /\ w # <<>> BY DEF Highest
  <2>1. CASE i = Len(w) BY <2>1
  <2>2. CASE i # Len(w) BY <2>2
  <2> QED BY <2>1, <2>2
<1> QED BY <1>1, <1>2, <1>3 DEF Highest

\* A replay from the cursor closes every hole above it.
LEMMA ReplaySendable ==
  ASSUME NEW n \in Nat, NEW w, Sendable(w, n)
  PROVE  LET v == w \o [i \in 1..(n - Highest(w)) |-> Highest(w) + i] IN
           Sendable(v, n) /\ Highest(v) <= n /\ \A k \in 1..n : Sent(v, k) <=> Sent(w, k) \/ k > Highest(w)
<1> USE DEF Sendable
<1> DEFINE c == Highest(w)
           m == [i \in 1..(n - c) |-> c + i]
           v == w \o m
<1>1. c \in 0..n /\ \A i \in 1..Len(w) : w[i] <= c BY LaterSendable
<1> HIDE DEF c
<1>2. m \in Seq(Nat) /\ Len(m) = n - c /\ n - c \in Nat BY <1>1
<1>3. \A i \in 1..(n - c) : m[i] = c + i OBVIOUS
<1> HIDE DEF m
<1>4. v \in Seq(Nat) /\ Len(v) = Len(w) + Len(m) /\ Len(w) \in Nat BY SMTT(30), <1>2
<1>5. \A i \in 1..Len(v) : v[i] = IF i <= Len(w) THEN w[i] ELSE m[i - Len(w)] BY <1>2
<1> HIDE DEF v
<1>6. \A i \in 1..Len(v) : i > Len(w) => v[i] = c + (i - Len(w))
  <2> SUFFICES ASSUME NEW i \in 1..Len(v), i > Len(w) PROVE v[i] = c + (i - Len(w)) OBVIOUS
  <2>1. i - Len(w) \in 1..(n - c) BY <1>2, <1>4
  <2>2. m[i - Len(w)] = c + (i - Len(w)) BY <1>3, <2>1
  <2>3. v[i] = m[i - Len(w)] BY <1>4, <1>5
  <2> QED BY <2>2, <2>3
<1>7. \A i \in 1..Len(v) : i <= Len(w) => v[i] = w[i] BY <1>5
<1>8. \A i \in 1..Len(v) : v[i] \in 1..n
  <2> SUFFICES ASSUME NEW i \in 1..Len(v) PROVE v[i] \in 1..n OBVIOUS
  <2>1. CASE i <= Len(w) BY <1>4, <1>7, <2>1
  <2>2. CASE i > Len(w) BY SMTT(30), <1>1, <1>2, <1>4, <1>6, <2>2
  <2> QED BY <1>4, <2>1, <2>2
<1>9. \A i, j \in 1..Len(v) : i < j => v[i] < v[j]
  <2> SUFFICES ASSUME NEW i \in 1..Len(v), NEW j \in 1..Len(v), i < j PROVE v[i] < v[j] OBVIOUS
  <2>1. CASE j <= Len(w)
    <3>1. i \in 1..Len(w) /\ j \in 1..Len(w) /\ v[i] = w[i] /\ v[j] = w[j] BY SMTT(30), <1>4, <1>7, <2>1
    <3> QED BY <3>1
  <2>2. CASE i <= Len(w) /\ j > Len(w)
    <3>1. v[i] = w[i] /\ w[i] <= c /\ w[i] \in Nat BY <1>1, <1>4, <1>7, <2>2
    <3>2. v[j] = c + (j - Len(w)) BY <1>6, <2>2
    <3> QED BY SMTT(30), <1>1, <1>4, <2>2, <3>1, <3>2
  <2>3. CASE i > Len(w) /\ j > Len(w) BY <1>1, <1>4, <1>6, <2>3
  <2> QED BY <1>4, <2>1, <2>2, <2>3
<1>10. \A k \in 1..n : Sent(v, k) <=> Sent(w, k) \/ k > c
  <2> SUFFICES ASSUME NEW k \in 1..n PROVE Sent(v, k) <=> Sent(w, k) \/ k > c OBVIOUS
  <2>1. ASSUME NEW i \in 1..Len(w), w[i] = k PROVE Sent(v, k)
    <3>1. i \in 1..Len(v) /\ v[i] = w[i] BY <1>2, <1>4, <1>7
    <3> QED BY <2>1, <3>1 DEF Sent
  <2>2. k > c => Sent(v, k)
    <3> SUFFICES ASSUME k > c PROVE Sent(v, k) OBVIOUS
    <3>1. Len(w) + (k - c) \in 1..Len(v) /\ Len(w) + (k - c) > Len(w) BY <1>1, <1>2, <1>4
    <3>2. v[Len(w) + (k - c)] = k BY <1>1, <1>4, <1>6, <3>1
    <3> QED BY <3>1, <3>2 DEF Sent
  <2>3. ASSUME NEW i \in 1..Len(v), v[i] = k PROVE Sent(w, k) \/ k > c
    <3>1. CASE i <= Len(w) BY SMTT(30), <1>4, <1>7, <2>3, <3>1 DEF Sent
    <3>2. CASE i > Len(w) BY <1>1, <1>4, <1>6, <2>3, <3>2
    <3> QED BY <1>4, <3>1, <3>2
  <2> QED BY <2>1, <2>2, <2>3 DEF Sent
<1>11. Sendable(v, n) BY <1>4, <1>8, <1>9
<1>12. Highest(v) <= n BY <1>11, LaterSendable
<1> QED BY <1>10, <1>11, <1>12 DEF v, m, c
-----------------------------------------------------------------------------
LEMMA FeedInvInit == FeedInit => FeedInv
<1> SUFFICES ASSUME FeedInit PROVE FeedInv OBVIOUS
<1>1. Away \in StreamRow /\ Away.phase = "closed" /\ Away.written = <<>> BY DEF Away, StreamRow
<1>2. Sendable(<<>>, 0) BY DEF Sendable
<1>3. announced = <<>> /\ Len(announced) = 0 BY DEF FeedInit
<1> QED BY <1>1, <1>2, <1>3 DEF FeedInit, FeedInv, Complete

\* One more event: what each stream is sent of it, and who is still listening.
LEMMA Appended ==
  ASSUME FeedInv, NEW loud \in BOOLEAN, announced' = Append(announced, loud),
         listeners' \in Seq(SUBSET Streams), Len(listeners') = Len(listeners), subscribed' \in 0..Len(listeners),
         \A m \in 1..Len(listeners) : listeners'[m] \subseteq listeners[m],
         stream' \in [Streams -> StreamRow],
         \A s \in Streams :
           /\ stream'[s].set = stream[s].set /\ (stream'[s].phase # "closed" <=> stream[s].phase # "closed")
           /\ Subscribed(s)' => Subscribed(s)
           /\ \/ stream'[s].written = stream[s].written /\ (Subscribed(s)' => ~loud)
              \/ stream'[s].written = Append(stream[s].written, Len(announced) + 1) /\ Subscribed(s)
  PROVE  FeedInv'
<1> DEFINE n == Len(announced)
<1>1. n \in Nat /\ Len(announced') = n + 1 /\ announced' \in Seq(BOOLEAN) BY DEF FeedInv
<1>2. \A k \in 1..(n + 1) : announced'[k] = IF k = n + 1 THEN loud ELSE announced[k] BY DEF FeedInv
<1> HIDE DEF n
<1>3. ASSUME NEW s \in Streams PROVE Sendable(stream'[s].written, n + 1) /\ Complete(s)'
  <2>1. Sendable(stream[s].written, n) /\ Complete(s) BY DEF FeedInv, n
  <2>2. Sendable(stream[s].written, n + 1) /\ Highest(stream[s].written) \in 0..n BY <1>1, <2>1, LaterSendable
  <2>3. CASE stream'[s].written = stream[s].written /\ (Subscribed(s)' => ~loud)
    BY <1>1, <1>2, <2>1, <2>2, <2>3 DEF Complete, n
  <2>4. CASE stream'[s].written = Append(stream[s].written, n + 1) /\ Subscribed(s)
    <3>1. /\ Sendable(stream'[s].written, n + 1)
          /\ \A k : Sent(stream'[s].written, k) <=> Sent(stream[s].written, k) \/ k = n + 1
      BY <1>1, <2>1, <2>4, AppendSendable
    <3>2. \A k \in 1..(n + 1) : announced'[k] => Sent(stream'[s].written, k)
      BY <1>1, <1>2, <2>1, <2>4, <3>1 DEF Complete, n
    <3> QED BY <1>1, <3>1, <3>2 DEF Complete
  <2> QED BY <2>3, <2>4 DEF n
<1>4. \A m \in 1..Len(listeners') : \A s \in listeners'[m] : stream'[s].phase # "closed" /\ stream'[s].set = m
  BY DEF FeedInv
<1>5. \A s \in Streams : stream'[s].phase # "closed" => stream'[s].set \in 1..Len(listeners') BY DEF FeedInv
<1> QED BY <1>1, <1>3, <1>4, <1>5 DEF FeedInv

LEMMA AnnouncedStep ==
  ASSUME FeedInv, AppendAnnounced
  PROVE  FeedInv'
<1> USE DEF FeedInv, Subscribed
<1>0. announced' = Append(announced, TRUE) /\ Len(announced') = Len(announced) + 1 BY DEF AppendAnnounced
<1>1. CASE subscribed = 0
  <2>1. UNCHANGED <<stream, listeners, subscribed>> BY <1>1 DEF AppendAnnounced
  <2> QED BY <1>0, <1>1, <2>1, Appended
<1>2. CASE subscribed # 0
  <2> PICK slow \in SUBSET listeners[subscribed] :
       /\ stream' = [s \in Streams |->
            IF s \in slow THEN [stream[s] EXCEPT !.phase = "destroyed"]
            ELSE IF s \in listeners[subscribed]
                 THEN [stream[s] EXCEPT !.written = Append(@, Len(announced'))]
                 ELSE stream[s]]
       /\ Leave(slow)
    BY <1>2 DEF AppendAnnounced
  <2>1. subscribed \in 1..Len(listeners) /\ listeners[subscribed] \subseteq Streams BY <1>2
  <2>2. /\ listeners' \in Seq(SUBSET Streams) /\ Len(listeners') = Len(listeners)
        /\ listeners'[subscribed] = listeners[subscribed] \ slow /\ subscribed' \in {0, subscribed}
        /\ \A m \in 1..Len(listeners) : listeners'[m] \subseteq listeners[m]
    BY <2>1 DEF Leave
  <2>3. \A s \in Streams : Subscribed(s)' => s \in listeners[subscribed] /\ s \notin slow BY <2>2
  <2>4. ASSUME NEW s \in Streams
        PROVE  /\ stream'[s] \in StreamRow /\ stream'[s].set = stream[s].set
               /\ stream'[s].phase # "closed" <=> stream[s].phase # "closed"
               /\ \/ stream'[s].written = stream[s].written /\ (s \in slow \/ s \notin listeners[subscribed])
                  \/ stream'[s].written = Append(stream[s].written, Len(announced) + 1) /\ s \in listeners[subscribed]
    <3>1. stream[s] \in StreamRow /\ (s \in slow => stream[s].phase # "closed") BY <2>1
    <3>2. Append(stream[s].written, Len(announced')) \in Seq(Nat) BY <1>0, <3>1 DEF StreamRow
    <3>3. stream'[s] = IF s \in slow THEN [stream[s] EXCEPT !.phase = "destroyed"]
                       ELSE IF s \in listeners[subscribed]
                            THEN [stream[s] EXCEPT !.written = Append(stream[s].written, Len(announced'))]
                            ELSE stream[s]
      OBVIOUS
    <3> QED BY <1>0, <2>1, <3>1, <3>2, <3>3 DEF StreamRow
  <2>5. stream' \in [Streams -> StreamRow] BY <2>4
  <2>6. subscribed' \in 0..Len(listeners) /\ Len(listeners') = Len(listeners) BY <2>1, <2>2
  <2>7. ASSUME NEW s \in Streams
        PROVE  /\ Subscribed(s)' => Subscribed(s)
               /\ \/ stream'[s].written = stream[s].written /\ (Subscribed(s)' => ~TRUE)
                  \/ stream'[s].written = Append(stream[s].written, Len(announced) + 1) /\ Subscribed(s)
    BY <1>2, <2>3, <2>4
  <2> QED BY <1>0, <2>2, <2>4, <2>5, <2>6, <2>7, Appended
<1> QED BY <1>1, <1>2

\* The highest id that was sent is the cursor the client asks from.
LEMMA ConnectStep ==
  ASSUME FeedInv, NEW s \in Streams, Connect(s)
  PROVE  FeedInv'
<1> DEFINE n == IF subscribed = 0 THEN Len(listeners) + 1 ELSE subscribed
           w == stream[s].written
           c == Highest(w)
           v == w \o [i \in 1..(Len(announced) - c) |-> c + i]
           row == [phase |-> "open", set |-> n, written |-> v]
<1>1. /\ announced' = announced /\ Len(announced) \in Nat /\ Len(listeners) \in Nat /\ n \in 1..(Len(listeners) + 1)
      /\ subscribed' = n /\ stream[s].phase = "closed" /\ stream[s] \in StreamRow
  BY DEF Connect, FeedInv
<1>2. v = w \o Missed(s) BY DEF Missed, After, Cursor, Highest, Last
<1>3. stream' = [stream EXCEPT ![s] = row] BY <1>2 DEF Connect
<1>4. Sendable(w, Len(announced)) /\ Complete(s) BY DEF FeedInv
<1>5. /\ Sendable(v, Len(announced)) /\ Highest(v) <= Len(announced)
      /\ \A k \in 1..Len(announced) : Sent(v, k) <=> Sent(w, k) \/ k > c
  BY <1>1, <1>4, ReplaySendable
<1> HIDE DEF v
<1>6. row \in StreamRow /\ row.phase = "open" /\ row.set = n /\ row.written = v BY <1>1, <1>5 DEF StreamRow, Sendable
<1> HIDE DEF row
<1>7. \A t \in Streams : stream'[t] = IF t = s THEN row ELSE stream[t] BY <1>3 DEF FeedInv
<1>8. \A k \in 1..Len(announced) : announced[k] => Sent(v, k)
  <2>1. c \in Nat BY <1>1, <1>4, LaterSendable
  <2> QED BY <1>1, <1>4, <1>5, <2>1 DEF Complete
<1>9. /\ listeners' \in Seq(SUBSET Streams) /\ Len(listeners') \in Nat /\ Len(listeners) <= Len(listeners')
      /\ n \in 1..Len(listeners')
      /\ \A m \in 1..Len(listeners') : \A t \in listeners'[m] :
           (t = s /\ m = n) \/ (t \in Streams /\ m \in 1..Len(listeners) /\ t \in listeners[m])
  <2>1. CASE subscribed = 0
    <3>1. listeners' = Append(listeners, {s}) /\ n = Len(listeners) + 1 BY <2>1 DEF Connect
    <3>2. listeners \in Seq(SUBSET Streams) /\ {s} \in SUBSET Streams BY DEF FeedInv
    <3> HIDE DEF n
    <3>3. /\ listeners' \in Seq(SUBSET Streams) /\ Len(listeners') = Len(listeners) + 1
          /\ \A m \in 1..Len(listeners') : listeners'[m] = IF m = Len(listeners) + 1 THEN {s} ELSE listeners[m]
      BY <3>1, <3>2, AppendProperties
    <3>4. \A m \in 1..Len(listeners) : listeners[m] \subseteq Streams BY <3>2
    <3>5. \A m \in 1..Len(listeners') : m # n => m \in 1..Len(listeners) BY <1>1, <3>1, <3>3
    <3> QED BY <1>1, <3>1, <3>3, <3>4, <3>5
  <2>2. CASE subscribed # 0
    <3>1. listeners' = [listeners EXCEPT ![n] = listeners[n] \cup {s}] /\ n \in 1..Len(listeners)
      BY <2>2 DEF Connect, FeedInv
    <3>2. listeners \in Seq(SUBSET Streams) BY DEF FeedInv
    <3> HIDE DEF n
    <3>3. Len(listeners') = Len(listeners) /\ listeners' \in Seq(SUBSET Streams) BY <3>1, <3>2
    <3>4. \A m \in 1..Len(listeners) : listeners'[m] = IF m = n THEN listeners[n] \cup {s} ELSE listeners[m]
      BY <3>1, <3>2
    <3>5. \A m \in 1..Len(listeners) : listeners[m] \subseteq Streams BY <3>2
    <3> QED BY <1>1, <3>1, <3>3, <3>4, <3>5
  <2> QED BY <2>1, <2>2
<1>10. \A t \in Streams : t # s /\ Subscribed(t)' => Subscribed(t)
  <2> SUFFICES ASSUME NEW t \in Streams, t # s, t \in listeners'[n] PROVE Subscribed(t)
    BY <1>1 DEF Subscribed
  <2>1. n \in 1..Len(listeners) /\ t \in listeners[n] BY <1>9
  <2>2. subscribed # 0 BY <1>1, <2>1
  <2> QED BY <2>1, <2>2 DEF Subscribed
<1> HIDE DEF n
<1>11. ASSUME NEW t \in Streams PROVE Sendable(stream'[t].written, Len(announced)) /\ Complete(t)'
  <2>1. CASE t = s BY <1>1, <1>5, <1>6, <1>7, <1>8, <2>1 DEF Complete
  <2>2. CASE t # s BY <1>1, <1>7, <1>10, <2>2 DEF Complete, FeedInv
  <2> QED BY <2>1, <2>2
<1>12. \A m \in 1..Len(listeners') : \A t \in listeners'[m] : stream'[t].phase # "closed" /\ stream'[t].set = m
  <2> SUFFICES ASSUME NEW m \in 1..Len(listeners'), NEW t \in listeners'[m]
               PROVE  stream'[t].phase # "closed" /\ stream'[t].set = m
    OBVIOUS
  <2>1. CASE t = s /\ m = n BY <1>6, <1>7, <2>1
  <2>2. CASE t \in Streams /\ m \in 1..Len(listeners) /\ t \in listeners[m]
    <3>1. stream[t].phase # "closed" /\ stream[t].set = m BY <2>2 DEF FeedInv
    <3> QED BY <1>1, <1>7, <2>2, <3>1
  <2> QED BY <1>9, <2>1, <2>2
<1>13. \A t \in Streams : stream'[t].phase # "closed" => stream'[t].set \in 1..Len(listeners')
  BY <1>1, <1>6, <1>7, <1>9 DEF FeedInv
<1>14. stream' \in [Streams -> StreamRow] BY <1>3, <1>6 DEF FeedInv
<1>15. subscribed' \in 0..Len(listeners') /\ announced' \in Seq(BOOLEAN) BY <1>1, <1>9 DEF FeedInv
<1> QED BY <1>1, <1>9, <1>11, <1>12, <1>13, <1>14, <1>15 DEF FeedInv

LEMMA CloseStep ==
  ASSUME FeedInv, NEW s \in Streams, CloseStream(s)
  PROVE  FeedInv'
<1> DEFINE n   == stream[s].set
           row == [phase |-> "closed", set |-> 0, written |-> stream[s].written]
<1>1. /\ announced' = announced /\ stream[s] \in StreamRow /\ n \in 1..Len(listeners) /\ Len(listeners) \in Nat
      /\ listeners' = [listeners EXCEPT ![n] = listeners[n] \ {s}] /\ subscribed' \in {0, subscribed}
      /\ stream' = [stream EXCEPT ![s] = row]
  BY DEF CloseStream, FeedInv
<1> HIDE DEF n
<1>2. row \in StreamRow /\ row.phase = "closed" /\ row.written = stream[s].written BY <1>1 DEF StreamRow
<1> HIDE DEF row
<1>3. \A t \in Streams : stream'[t] = IF t = s THEN row ELSE stream[t] BY <1>1 DEF FeedInv
<1>4. listeners' \in Seq(SUBSET Streams) /\ Len(listeners') = Len(listeners)
  BY <1>1 DEF FeedInv
<1>5. \A m \in 1..Len(listeners) : listeners'[m] = IF m = n THEN listeners[n] \ {s} ELSE listeners[m]
  BY <1>1 DEF FeedInv
<1>6. \A m \in 1..Len(listeners) : listeners'[m] \subseteq listeners[m] /\ s \notin listeners'[m]
  BY <1>5 DEF FeedInv, n
<1>7. \A t \in Streams : stream'[t].written = stream[t].written BY <1>2, <1>3
<1>8. \A t \in Streams : Subscribed(t)' => Subscribed(t)
  BY <1>1, <1>6 DEF Subscribed, FeedInv
<1>9. \A t \in Streams : Complete(t)' /\ Sendable(stream'[t].written, Len(announced))
  BY <1>1, <1>7, <1>8 DEF Complete, FeedInv
<1>10. \A m \in 1..Len(listeners') : \A t \in listeners'[m] : stream'[t].phase # "closed" /\ stream'[t].set = m
  <2> SUFFICES ASSUME NEW m \in 1..Len(listeners), NEW t \in listeners'[m]
               PROVE  stream'[t].phase # "closed" /\ stream'[t].set = m
    BY <1>4
  <2>1. t # s /\ t \in listeners[m] /\ t \in Streams BY <1>4, <1>6
  <2> QED BY <1>3, <2>1 DEF FeedInv
<1>11. \A t \in Streams : stream'[t].phase # "closed" => stream'[t].set \in 1..Len(listeners')
  BY <1>2, <1>3, <1>4 DEF FeedInv
<1>12. stream' \in [Streams -> StreamRow] BY <1>1, <1>2 DEF FeedInv
<1>13. subscribed' \in 0..Len(listeners') /\ announced' \in Seq(BOOLEAN) BY <1>1, <1>4 DEF FeedInv
<1> QED BY <1>1, <1>4, <1>9, <1>10, <1>11, <1>12, <1>13 DEF FeedInv

LEMMA RestartStep ==
  ASSUME FeedInv, FeedRestart
  PROVE  FeedInv'
<1>1. listeners' = <<>> /\ subscribed' = 0 /\ announced' = announced BY DEF FeedRestart
<1>2. listeners' \in Seq(SUBSET Streams) /\ Len(listeners') = 0 /\ subscribed' \in 0..Len(listeners') BY <1>1
<1>3. ASSUME NEW s \in Streams
      PROVE  /\ stream'[s] \in StreamRow /\ stream'[s].phase = "closed" /\ stream'[s].written = stream[s].written
             /\ Sendable(stream'[s].written, Len(announced)) /\ Complete(s)'
  <2>1. stream[s] \in StreamRow /\ stream'[s] = [stream[s] EXCEPT !.phase = "closed", !.set = 0]
        /\ Sendable(stream[s].written, Len(announced)) /\ Complete(s)
    BY DEF FeedInv, FeedRestart
  <2> DEFINE row == [stream[s] EXCEPT !.phase = "closed", !.set = 0]
  <2>4. row \in StreamRow /\ row.phase = "closed" /\ row.written = stream[s].written BY <2>1 DEF StreamRow
  <2> HIDE DEF row
  <2>2. stream'[s] \in StreamRow /\ stream'[s].phase = "closed" /\ stream'[s].written = stream[s].written
    BY <2>1, <2>4 DEF row
  <2>3. ~Subscribed(s)' BY <1>1 DEF Subscribed
  <2> QED BY <1>1, <2>1, <2>2, <2>3 DEF Complete
<1>4. stream' \in [Streams -> StreamRow] BY <1>3 DEF FeedRestart
<1>5. announced' \in Seq(BOOLEAN) BY <1>1 DEF FeedInv
<1> QED BY <1>1, <1>2, <1>3, <1>4, <1>5 DEF FeedInv
-----------------------------------------------------------------------------
\* The events a client was sent ascend, and none that was announced is missing while it is
\* subscribed, across restarts (server.ts, events and notify).
THEOREM FeedSoundHolds == FeedInit /\ [][FeedNext \/ FeedRestart]_feedVars => []FeedSound
<1>1. FeedInit => FeedInv BY FeedInvInit
<1>2. FeedInv /\ [FeedNext \/ FeedRestart]_feedVars => FeedInv'
  <2> SUFFICES ASSUME FeedInv, [FeedNext \/ FeedRestart]_feedVars PROVE FeedInv' OBVIOUS
  <2>1. CASE AppendSilently
    <3>1. Len(listeners) = Len(listeners') /\ listeners' \in Seq(SUBSET Streams) BY <2>1 DEF AppendSilently, FeedInv
    <3> QED BY <2>1, <3>1, Appended DEF AppendSilently, Subscribed, FeedInv
  <2>2. CASE AppendAnnounced BY <2>2, AnnouncedStep
  <2>3. CASE \E s \in Streams : Connect(s) \/ CloseStream(s) BY <2>3, ConnectStep, CloseStep
  <2>4. CASE FeedRestart BY <2>4, RestartStep
  <2>5. CASE UNCHANGED feedVars BY <2>5 DEF feedVars, FeedInv, Complete, Subscribed
  <2> QED BY <2>1, <2>2, <2>3, <2>4, <2>5 DEF FeedNext
<1>3. FeedInv => FeedSound
  <2> SUFFICES ASSUME FeedInv PROVE FeedSound OBVIOUS
  <2>1. FeedTypeOK BY DEF FeedInv, FeedTypeOK, StreamRow
  <2>2. ASSUME NEW s \in Streams
        PROVE  \A i \in 1..(Len(stream[s].written) - 1) : stream[s].written[i] < stream[s].written[i + 1]
    <3>1. Sendable(stream[s].written, Len(announced)) BY DEF FeedInv
    <3> DEFINE w == stream[s].written
    <3>2. \A i, j \in 1..Len(w) : i < j => w[i] < w[j] BY <3>1 DEF Sendable
    <3>3. Len(w) \in Nat BY <3>1 DEF Sendable
    <3> HIDE DEF w
    <3>4. \A i \in 1..(Len(w) - 1) : w[i] < w[i + 1] BY <3>2, <3>3
    <3> QED BY <3>4 DEF w
  <2>3. ASSUME NEW s \in Streams, Subscribed(s), NEW k \in DOMAIN announced, announced[k]
        PROVE  k \in ToSet(stream[s].written)
    <3>1. k \in 1..Len(announced) BY <2>3 DEF FeedInv
    <3>2. Sent(stream[s].written, k) BY <2>3, <3>1 DEF FeedInv, Complete
    <3>3. stream[s].written \in Seq(Nat) BY DEF FeedInv, Sendable
    <3> QED BY <3>2, <3>3 DEF Sent, ToSet
  <2> QED BY <2>1, <2>2, <2>3 DEF FeedSound
<1> QED BY <1>1, <1>2, <1>3, PTL
-----------------------------------------------------------------------------
(* The page of the feedback-hub template *)

FormRow  == [phase : {"open"}, mode : {"create", "edit"}, key : Feedback \cup {NoRecord}, since : Nat]
WriteRow == [phase : {"sent", "done"}, kind : {"create", "edit", "triage", "note"}, id : Feedback \cup {NoRecord},
             expected : Nat, version : Nat, text : Texts, status : Statuses, since : Nat]

\* A record that exists has this version.
Has(f, n) == f \in Existing /\ n \in 1..Version(f)

RecordsOK  == records \in [Feedback -> Seq(Revision)]
SelectedOK == selected \in Existing \cup {NoRecord} /\ filter \in Statuses \cup {"all"}
ShownOK    == shown = Nobody \/ Has(shown.id, shown.version)
FormOK     == (form = Nothing \/ form \in FormRow) /\ DraftHome
WriteOK    == /\ write = Nothing \/ write \in WriteRow
              /\ write.phase = "done" => Has(write.id, write.version)
ListOK     == listLoad.phase = "answered" => listLoad.visible \subseteq Existing

\* What was read of the record on display is not older than what is shown of it.
DetailOK ==
  /\ detailLoad.phase = "sent" => detailLoad.id \in Existing
  /\ detailLoad.phase = "answered" =>
       /\ Has(detailLoad.id, detailLoad.version)
       /\ detailLoad.id = shown.id => shown.version <= detailLoad.version

HubInv == RecordsOK /\ SelectedOK /\ ShownOK /\ FormOK /\ WriteOK /\ ListOK /\ DetailOK

\* Records are only appended to.
Grown == RecordsOK' /\ \A f \in Feedback : Version(f) <= Version(f)'

LEMMA Versions ==
  ASSUME RecordsOK, NEW f \in Feedback
  PROVE  Version(f) \in Nat /\ (f \in Existing <=> Version(f) > 0)
BY DEF RecordsOK, Version, Existing

LEMMA GrownHas ==
  ASSUME RecordsOK, Grown
  PROVE  Existing \subseteq Existing' /\ \A f, n : Has(f, n) => Has(f, n)'
<1>1. RecordsOK' BY DEF Grown
<1>2. \A f \in Feedback : Version(f)' \in Nat /\ (f \in Existing' <=> Version(f)' > 0)
  BY <1>1 DEF RecordsOK, Version, Existing
<1>3. \A f \in Feedback : Version(f) \in Nat /\ (f \in Existing <=> Version(f) > 0) BY Versions
<1>4. Existing \subseteq Feedback BY DEF Existing
<1> QED BY <1>2, <1>3, <1>4 DEF Has, Grown

\* What does not move stays as it was while records grow.
LEMMA Carried ==
  ASSUME HubInv, Grown
  PROVE  /\ UNCHANGED <<selected, filter>> => SelectedOK'
         /\ UNCHANGED shown => ShownOK'
         /\ UNCHANGED write => WriteOK'
         /\ UNCHANGED listLoad => ListOK'
         /\ UNCHANGED <<detailLoad, shown>> => DetailOK'
BY GrownHas DEF HubInv, SelectedOK, ShownOK, WriteOK, ListOK, DetailOK, Nobody, Nothing

LEMMA Unwritten ==
  ASSUME HubInv, UNCHANGED records
  PROVE  Grown
<1>1. \A f \in Feedback : Version(f)' = Version(f) /\ Version(f) \in Nat BY Versions DEF Version, HubInv
<1> QED BY <1>1 DEF Grown, HubInv, RecordsOK

LEMMA ReviseGrows ==
  ASSUME RecordsOK, NEW f \in Feedback, NEW revision \in Revision, Revise(f, revision)
  PROVE  Grown /\ Has(f, Version(f))'
<1>1. records' = [records EXCEPT ![f] = Append(records[f], revision)] /\ records[f] \in Seq(Revision)
  BY DEF Revise, RecordsOK
<1>2. Append(records[f], revision) \in Seq(Revision) /\ Len(Append(records[f], revision)) = Len(records[f]) + 1
  BY <1>1
<1>3. RecordsOK' BY <1>1, <1>2 DEF RecordsOK
<1>4. \A g \in Feedback : Version(g)' = IF g = f THEN Version(f) + 1 ELSE Version(g)
  BY <1>1, <1>2 DEF Version, RecordsOK
<1>5. \A g \in Feedback : Version(g) \in Nat BY Versions
<1>6. Version(f)' = Len(records'[f]) /\ records'[f] # <<>> BY <1>1, <1>2 DEF Version, RecordsOK
<1> QED BY <1>3, <1>4, <1>5, <1>6 DEF Grown, Has, Existing

LEMMA LatestTyped ==
  ASSUME RecordsOK, NEW f \in Existing
  PROVE  f \in Feedback /\ Latest(f) \in Revision /\ Has(f, Version(f))
<1>1. f \in Feedback /\ records[f] \in Seq(Revision) /\ records[f] # <<>> BY DEF Existing, RecordsOK
<1>2. Len(records[f]) \in 1..Len(records[f]) BY <1>1
<1> QED BY <1>1, <1>2 DEF Latest, Version, Has

\* Every change of the store.
LEMMA StoreGrows ==
  ASSUME HubInv, NEW f \in Feedback
  PROVE  /\ \A text \in Texts : Capture(f, text) => Grown /\ Has(f, Version(f))'
         /\ AddNote(f) => Grown /\ Has(f, Version(f))'
         /\ \A v : \A revision \in Revision : Update(f, v, revision) => Grown /\ Has(f, Version(f))'
<1>1. RecordsOK BY DEF HubInv
<1>2. \A text \in Texts : [text |-> text, status |-> "new"] \in Revision BY HubBounds DEF Revision
<1>3. ASSUME NEW v, NEW revision \in Revision, Update(f, v, revision) PROVE Grown /\ Has(f, Version(f))'
  <2>1. f \in Existing BY <1>3 DEF Update, Fits
  <2>2. CASE UNCHANGED records
    <3>1. Grown BY <2>2, Unwritten
    <3>2. Has(f, Version(f))' BY <1>1, <2>1, <3>1, LatestTyped, GrownHas, <2>2 DEF Version
    <3> QED BY <3>1, <3>2 DEF Version
  <2>3. CASE Revise(f, revision) BY <1>1, <2>3, ReviseGrows
  <2> QED BY <1>3, <2>2, <2>3 DEF Update
<1>4. AddNote(f) => Grown /\ Has(f, Version(f))' BY <1>1, LatestTyped, ReviseGrows DEF AddNote
<1>5. \A text \in Texts : Capture(f, text) => Grown /\ Has(f, Version(f))'
  BY <1>1, <1>2, ReviseGrows DEF Capture
<1> QED BY <1>3, <1>4, <1>5

\* A new load asks for a record that exists, or for none.
LEMMA LoadsTyped ==
  ASSUME NEW f
  PROVE  /\ LoadList => ListOK'
         /\ LoadDetail(f) => detailLoad'.phase # "answered" /\
              (detailLoad'.phase = "sent" => detailLoad'.id = f /\ f # NoRecord)
BY DEF LoadList, LoadDetail, ListOK, Nothing

LEMMA DetailAsked ==
  ASSUME HubInv, Grown, NEW f \in Existing' \cup {NoRecord}, LoadDetail(f)
  PROVE  DetailOK'
BY LoadsTyped DEF DetailOK

LEMMA ReloadOK ==
  ASSUME HubInv, Grown, Reload
  PROVE  ListOK' /\ DetailOK' /\ selected' = selected
<1>1. selected \in Existing' \cup {NoRecord} BY GrownHas DEF HubInv, SelectedOK
<1> QED BY <1>1, LoadsTyped, DetailAsked DEF Reload

\* The form follows what is shown.
LEMMA PutShownOK ==
  ASSUME FormOK, NEW s, s = Nobody \/ (s.id \in Feedback /\ s.version \in Nat), PutShown(s)
  PROVE  FormOK'
<1>1. s.id \in Feedback \cup {NoRecord} /\ s.version \in Nat BY DEF Nobody
<1>2. shown' = s /\ form' = Rekeyed(s) BY DEF PutShown
<1>3. CASE form # Nothing /\ form.key # s.id
  <2> DEFINE row == [form EXCEPT !.key = s.id, !.since = s.version]
  <2>1. form' = row BY <1>2, <1>3 DEF Rekeyed
  <2>2. row \in FormRow /\ row.key = s.id BY <1>1, <1>3 DEF FormOK, FormRow
  <2> QED BY <1>2, <2>1, <2>2 DEF FormOK, DraftHome
<1>4. CASE ~(form # Nothing /\ form.key # s.id)
  <2>1. form' = form BY <1>2, <1>4 DEF Rekeyed
  <2> QED BY <1>2, <1>4, <2>1 DEF FormOK, DraftHome
<1> QED BY <1>3, <1>4

LEMMA HasTyped ==
  ASSUME RecordsOK, NEW f, NEW n, Has(f, n)
  PROVE  f \in Feedback /\ f # NoRecord /\ n \in Nat /\ n > 0
BY Versions, HubBounds DEF Has, Existing
-----------------------------------------------------------------------------
LEMMA AgentStep ==
  ASSUME HubInv, AgentWrites
  PROVE  HubInv'
<1>1. Grown
  <2>1. ASSUME NEW f \in Existing, NEW revision \in Revision, Update(f, Version(f), revision) PROVE Grown
    <3>1. f \in Feedback BY DEF Existing
    <3> QED BY <2>1, <3>1, StoreGrows
  <2> QED BY <2>1, StoreGrows DEF AgentWrites
<1>2. UNCHANGED <<selected, shown, filter, listLoad, detailLoad, form, write>> BY DEF AgentWrites
<1>3. FormOK' BY <1>2 DEF HubInv, FormOK, DraftHome
<1> QED BY <1>1, <1>2, <1>3, Carried DEF HubInv, Grown

LEMMA LoadSteps ==
  ASSUME HubInv, Tick \/ ListAnswered \/ DetailAnswered \/ LoadFails
  PROVE  HubInv'
<1>1. UNCHANGED <<records, selected, shown, filter, form, write>>
  BY DEF Tick, Reload, ListAnswered, DetailAnswered, LoadFails
<1>2. Grown BY <1>1, Unwritten
<1>3. RecordsOK' /\ SelectedOK' /\ ShownOK' /\ WriteOK' BY <1>1, <1>2, Carried DEF Grown
<1>4. FormOK' BY <1>1 DEF HubInv, FormOK, DraftHome
<1>5. ListOK' /\ DetailOK'
  <2>1. CASE Tick BY <1>2, <2>1, ReloadOK DEF Tick
  <2>2. CASE ListAnswered
    <3>1. Visible \subseteq Existing /\ Existing' = Existing BY <1>1 DEF Visible, Existing
    <3>2. ListOK' BY <2>2, <3>1 DEF ListAnswered, ListOK
    <3>3. UNCHANGED detailLoad BY <2>2 DEF ListAnswered
    <3> QED BY <1>1, <1>2, <3>2, <3>3, Carried
  <2>3. CASE DetailAnswered
    <3>1. PICK f \in Existing : f = detailLoad.id BY <2>3 DEF DetailAnswered, HubInv, DetailOK
    <3>2. Has(f, Version(f)) BY <3>1, LatestTyped DEF HubInv
    <3>3. Has(f, Version(f))' /\ Version(f)' = Version(f) BY <1>1, <3>2 DEF Has, Existing, Version
    <3>4. detailLoad'.phase = "answered" /\ detailLoad'.id = f /\ detailLoad'.version = Version(f)
      BY <2>3, <3>1 DEF DetailAnswered
    <3>5. f = shown.id => shown.version <= Version(f)
      <4>1. f # NoRecord /\ Version(f) \in Nat BY <3>2, HasTyped DEF HubInv
      <4> QED BY <4>1 DEF HubInv, ShownOK, Has, Nobody
    <3>6. DetailOK' BY <1>1, <3>3, <3>4, <3>5 DEF DetailOK
    <3>7. UNCHANGED listLoad BY <2>3 DEF DetailAnswered
    <3> QED BY <1>2, <3>6, <3>7, Carried
  <2>4. CASE LoadFails
    <3>1. ListOK' BY <1>2, <2>4, Carried DEF LoadFails, ListOK, Nothing
    <3>2. DetailOK' BY <1>1, <1>2, <2>4, Carried DEF LoadFails, DetailOK, Nothing
    <3> QED BY <3>1, <3>2
  <2> QED BY <2>1, <2>2, <2>3, <2>4
<1> QED BY <1>3, <1>4, <1>5 DEF HubInv

LEMMA ListShownStep ==
  ASSUME HubInv, ListShown
  PROVE  HubInv'
<1>1. UNCHANGED <<records, filter, write>> /\ listLoad' = Nothing BY DEF ListShown
<1>2. Grown /\ Existing' = Existing BY <1>1, Unwritten DEF Existing
<1>3. selected' \in Existing \cup {NoRecord}
  <2>1. listLoad.visible \subseteq Existing BY DEF ListShown, HubInv, ListOK
  <2> QED BY <2>1 DEF ListShown, HubInv, SelectedOK
<1>4. SelectedOK' BY <1>1, <1>2, <1>3 DEF SelectedOK, HubInv
<1>5. RecordsOK' /\ WriteOK' /\ ListOK' BY <1>1, <1>2, Carried DEF Grown, ListOK, Nothing
<1>6. CASE selected' = selected
  <2>1. UNCHANGED <<shown, form, detailLoad>> BY <1>6 DEF ListShown
  <2>2. FormOK' BY <2>1 DEF HubInv, FormOK, DraftHome
  <2> QED BY <1>2, <1>4, <1>5, <2>1, <2>2, Carried DEF HubInv
<1>7. CASE selected' # selected
  <2>1. LoadDetail(selected') BY <1>7 DEF ListShown
  <2>2. PICK f \in Existing \cup {NoRecord} : f = selected' BY <1>3
  <2>3. DetailOK' BY <1>2, <2>1, <2>2, DetailAsked
  <2>4. CASE selected' = NoRecord
    <3>1. PutShown(Nobody) BY <1>7, <2>4 DEF ListShown
    <3>2. ShownOK' BY <3>1 DEF PutShown, ShownOK
    <3>3. FormOK' BY <3>1, PutShownOK DEF HubInv
    <3> QED BY <1>4, <1>5, <2>3, <3>2, <3>3 DEF HubInv
  <2>5. CASE selected' # NoRecord
    <3>1. UNCHANGED <<shown, form>> BY <1>7, <2>5 DEF ListShown
    <3>2. FormOK' BY <3>1 DEF HubInv, FormOK, DraftHome
    <3> QED BY <1>2, <1>4, <1>5, <2>3, <3>1, <3>2, Carried DEF HubInv
  <2> QED BY <2>4, <2>5
<1> QED BY <1>6, <1>7

LEMMA DetailShownStep ==
  ASSUME HubInv, DetailShown
  PROVE  HubInv' /\ (shown'.id = shown.id => shown.version <= shown'.version)
<1> DEFINE s == [id |-> detailLoad.id, version |-> detailLoad.version]
<1>1. UNCHANGED <<records, selected, filter, listLoad, write>> /\ detailLoad' = Nothing /\ PutShown(s)
  BY DEF DetailShown
<1>2. Has(s.id, s.version) /\ (s.id = shown.id => shown.version <= s.version) BY DEF DetailShown, HubInv, DetailOK
<1> HIDE DEF s
<1>3. Grown BY <1>1, Unwritten
<1>4. s.id \in Feedback /\ s.version \in Nat BY <1>2, HasTyped DEF HubInv
<1>5. FormOK' BY <1>1, <1>4, PutShownOK DEF HubInv
<1>6. shown' = s BY <1>1 DEF PutShown
<1>7. ShownOK' BY <1>2, <1>3, <1>6, GrownHas DEF ShownOK, HubInv
<1>8. DetailOK' BY <1>1 DEF DetailOK, Nothing
<1> QED BY <1>1, <1>2, <1>3, <1>5, <1>6, <1>7, <1>8, Carried DEF HubInv, Grown

LEMMA ReaderSteps ==
  ASSUME HubInv,
         (\E f \in Feedback : Select(f)) \/ (\E status \in Statuses \cup {"all"} : SetFilter(status))
         \/ (\E mode \in {"create", "edit"} : OpenForm(mode)) \/ CloseForm
  PROVE  HubInv'
<1>1. UNCHANGED <<records, shown, write>> BY DEF Select, SetFilter, OpenForm, CloseForm
<1>2. Grown /\ Existing' = Existing BY <1>1, Unwritten DEF Existing
<1>3. RecordsOK' /\ ShownOK' /\ WriteOK' BY <1>1, <1>2, Carried DEF Grown
<1>4. ASSUME NEW f \in Feedback, Select(f) PROVE SelectedOK' /\ ListOK' /\ DetailOK' /\ FormOK'
  <2>1. f \in Existing /\ selected' = f /\ LoadDetail(f) /\ UNCHANGED <<filter, listLoad, form>> BY <1>4 DEF Select
  <2>2. SelectedOK' BY <1>2, <2>1 DEF SelectedOK, HubInv
  <2>3. DetailOK' BY <1>2, <2>1, DetailAsked
  <2>4. FormOK' BY <1>1, <2>1 DEF HubInv, FormOK, DraftHome
  <2> QED BY <1>2, <2>1, <2>2, <2>3, <2>4, Carried
<1>5. ASSUME NEW status \in Statuses \cup {"all"}, SetFilter(status) PROVE SelectedOK' /\ ListOK' /\ DetailOK' /\ FormOK'
  <2>1. filter' = status /\ LoadList /\ UNCHANGED <<selected, detailLoad, form>> BY <1>5 DEF SetFilter
  <2>2. SelectedOK' BY <1>2, <2>1 DEF SelectedOK, HubInv
  <2>3. FormOK' BY <1>1, <2>1 DEF HubInv, FormOK, DraftHome
  <2> QED BY <1>1, <1>2, <2>1, <2>2, <2>3, Carried, LoadsTyped
<1>6. ASSUME NEW mode \in {"create", "edit"}, OpenForm(mode) PROVE SelectedOK' /\ ListOK' /\ DetailOK' /\ FormOK'
  <2> DEFINE row == [phase |-> "open", mode |-> mode, key |-> shown.id, since |-> shown.version]
  <2>1. form' = row /\ UNCHANGED <<selected, filter, listLoad, detailLoad>> BY <1>6 DEF OpenForm
  <2>2. shown.id \in Feedback \cup {NoRecord} /\ shown.version \in Nat BY HasTyped DEF HubInv, ShownOK, Nobody
  <2>3. row \in FormRow /\ row.key = shown.id BY <2>2 DEF FormRow
  <2> HIDE DEF row
  <2>4. FormOK' BY <1>1, <2>1, <2>3 DEF FormOK, DraftHome
  <2> QED BY <1>1, <1>2, <2>1, <2>4, Carried
<1>7. CASE CloseForm
  <2>1. form' = Nothing /\ UNCHANGED <<selected, filter, listLoad, detailLoad>> BY <1>7 DEF CloseForm
  <2>2. FormOK' BY <2>1 DEF FormOK, DraftHome
  <2> QED BY <1>1, <1>2, <1>3, <2>1, <2>2, Carried DEF HubInv
<1> QED BY <1>3, <1>4, <1>5, <1>6, <1>7 DEF HubInv

\* What is shown is a revision of a record.
LEMMA DisplayedTyped ==
  ASSUME HubInv, shown # Nobody
  PROVE  Displayed \in Revision
<1>1. Has(shown.id, shown.version) BY DEF HubInv, ShownOK
<1>2. records[shown.id] \in Seq(Revision) /\ shown.version \in 1..Len(records[shown.id])
  BY <1>1, HasTyped DEF HubInv, RecordsOK, Has, Version
<1> QED BY <1>2 DEF Displayed

LEMMA SendStep ==
  ASSUME HubInv, NEW kind \in {"create", "edit", "triage", "note"}, NEW text \in Texts, NEW status \in Statuses,
         NEW since \in Nat, Send(kind, text, status, since)
  PROVE  HubInv'
<1> DEFINE row == [phase |-> "sent", kind |-> kind, id |-> shown.id, expected |-> shown.version,
                   version |-> 0, text |-> text, status |-> status, since |-> since]
<1>1. write' = row /\ UNCHANGED <<records, selected, shown, filter, listLoad, detailLoad, form>> BY DEF Send
<1>2. shown.id \in Feedback \cup {NoRecord} /\ shown.version \in Nat BY HasTyped DEF HubInv, ShownOK, Nobody
<1>3. row \in WriteRow /\ row.phase = "sent" BY <1>2 DEF WriteRow
<1> HIDE DEF row
<1>4. Grown BY <1>1, Unwritten
<1>5. WriteOK' BY <1>1, <1>3 DEF WriteOK
<1>6. FormOK' BY <1>1 DEF HubInv, FormOK, DraftHome
<1> QED BY <1>1, <1>4, <1>5, <1>6, Carried DEF HubInv, Grown

LEMMA SubmitSteps ==
  ASSUME HubInv,
         (\E text \in Texts : SubmitForm(text)) \/ (\E status \in Statuses : Triage(status)) \/ Note
  PROVE  HubInv'
<1>1. shown # Nobody => Displayed.text \in Texts /\ Displayed.status \in Statuses /\ shown.version \in Nat
  BY DisplayedTyped, HasTyped DEF Revision, HubInv, ShownOK
<1>2. ASSUME NEW text \in Texts, SubmitForm(text) PROVE HubInv'
  <2>1. form.since \in Nat BY <1>2 DEF SubmitForm, HubInv, FormOK, FormRow
  <2>2. CASE form.mode = "edit" /\ shown # Nobody BY <1>1, <1>2, <2>1, <2>2, SendStep DEF SubmitForm
  <2>3. CASE ~(form.mode = "edit" /\ shown # Nobody)
    <3>1. Send("create", text, "new", 0) BY <1>2, <2>3 DEF SubmitForm
    <3> QED BY <3>1, SendStep, HubBounds
  <2> QED BY <2>2, <2>3
<1>3. ASSUME NEW status \in Statuses, Triage(status) PROVE HubInv'
  BY <1>1, <1>3, SendStep DEF Triage, OnDisplay
<1>4. ASSUME Note PROVE HubInv' BY <1>1, <1>4, SendStep DEF Note, OnDisplay
<1> QED BY <1>2, <1>3, <1>4

\* What the server does with a write is a change of the record that the answer names.
LEMMA CommitsGrow ==
  ASSUME HubInv, write \in WriteRow, NEW f \in Feedback, Commits(f)
  PROVE  Grown /\ Has(f, Version(f))'
<1>1. write.text \in Texts /\ write.status \in Statuses /\ write.kind \in {"create", "edit", "triage", "note"}
  BY DEF WriteRow
<1>2. CASE write.kind = "create" BY <1>1, <1>2, StoreGrows DEF Commits
<1>3. CASE write.kind = "note" BY <1>3, StoreGrows DEF Commits
<1>4. CASE write.kind = "edit"
  <2> DEFINE revision == [Latest(f) EXCEPT !.text = write.text]
  <2>1. Update(f, write.expected, revision) BY <1>4 DEF Commits
  <2>2. f \in Existing BY <2>1 DEF Update, Fits
  <2>3. Latest(f) \in Revision BY <2>2, LatestTyped DEF HubInv
  <2>4. revision \in Revision BY <1>1, <2>3 DEF Revision
  <2> HIDE DEF revision
  <2> QED BY <2>1, <2>4, StoreGrows
<1>5. CASE write.kind = "triage"
  <2> DEFINE revision == [Latest(f) EXCEPT !.status = write.status]
  <2>1. Update(f, write.expected, revision) BY <1>5 DEF Commits
  <2>2. f \in Existing BY <2>1 DEF Update, Fits
  <2>3. Latest(f) \in Revision BY <2>2, LatestTyped DEF HubInv
  <2>4. revision \in Revision BY <1>1, <2>3 DEF Revision
  <2> HIDE DEF revision
  <2> QED BY <2>1, <2>4, StoreGrows
<1> QED BY <1>1, <1>2, <1>3, <1>4, <1>5

LEMMA HandledStep ==
  ASSUME HubInv, Handled
  PROVE  HubInv'
<1>1. UNCHANGED <<selected, shown, filter, listLoad, detailLoad, form>> /\ write \in WriteRow
  BY DEF Handled, HubInv, WriteOK, Nothing
<1>2. PICK f \in Feedback : Commits(f) /\ write' = [write EXCEPT !.phase = "done", !.id = f, !.version = Len(records'[f])]
  BY DEF Handled
<1>3. Grown /\ Has(f, Version(f))' BY <1>1, <1>2, CommitsGrow
<1> DEFINE n   == Len(records'[f])
           row == [write EXCEPT !.phase = "done", !.id = f, !.version = n]
<1>4. n = Version(f)' /\ n \in Nat BY <1>3 DEF Version, Grown, RecordsOK
<1>5. write' = row BY <1>2
<1> HIDE DEF n
<1>6. row \in WriteRow /\ row.id = f /\ row.version = n BY <1>1, <1>4 DEF WriteRow
<1> HIDE DEF row
<1>7. WriteOK'
  <2>1. Has(write.id, write.version)' BY <1>3, <1>4, <1>5, <1>6 DEF Has
  <2> QED BY <1>5, <1>6, <2>1 DEF WriteOK
<1>8. FormOK' BY <1>1 DEF HubInv, FormOK, DraftHome
<1> QED BY <1>1, <1>3, <1>7, <1>8, Carried DEF HubInv, Grown

LEMMA SavedStep ==
  ASSUME HubInv, Saved
  PROVE  HubInv'
<1>1. UNCHANGED records /\ write' = Nothing /\ write.phase = "done" /\ Has(write.id, write.version)
  BY DEF Saved, HubInv, WriteOK
<1>2. Grown /\ Existing' = Existing BY <1>1, Unwritten DEF Existing
<1>3. WriteOK' BY <1>1 DEF WriteOK, Nothing
<1>4. PICK f \in Existing : f = write.id BY <1>1 DEF Has
<1>5. CASE write.kind = "create"
  <2>1. selected' = f /\ filter' = "all" /\ LoadList /\ LoadDetail(f) /\ UNCHANGED shown /\ form' = Nothing
    BY <1>4, <1>5 DEF Saved
  <2>2. SelectedOK' BY <1>2, <2>1 DEF SelectedOK
  <2>3. DetailOK' BY <1>2, <2>1, DetailAsked
  <2>4. FormOK' BY <2>1 DEF FormOK, DraftHome
  <2> QED BY <1>2, <1>3, <2>1, <2>2, <2>3, <2>4, Carried, LoadsTyped DEF HubInv, Grown
<1>6. CASE write.kind # "create"
  <2>1. PICK n \in write.version..Version(f) : shown' = [id |-> f, version |-> n]
    BY <1>4, <1>6 DEF Saved
  <2>2. Reload /\ UNCHANGED filter BY <1>6 DEF Saved
  <2>3. Has(f, n)
    <3>1. Version(f) \in Nat /\ write.version \in 1..Version(f) BY <1>1, <1>4, Versions DEF HubInv, Has, Existing
    <3> QED BY <2>1, <3>1 DEF Has
  <2>4. Has(f, n)' BY <1>2, <2>3, GrownHas DEF HubInv
  <2>5. ShownOK' BY <2>1, <2>4 DEF ShownOK
  <2>6. FormOK'
    <3>1. CASE form' = Nothing BY <3>1 DEF FormOK, DraftHome
    <3>2. CASE form' = Rekeyed(shown')
      <4> DEFINE s == [id |-> f, version |-> n]
      <4>1. PutShown(s) BY <2>1, <3>2 DEF PutShown
      <4>2. s.id \in Feedback /\ s.version \in Nat BY <2>3, HasTyped DEF HubInv
      <4> HIDE DEF s
      <4> QED BY <4>1, <4>2, PutShownOK DEF HubInv
    <3> QED BY <3>1, <3>2 DEF Saved
  <2>7. ListOK' /\ DetailOK' /\ selected' = selected BY <1>2, <2>2, ReloadOK
  <2> QED BY <1>2, <1>3, <2>2, <2>5, <2>6, <2>7, Carried DEF HubInv, Grown
<1> QED BY <1>5, <1>6

LEMMA WriteFailsStep ==
  ASSUME HubInv, WriteFails
  PROVE  HubInv'
<1>1. UNCHANGED <<records, shown, filter, form>> /\ write' = Nothing BY DEF WriteFails
<1>2. Grown BY <1>1, Unwritten
<1>3. WriteOK' BY <1>1 DEF WriteOK, Nothing
<1>4. FormOK' BY <1>1 DEF HubInv, FormOK, DraftHome
<1>5. selected' = selected /\ ListOK' /\ DetailOK'
  <2>1. CASE write.kind = "note" BY <1>1, <1>2, <2>1, Carried DEF WriteFails
  <2>2. CASE write.kind # "note" BY <1>2, <2>2, ReloadOK DEF WriteFails
  <2> QED BY <2>1, <2>2
<1> QED BY <1>1, <1>2, <1>3, <1>4, <1>5, Carried DEF HubInv, Grown

LEMMA HubStep ==
  ASSUME HubInv, [HubNext]_hubVars
  PROVE  HubInv'
<1>1. CASE AgentWrites BY <1>1, AgentStep
<1>2. CASE Tick \/ ListAnswered \/ DetailAnswered \/ LoadFails BY <1>2, LoadSteps
<1>3. CASE ListShown BY <1>3, ListShownStep
<1>4. CASE DetailShown BY <1>4, DetailShownStep
<1>5. CASE (\E f \in Feedback : Select(f)) \/ (\E status \in Statuses \cup {"all"} : SetFilter(status))
           \/ (\E mode \in {"create", "edit"} : OpenForm(mode)) \/ CloseForm
  BY <1>5, ReaderSteps
<1>6. CASE (\E text \in Texts : SubmitForm(text)) \/ (\E status \in Statuses : Triage(status)) \/ Note
  BY <1>6, SubmitSteps
<1>7. CASE Handled BY <1>7, HandledStep
<1>8. CASE Saved BY <1>8, SavedStep
<1>9. CASE WriteFails BY <1>9, WriteFailsStep
<1>10. CASE UNCHANGED hubVars
  <2>1. UNCHANGED <<records, selected, shown, filter, listLoad, detailLoad, form, write>> BY <1>10 DEF hubVars
  <2>2. Grown BY <2>1, Unwritten
  <2>3. FormOK' BY <2>1 DEF HubInv, FormOK, DraftHome
  <2> QED BY <2>1, <2>2, <2>3, Carried DEF HubInv, Grown
<1> QED BY <1>1, <1>2, <1>3, <1>4, <1>5, <1>6, <1>7, <1>8, <1>9, <1>10 DEF HubNext

LEMMA HubStart ==
  ASSUME HubInit
  PROVE  HubInv
<1>1. RecordsOK BY DEF HubInit, RecordsOK
<1> QED BY <1>1 DEF HubInit, HubInv, SelectedOK, ShownOK, FormOK, DraftHome, WriteOK, ListOK, DetailOK, Nobody, Nothing

LEMMA HubAlways == HubSpec => []HubInv
<1>1. HubInit => HubInv BY HubStart
<1>2. HubInv /\ [HubNext]_hubVars => HubInv' BY HubStep
<1> QED BY <1>1, <1>2, PTL DEF HubSpec

\* What is shown, selected and edited is a record of the store at one of its versions, and an
\* open draft belongs to the record it would be saved to (App.tsx), for every number of records,
\* revisions, texts and statuses.
THEOREM HubSoundHolds == HubSpec => []HubSound
<1>1. HubInv => HubSound
  BY DEF HubInv, HubSound, HubTypeOK, DraftHome, RecordsOK, SelectedOK, ShownOK, FormOK, Has
<1> QED BY <1>1, HubAlways, PTL

LEMMA ShownNumber == HubInv => shown.version \in Nat
BY HasTyped DEF HubInv, ShownOK, Nobody

LEMMA ShownNumberNext == HubInv' => (shown.version \in Nat)'
BY ShownNumber, PTL

LEMMA ShownStep ==
  ASSUME HubInv, [HubNext]_hubVars
  PROVE  ShownForward
<1> SUFFICES ASSUME shown'.id = shown.id, write.phase # "done" PROVE shown'.version >= shown.version
  BY DEF ShownForward
<1>1. shown.version \in Nat BY ShownNumber
<1>2. CASE UNCHANGED shown BY <1>1, <1>2
<1>3. CASE DetailShown
  <2>1. shown.version <= shown'.version /\ HubInv' BY <1>3, DetailShownStep
  <2>2. shown'.version \in Nat BY <2>1, ShownNumberNext
  <2> QED BY <1>1, <2>1, <2>2
<1>4. CASE ListShown /\ selected' # selected /\ selected' = NoRecord
  <2>1. shown' = Nobody BY <1>4 DEF ListShown, PutShown
  <2>2. shown.version = 0
    <3>1. ~Has(shown.id, shown.version) BY <2>1, HasTyped DEF HubInv, Nobody
    <3> QED BY <3>1 DEF HubInv, ShownOK, Nobody
  <2> QED BY <2>1, <2>2 DEF Nobody
<1>5. UNCHANGED shown \/ DetailShown \/ (ListShown /\ selected' # selected /\ selected' = NoRecord)
  BY DEF HubNext, hubVars, Select, SetFilter, OpenForm, CloseForm, SubmitForm, Triage, Note, Send, AgentWrites, Tick,
         ListAnswered, ListShown, DetailAnswered, LoadFails, Handled, Saved, WriteFails
<1> QED BY <1>2, <1>3, <1>4, <1>5
-----------------------------------------------------------------------------
(* The database: its schema, its policy, its rows *)

\* The schema is what the version says, and no process runs a migration beyond the next one.
SchemaInv ==
  /\ version \in 0..9 /\ connection \in [Processes -> Nat]
  /\ schema = UNION {migrations[n] : n \in 1..version}
  /\ \A p \in Processes : connection[p] <= version + 1

\* A question to the owner that is asked of the present policy would change it.
PolicyInv ==
  /\ policy \in PolicyRow /\ decisions \in Seq(PolicyRow) /\ DecisionsSound
  /\ asking \in [Callers -> PolicyRow \cup {NoAnswer}]
  /\ \A c \in Callers : asking[c] # NoAnswer =>
       /\ asking[c].revision <= policy.revision
       /\ asking[c].revision = policy.revision => asking[c].paused # policy.paused

AttemptsSound(order) == {runs[r].attempt : r \in AttemptsOf(order)} = 1..Cardinality(AttemptsOf(order))

\* What a draft says of its run and its request.
DraftSound(draft) ==
  /\ draft \in DraftRow /\ draft.run \in 1..Len(runs) /\ runs[draft.run].order = draft.order
  /\ draft.request \in 0..Len(requests)
  /\ draft.request # 0 => requests[draft.request] = [order |-> draft.order, run |-> draft.run]

RowsInv ==
  /\ signals \in [{"a", "b"} -> SignalRow] /\ releases \in Seq(ReleaseRow)
  /\ runs \in Seq(RunRow) /\ requests \in Seq(RequestRow) /\ drafts \in Seq(DraftRow)
  /\ Len(runs) <= MaxRows /\ Len(requests) <= MaxRows
  /\ \A q \in 1..Len(requests) : requests[q].run \in 1..Len(runs)
  /\ \A d \in 1..Len(drafts) : DraftSound(drafts[d])
  /\ \A d, e \in 1..Len(drafts) : d # e => drafts[d].request = 0 \/ drafts[d].request # drafts[e].request
  /\ \A order \in {1, 2} : AttemptsSound(order)

StoreInv == SchemaInv /\ PolicyInv /\ RowsInv

LEMMA MigrationsKnown ==
  Len(migrations) = 9 /\ (\A n \in 1..8 : migrations[n] # {}) /\ migrations[9] = {}
<1> DEFINE S == {FactoryObjects[1], FactoryObjects[2], PublicationObjects[1], PublicationObjects[2], PublicationObjects[3],
                 SpendObjects[1], SpendObjects[2], SpendObjects[3], SpendObjects[4]}
<1>1. FactoryObjects \in Seq(S) /\ Len(FactoryObjects) = 2 /\ FactoryObjects[1] # {} /\ FactoryObjects[2] # {}
  BY DEF FactoryObjects
<1>2. /\ PublicationObjects \in Seq(S) /\ Len(PublicationObjects) = 3
      /\ PublicationObjects[1] # {} /\ PublicationObjects[2] # {} /\ PublicationObjects[3] # {}
  BY DEF PublicationObjects
<1>3. /\ SpendObjects \in Seq(S) /\ Len(SpendObjects) = 4
      /\ SpendObjects[1] # {} /\ SpendObjects[2] # {} /\ SpendObjects[3] # {} /\ SpendObjects[4] = {}
  BY DEF SpendObjects
<1> HIDE DEF S
<1> DEFINE first == FactoryObjects \o PublicationObjects
<1>4. first \in Seq(S) /\ Len(first) = 5 /\ \A i \in 1..5 : first[i] = IF i <= 2 THEN FactoryObjects[i] ELSE PublicationObjects[i - 2]
  <2>1. /\ first \in Seq(S) /\ Len(first) = Len(FactoryObjects) + Len(PublicationObjects)
        /\ \A i \in 1..(Len(FactoryObjects) + Len(PublicationObjects)) :
             first[i] = IF i <= Len(FactoryObjects) THEN FactoryObjects[i] ELSE PublicationObjects[i - Len(FactoryObjects)]
    BY <1>1, <1>2, ConcatProperties
  <2> HIDE DEF first
  <2>2. Len(FactoryObjects) + Len(PublicationObjects) = 5 BY <1>1, <1>2
  <2> QED BY ONLY <1>1, <2>1, <2>2
<1>5. \A i \in 1..5 : first[i] # {}
  <2>1. \A i \in 1..5 : i <= 2 => i = 1 \/ i = 2 OBVIOUS
  <2>2. \A i \in 1..5 : ~(i <= 2) => i - 2 = 1 \/ i - 2 = 2 \/ i - 2 = 3 OBVIOUS
  <2> HIDE DEF first
  <2> QED BY <1>1, <1>2, <1>4, <2>1, <2>2
<1> HIDE DEF first
<1>6. migrations = first \o SpendObjects BY DEF migrations, first
<1>7. Len(migrations) = 9 /\ \A i \in 1..9 : migrations[i] = IF i <= 5 THEN first[i] ELSE SpendObjects[i - 5]
  <2>1. /\ Len(migrations) = Len(first) + Len(SpendObjects)
        /\ \A i \in 1..(Len(first) + Len(SpendObjects)) :
             migrations[i] = IF i <= Len(first) THEN first[i] ELSE SpendObjects[i - Len(first)]
    <3> DEFINE all == first \o SpendObjects
    <3>1. /\ Len(all) = Len(first) + Len(SpendObjects)
          /\ \A i \in 1..(Len(first) + Len(SpendObjects)) :
               all[i] = IF i <= Len(first) THEN first[i] ELSE SpendObjects[i - Len(first)]
      <4>1. first \in Seq(S) /\ SpendObjects \in Seq(S) BY <1>3, <1>4
      <4> HIDE DEF S
      <4> QED BY ONLY <4>1, ConcatProperties
    <3>2. migrations = all BY <1>6
    <3> HIDE DEF all
    <3> QED BY ONLY <3>1, <3>2
  <2>2. Len(first) + Len(SpendObjects) = 9 BY <1>3, <1>4
  <2> QED BY ONLY <1>4, <2>1, <2>2
<1>8. ASSUME NEW i \in 1..8 PROVE migrations[i] # {}
  <2>1. CASE i \in 1..5
    <3>1. i \in 1..9 /\ i <= 5 BY <2>1
    <3> QED BY <1>5, <1>7, <2>1
  <2>2. CASE i \notin 1..5
    <3>1. ~(i <= 5) /\ (i - 5 = 1 \/ i - 5 = 2 \/ i - 5 = 3) BY <2>2
    <3> QED BY <1>3, <1>7, <3>1
  <2> QED BY <2>1, <2>2
<1>9. migrations[9] = SpendObjects[4] BY <1>7
<1> QED BY <1>3, <1>7, <1>8, <1>9

LEMMA MigrateStep ==
  ASSUME SchemaInv, NEW p \in Processes, Migrate(p)
  PROVE  SchemaInv' /\ version <= version'
<1> DEFINE n == connection[p]
<1>1. n \in 1..9
  <2>1. n \in Nat /\ n # 0 /\ Known[p] \in 1..9 /\ ~(n > Known[p])
    BY StoreBounds, MigrationsKnown DEF Migrate, Opened, SchemaInv
  <2> QED BY <2>1
<1>2. n <= version + 1 /\ version \in 0..9 BY DEF SchemaInv
<1>3. CASE migrations[n] \cap schema # {}
  <2>1. UNCHANGED <<schema, version>> /\ connection' = [connection EXCEPT ![p] = 0] BY <1>3 DEF Migrate
  <2> QED BY <1>2, <2>1 DEF SchemaInv
<1>4. CASE migrations[n] \cap schema = {}
  <2>1. /\ schema' = schema \cup migrations[n] /\ version' = n
        /\ connection' = [connection EXCEPT ![p] = n + 1]
    BY <1>4 DEF Migrate
  <2>2. version <= n
    <3>1. CASE n = 9 BY <1>2, <3>1
    <3>2. CASE n # 9
      <4>1. migrations[n] # {} BY <1>1, <3>2, MigrationsKnown
      <4>2. ASSUME n <= version PROVE FALSE
        <5>1. n \in 1..version BY <1>1, <1>2, <4>2
        <5>2. migrations[n] \subseteq schema BY <5>1 DEF SchemaInv
        <5> QED BY <1>4, <4>1, <5>2
      <4> QED BY <1>1, <1>2, <4>2
    <3> QED BY <3>1, <3>2
  <2> HIDE DEF n
  <2>3. n = version \/ n = version + 1 BY <1>1, <1>2, <2>2
  <2>4. schema' = UNION {migrations[k] : k \in 1..version'}
    <3>1. CASE n = version + 1
      <4>1. \A k : k \in 1..n <=> k \in 1..version \/ k = n BY <1>1, <1>2, <3>1
      <4> QED BY <2>1, <4>1 DEF SchemaInv
    <3>2. CASE n = version
      <4>1. n \in 1..version BY <1>1, <3>2
      <4>2. migrations[n] \subseteq schema BY <4>1 DEF SchemaInv
      <4> QED BY <2>1, <3>2, <4>2 DEF SchemaInv
    <3> QED BY <2>3, <3>1, <3>2
  <2>5. \A q \in Processes : connection'[q] \in Nat /\ connection'[q] <= n + 1
    BY <1>1, <1>2, <2>1, <2>2 DEF SchemaInv
  <2>6. connection' \in [Processes -> Nat] BY <1>1, <2>1 DEF SchemaInv
  <2> QED BY <1>1, <1>2, <2>1, <2>2, <2>4, <2>5, <2>6 DEF SchemaInv
<1> QED BY <1>3, <1>4

LEMMA OpenSteps ==
  ASSUME SchemaInv, NEW p \in Processes, Open(p) \/ Close(p) \/ StoreRestart(p)
  PROVE  SchemaInv' /\ version <= version'
<1>1. UNCHANGED <<schema, version>> /\ version \in 0..9 BY DEF Open, Close, StoreRestart, SchemaInv
<1>2. PICK n \in 0..(version + 1) : connection' = [connection EXCEPT ![p] = n] BY <1>1 DEF Open, Close, StoreRestart
<1> QED BY <1>1, <1>2 DEF SchemaInv
-----------------------------------------------------------------------------
LEMMA DecideStep ==
  ASSUME PolicyInv, NEW c \in Callers, SetDispatchPaused(c)
  PROVE  PolicyInv'
<1>1. /\ asking' = [asking EXCEPT ![c] = NoAnswer]
      /\ asking[c] \in PolicyRow /\ policy \in PolicyRow /\ decisions \in Seq(PolicyRow)
  BY DEF SetDispatchPaused, PolicyInv
<1>2. asking' \in [Callers -> PolicyRow \cup {NoAnswer}] BY <1>1 DEF PolicyInv
<1>3. CASE asking[c].revision # policy.revision
  <2>1. UNCHANGED <<policy, decisions>> BY <1>3 DEF SetDispatchPaused
  <2> QED BY <1>1, <1>2, <2>1 DEF PolicyInv, DecisionsSound
<1>4. CASE asking[c].revision = policy.revision
  <2> DEFINE n   == Len(decisions)
             row == [revision |-> policy.revision + 1, paused |-> asking[c].paused]
  <2>1. policy.revision < MaxPolicy /\ policy' = row /\ decisions' = Append(decisions, row)
    BY <1>4 DEF SetDispatchPaused, Decide
  <2>2. asking[c].paused \in BOOLEAN /\ asking[c].paused # policy.paused /\ policy.paused \in BOOLEAN
    BY <1>1, <1>4 DEF PolicyInv, PolicyRow, SetDispatchPaused
  <2>3. policy.revision = n + 1 /\ n \in Nat /\ policy.paused = (n % 2 = 1)
    <3>1. policy.revision = 1 + Len(decisions) /\ policy.paused = (Len(decisions) % 2 = 1)
      BY Zenon DEF PolicyInv, DecisionsSound
    <3>2. Len(decisions) \in Nat BY <1>1
    <3>3. n = Len(decisions) OBVIOUS
    <3> HIDE DEF n
    <3> QED BY <3>1, <3>2, <3>3
  <2>4. row \in PolicyRow /\ row.revision = n + 2 BY <1>1, <2>1, <2>2, <2>3, StoreBounds DEF PolicyRow
  <2>5. row.paused = ((n + 1) % 2 = 1)
    <3>1. ((n + 1) % 2 = 1) <=> ~(n % 2 = 1) BY <2>3
    <3>2. row.paused = asking[c].paused OBVIOUS
    <3> QED BY <2>2, <2>3, <3>1, <3>2
  <2> HIDE DEF row
  <2>6. decisions' \in Seq(PolicyRow) /\ Len(decisions') = n + 1 BY <1>1, <2>1, <2>4
  <2>7. \A i \in 1..Len(decisions') : decisions'[i] = [revision |-> i + 1, paused |-> i % 2 = 1]
    <3> SUFFICES ASSUME NEW i \in 1..(n + 1) PROVE decisions'[i] = [revision |-> i + 1, paused |-> i % 2 = 1]
      BY <2>6
    <3>1. CASE i = n + 1
      <4>1. decisions'[i] = row BY <1>1, <2>1, <3>1
      <4>2. row = [revision |-> row.revision, paused |-> row.paused] BY DEF row
      <4> QED BY <2>3, <2>4, <2>5, <3>1, <4>1, <4>2
    <3>2. CASE i # n + 1
      <4>1. i \in 1..n BY <2>3, <3>2
      <4>2. decisions'[i] = decisions[i] BY <1>1, <2>1, <4>1
      <4> QED BY <1>1, <4>1, <4>2 DEF PolicyInv, DecisionsSound
    <3> QED BY <3>1, <3>2
  <2>8. DecisionsSound' BY <2>1, <2>3, <2>4, <2>5, <2>6, <2>7 DEF DecisionsSound
  <2>9. ASSUME NEW d \in Callers, asking'[d] # NoAnswer
        PROVE  asking'[d].revision <= policy'.revision /\ asking'[d].revision # policy'.revision
    <3>1. asking'[d] = asking[d] /\ asking[d] \in PolicyRow BY <1>1, <2>9 DEF PolicyInv
    <3>2. asking[d].revision <= policy.revision /\ asking[d].revision \in Int BY <2>9, <3>1 DEF PolicyInv, PolicyRow
    <3> QED BY <2>1, <2>3, <2>4, <3>1, <3>2
  <2> QED BY <1>2, <2>1, <2>4, <2>6, <2>8, <2>9 DEF PolicyInv
<1> QED BY <1>3, <1>4

LEMMA AskSteps ==
  ASSUME PolicyInv, NEW c \in Callers, Refuse(c) \/ \E paused \in BOOLEAN : AskPaused(c, paused)
  PROVE  PolicyInv'
<1>1. UNCHANGED <<policy, decisions>> /\ policy \in PolicyRow BY DEF Refuse, AskPaused, rowVars, PolicyInv
<1>2. CASE Refuse(c) BY <1>1, <1>2 DEF Refuse, PolicyInv, DecisionsSound
<1>3. ASSUME NEW paused \in BOOLEAN, AskPaused(c, paused) PROVE PolicyInv'
  <2> DEFINE row == [revision |-> policy.revision, paused |-> paused]
  <2>1. asking' = [asking EXCEPT ![c] = row] /\ policy.paused # paused BY <1>3 DEF AskPaused
  <2>2. row \in PolicyRow /\ row.revision = policy.revision /\ row.paused = paused /\ policy.revision \in Int
    BY <1>1 DEF PolicyRow
  <2> HIDE DEF row
  <2> QED BY <1>1, <2>1, <2>2 DEF PolicyInv, DecisionsSound
<1> QED BY <1>2, <1>3
-----------------------------------------------------------------------------
\* No row is lost, and none loses its keys.
RowsKept ==
  /\ Len(runs) <= Len(runs') /\ \A r \in 1..Len(runs) : runs'[r].order = runs[r].order
  /\ Len(requests) <= Len(requests') /\ \A q \in 1..Len(requests) : requests'[q] = requests[q]

LEMMA DraftsKept ==
  ASSUME RowsInv, RowsKept, runs' \in Seq(RunRow), requests' \in Seq(RequestRow), NEW draft, DraftSound(draft)
  PROVE  DraftSound(draft)'
<1>1. Len(runs) \in Nat /\ Len(runs') \in Nat /\ Len(requests) \in Nat /\ Len(requests') \in Nat BY DEF RowsInv
<1>2. draft \in DraftRow /\ draft.run \in 1..Len(runs) /\ runs[draft.run].order = draft.order BY DEF DraftSound
<1>3. draft.run \in 1..Len(runs') /\ runs'[draft.run].order = draft.order BY <1>1, <1>2 DEF RowsKept
<1>4. draft.request \in 0..Len(requests')
  <2>1. draft.request \in 0..Len(requests) BY DEF DraftSound
  <2> QED BY <1>1, <2>1 DEF RowsKept
<1>5. draft.request # 0 => requests'[draft.request] = [order |-> draft.order, run |-> draft.run]
  <2> SUFFICES ASSUME draft.request # 0 PROVE requests'[draft.request] = [order |-> draft.order, run |-> draft.run]
    OBVIOUS
  <2>1. draft.request \in 1..Len(requests) BY <1>1 DEF DraftSound
  <2> QED BY <2>1 DEF DraftSound, RowsKept
<1> QED BY <1>2, <1>3, <1>4, <1>5 DEF DraftSound

LEMMA AttemptsCounted ==
  ASSUME runs \in Seq(RunRow), NEW order
  PROVE  /\ IsFiniteSet(AttemptsOf(order)) /\ Cardinality(AttemptsOf(order)) \in 0..Len(runs)
         /\ AttemptsOf(order) \subseteq 1..Len(runs)
<1>1. AttemptsOf(order) \subseteq 1..Len(runs) BY DEF AttemptsOf
<1>2. 1 \in Int /\ Len(runs) \in Int /\ Len(runs) \in Nat OBVIOUS
<1>3. IsFiniteSet(1..Len(runs)) /\ Cardinality(1..Len(runs)) = Len(runs) BY <1>2, FS_Interval
<1>4. IsFiniteSet(AttemptsOf(order)) /\ Cardinality(AttemptsOf(order)) <= Len(runs) BY <1>1, <1>3, FS_Subset
<1>5. Cardinality(AttemptsOf(order)) \in Nat BY <1>4, FS_CardinalityType
<1> QED BY <1>1, <1>2, <1>4, <1>5

LEMMA CreateRunStep ==
  ASSUME RowsInv, NEW order \in {1, 2}, CreateRun(order)
  PROVE  RowsInv'
<1> DEFINE n   == Len(runs)
           k   == Cardinality(AttemptsOf(order))
           row == [order |-> order, state |-> "planning", attempt |-> 1 + k]
<1>1. runs \in Seq(RunRow) /\ n \in Nat /\ n < MaxRows /\ MaxRows \in Nat BY StoreBounds DEF RowsInv, CreateRun
<1>2. k \in 0..n /\ IsFiniteSet(AttemptsOf(order)) BY <1>1, AttemptsCounted
<1>3. runs' = Append(runs, row) /\ UNCHANGED <<signals, releases, requests, drafts>>
  BY DEF CreateRun
<1> HIDE DEF k
<1>4. row \in RunRow /\ row.order = order /\ row.attempt = k + 1 BY <1>1, <1>2 DEF RunRow
<1> HIDE DEF row
<1>5. /\ runs' \in Seq(RunRow) /\ Len(runs') = n + 1 /\ runs'[n + 1] = row
      /\ \A r \in 1..n : runs'[r] = runs[r]
  BY <1>1, <1>3, <1>4
<1> HIDE DEF n
<1>6. RowsKept
  <2>1. n = Len(runs) BY DEF n
  <2>2. Len(requests) \in Nat BY DEF RowsInv
  <2> QED BY <1>1, <1>3, <1>5, <2>1, <2>2 DEF RowsKept
<1>7. \A d \in 1..Len(drafts') : DraftSound(drafts[d])'
  <2> SUFFICES ASSUME NEW d \in 1..Len(drafts) PROVE DraftSound(drafts[d])' BY <1>3
  <2>1. PICK draft : draft = drafts[d] OBVIOUS
  <2>2. DraftSound(draft)' BY <1>3, <1>5, <1>6, <2>1, DraftsKept DEF RowsInv
  <2>3. drafts'[d] = draft BY <1>3, <2>1
  <2> QED BY <2>2, <2>3 DEF DraftSound
<1>8. \A q \in 1..Len(requests') : requests'[q].run \in 1..Len(runs')
  BY <1>1, <1>3, <1>5 DEF RowsInv, n
<1>9. ASSUME NEW o \in {1, 2}
      PROVE  AttemptsSound(o)'
  <2>1. runs = runs /\ DOMAIN runs = 1..n /\ DOMAIN runs' = 1..(n + 1) BY <1>1, <1>5 DEF n
  <2>2. CASE o = order
    <3>1. AttemptsOf(o)' = AttemptsOf(o) \cup {n + 1} BY <1>1, <1>4, <1>5, <2>1, <2>2 DEF AttemptsOf
    <3>2. n + 1 \notin AttemptsOf(o) BY <1>1, <2>1 DEF AttemptsOf
    <3>3. Cardinality(AttemptsOf(o)') = k + 1 BY <1>2, <2>2, <3>1, <3>2, FS_AddElement DEF k
    <3>4. {runs[r].attempt : r \in AttemptsOf(o)} = 1..k BY <2>2 DEF RowsInv, AttemptsSound, k
    <3>5. \A r \in AttemptsOf(o) : runs'[r].attempt = runs[r].attempt BY <1>5, <2>1 DEF AttemptsOf
    <3>6. {runs'[r].attempt : r \in AttemptsOf(o)'} = {runs[r].attempt : r \in AttemptsOf(o)} \cup {k + 1}
      BY <1>4, <1>5, <3>1, <3>5
    <3>7. (1..k) \cup {k + 1} = 1..(k + 1) BY <1>2
    <3> QED BY <3>3, <3>4, <3>6, <3>7 DEF AttemptsSound
  <2>3. CASE o # order
    <3>1. AttemptsOf(o)' = AttemptsOf(o) BY <1>1, <1>4, <1>5, <2>1, <2>3 DEF AttemptsOf
    <3>2. \A r \in AttemptsOf(o) : runs'[r].attempt = runs[r].attempt BY <1>5, <2>1 DEF AttemptsOf
    <3>3. {runs'[r].attempt : r \in AttemptsOf(o)'} = {runs[r].attempt : r \in AttemptsOf(o)} BY <3>1, <3>2
    <3> QED BY <3>1, <3>3 DEF RowsInv, AttemptsSound
  <2> QED BY <2>2, <2>3
<1>10. Len(runs') <= MaxRows BY <1>1, <1>5
<1> QED BY <1>3, <1>5, <1>7, <1>8, <1>9, <1>10 DEF RowsInv

LEMMA SaveRunStep ==
  ASSUME RowsInv, NEW r \in DOMAIN runs, NEW state \in {"planning", "failed"}, SaveRun(r, state)
  PROVE  RowsInv'
<1> DEFINE row == [runs[r] EXCEPT !.state = state]
<1>1. runs \in Seq(RunRow) /\ r \in 1..Len(runs) /\ Len(runs) \in Nat /\ runs[r] \in RunRow BY DEF RowsInv
<1>2. runs' = [runs EXCEPT ![r] = row] /\ UNCHANGED <<signals, releases, requests, drafts>>
  BY DEF SaveRun
<1>3. row \in RunRow /\ row.order = runs[r].order /\ row.attempt = runs[r].attempt BY <1>1 DEF RunRow
<1> HIDE DEF row
<1>4. runs' \in Seq(RunRow) /\ Len(runs') = Len(runs) /\ DOMAIN runs' = DOMAIN runs BY <1>1, <1>2, <1>3
<1>5. \A i \in 1..Len(runs) : runs'[i].order = runs[i].order /\ runs'[i].attempt = runs[i].attempt
  BY <1>1, <1>2, <1>3
<1>6. RowsKept
  <2>1. Len(requests) \in Nat BY DEF RowsInv
  <2> QED BY <1>1, <1>2, <1>4, <1>5, <2>1 DEF RowsKept
<1>7. \A d \in 1..Len(drafts') : DraftSound(drafts[d])'
  <2> SUFFICES ASSUME NEW d \in 1..Len(drafts) PROVE DraftSound(drafts[d])' BY <1>2
  <2>1. PICK draft : draft = drafts[d] OBVIOUS
  <2>2. DraftSound(draft)' BY <1>2, <1>4, <1>6, <2>1, DraftsKept DEF RowsInv
  <2>3. drafts'[d] = draft BY <1>2, <2>1
  <2> QED BY <2>2, <2>3 DEF DraftSound
<1>8. ASSUME NEW o \in {1, 2}
      PROVE  AttemptsSound(o)'
  <2>1. AttemptsOf(o)' = AttemptsOf(o) BY <1>1, <1>4, <1>5 DEF AttemptsOf
  <2>2. \A i \in AttemptsOf(o) : runs'[i].attempt = runs[i].attempt BY <1>1, <1>5 DEF AttemptsOf
  <2>3. {runs'[i].attempt : i \in AttemptsOf(o)'} = {runs[i].attempt : i \in AttemptsOf(o)} BY <2>1, <2>2
  <2> QED BY <2>1, <2>3 DEF RowsInv, AttemptsSound
<1> QED BY <1>2, <1>4, <1>7, <1>8 DEF RowsInv

LEMMA AttemptsKept ==
  ASSUME RowsInv, runs' = runs
  PROVE  \A o \in {1, 2} : AttemptsSound(o)'
<1> SUFFICES ASSUME NEW o \in {1, 2} PROVE AttemptsSound(o)' OBVIOUS
<1>1. AttemptsOf(o)' = AttemptsOf(o) BY DEF AttemptsOf
<1>2. {runs'[r].attempt : r \in AttemptsOf(o)'} = {runs[r].attempt : r \in AttemptsOf(o)} BY <1>1
<1> QED BY <1>1, <1>2 DEF RowsInv, AttemptsSound

LEMMA CreateRequestStep ==
  ASSUME RowsInv, NEW order \in {1, 2}, NEW r \in DOMAIN runs, CreateRequest(order, r)
  PROVE  RowsInv'
<1> DEFINE row == [order |-> order, run |-> r]
<1>1. /\ runs \in Seq(RunRow) /\ requests \in Seq(RequestRow) /\ Len(requests) \in Nat /\ Len(runs) \in Nat
      /\ r \in 1..Len(runs) /\ Len(runs) <= MaxRows /\ MaxRows \in Nat
      /\ Len(requests) + 1 <= MaxRows
  BY StoreBounds DEF RowsInv, CreateRequest
<1>2. requests' = Append(requests, row) /\ UNCHANGED <<signals, releases, runs, drafts>>
  BY DEF CreateRequest
<1>3. row \in RequestRow /\ row.run = r BY <1>1 DEF RequestRow
<1> HIDE DEF row
<1>4. /\ requests' \in Seq(RequestRow) /\ Len(requests') = Len(requests) + 1
      /\ \A q \in 1..Len(requests') : requests'[q] = IF q = Len(requests) + 1 THEN row ELSE requests[q]
  BY <1>1, <1>2, <1>3, AppendProperties
<1>5. RowsKept BY <1>1, <1>2, <1>4 DEF RowsKept
<1>6. \A d \in 1..Len(drafts') : DraftSound(drafts[d])'
  <2> SUFFICES ASSUME NEW d \in 1..Len(drafts) PROVE DraftSound(drafts[d])' BY <1>2
  <2>1. PICK draft : draft = drafts[d] OBVIOUS
  <2>2. DraftSound(draft)' BY <1>1, <1>2, <1>4, <1>5, <2>1, DraftsKept DEF RowsInv
  <2>3. drafts'[d] = draft BY <1>2, <2>1
  <2> QED BY <2>2, <2>3 DEF DraftSound
<1>7. ASSUME NEW q \in 1..Len(requests') PROVE requests'[q].run \in 1..Len(runs')
  <2>1. CASE q = Len(requests) + 1 BY <1>1, <1>2, <1>3, <1>4, <2>1
  <2>2. CASE q # Len(requests) + 1
    <3>1. q \in 1..Len(requests) BY <1>1, <1>4, <2>2
    <3> QED BY <1>2, <1>4, <2>2, <3>1 DEF RowsInv
  <2> QED BY <2>1, <2>2
<1>8. \A o \in {1, 2} : AttemptsSound(o)' BY <1>2, AttemptsKept
<1>9. Len(requests') <= MaxRows BY <1>1, <1>4
<1> QED BY <1>2, <1>4, <1>6, <1>7, <1>8, <1>9 DEF RowsInv

LEMMA CreateDraftStep ==
  ASSUME RowsInv, NEW order \in {1, 2}, NEW r \in DOMAIN runs, NEW q \in {0} \cup DOMAIN requests,
         CreateExternalAction(order, r, q)
  PROVE  RowsInv'
<1> DEFINE row == [order |-> order, run |-> r, request |-> q, state |-> "prepared"]
           n   == Len(drafts)
<1>1. /\ runs \in Seq(RunRow) /\ requests \in Seq(RequestRow) /\ drafts \in Seq(DraftRow) /\ n \in Nat
      /\ Len(requests) \in Nat /\ r \in 1..Len(runs) /\ Len(runs) \in Nat
  BY DEF RowsInv
<1>2. drafts' = Append(drafts, row) /\ UNCHANGED <<signals, releases, runs, requests>> /\ runs[r].order = order
  BY DEF CreateExternalAction
<1>3. q \in 0..Len(requests) /\ Len(requests) <= MaxRows /\ Len(runs) <= MaxRows /\ MaxRows \in Nat
  BY <1>1, StoreBounds DEF RowsInv
<1>4. row \in DraftRow BY <1>1, <1>3 DEF DraftRow
<1>5. DraftSound(row)
  <2>1. q # 0 => requests[q] = [order |-> order, run |-> r] BY DEF CreateExternalAction, FitsRequest
  <2> QED BY <1>1, <1>2, <1>3, <1>4, <2>1 DEF DraftSound
<1>6. q # 0 => \A d \in 1..n : drafts[d].request # q
  BY <1>1 DEF CreateExternalAction, FitsRequest, Drafted
<1>7. row.request = q OBVIOUS
<1> HIDE DEF row
<1>8. /\ drafts' \in Seq(DraftRow) /\ Len(drafts') = n + 1
      /\ \A d \in 1..Len(drafts') : drafts'[d] = IF d = n + 1 THEN row ELSE drafts[d]
  BY <1>1, <1>2, <1>4, AppendProperties
<1>9. \A d \in 1..Len(drafts') : d = n + 1 \/ d \in 1..n BY <1>1, <1>8
<1>10. ASSUME NEW d \in 1..Len(drafts') PROVE DraftSound(drafts[d])'
  <2>1. DraftSound(drafts'[d]) BY <1>5, <1>8, <1>9 DEF RowsInv
  <2>2. PICK draft : draft = drafts'[d] OBVIOUS
  <2>3. DraftSound(draft) BY <2>1, <2>2
  <2>4. DraftSound(draft)' BY <1>2, <2>3 DEF DraftSound
  <2> QED BY <2>2, <2>4 DEF DraftSound
<1>11. ASSUME NEW d \in 1..Len(drafts'), NEW e \in 1..Len(drafts'), d # e
       PROVE  drafts'[d].request = 0 \/ drafts'[d].request # drafts'[e].request
  <2>1. CASE d = n + 1 BY <1>6, <1>7, <1>8, <1>9, <1>11, <2>1
  <2>2. CASE e = n + 1
    <3>1. d \in 1..n /\ drafts'[d] = drafts[d] /\ drafts'[e] = row BY <1>8, <1>9, <1>11, <2>2
    <3> QED BY <1>6, <1>7, <3>1
  <2>3. CASE d # n + 1 /\ e # n + 1
    <3>1. d \in 1..n /\ e \in 1..n /\ drafts'[d] = drafts[d] /\ drafts'[e] = drafts[e] BY <1>8, <1>9, <2>3
    <3> QED BY <1>11, <3>1 DEF RowsInv, n
  <2> QED BY <2>1, <2>2, <2>3
<1>12. \A o \in {1, 2} : AttemptsSound(o)' BY <1>2, AttemptsKept
<1> QED BY <1>2, <1>8, <1>10, <1>11, <1>12 DEF RowsInv

LEMMA SaveDraftStep ==
  ASSUME RowsInv, NEW d \in DOMAIN drafts, SaveExternalAction(d, "dispatched")
  PROVE  RowsInv'
<1> DEFINE row == [drafts[d] EXCEPT !.state = "dispatched"]
<1>1. drafts \in Seq(DraftRow) /\ d \in 1..Len(drafts) /\ drafts[d] \in DraftRow /\ DraftSound(drafts[d]) BY DEF RowsInv
<1>2. drafts' = [drafts EXCEPT ![d] = row] /\ UNCHANGED <<signals, releases, runs, requests>>
  BY DEF SaveExternalAction
<1>3. row \in DraftRow /\ row.order = drafts[d].order /\ row.run = drafts[d].run /\ row.request = drafts[d].request
  BY <1>1 DEF DraftRow
<1>4. DraftSound(row) BY <1>1, <1>3 DEF DraftSound
<1> HIDE DEF row
<1>5. /\ drafts' \in Seq(DraftRow) /\ Len(drafts') = Len(drafts)
      /\ \A e \in 1..Len(drafts) : drafts'[e] = IF e = d THEN row ELSE drafts[e]
  BY <1>1, <1>2, <1>3
<1>6. ASSUME NEW e \in 1..Len(drafts') PROVE DraftSound(drafts[e])'
  <2>1. DraftSound(drafts'[e]) BY <1>4, <1>5 DEF RowsInv
  <2>2. PICK draft : draft = drafts'[e] OBVIOUS
  <2>3. DraftSound(draft) BY <2>1, <2>2
  <2>4. DraftSound(draft)' BY <1>2, <2>3 DEF DraftSound
  <2> QED BY <2>2, <2>4 DEF DraftSound
<1>7. \A e \in 1..Len(drafts) : drafts'[e].request = drafts[e].request BY <1>3, <1>5
<1>8. \A o \in {1, 2} : AttemptsSound(o)' BY <1>2, AttemptsKept
<1> QED BY <1>2, <1>5, <1>6, <1>7, <1>8 DEF RowsInv

LEMMA SignalSteps ==
  ASSUME RowsInv, NEW identity \in DOMAIN signals,
         (\E content \in {1, 2} : UpsertSignal(identity, content)) \/ (\E order \in {1, 2} : LinkSignal(identity, order))
  PROVE  RowsInv' /\ \A i \in DOMAIN signals : signals[i].order # 0 => signals'[i].order = signals[i].order
<1>1. signals \in [{"a", "b"} -> SignalRow] BY DEF RowsInv
<1>2. PICK row \in SignalRow : signals' = [signals EXCEPT ![identity] = row] /\ (signals[identity].order # 0 => row.order = signals[identity].order)
  <2>1. ASSUME NEW content \in {1, 2}, UpsertSignal(identity, content)
        PROVE  \E row \in SignalRow : signals' = [signals EXCEPT ![identity] = row] /\ row.order = signals[identity].order
    <3> DEFINE row == [signals[identity] EXCEPT !.content = content]
    <3>1. signals' = [signals EXCEPT ![identity] = row] BY <2>1 DEF UpsertSignal
    <3>2. row \in SignalRow /\ row.order = signals[identity].order BY <1>1 DEF SignalRow
    <3> HIDE DEF row
    <3> QED BY <3>1, <3>2
  <2>2. ASSUME NEW order \in {1, 2}, LinkSignal(identity, order)
        PROVE  signals[identity].order = 0 /\ \E row \in SignalRow : signals' = [signals EXCEPT ![identity] = row]
    <3> DEFINE row == [signals[identity] EXCEPT !.order = order]
    <3>1. signals' = [signals EXCEPT ![identity] = row] /\ signals[identity].order = 0 BY <2>2 DEF LinkSignal
    <3>2. row \in SignalRow BY <1>1 DEF SignalRow
    <3> HIDE DEF row
    <3> QED BY <3>1, <3>2
  <2> QED BY <2>1, <2>2
<1>3. UNCHANGED <<runs, requests, drafts, releases>> BY DEF UpsertSignal, LinkSignal
<1>4. signals' \in [{"a", "b"} -> SignalRow] BY <1>1, <1>2
<1>5. \A d \in 1..Len(drafts) : DraftSound(drafts[d])' BY <1>3 DEF RowsInv, DraftSound
<1>6. \A o \in {1, 2} : AttemptsSound(o)' BY <1>3, AttemptsKept
<1> QED BY <1>1, <1>2, <1>3, <1>4, <1>5, <1>6 DEF RowsInv

LEMMA ReleaseSteps ==
  ASSUME RowsInv, CreateRelease \/ \E i \in DOMAIN releases, status \in {"deployed", "rolled_back"} : SetReleaseStatus(i, status)
  PROVE  RowsInv'
<1>1. UNCHANGED <<signals, runs, requests, drafts>> BY DEF CreateRelease, SetReleaseStatus
<1>2. releases' \in Seq(ReleaseRow)
  <2>1. releases \in Seq(ReleaseRow) BY DEF RowsInv
  <2>2. "candidate" \in ReleaseRow /\ "deployed" \in ReleaseRow /\ "rolled_back" \in ReleaseRow BY DEF ReleaseRow
  <2>3. CASE CreateRelease BY <2>1, <2>2, <2>3, AppendProperties DEF CreateRelease
  <2>4. ASSUME NEW i \in DOMAIN releases, NEW status \in {"deployed", "rolled_back"}, SetReleaseStatus(i, status)
        PROVE  releases' \in Seq(ReleaseRow)
    <3>1. status \in ReleaseRow BY <2>2
    <3>2. releases' = [releases EXCEPT ![i] = status] BY <2>4 DEF SetReleaseStatus
    <3> QED BY <2>1, <3>1, <3>2
  <2> QED BY <2>3, <2>4
<1>3. \A d \in 1..Len(drafts) : DraftSound(drafts[d])' BY <1>1 DEF RowsInv, DraftSound
<1>4. \A o \in {1, 2} : AttemptsSound(o)' BY <1>1, AttemptsKept
<1> QED BY <1>1, <1>2, <1>3, <1>4 DEF RowsInv
-----------------------------------------------------------------------------
StoreRestarts == \E p \in Processes : StoreRestart(p)

LEMMA StoreStart ==
  ASSUME StoreInit
  PROVE  StoreInv
<1>1. SchemaInv
  <2>1. \A n : ~(n \in 1..0) OBVIOUS
  <2> QED BY <2>1 DEF StoreInit, SchemaInv
<1>2. PolicyInv
  <2>1. policy = [revision |-> 1, paused |-> FALSE] /\ decisions = <<>> /\ Len(decisions) = 0 /\ DOMAIN decisions = {}
    BY DEF StoreInit
  <2>2. policy \in PolicyRow BY <2>1, StoreBounds DEF PolicyRow
  <2>3. 0 % 2 = 0 OBVIOUS
  <2>4. DecisionsSound
    <3>1. policy.revision = 1 + Len(decisions) BY <2>1
    <3>2. \A i \in DOMAIN decisions : decisions[i] = [revision |-> i + 1, paused |-> i % 2 = 1] BY <2>1
    <3>3. policy.paused = FALSE BY <2>1
    <3>4. (Len(decisions) % 2 = 1) = FALSE BY <2>1, <2>3
    <3>5. policy.paused = (Len(decisions) % 2 = 1) BY Zenon, <3>3, <3>4
    <3> QED BY <3>1, <3>2, <3>5, Zenon DEF DecisionsSound
  <2> QED BY <2>1, <2>2, <2>4 DEF StoreInit, PolicyInv
<1>3. RowsInv
  <2>1. runs = <<>> /\ requests = <<>> /\ drafts = <<>> /\ releases = <<>> BY DEF StoreInit
  <2>2. signals \in [{"a", "b"} -> SignalRow] BY DEF StoreInit, NoSignal, SignalRow
  <2>3. \A o \in {1, 2} : AttemptsSound(o)
    <3>1. \A o \in {1, 2} : AttemptsOf(o) = {} BY <2>1 DEF AttemptsOf
    <3>2. Cardinality({}) = 0 BY FS_EmptySet
    <3>3. 1..0 = {} OBVIOUS
    <3> QED BY <3>1, <3>2, <3>3 DEF AttemptsSound
  <2> QED BY <2>1, <2>2, <2>3, StoreBounds DEF RowsInv
<1> QED BY <1>1, <1>2, <1>3 DEF StoreInv

LEMMA SchemaStep ==
  ASSUME SchemaInv, [StoreNext \/ StoreRestarts]_storeVars
  PROVE  SchemaInv' /\ version <= version'
<1>1. CASE UNCHANGED <<schema, version, connection>>
  BY <1>1 DEF SchemaInv
<1>2. CASE \E p \in Processes : Open(p) \/ Migrate(p) \/ Close(p) \/ StoreRestart(p) BY <1>2, OpenSteps, MigrateStep
<1>3. UNCHANGED <<schema, version, connection>> \/ \E p \in Processes : Open(p) \/ Migrate(p) \/ Close(p) \/ StoreRestart(p)
  BY DEF StoreNext, StoreRestarts, storeVars, otherVars, Refuse, SetDispatchPaused, AskPaused, UpsertSignal, LinkSignal, CreateRun,
         CreateRequest, CreateExternalAction, SaveRun, SaveExternalAction, CreateRelease, SetReleaseStatus
<1> QED BY <1>1, <1>2, <1>3

LEMMA PolicyStep ==
  ASSUME PolicyInv, [StoreNext \/ StoreRestarts]_storeVars
  PROVE  PolicyInv'
<1>1. CASE UNCHANGED <<policy, decisions, asking>> BY <1>1 DEF PolicyInv, DecisionsSound
<1>2. ASSUME NEW c \in Callers, Refuse(c) \/ SetDispatchPaused(c) \/ \E paused \in BOOLEAN : AskPaused(c, paused) PROVE PolicyInv'
  BY <1>2, DecideStep, AskSteps
<1>3. CASE StoreRestarts
  <2>1. UNCHANGED <<policy, decisions>> /\ asking' = [c \in Callers |-> NoAnswer]
    BY <1>3 DEF StoreRestarts, StoreRestart, rowVars
  <2> QED BY <2>1 DEF PolicyInv, DecisionsSound
<1>4. \/ UNCHANGED <<policy, decisions, asking>> \/ StoreRestarts
      \/ \E c \in Callers : Refuse(c) \/ SetDispatchPaused(c) \/ \E paused \in BOOLEAN : AskPaused(c, paused)
  BY DEF StoreNext, storeVars, otherVars, rowVars, Open, Close, Migrate, UpsertSignal, LinkSignal, CreateRun,
         CreateRequest, CreateExternalAction, SaveRun, SaveExternalAction, CreateRelease, SetReleaseStatus
<1> QED BY <1>1, <1>2, <1>3, <1>4

SignalsForward == \A i \in DOMAIN signals : signals[i].order # 0 => signals'[i].order = signals[i].order

LEMMA RowsStep ==
  ASSUME RowsInv, [StoreNext \/ StoreRestarts]_storeVars
  PROVE  RowsInv' /\ SignalsForward
<1>1. CASE UNCHANGED <<signals, runs, requests, drafts, releases>>
  <2>1. \A d \in 1..Len(drafts) : DraftSound(drafts[d])' BY <1>1 DEF RowsInv, DraftSound
  <2>2. \A o \in {1, 2} : AttemptsSound(o)' BY <1>1, AttemptsKept
  <2> QED BY <1>1, <2>1, <2>2 DEF RowsInv, SignalsForward
<1>2. ASSUME NEW identity \in DOMAIN signals,
             UpsertSignal(identity, 1) \/ UpsertSignal(identity, 2) \/ LinkSignal(identity, 1) \/ LinkSignal(identity, 2)
      PROVE  RowsInv' /\ SignalsForward
  BY <1>2, SignalSteps DEF SignalsForward
<1>3. ASSUME NEW order \in {1, 2},
             \/ CreateRun(order)
             \/ \E r \in DOMAIN runs :
                  CreateRequest(order, r) \/ \E q \in {0} \cup DOMAIN requests : CreateExternalAction(order, r, q)
      PROVE  RowsInv' /\ SignalsForward
  <2>1. UNCHANGED signals BY <1>3 DEF CreateRun, CreateRequest, CreateExternalAction
  <2> QED BY <1>3, <2>1, CreateRunStep, CreateRequestStep, CreateDraftStep DEF SignalsForward
<1>4. CASE \/ \E r \in DOMAIN runs : SaveRun(r, "failed")
           \/ \E d \in DOMAIN drafts : SaveExternalAction(d, "dispatched")
           \/ CreateRelease \/ \E i \in DOMAIN releases, status \in {"deployed", "rolled_back"} : SetReleaseStatus(i, status)
  <2>1. UNCHANGED signals BY <1>4 DEF SaveRun, SaveExternalAction, CreateRelease, SetReleaseStatus
  <2> QED BY <1>4, <2>1, SaveRunStep, SaveDraftStep, ReleaseSteps DEF SignalsForward
<1>5. \/ UNCHANGED <<signals, runs, requests, drafts, releases>>
      \/ \E identity \in DOMAIN signals :
           UpsertSignal(identity, 1) \/ UpsertSignal(identity, 2) \/ LinkSignal(identity, 1) \/ LinkSignal(identity, 2)
      \/ \E order \in {1, 2} :
           \/ CreateRun(order)
           \/ \E r \in DOMAIN runs :
                CreateRequest(order, r) \/ \E q \in {0} \cup DOMAIN requests : CreateExternalAction(order, r, q)
      \/ \E r \in DOMAIN runs : SaveRun(r, "failed")
      \/ \E d \in DOMAIN drafts : SaveExternalAction(d, "dispatched")
      \/ CreateRelease \/ \E i \in DOMAIN releases, status \in {"deployed", "rolled_back"} : SetReleaseStatus(i, status)
  BY DEF StoreNext, StoreRestarts, StoreRestart, storeVars, rowVars, Open, Close, Migrate, Refuse, AskPaused, SetDispatchPaused
<1> QED BY <1>1, <1>2, <1>3, <1>4, <1>5

LEMMA StoreAlways == StoreInit /\ [][StoreNext \/ StoreRestarts]_storeVars => []StoreInv
<1>1. StoreInit => StoreInv BY StoreStart
<1>2. StoreInv /\ [StoreNext \/ StoreRestarts]_storeVars => StoreInv' BY SchemaStep, PolicyStep, RowsStep DEF StoreInv
<1> QED BY <1>1, <1>2, PTL

LEMMA StoreInvSound == StoreInv => StoreSound
<1> SUFFICES ASSUME StoreInv PROVE StoreSound OBVIOUS
<1>1. StoreTypeOK BY DEF StoreInv, PolicyInv, RowsInv, StoreTypeOK
<1>2. SchemaSound
  <2>1. version \in 0..Len(migrations) /\ schema = UNION {migrations[n] : n \in 1..version}
    BY MigrationsKnown DEF StoreInv, SchemaInv
  <2>2. ASSUME NEW p \in Processes, Opened(p) PROVE Known[p] <= version
    <3>1. Known[p] \in 1..9 BY StoreBounds, MigrationsKnown
    <3>2. connection[p] \in Nat /\ connection[p] <= version + 1 /\ version \in 0..9 BY DEF StoreInv, SchemaInv
    <3> QED BY <2>2, <3>1, <3>2 DEF Opened
  <2> QED BY <2>1, <2>2 DEF SchemaSound
<1>3. DecisionsSound BY DEF StoreInv, PolicyInv
<1>4. RowsSound
  <2>1. /\ runs \in Seq(RunRow) /\ requests \in Seq(RequestRow) /\ drafts \in Seq(DraftRow)
        /\ \A d \in 1..Len(drafts) : DraftSound(drafts[d])
        /\ \A d, e \in 1..Len(drafts) : d # e => drafts[d].request = 0 \/ drafts[d].request # drafts[e].request
        /\ \A o \in {1, 2} : AttemptsSound(o)
    BY DEF StoreInv, RowsInv
  <2>2. ASSUME NEW d \in DOMAIN drafts, drafts[d].request # 0
        PROVE  /\ requests[drafts[d].request].order = drafts[d].order
               /\ runs[requests[drafts[d].request].run].order = drafts[d].order
    <3>1. DraftSound(drafts[d]) BY <2>1
    <3>2. PICK q, r, order : q = drafts[d].request /\ r = drafts[d].run /\ order = drafts[d].order OBVIOUS
    <3>3. requests[q] = [order |-> order, run |-> r] /\ runs[r].order = order BY <2>2, <3>1, <3>2 DEF DraftSound
    <3>4. requests[q].order = order /\ requests[q].run = r BY <3>3
    <3> QED BY <3>2, <3>3, <3>4
  <2>3. \A d, e \in DOMAIN drafts : d # e => drafts[d].request = 0 \/ drafts[d].request # drafts[e].request BY <2>1
  <2>4. \A o \in {1, 2} : {runs[r].attempt : r \in AttemptsOf(o)} = 1..Cardinality(AttemptsOf(o))
    BY <2>1 DEF AttemptsSound
  <2> QED BY <2>2, <2>3, <2>4 DEF RowsSound
<1> QED BY <1>1, <1>2, <1>3, <1>4 DEF StoreSound

LEMMA ServicesStore == ServicesSpec => StoreInit /\ [][StoreNext \/ StoreRestarts]_storeVars
<1>1. ServicesInit => StoreInit BY DEF ServicesInit
<1>2. [ServicesNext]_serviceVars => [StoreNext \/ StoreRestarts]_storeVars
  BY DEF ServicesNext, serviceVars, IntakeStep, PreviewStep, StoreStep, FeedStep, Restart, StoreRestarts
<1> QED BY <1>1, <1>2, PTL DEF ServicesSpec

\* No build takes the schema back and a signal stays with the WorkOrder it was linked to (#migrate,
\* linkSignalToWorkOrder); a version goes back on the hub's page only by the answer to a write of
\* that page (App.tsx); for every number of processes, builds, rows and records.
THEOREM ServicesForwardHolds == ServicesSpec /\ HubSpec => ServicesForward
<1>1. StoreInv /\ [StoreNext \/ StoreRestarts]_storeVars => StoreForward
  BY SchemaStep, RowsStep DEF StoreInv, StoreForward, SignalsForward
<1>2. HubInv /\ [HubNext]_hubVars => ShownForward BY ShownStep
<1>3. StoreInv /\ [StoreNext \/ StoreRestarts]_storeVars /\ HubInv /\ [HubNext]_hubVars
        => [StoreForward /\ ShownForward]_<<storeVars, hubVars>>
  BY <1>1, <1>2
<1>4. HubSpec => HubInit /\ [][HubNext]_hubVars BY DEF HubSpec
<1> QED BY <1>3, <1>4, ServicesStore, StoreAlways, HubAlways, PTL DEF ServicesForward
-----------------------------------------------------------------------------
(* The signed Result *)

\* A version of the registry, and a later one of it: no key leaves it or moves its term.
Registry == UNION {[current : {n}, keys : [1..n -> ResultKey]] : n \in KeyIds}
Follows(ring, next) == \A k \in DOMAIN ring.keys :
  /\ k \in DOMAIN next.keys
  /\ next.keys[k].from = ring.keys[k].from /\ next.keys[k].until = ring.keys[k].until

\* What a process of this registry signs: its key was not retired when the process was started.
Attests(result) ==
  /\ result.by \in 1..Len(rings) /\ result.key \in DOMAIN rings[result.by].keys
  /\ LET key == rings[result.by].keys[result.key]
     IN key.from <= result.issued /\ result.issued <= key.until /\ key.retired = Never
  /\ result.state \in {"ready_for_review", "failed"} /\ attempt.snapshot

RingsInv ==
  /\ rings \in Seq(Registry) /\ Len(rings) \in 1..MaxRings /\ now \in Time
  /\ \A v, w \in 1..Len(rings) : v <= w => Follows(rings[v], rings[w])

SigningInv ==
  /\ RingsInv /\ attempt \in Attempt
  /\ started \in [Signers -> 1..Len(rings) \cup {NoResult}]
  /\ signing \in [Signers -> SignedResult \cup {NoResult}] /\ frozen \in SignedResult \cup {NoResult}
  /\ accepted \subseteq SignedResult \cap {frozen}
  /\ \A p \in Signers : signing[p] # NoResult => Attests(signing[p])
  /\ frozen # NoResult => Attests(frozen) /\ frozen.state = attempt.state

LEMMA RegistryShape ==
  ASSUME NEW ring \in Registry
  PROVE  /\ ring.current \in KeyIds /\ ring.current \in Nat \ {0} /\ DOMAIN ring.keys = 1..ring.current
         /\ ring.keys \in [1..ring.current -> ResultKey] /\ ring = [current |-> ring.current, keys |-> ring.keys]
         /\ ring.current \in DOMAIN ring.keys
<1>1. PICK n \in KeyIds : ring \in [current : {n}, keys : [1..n -> ResultKey]] BY DEF Registry
<1>2. n \in Nat \ {0} BY SigningBounds
<1>3. ring.current = n /\ ring.keys \in [1..n -> ResultKey] /\ ring = [current |-> ring.current, keys |-> ring.keys]
  BY <1>1
<1> QED BY <1>2, <1>3

LEMMA RegistryMade ==
  ASSUME NEW n \in KeyIds, NEW keys \in [1..n -> ResultKey]
  PROVE  [current |-> n, keys |-> keys] \in Registry
BY DEF Registry

LEMMA FollowsSelf == \A ring : Follows(ring, ring)
BY DEF Follows

LEMMA FollowsOn ==
  ASSUME NEW a, NEW b, NEW c, Follows(a, b), Follows(b, c)
  PROVE  Follows(a, c)
BY DEF Follows

\* A key is retired or revoked.
LEMMA KeyChanged ==
  ASSUME NEW ring \in Registry, NEW k \in DOMAIN ring.keys, NEW key \in ResultKey,
         key.from = ring.keys[k].from, key.until = ring.keys[k].until,
         NEW next, next = [ring EXCEPT !.keys[k] = key]
  PROVE  next \in Registry /\ Follows(ring, next)
<1> DEFINE keys == [ring.keys EXCEPT ![k] = key]
<1>1. /\ ring.current \in KeyIds /\ DOMAIN ring.keys = 1..ring.current
      /\ ring.keys \in [1..ring.current -> ResultKey] /\ ring = [current |-> ring.current, keys |-> ring.keys]
  BY RegistryShape
<1>2. next = [current |-> ring.current, keys |-> keys] BY <1>1
<1>3. keys \in [1..ring.current -> ResultKey] BY <1>1
<1>4. \A i \in 1..ring.current : keys[i] = IF i = k THEN key ELSE ring.keys[i] BY <1>1
<1> HIDE DEF keys
<1>5. next \in Registry BY <1>1, <1>2, <1>3, RegistryMade
<1>6. next.keys = keys /\ DOMAIN keys = 1..ring.current
  <2>1. PICK made : made = keys OBVIOUS
  <2>2. next = [current |-> ring.current, keys |-> made] BY <1>2, <2>1
  <2> QED BY <1>3, <2>1, <2>2
<1>7. Follows(ring, next) BY <1>1, <1>4, <1>6 DEF Follows
<1> QED BY <1>5, <1>7

LEMMA RetiredOK ==
  ASSUME now \in Time, NEW ring \in Registry, NEW k \in DOMAIN ring.keys, NEW next \in Retired(ring, k)
  PROVE  next \in Registry /\ Follows(ring, next)
<1>1. ring.keys[k] \in ResultKey BY RegistryShape
<1>2. PICK t \in Boundaries : next = [ring EXCEPT !.keys[k].retired = t] BY DEF Retired
<1>3. t \in 0..Never BY SigningBounds DEF Boundaries, Never, Time
<1> DEFINE key == [ring.keys[k] EXCEPT !.retired = t]
<1>4. key \in ResultKey /\ key.from = ring.keys[k].from /\ key.until = ring.keys[k].until BY <1>1, <1>3 DEF ResultKey
<1>5. next = [ring EXCEPT !.keys[k] = key] BY <1>2
<1> HIDE DEF key
<1> QED BY <1>4, <1>5, KeyChanged

LEMMA RevokedOK ==
  ASSUME NEW ring \in Registry, NEW k \in DOMAIN ring.keys, NEW next, next = [ring EXCEPT !.keys[k].revoked = TRUE]
  PROVE  next \in Registry /\ Follows(ring, next)
<1>1. ring.keys[k] \in ResultKey BY RegistryShape
<1> DEFINE key == [ring.keys[k] EXCEPT !.revoked = TRUE]
<1>2. key \in ResultKey /\ key.from = ring.keys[k].from /\ key.until = ring.keys[k].until BY <1>1 DEF ResultKey
<1>3. next = [ring EXCEPT !.keys[k] = key] OBVIOUS
<1> HIDE DEF key
<1> QED BY <1>2, <1>3, KeyChanged

LEMMA RotatedOK ==
  ASSUME now \in Time, NEW ring \in Registry, NEW next \in Rotated(ring)
  PROVE  next \in Registry /\ Follows(ring, next) /\ ring.current \in DOMAIN next.keys
<1> DEFINE k     == ring.current + 1
           added == [from |-> now, until |-> now + 2, retired |-> Never, revoked |-> FALSE]
           keys  == [i \in 1..k |-> IF i = k THEN added ELSE ring.keys[i]]
<1>1. /\ ring.current \in Nat \ {0} /\ DOMAIN ring.keys = 1..ring.current
      /\ ring.keys \in [1..ring.current -> ResultKey]
  BY RegistryShape
<1>2. k \in KeyIds /\ next = [current |-> k, keys |-> keys] BY DEF Rotated
<1>3. added \in ResultKey BY SigningBounds DEF ResultKey, Time, Never
<1> HIDE DEF added
<1>4. \A i \in 1..k : i = k \/ i \in 1..ring.current BY <1>1
<1>5. keys \in [1..k -> ResultKey] BY <1>1, <1>3, <1>4
<1>6. \A i \in 1..ring.current : i \in 1..k /\ keys[i] = ring.keys[i] BY <1>1
<1> HIDE DEF keys
<1>7. next \in Registry BY <1>2, <1>5, RegistryMade
<1>8. next.keys = keys /\ DOMAIN next.keys = 1..k BY <1>2, <1>5
<1>9. ring.current \in 1..ring.current BY <1>1
<1> QED BY <1>1, <1>6, <1>7, <1>8, <1>9 DEF Follows

LEMMA WriteRingStep ==
  ASSUME RingsInv, WriteRing
  PROVE  /\ RingsInv' /\ Len(rings') = Len(rings) + 1
         /\ \A v \in 1..Len(rings) : rings'[v] = rings[v]
<1> DEFINE n    == Len(rings)
           ring == rings[n]
<1>1. rings \in Seq(Registry) /\ n \in 1..MaxRings /\ n < MaxRings /\ MaxRings \in Nat /\ now \in Time
  BY SigningBounds DEF RingsInv, WriteRing
<1>2. ring \in Registry /\ ring.current \in DOMAIN ring.keys
  <2>1. ring \in Registry BY <1>1
  <2> QED BY <2>1, RegistryShape
<1>3. PICK next \in Rotated(ring)
                    \cup (UNION {Retired(r, ring.current) : r \in Rotated(ring)})
                    \cup (UNION {Retired(ring, k) : k \in {i \in DOMAIN ring.keys : ring.keys[i].retired = Never}})
                    \cup {[ring EXCEPT !.keys[k].revoked = TRUE] : k \in DOMAIN ring.keys} :
        rings' = Append(rings, next)
  BY DEF WriteRing
<1>4. next \in Registry /\ Follows(ring, next)
  <2> HIDE DEF ring, n
  <2>1. CASE next \in Rotated(ring) BY <1>1, <1>2, <2>1, RotatedOK
  <2>2. ASSUME NEW r \in Rotated(ring), next \in Retired(r, ring.current) PROVE next \in Registry /\ Follows(ring, next)
    <3>1. r \in Registry /\ Follows(ring, r) /\ ring.current \in DOMAIN r.keys BY <1>1, <1>2, RotatedOK
    <3>2. next \in Registry /\ Follows(r, next) BY <1>1, <2>2, <3>1, RetiredOK
    <3> QED BY <3>1, <3>2, FollowsOn
  <2>3. ASSUME NEW k \in DOMAIN ring.keys, next \in Retired(ring, k) PROVE next \in Registry /\ Follows(ring, next)
    BY <1>1, <1>2, <2>3, RetiredOK
  <2>4. ASSUME NEW k \in DOMAIN ring.keys, next = [ring EXCEPT !.keys[k].revoked = TRUE]
        PROVE  next \in Registry /\ Follows(ring, next)
    BY <1>2, <2>4, RevokedOK
  <2> QED BY <1>3, <2>1, <2>2, <2>3, <2>4
<1>5. /\ rings' \in Seq(Registry) /\ Len(rings') = n + 1
      /\ \A v \in 1..Len(rings') : rings'[v] = IF v = n + 1 THEN next ELSE rings[v]
  BY <1>1, <1>3, <1>4, AppendProperties
<1>6. now' = now BY DEF WriteRing
<1>7. ASSUME NEW v \in 1..Len(rings'), NEW w \in 1..Len(rings'), v <= w
      PROVE  Follows(rings'[v], rings'[w])
  <2>1. CASE v = w BY <2>1, FollowsSelf
  <2>2. CASE w \in 1..n
    <3>1. v \in 1..n /\ rings'[v] = rings[v] /\ rings'[w] = rings[w] BY <1>1, <1>5, <1>7, <2>2
    <3> QED BY <1>7, <2>2, <3>1 DEF RingsInv
  <2>3. CASE v # w /\ w \notin 1..n
    <3>1. w = n + 1 /\ v \in 1..n /\ rings'[w] = next /\ rings'[v] = rings[v] BY <1>1, <1>5, <1>7, <2>3
    <3>2. Follows(rings[v], ring)
      <4>1. v <= n /\ n \in 1..n BY <1>1, <3>1
      <4> QED BY <3>1, <4>1 DEF RingsInv
    <3> QED BY <1>4, <3>1, <3>2, FollowsOn
  <2> QED BY <2>1, <2>2, <2>3
<1>8. Len(rings') \in 1..MaxRings /\ \A v \in 1..n : rings'[v] = rings[v] BY <1>1, <1>5
<1> QED BY <1>1, <1>5, <1>6, <1>7, <1>8 DEF RingsInv
-----------------------------------------------------------------------------
\* The registry is only written to, and a snapshot stays.
Kept ==
  /\ RingsInv' /\ Len(rings) <= Len(rings') /\ \A v \in 1..Len(rings) : rings'[v] = rings[v]
  /\ attempt.snapshot => attempt'.snapshot

LEMMA AttestsKept ==
  ASSUME SigningInv, Kept, NEW result, Attests(result)
  PROVE  Attests(result)'
<1>1. Len(rings) \in Nat /\ Len(rings') \in Nat BY DEF SigningInv, RingsInv, Kept
<1>2. result.by \in 1..Len(rings) BY DEF Attests
<1>3. result.by \in 1..Len(rings') /\ rings'[result.by] = rings[result.by] BY <1>1, <1>2 DEF Kept
<1> QED BY <1>3 DEF Attests, Kept

\* What is signed or frozen and does not move stays so.
LEMMA SignedKept ==
  ASSUME SigningInv, Kept
  PROVE  /\ started' = started => started' \in [Signers -> 1..Len(rings') \cup {NoResult}]
         /\ \A p \in Signers : signing'[p] = signing[p] /\ signing[p] # NoResult => Attests(signing[p])'
         /\ frozen # NoResult => Attests(frozen) /\ (frozen' = frozen => Attests(frozen)')
<1>1. Len(rings) \in Nat /\ Len(rings') \in Nat /\ Len(rings) <= Len(rings') BY DEF SigningInv, RingsInv, Kept
<1>2. 1..Len(rings) \subseteq 1..Len(rings') BY <1>1
<1>3. ASSUME NEW p \in Signers, signing'[p] = signing[p], signing[p] # NoResult PROVE Attests(signing[p])'
  <2>1. PICK result : result = signing[p] OBVIOUS
  <2>2. Attests(result)' BY <1>3, <2>1, AttestsKept DEF SigningInv
  <2> QED BY <1>3, <2>1, <2>2 DEF Attests
<1>4. ASSUME frozen # NoResult, frozen' = frozen PROVE Attests(frozen)'
  <2>1. PICK result : result = frozen OBVIOUS
  <2>2. Attests(result)' BY <1>4, <2>1, AttestsKept DEF SigningInv
  <2> QED BY <1>4, <2>1, <2>2 DEF Attests
<1> QED BY <1>2, <1>3, <1>4 DEF SigningInv

LEMMA KeptHere ==
  ASSUME SigningInv, UNCHANGED rings, now' \in Time, attempt.snapshot => attempt'.snapshot
  PROVE  Kept
<1>1. Len(rings) \in Nat BY DEF SigningInv, RingsInv
<1> QED BY <1>1 DEF Kept, SigningInv, RingsInv

\* Nobody signs, freezes or admits anything.
LEMMA SigningIdle ==
  ASSUME SigningInv, Kept, attempt' \in Attempt, UNCHANGED <<started, signing, frozen, accepted>>,
         frozen # NoResult => attempt'.state = attempt.state
  PROVE  SigningInv'
<1>1. RingsInv' BY DEF Kept
<1>2. started' \in [Signers -> 1..Len(rings') \cup {NoResult}] BY SignedKept
<1>3. \A p \in Signers : signing'[p] # NoResult => Attests(signing[p])' BY SignedKept
<1>4. frozen' # NoResult => Attests(frozen)' /\ frozen'.state = attempt'.state BY SignedKept DEF SigningInv
<1> QED BY <1>1, <1>2, <1>3, <1>4 DEF SigningInv

LEMMA OwnerSteps ==
  ASSUME SigningInv, WriteRing \/ WritePem \/ SetClock
  PROVE  SigningInv'
<1>1. UNCHANGED <<attempt, started, signing, frozen, accepted>> /\ attempt \in Attempt
  BY DEF WriteRing, WritePem, SetClock, processVars, SigningInv
<1>2. Kept
  <2>1. CASE WriteRing
    <3>1. Len(rings) \in Nat BY DEF SigningInv, RingsInv
    <3> QED BY <1>1, <2>1, <3>1, WriteRingStep DEF Kept, SigningInv
  <2>2. CASE WritePem BY <1>1, <2>2, KeptHere DEF WritePem, SigningInv, RingsInv
  <2>3. CASE SetClock BY <1>1, <2>3, KeptHere DEF SetClock, ownerVars
  <2> QED BY <2>1, <2>2, <2>3
<1> QED BY <1>1, <1>2, SigningIdle

LEMMA AttemptSteps ==
  ASSUME SigningInv, (\E p \in Signers : CaptureSnapshot(p)) \/ Commit \/ Finish
  PROVE  SigningInv'
<1>1. UNCHANGED <<rings, started, signing, frozen, accepted, now>> /\ attempt \in Attempt /\ now \in Time
  BY DEF CaptureSnapshot, Commit, Finish, processVars, ownerVars, SigningInv, RingsInv
<1>2. attempt' \in Attempt /\ (attempt.snapshot => attempt'.snapshot)
  <2>1. CASE \E p \in Signers : CaptureSnapshot(p)
    <3>1. attempt' = [attempt EXCEPT !.state = "running", !.snapshot = TRUE, !.captured = now]
      BY <2>1 DEF CaptureSnapshot
    <3> QED BY <1>1, <3>1 DEF Attempt, States
  <2>2. CASE Commit
    <3>1. attempt' = [attempt EXCEPT !.candidate = TRUE, !.committed = now] BY <2>2 DEF Commit
    <3> QED BY <1>1, <3>1 DEF Attempt
  <2>3. CASE Finish
    <3>1. PICK s \in {"failed", "interrupted", "ready_for_review"} : attempt' = [attempt EXCEPT !.state = s, !.finished = now]
      BY <2>3 DEF Finish
    <3> QED BY <1>1, <3>1 DEF Attempt, States
  <2> QED BY <2>1, <2>2, <2>3
<1>3. frozen = NoResult
  <2>1. attempt.state \in {"absent", "running"} BY DEF CaptureSnapshot, Commit, Finish, Executing
  <2> QED BY <2>1 DEF SigningInv, Attests
<1>4. Kept BY <1>1, <1>2, KeptHere
<1> QED BY <1>1, <1>2, <1>3, <1>4, SigningIdle

LEMMA BootSteps ==
  ASSUME SigningInv, NEW p \in Signers, Boot(p) \/ Exit(p)
  PROVE  SigningInv'
<1>1. UNCHANGED <<rings, attempt, frozen, accepted, now>> BY DEF Boot, Exit, ownerVars
<1>2. Kept BY <1>1, KeptHere DEF SigningInv, RingsInv
<1>3. started' \in [Signers -> 1..Len(rings') \cup {NoResult}]
  <2>1. Len(rings) \in 1..Len(rings) BY DEF SigningInv, RingsInv
  <2> QED BY <1>1, <2>1 DEF Boot, Exit, SigningInv
<1>4. /\ signing' \in [Signers -> SignedResult \cup {NoResult}]
      /\ \A q \in Signers : signing'[q] # NoResult => signing'[q] = signing[q]
  BY DEF Boot, Exit, SigningInv
<1>5. \A q \in Signers : signing'[q] # NoResult => Attests(signing[q])' BY <1>2, <1>4, SignedKept
<1>6. frozen' # NoResult => Attests(frozen)' /\ frozen'.state = attempt'.state BY <1>1, <1>2, SignedKept DEF SigningInv
<1> QED BY <1>1, <1>2, <1>3, <1>4, <1>5, <1>6 DEF SigningInv, Kept

LEMMA SignStep ==
  ASSUME SigningInv, NEW p \in Signers, Sign(p)
  PROVE  SigningInv'
<1> DEFINE result == [key |-> Ring(p).current, issued |-> now, state |-> attempt.state, by |-> started[p]]
<1>1. /\ UNCHANGED <<rings, started, attempt, frozen, accepted, now>> /\ VerifyResult(result, Ring(p), FALSE)
      /\ signing' = [signing EXCEPT ![p] = result] /\ Terminal /\ attempt.snapshot
  BY DEF Sign, ownerVars
<1>2. started[p] \in 1..Len(rings) /\ rings[started[p]] \in Registry /\ Len(rings) \in 1..MaxRings /\ now \in Time
      /\ attempt \in Attempt
  BY DEF Sign, SigningInv, RingsInv
<1>3. Ring(p) \in Registry BY <1>2 DEF Ring
<1>4. result.by \in 1..MaxRings BY <1>2, SigningBounds
<1>5. result \in SignedResult BY <1>2, <1>3, <1>4, RegistryShape DEF SignedResult, Attempt
<1>6. Attests(result) BY <1>1, <1>2 DEF VerifyResult, Attests, Terminal, Ring
<1> HIDE DEF result
<1>7. PICK made : made = result OBVIOUS
<1>8. Kept BY <1>1, <1>2, KeptHere
<1>9. Attests(made)' BY <1>6, <1>7, <1>8, AttestsKept
<1>10. signing' \in [Signers -> SignedResult \cup {NoResult}] /\ \A q \in Signers : signing'[q] = IF q = p THEN made ELSE signing[q]
  BY <1>1, <1>5, <1>7 DEF SigningInv
<1>11. ASSUME NEW q \in Signers, signing'[q] # NoResult PROVE Attests(signing[q])'
  <2>1. CASE q = p BY <1>9, <1>10, <2>1 DEF Attests
  <2>2. CASE q # p BY <1>8, <1>10, <1>11, <2>2, SignedKept
  <2> QED BY <2>1, <2>2
<1>12. frozen' # NoResult => Attests(frozen)' /\ frozen'.state = attempt'.state BY <1>1, <1>8, SignedKept DEF SigningInv
<1>13. started' \in [Signers -> 1..Len(rings') \cup {NoResult}] BY <1>1, <1>8, SignedKept
<1> QED BY <1>1, <1>8, <1>10, <1>11, <1>12, <1>13 DEF SigningInv, Kept

LEMMA FreezeStep ==
  ASSUME SigningInv, NEW p \in Signers, Freeze(p)
  PROVE  SigningInv'
<1>1. /\ UNCHANGED <<rings, started, attempt, accepted, now>> /\ signing' = [signing EXCEPT ![p] = NoResult]
      /\ signing[p] # NoResult /\ signing[p].state = attempt.state
      /\ frozen' = IF frozen = NoResult THEN signing[p] ELSE frozen
  BY DEF Freeze, ownerVars
<1>2. Kept BY <1>1, KeptHere DEF SigningInv, RingsInv
<1>3. /\ signing' \in [Signers -> SignedResult \cup {NoResult}]
      /\ \A q \in Signers : signing'[q] # NoResult => signing'[q] = signing[q]
  BY <1>1 DEF SigningInv
<1>4. \A q \in Signers : signing'[q] # NoResult => Attests(signing[q])' BY <1>2, <1>3, SignedKept
<1>5. frozen' \in SignedResult /\ Attests(frozen)' /\ frozen'.state = attempt'.state
  <2>1. PICK result : result = IF frozen = NoResult THEN signing[p] ELSE frozen OBVIOUS
  <2>2. result \in SignedResult /\ Attests(result) /\ result.state = attempt.state BY <1>1, <2>1 DEF SigningInv
  <2>3. Attests(result)' BY <1>2, <2>2, AttestsKept
  <2> QED BY <1>1, <2>1, <2>2, <2>3 DEF Attests
<1>6. accepted' \subseteq SignedResult \cap {frozen'}
  <2>1. frozen = NoResult => accepted = {} BY ResultSentinel DEF SigningInv
  <2> QED BY <1>1, <2>1 DEF SigningInv
<1>7. started' \in [Signers -> 1..Len(rings') \cup {NoResult}] BY <1>1, <1>2, SignedKept
<1> QED BY <1>1, <1>2, <1>3, <1>4, <1>5, <1>6, <1>7 DEF SigningInv, Kept

LEMMA ConsumeStep ==
  ASSUME SigningInv, NEW p \in Signers, Consume(p)
  PROVE  SigningInv'
<1>1. UNCHANGED <<rings, started, attempt, signing, frozen, now>> /\ accepted' = accepted \cup {frozen} /\ frozen # NoResult
  BY DEF Consume, ownerVars
<1>2. Kept BY <1>1, KeptHere DEF SigningInv, RingsInv
<1>3. started' \in [Signers -> 1..Len(rings') \cup {NoResult}] BY <1>1, <1>2, SignedKept
<1>4. \A q \in Signers : signing'[q] # NoResult => Attests(signing[q])' BY <1>1, <1>2, SignedKept
<1>5. frozen' # NoResult => Attests(frozen)' /\ frozen'.state = attempt'.state BY <1>1, <1>2, SignedKept DEF SigningInv
<1> QED BY <1>1, <1>2, <1>3, <1>4, <1>5 DEF SigningInv, Kept

LEMMA SigningStart ==
  ASSUME SigningInit
  PROVE  SigningInv
<1> DEFINE key(until) == [from |-> 0, until |-> until, retired |-> Never, revoked |-> FALSE]
           ring(until) == [current |-> 1, keys |-> [k \in {1} |-> key(until)]]
<1>1. PICK until \in {0, 2} : rings = << ring(until) >> BY DEF SigningInit
<1>2. key(until) \in ResultKey BY SigningBounds DEF ResultKey, Time, Never
<1>3. 1..1 = {1} OBVIOUS
<1> HIDE DEF key
<1>4. [k \in {1} |-> key(until)] \in [1..1 -> ResultKey] BY <1>2, <1>3
<1>5. ring(until) \in Registry BY <1>4, SigningBounds, RegistryMade
<1> HIDE DEF ring
<1>6. rings \in Seq(Registry) /\ Len(rings) = 1 BY <1>1, <1>5
<1>7. Len(rings) \in 1..MaxRings /\ 0 \in Time BY <1>6, SigningBounds DEF Time
<1>8. \A v, w \in 1..Len(rings) : v = w BY <1>6
<1>9. RingsInv BY <1>6, <1>7, <1>8, FollowsSelf DEF RingsInv, SigningInit
<1>10. attempt \in Attempt
  <2>1. PICK state \in {"absent", "running"} : attempt = [state |-> state, snapshot |-> FALSE, candidate |-> FALSE,
                                                          captured |-> 0, committed |-> 0, finished |-> 0]
    BY DEF SigningInit
  <2> QED BY <1>7, <2>1 DEF Attempt, States
<1> QED BY <1>9, <1>10 DEF SigningInit, SigningInv

LEMMA SigningAlways == SigningSpec => []SigningInv
<1>1. SigningInit => SigningInv BY SigningStart
<1>2. SigningInv /\ [SigningNext]_signingVars => SigningInv'
  <2> SUFFICES ASSUME SigningInv, [SigningNext]_signingVars PROVE SigningInv' OBVIOUS
  <2>1. CASE UNCHANGED signingVars
    <3>1. UNCHANGED <<rings, started, attempt, signing, frozen, accepted, now>> BY <2>1 DEF signingVars
    <3>2. Kept BY <3>1, KeptHere DEF SigningInv, RingsInv
    <3> QED BY <3>1, <3>2, SigningIdle DEF SigningInv
  <2>2. ASSUME NEW p \in Signers, Boot(p) \/ Exit(p) \/ Sign(p) \/ Freeze(p) \/ Consume(p) PROVE SigningInv'
    BY <2>2, BootSteps, SignStep, FreezeStep, ConsumeStep
  <2> QED BY <2>1, <2>2, AttemptSteps, OwnerSteps DEF SigningNext
<1> QED BY <1>1, <1>2, PTL DEF SigningSpec

LEMMA SigningInvSound == SigningInv => ResultSound
<1> SUFFICES ASSUME SigningInv PROVE ResultSound OBVIOUS
<1>1. SigningTypeOK
  <2>1. ASSUME NEW v \in DOMAIN rings
        PROVE  DOMAIN rings[v].keys \subseteq KeyIds /\ \A k \in DOMAIN rings[v].keys : rings[v].keys[k] \in ResultKey
    <3>1. rings[v] \in Registry BY DEF SigningInv, RingsInv
    <3> QED BY <3>1, RegistryShape, SigningBounds
  <2> QED BY <2>1 DEF SigningTypeOK, SigningInv, RingsInv
<1>2. OneResult BY DEF OneResult, SigningInv, Attests
<1>3. Auditable
  <2> SUFFICES ASSUME frozen # NoResult, frozen.issued <= now, NEW v \in frozen.by..Len(rings)
               PROVE  VerifyResult(frozen, rings[v], TRUE)
                      \/ (rings[v].keys[frozen.key].retired <= frozen.issued /\ rings[frozen.by].keys[frozen.key].retired = Never)
    BY DEF Auditable
  <2>1. Attests(frozen) /\ frozen \in SignedResult BY DEF SigningInv
  <2>2. v \in 1..Len(rings) /\ frozen.by \in 1..Len(rings) /\ frozen.by <= v /\ rings[v] \in Registry
    <3>1. rings \in Seq(Registry) /\ Len(rings) \in Nat /\ frozen.by \in 1..Len(rings)
      BY <2>1 DEF Attests, SigningInv, RingsInv
    <3>2. v \in 1..Len(rings) /\ frozen.by <= v BY ONLY <3>1, v \in frozen.by..Len(rings)
    <3> QED BY ONLY <3>1, <3>2
  <2>3. Follows(rings[frozen.by], rings[v]) BY <2>2 DEF SigningInv, RingsInv
  <2> DEFINE key == rings[v].keys[frozen.key]
  <2>4. /\ frozen.key \in DOMAIN rings[v].keys
        /\ key.from <= frozen.issued /\ frozen.issued <= key.until
        /\ rings[frozen.by].keys[frozen.key].retired = Never
    BY <2>1, <2>3 DEF Attests, Follows
  <2>5. key \in ResultKey BY <2>2, <2>4, RegistryShape
  <2>6. key.retired \in Int /\ frozen.issued \in Int BY <2>1, <2>5, SigningBounds DEF ResultKey, SignedResult, Time, Never
  <2>7. frozen.issued < key.retired \/ key.retired <= frozen.issued BY <2>6
  <2> QED BY <2>4, <2>7 DEF VerifyResult
<1> QED BY <1>1, <1>2, <1>3 DEF ResultSound

\* The rows of the store: whatever builds open it, the schema is what its version says, each decision
\* of the owner turns the one before it, a draft is its request's alone and attempts have no gap
\* (packages/storage); and one Result of an attempt is admitted, which can be audited with every
\* later registry (producer-results.ts); for every number of processes, callers, rows and keys.
THEOREM RecordsSoundHolds == ServicesSpec /\ SigningSpec => []RecordsSound
<1>1. StoreInv /\ SigningInv => RecordsSound BY StoreInvSound, SigningInvSound DEF RecordsSound
<1> QED BY <1>1, ServicesStore, StoreAlways, SigningAlways, PTL
-----------------------------------------------------------------------------
(* Intake and Linear synchronization *)

\* An order and its issue: named by a number that was given out, or by the key of its request.
OrderOK(order) ==
  /\ order \in Order /\ order.asked \subseteq {order.issue}
  /\ order.issue \in Issues => order.issue <= fresh
  /\ order.issue \in Hosted => order.issue = order.key
  /\ order.link = "none" => order.issue = NoIssue
  /\ order.link \in {"pending", "syncing", "unknown"} => order.issue \in Issues

OrdersInv ==
  /\ orders \in Seq(Order) /\ Len(orders) <= MaxOrders /\ fresh \in 0..MaxIssues
  /\ \A o \in 1..Len(orders) : OrderOK(orders[o])
  /\ \A o, p \in 1..Len(orders) : o # p =>
       orders[o].key # orders[p].key /\ (orders[o].issue = orders[p].issue => orders[o].issue = NoIssue)

SyncInv ==
  /\ syncing \in [1..MaxOrders -> {"none", "lookup", "create"}]
  /\ \A o \in 1..MaxOrders : syncing[o] # "none" <=> o \in 1..Len(orders) /\ orders[o].link = "syncing"

\* The poll holds requests that are at Linear; the one it handles has its order, and before the
\* receipt the order has the issue of the request.
PollInv ==
  /\ poll \in Poll \cup {NoCall} /\ queue \subseteq Hosted
  /\ poll # NoCall =>
       /\ poll.left \subseteq queue
       /\ poll.step # "next" => poll.key \in queue /\ poll.order \in 1..Len(orders) /\ orders[poll.order].key = poll.key
       /\ poll.step = "receipt" => orders[poll.order].issue = poll.key

ReceiptsInv ==
  /\ receipts \in [Hosted -> 0..MaxOrders]
  /\ \A k \in Hosted : receipts[k] # 0 =>
       k \in queue /\ receipts[k] \in 1..Len(orders) /\ orders[receipts[k]].key = k /\ orders[receipts[k]].issue = k

\* Nothing appears at Linear that no order asked for.
RemoteInv == remote \subseteq Issues /\ \A i \in remote : \E o \in 1..Len(orders) : i \in orders[o].asked

CallsInv == creating \in [Creators -> [key : Local, sync : BOOLEAN] \cup {NoCall}]

IntakeInv == OrdersInv /\ SyncInv /\ PollInv /\ ReceiptsInv /\ RemoteInv /\ CallsInv

\* No order goes, changes its key or the issue it has, or forgets what it asked for.
OrdersKept ==
  /\ Len(orders) <= Len(orders')
  /\ \A o \in 1..Len(orders) :
       /\ orders'[o].key = orders[o].key /\ orders[o].asked \subseteq orders'[o].asked
       /\ orders[o].issue # NoIssue => orders'[o].issue = orders[o].issue

LEMMA KeptByOrders ==
  ASSUME IntakeInv, OrdersInv', OrdersKept
  PROVE  /\ UNCHANGED <<poll, queue>> => PollInv'
         /\ UNCHANGED <<receipts, queue>> => ReceiptsInv'
         /\ UNCHANGED remote => RemoteInv'
<1>1. Len(orders) \in Nat /\ Len(orders') \in Nat BY DEF IntakeInv, OrdersInv
<1>2. \A o \in 1..Len(orders) : o \in 1..Len(orders') BY <1>1 DEF OrdersKept
<1>3. \A k \in Hosted : k # NoIssue BY IntakeBounds
<1>4. ASSUME UNCHANGED <<poll, queue>> PROVE PollInv'
  <2>1. PollInv BY DEF IntakeInv
  <2>2. poll # NoCall /\ poll.step # "next" => poll.key \in queue /\ poll.order \in 1..Len(orders') /\ orders'[poll.order].key = poll.key
    BY <1>2, <2>1 DEF PollInv, OrdersKept
  <2>3. poll # NoCall /\ poll.step = "receipt" => orders'[poll.order].issue = poll.key
    BY <1>3, <2>1 DEF PollInv, OrdersKept
  <2> QED BY <1>4, <2>1, <2>2, <2>3 DEF PollInv
<1>5. ASSUME UNCHANGED <<receipts, queue>> PROVE ReceiptsInv'
  BY <1>2, <1>3, <1>5 DEF IntakeInv, ReceiptsInv, OrdersKept
<1>6. ASSUME UNCHANGED remote PROVE RemoteInv'
  BY <1>2, <1>6 DEF IntakeInv, RemoteInv, OrdersKept
<1> QED BY <1>4, <1>5, <1>6

LEMMA OrdersSame ==
  ASSUME IntakeInv, UNCHANGED <<orders, fresh>>
  PROVE  OrdersInv' /\ OrdersKept /\ (UNCHANGED syncing => SyncInv')
<1>1. Len(orders) \in Nat BY DEF IntakeInv, OrdersInv
<1>2. \A o \in 1..Len(orders') : OrderOK(orders[o])' BY DEF IntakeInv, OrdersInv, OrderOK
<1>3. OrdersInv' BY <1>2 DEF IntakeInv, OrdersInv
<1>4. OrdersKept BY <1>1 DEF OrdersKept
<1>5. UNCHANGED syncing => SyncInv' BY DEF IntakeInv, SyncInv
<1> QED BY <1>3, <1>4, <1>5

\* One order is written: its issue stays, is a new number, or is its own request's.
LEMMA OrderWritten ==
  ASSUME IntakeInv, NEW o \in 1..Len(orders), NEW row, OrderOK(row)', fresh' \in fresh..MaxIssues,
         row.key = orders[o].key, orders[o].asked \subseteq row.asked,
         orders[o].issue # NoIssue => row.issue = orders[o].issue,
         \/ row.issue = orders[o].issue
         \/ row.issue = fresh + 1
         \/ row.issue \in Hosted,
         orders' = [orders EXCEPT ![o] = row]
  PROVE  OrdersInv' /\ OrdersKept /\ Len(orders') = Len(orders) /\ \A p \in 1..Len(orders) : orders'[p] = IF p = o THEN row ELSE orders[p]
<1>1. orders \in Seq(Order) /\ Len(orders) \in Nat /\ fresh \in 0..MaxIssues /\ MaxIssues \in Nat /\ row \in Order
  BY IntakeBounds DEF IntakeInv, OrdersInv, OrderOK
<1>2. /\ orders' \in Seq(Order) /\ Len(orders') = Len(orders)
      /\ \A p \in 1..Len(orders) : orders'[p] = IF p = o THEN row ELSE orders[p]
  BY <1>1
<1>3. fresh' \in 0..MaxIssues /\ fresh <= fresh' BY <1>1
<1>4. ASSUME NEW p \in 1..Len(orders') PROVE OrderOK(orders[p])'
  <2>1. CASE p = o
    <3>1. orders'[p] = row BY <1>2, <2>1
    <3> QED BY <3>1 DEF OrderOK
  <2>2. CASE p # o
    <3>1. orders'[p] = orders[p] /\ OrderOK(orders[p]) BY <1>2, <2>2 DEF IntakeInv, OrdersInv
    <3>2. orders[p].issue \in Issues => orders[p].issue <= fresh' BY <1>1, <1>3, <3>1 DEF OrderOK, Issues
    <3> QED BY <3>1, <3>2 DEF OrderOK
  <2> QED BY <2>1, <2>2
<1>5. ASSUME NEW p \in 1..Len(orders), p # o
      PROVE  orders[p].key # row.key /\ (orders[p].issue = row.issue => row.issue = NoIssue)
  <2>1. orders[p].key # orders[o].key /\ (orders[p].issue = orders[o].issue => orders[o].issue = NoIssue) /\ OrderOK(orders[p])
    BY <1>5 DEF IntakeInv, OrdersInv
  <2>2. CASE row.issue = fresh + 1
    <3>1. orders[p].issue \in Issues => orders[p].issue <= fresh BY <2>1 DEF OrderOK
    <3>2. row.issue \in Issues \/ row.issue = NoIssue \/ row.issue \in Hosted BY <1>1 DEF Order
    <3>3. CASE row.issue \in Issues BY <1>1, <2>1, <2>2, <3>1, <3>3
    <3>4. CASE row.issue \in Hosted
      <4>1. row.issue = row.key BY <3>4 DEF OrderOK
      <4>2. orders[p].issue \in Hosted => orders[p].issue = orders[p].key BY <2>1 DEF OrderOK
      <4> QED BY <2>1, <3>4, <4>1, <4>2
    <3> QED BY <2>1, <3>2, <3>3, <3>4
  <2>3. CASE row.issue \in Hosted
    <3>1. row.issue = row.key BY <2>3 DEF OrderOK
    <3>2. orders[p].issue \in Hosted => orders[p].issue = orders[p].key BY <2>1 DEF OrderOK
    <3> QED BY <2>1, <2>3, <3>1, <3>2
  <2> QED BY <2>1, <2>2, <2>3
<1>6. ASSUME NEW p \in 1..Len(orders'), NEW q \in 1..Len(orders'), p # q
      PROVE  orders'[p].key # orders'[q].key /\ (orders'[p].issue = orders'[q].issue => orders'[p].issue = NoIssue)
  <2>1. CASE p = o BY <1>2, <1>5, <1>6, <2>1
  <2>2. CASE q = o BY <1>2, <1>5, <1>6, <2>2
  <2>3. CASE p # o /\ q # o
    <3>1. orders'[p] = orders[p] /\ orders'[q] = orders[q] BY <1>2, <2>3
    <3> QED BY <1>2, <1>6, <3>1 DEF IntakeInv, OrdersInv
  <2> QED BY <2>1, <2>2, <2>3
<1>7. OrdersInv' BY <1>2, <1>3, <1>4, <1>6 DEF IntakeInv, OrdersInv
<1>8. OrdersKept BY <1>1, <1>2 DEF OrdersKept
<1> QED BY <1>2, <1>7, <1>8

\* One order is added, for a key that had none.
LEMMA OrderAdded ==
  ASSUME IntakeInv, NEW k \in Keys, OfKey(k) = {}, NEW sync \in BOOLEAN, Insert(k, sync)
  PROVE  /\ OrdersInv' /\ OrdersKept /\ Len(orders') = Len(orders) + 1 /\ orders'[Len(orders')].key = k
         /\ orders'[Len(orders')].link # "syncing" /\ \A p \in 1..Len(orders) : orders'[p] = orders[p]
<1> DEFINE row == IF sync THEN Prepared(NewOrder(k)) ELSE NewOrder(k)
           n   == Len(orders)
<1>1. /\ orders \in Seq(Order) /\ n \in Nat /\ n < MaxOrders /\ fresh \in 0..MaxIssues /\ MaxIssues \in Nat
      /\ sync => fresh < MaxIssues
  BY IntakeBounds DEF IntakeInv, OrdersInv, Insert
<1>2. orders' = Append(orders, row) /\ fresh' = IF sync THEN fresh + 1 ELSE fresh BY DEF Insert
<1>3. fresh' \in fresh..MaxIssues BY <1>1, <1>2
<1>4. /\ row \in Order /\ row.key = k /\ row.asked = {} /\ row.link \in {"none", "pending"}
      /\ row.link = "none" => row.issue = NoIssue
      /\ row.link = "pending" => row.issue \in Issues /\ row.issue = fresh + 1 /\ fresh' = fresh + 1
  <2>1. CASE sync
    <3>1. row = [key |-> k, link |-> "pending", issue |-> fresh + 1, asked |-> {}]
      BY <2>1 DEF Prepared, NewOrder
    <3>2. fresh + 1 \in Issues BY <1>1, <2>1 DEF Issues
    <3> HIDE DEF row
    <3> QED BY <1>2, <2>1, <3>1, <3>2 DEF Order
  <2>2. CASE ~sync
    <3>1. row = [key |-> k, link |-> "none", issue |-> NoIssue, asked |-> {}] BY <2>2 DEF NewOrder
    <3> HIDE DEF row
    <3> QED BY <3>1 DEF Order
  <2> QED BY <2>1, <2>2
<1> HIDE DEF row
<1>5. /\ orders' \in Seq(Order) /\ Len(orders') = n + 1
      /\ \A p \in 1..Len(orders') : orders'[p] = IF p = n + 1 THEN row ELSE orders[p]
  BY <1>1, <1>2, <1>4, AppendProperties
<1>6. \A p \in 1..Len(orders') : p # n + 1 => p \in 1..n /\ orders'[p] = orders[p] BY <1>1, <1>5
<1>7. \A p \in 1..n : OrderOK(orders[p]) /\ orders[p].key # k BY <1>1 DEF IntakeInv, OrdersInv, OfKey, n
<1>8. ASSUME NEW p \in 1..Len(orders') PROVE OrderOK(orders[p])'
  <2>1. CASE p = n + 1
    <3>1. orders'[p] = row BY <1>5, <2>1
    <3>2. row.issue \notin Hosted BY <1>4, IntakeBounds
    <3>3. row.issue \in Issues => row.issue <= fresh' BY <1>1, <1>4, IntakeBounds
    <3> QED BY <1>4, <3>1, <3>2, <3>3 DEF OrderOK
  <2>2. CASE p # n + 1
    <3>1. orders'[p] = orders[p] /\ OrderOK(orders[p]) BY <1>6, <1>7, <2>2
    <3>2. orders[p].issue \in Issues => orders[p].issue <= fresh' BY <1>1, <1>3, <3>1 DEF OrderOK, Issues
    <3> QED BY <3>1, <3>2 DEF OrderOK
  <2> QED BY <2>1, <2>2
<1>9. ASSUME NEW p \in 1..n PROVE orders[p].key # row.key /\ orders[p].issue = row.issue => row.issue = NoIssue
  <2>1. row.link = "pending" => orders[p].issue # row.issue BY <1>1, <1>4, <1>7 DEF OrderOK, Issues
  <2> QED BY <1>4, <2>1
<1>10. ASSUME NEW p \in 1..Len(orders'), NEW q \in 1..Len(orders'), p # q
       PROVE  orders'[p].key # orders'[q].key /\ (orders'[p].issue = orders'[q].issue => orders'[p].issue = NoIssue)
  <2>1. CASE p = n + 1
    <3>1. q \in 1..n /\ orders'[q] = orders[q] /\ orders'[p] = row BY <1>5, <1>6, <1>10, <2>1
    <3> QED BY <1>4, <1>7, <1>9, <3>1
  <2>2. CASE q = n + 1
    <3>1. p \in 1..n /\ orders'[p] = orders[p] /\ orders'[q] = row BY <1>5, <1>6, <1>10, <2>2
    <3> QED BY <1>4, <1>7, <1>9, <3>1
  <2>3. CASE p # n + 1 /\ q # n + 1
    <3>1. p \in 1..n /\ q \in 1..n /\ orders'[p] = orders[p] /\ orders'[q] = orders[q] BY <1>6, <2>3
    <3> QED BY <1>10, <3>1 DEF IntakeInv, OrdersInv, n
  <2> QED BY <2>1, <2>2, <2>3
<1>11. fresh' \in 0..MaxIssues /\ Len(orders') <= MaxOrders BY <1>1, <1>3, <1>5 DEF MaxOrders
<1>12. OrdersInv' BY <1>5, <1>8, <1>10, <1>11 DEF OrdersInv
<1>13. Len(orders') \in 1..Len(orders') /\ orders'[Len(orders')] = row BY <1>1, <1>5
<1>14. \A p \in 1..n : p \in 1..Len(orders') /\ orders'[p] = orders[p] BY <1>1, <1>5
<1>15. OrdersKept BY <1>1, <1>5, <1>14 DEF OrdersKept, n
<1> QED BY <1>4, <1>5, <1>12, <1>13, <1>14, <1>15 DEF n
-----------------------------------------------------------------------------
\* A step of a synchronization: the order is synchronizing after it if and only if the step says so.
LEMMA SyncWritten ==
  ASSUME IntakeInv, NEW o \in 1..Len(orders), NEW step \in {"none", "lookup", "create"},
         syncing' = [syncing EXCEPT ![o] = step], OrdersInv',
         Len(orders') = Len(orders), \A p \in 1..Len(orders) : p # o => orders'[p].link = orders[p].link,
         step # "none" <=> orders'[o].link = "syncing"
  PROVE  SyncInv'
<1>1. o \in 1..MaxOrders BY DEF IntakeInv, OrdersInv, MaxOrders
<1>2. \A p \in 1..MaxOrders : syncing'[p] = IF p = o THEN step ELSE syncing[p] BY DEF IntakeInv, SyncInv
<1>3. ASSUME NEW p \in 1..MaxOrders PROVE syncing'[p] # "none" <=> p \in 1..Len(orders') /\ orders'[p].link = "syncing"
  <2>1. CASE p = o BY <1>2, <2>1
  <2>2. CASE p # o
    <3>1. syncing'[p] = syncing[p] BY <1>2, <2>2
    <3> QED BY <2>2, <3>1 DEF IntakeInv, SyncInv
  <2> QED BY <2>1, <2>2
<1>4. syncing' \in [1..MaxOrders -> {"none", "lookup", "create"}] BY <1>1 DEF IntakeInv, SyncInv
<1> QED BY <1>3, <1>4 DEF SyncInv

LEMMA SyncRow ==
  ASSUME IntakeInv, NEW o \in 1..Len(orders), NEW step \in {"none", "lookup", "create"},
         NEW row, OrderOK(row)', fresh' \in fresh..MaxIssues,
         row.key = orders[o].key, orders[o].asked \subseteq row.asked,
         orders[o].issue # NoIssue => row.issue = orders[o].issue,
         row.issue = orders[o].issue \/ row.issue = fresh + 1,
         orders' = [orders EXCEPT ![o] = row], syncing' = [syncing EXCEPT ![o] = step],
         step # "none" <=> row.link = "syncing",
         UNCHANGED <<creating, poll, queue, receipts, remote>>
  PROVE  IntakeInv'
<1>1. OrdersInv' /\ OrdersKept /\ Len(orders') = Len(orders) /\ \A p \in 1..Len(orders) : orders'[p] = IF p = o THEN row ELSE orders[p]
  BY OrderWritten
<1>2. SyncInv' BY <1>1, SyncWritten
<1> QED BY <1>1, <1>2, KeptByOrders DEF IntakeInv, CallsInv

LEMMA SyncBegins ==
  ASSUME IntakeInv, NEW o \in 1..Len(orders), Sync(o)
  PROVE  IntakeInv'
<1>1. /\ OrderOK(orders[o]) /\ fresh \in 0..MaxIssues /\ MaxIssues \in Nat /\ syncing[o] = "none" /\ orders[o].link # "synced"
      /\ UNCHANGED <<creating, poll, queue, receipts, remote>> /\ syncing' = [syncing EXCEPT ![o] = "lookup"]
  BY IntakeBounds DEF Sync, IntakeInv, OrdersInv, Step
<1>2. orders[o] \in Order BY <1>1 DEF OrderOK
<1>3. CASE orders[o].link = "none"
  <2> DEFINE row == [orders[o] EXCEPT !.link = "syncing", !.issue = fresh + 1]
  <2>1. orders' = [orders EXCEPT ![o] = row] /\ fresh' = fresh + 1 /\ fresh < MaxIssues
    BY <1>2, <1>3 DEF Sync, Prepared, Order
  <2>2. fresh + 1 \in Issues /\ fresh' \in fresh..MaxIssues BY <1>1, <2>1 DEF Issues
  <2>3. /\ row \in Order /\ row.key = orders[o].key /\ row.asked = orders[o].asked /\ row.link = "syncing"
        /\ row.issue = fresh + 1
    BY <1>2, <2>2 DEF Order
  <2> HIDE DEF row
  <2>4. orders[o].issue = NoIssue /\ orders[o].asked = {}
    <3>1. orders[o].issue = NoIssue BY <1>1, <1>3 DEF OrderOK
    <3>2. orders[o].asked \subseteq Issues /\ orders[o].asked \subseteq {NoIssue} BY <1>1, <1>2, <3>1 DEF OrderOK, Order
    <3> QED BY <3>1, <3>2, IntakeBounds
  <2>5. PICK made : made = row OBVIOUS
  <2>6. OrderOK(made)'
    <3>1. made.issue \in Issues /\ made.issue \notin Hosted /\ made.issue <= fresh' /\ made.asked = {}
      BY <1>1, <2>1, <2>2, <2>3, <2>4, <2>5, IntakeBounds
    <3> QED BY <2>3, <2>5, <3>1 DEF OrderOK
  <2> QED BY <1>1, <2>1, <2>2, <2>3, <2>4, <2>5, <2>6, SyncRow
<1>4. CASE orders[o].link # "none"
  <2> DEFINE row == [orders[o] EXCEPT !.link = "syncing"]
  <2>1. orders' = [orders EXCEPT ![o] = row] /\ fresh' = fresh BY <1>4 DEF Sync
  <2>2. /\ row \in Order /\ row.key = orders[o].key /\ row.asked = orders[o].asked /\ row.link = "syncing"
        /\ row.issue = orders[o].issue
    BY <1>2 DEF Order
  <2>3. orders[o].issue \in Issues BY <1>1, <1>2, <1>4 DEF OrderOK, Order
  <2> HIDE DEF row
  <2>4. PICK made : made = row OBVIOUS
  <2>5. OrderOK(made)' BY <1>1, <2>1, <2>2, <2>3, <2>4 DEF OrderOK
  <2>6. fresh' \in fresh..MaxIssues BY <1>1, <2>1
  <2> QED BY <1>1, <2>1, <2>2, <2>4, <2>5, <2>6, SyncRow
<1> QED BY <1>3, <1>4

\* What a synchronization under way has: its order is marked and has its number.
LEMMA Syncing ==
  ASSUME IntakeInv, NEW o \in 1..Len(orders), syncing[o] # "none"
  PROVE  OrderOK(orders[o]) /\ orders[o] \in Order /\ orders[o].link = "syncing" /\ orders[o].issue \in Issues
<1>1. o \in 1..MaxOrders BY DEF IntakeInv, OrdersInv, MaxOrders
<1>2. orders[o].link = "syncing" BY <1>1 DEF IntakeInv, SyncInv
<1>3. OrderOK(orders[o]) BY DEF IntakeInv, OrdersInv
<1> QED BY <1>2, <1>3 DEF OrderOK

LEMMA SyncEnds ==
  ASSUME IntakeInv, NEW o \in 1..Len(orders), Found(o) \/ Created(o) \/ SyncFails(o)
  PROVE  IntakeInv'
<1>1. /\ syncing[o] # "none" /\ UNCHANGED <<creating, poll, queue, receipts, remote, fresh>>
      /\ syncing' = [syncing EXCEPT ![o] = "none"]
  BY DEF Found, Created, Synced, SyncFails, Step
<1>2. PICK link \in {"synced", "unknown"} : orders' = [orders EXCEPT ![o].link = link]
  BY DEF Found, Created, Synced, SyncFails, Link
<1>3. OrderOK(orders[o]) /\ orders[o] \in Order /\ orders[o].issue \in Issues BY <1>1, Syncing
<1> DEFINE row == [orders[o] EXCEPT !.link = link]
<1>4. orders' = [orders EXCEPT ![o] = row] BY <1>2
<1>5. /\ row \in Order /\ row.key = orders[o].key /\ row.asked = orders[o].asked /\ row.link = link
      /\ row.issue = orders[o].issue
  BY <1>3 DEF Order
<1> HIDE DEF row
<1>6. PICK made : made = row OBVIOUS
<1>7. OrderOK(made)' BY <1>1, <1>3, <1>5, <1>6 DEF OrderOK
<1>8. fresh' \in fresh..MaxIssues BY <1>1, IntakeBounds DEF IntakeInv, OrdersInv
<1> QED BY <1>1, <1>3, <1>4, <1>5, <1>6, <1>7, <1>8, SyncRow

LEMMA SyncAsks ==
  ASSUME IntakeInv, NEW o \in 1..Len(orders), NotFound(o)
  PROVE  IntakeInv'
<1>1. /\ syncing[o] # "none" /\ UNCHANGED <<creating, poll, queue, receipts, remote, fresh>>
      /\ syncing' = [syncing EXCEPT ![o] = "create"]
  BY DEF NotFound, Step
<1>2. OrderOK(orders[o]) /\ orders[o] \in Order /\ orders[o].link = "syncing" /\ orders[o].issue \in Issues BY <1>1, Syncing
<1> DEFINE row == [orders[o] EXCEPT !.asked = orders[o].asked \cup {orders[o].issue}]
<1>3. orders' = [orders EXCEPT ![o] = row] BY DEF NotFound
<1>4. /\ row \in Order /\ row.key = orders[o].key /\ row.asked = orders[o].asked \cup {orders[o].issue}
      /\ row.link = "syncing" /\ row.issue = orders[o].issue
  BY <1>2 DEF Order
<1> HIDE DEF row
<1>5. PICK made : made = row OBVIOUS
<1>6. OrderOK(made)' BY <1>1, <1>2, <1>4, <1>5 DEF OrderOK
<1>7. fresh' \in fresh..MaxIssues BY <1>1, IntakeBounds DEF IntakeInv, OrdersInv
<1> QED BY <1>1, <1>2, <1>3, <1>4, <1>5, <1>6, <1>7, SyncRow

LEMMA IssueAppears ==
  ASSUME IntakeInv, NEW o \in 1..Len(orders), NEW i \in Issues, Appear(o, i)
  PROVE  IntakeInv'
<1>1. i \in orders[o].asked /\ remote' = remote \cup {i} /\ UNCHANGED <<orders, creating, syncing, poll, queue, receipts, fresh>>
  BY DEF Appear
<1>2. OrdersInv' /\ OrdersKept /\ SyncInv' BY <1>1, OrdersSame
<1>3. RemoteInv' BY <1>1 DEF IntakeInv, RemoteInv
<1> QED BY <1>1, <1>2, <1>3, KeptByOrders DEF IntakeInv, CallsInv
-----------------------------------------------------------------------------
\* An order that is added is not synchronizing.
LEMMA SyncAdded ==
  ASSUME IntakeInv, NEW k \in Keys, OfKey(k) = {}, NEW sync \in BOOLEAN, Insert(k, sync), UNCHANGED syncing
  PROVE  SyncInv'
<1> DEFINE n == Len(orders)
<1>1. /\ Len(orders') = n + 1 /\ orders'[n + 1].link # "syncing" /\ \A p \in 1..n : orders'[p] = orders[p]
  BY OrderAdded
<1>2. n \in Nat BY DEF IntakeInv, OrdersInv
<1>3. ASSUME NEW p \in 1..MaxOrders PROVE syncing[p] # "none" <=> p \in 1..Len(orders') /\ orders'[p].link = "syncing"
  <2>1. syncing[p] # "none" <=> p \in 1..n /\ orders[p].link = "syncing" BY DEF IntakeInv, SyncInv
  <2> HIDE DEF n
  <2>2. p \in 1..Len(orders') <=> p \in 1..n \/ p = n + 1 BY <1>1, <1>2
  <2> QED BY <1>1, <1>2, <2>1, <2>2
<1> QED BY <1>3 DEF IntakeInv, SyncInv

LEMMA CreateSteps ==
  ASSUME IntakeInv, NEW c \in Creators, Deny(c) \/ Create(c) \/ \E k \in Local, sync \in BOOLEAN : AskCreate(c, k, sync)
  PROVE  IntakeInv'
<1>1. UNCHANGED <<syncing, poll, queue, receipts, remote>> BY DEF Deny, Create, AskCreate
<1>2. CallsInv' BY DEF IntakeInv, CallsInv, Deny, Create, AskCreate
<1>3. CASE UNCHANGED <<orders, fresh>>
  <2>1. OrdersInv' /\ OrdersKept /\ SyncInv' BY <1>1, <1>3, OrdersSame
  <2> QED BY <1>1, <1>2, <2>1, KeptByOrders DEF IntakeInv
<1>4. CASE Create(c) /\ OfKey(creating[c].key) = {} /\ Insert(creating[c].key, creating[c].sync)
  <2>1. creating[c].key \in Keys /\ creating[c].sync \in BOOLEAN BY <1>4 DEF IntakeInv, CallsInv, Create, Keys
  <2>2. OrdersInv' /\ OrdersKept BY <1>4, <2>1, OrderAdded
  <2>3. SyncInv' BY <1>1, <1>4, <2>1, SyncAdded
  <2> QED BY <1>1, <1>2, <2>2, <2>3, KeptByOrders DEF IntakeInv
<1> QED BY <1>3, <1>4 DEF Deny, Create, AskCreate
-----------------------------------------------------------------------------
LEMMA SubmitStep ==
  ASSUME IntakeInv, NEW k \in Hosted, Submit(k)
  PROVE  IntakeInv'
<1>1. UNCHANGED <<orders, creating, syncing, poll, receipts, remote, fresh>> /\ queue' = queue \cup {k} BY DEF Submit
<1>2. OrdersInv' /\ OrdersKept /\ SyncInv' BY <1>1, OrdersSame
<1>3. PollInv' BY <1>1 DEF IntakeInv, PollInv
<1>4. ReceiptsInv' BY <1>1 DEF IntakeInv, ReceiptsInv
<1> QED BY <1>1, <1>2, <1>3, <1>4, KeptByOrders DEF IntakeInv, CallsInv

\* The poll goes on to the next request it holds, or is over.
LEMMA PollMoves ==
  ASSUME IntakeInv, PollStart \/ PollEnds \/ PollAborts \/ PollRejects
  PROVE  IntakeInv'
<1>1. UNCHANGED <<orders, creating, syncing, queue, receipts, remote, fresh>>
  BY DEF PollStart, PollEnds, PollAborts, PollRejects
<1>2. OrdersInv' /\ OrdersKept /\ SyncInv' BY <1>1, OrdersSame
<1>3. PollInv'
  <2>1. CASE poll' = NoCall BY <1>1, <2>1 DEF IntakeInv, PollInv
  <2>2. ASSUME NEW left \in SUBSET queue, NextIssue(left) PROVE PollInv'
    <3> DEFINE row == [left |-> left, key |-> NoCall, order |-> 0, step |-> "next"]
    <3>1. poll' = row /\ queue \subseteq Hosted BY <2>2 DEF NextIssue, IntakeInv, PollInv
    <3>2. row \in Poll /\ row.left = left /\ row.step = "next" BY <3>1 DEF Poll, MaxOrders
    <3> HIDE DEF row
    <3> QED BY <1>1, <3>1, <3>2 DEF PollInv
  <2>3. CASE PollStart BY <2>2, <2>3 DEF PollStart
  <2>4. CASE PollRejects
    <3>1. poll.left \subseteq queue BY <2>4 DEF PollRejects, Polling, IntakeInv, PollInv
    <3> QED BY <2>2, <2>4, <3>1 DEF PollRejects
  <2> QED BY <2>1, <2>3, <2>4 DEF PollEnds, PollAborts
<1> QED BY <1>1, <1>2, <1>3, KeptByOrders DEF IntakeInv, CallsInv

LEMMA PollCreateStep ==
  ASSUME IntakeInv, PollCreate
  PROVE  IntakeInv'
<1>1. UNCHANGED <<creating, syncing, queue, receipts, remote>> /\ poll # NoCall /\ poll.left \subseteq queue /\ queue \subseteq Hosted
  BY DEF PollCreate, Polling, IntakeInv, PollInv
<1>2. PICK k \in poll.left :
        /\ (OfKey(k) # {} /\ UNCHANGED <<orders, fresh>>) \/ (OfKey(k) = {} /\ Insert(k, FALSE))
        /\ poll' = [left |-> poll.left \ {k}, key |-> k, step |-> "link",
                    order |-> CHOOSE o \in DOMAIN orders' : orders'[o].key = k]
  BY DEF PollCreate
<1>3. k \in Hosted /\ k \in Keys /\ k \in queue BY <1>1 DEF Keys
<1>4. OrdersInv' /\ OrdersKept /\ SyncInv'
  <2>1. CASE OfKey(k) # {} /\ UNCHANGED <<orders, fresh>> BY <1>1, <2>1, OrdersSame
  <2>2. CASE OfKey(k) = {} /\ Insert(k, FALSE) BY <1>1, <1>3, <2>2, OrderAdded, SyncAdded
  <2> QED BY <1>2, <2>1, <2>2
<1>5. orders' \in Seq(Order) /\ Len(orders') \in Nat /\ Len(orders') <= MaxOrders BY <1>4 DEF OrdersInv
<1>6. \E o \in 1..Len(orders') : orders'[o].key = k
  <2>1. CASE OfKey(k) # {} /\ UNCHANGED <<orders, fresh>> BY <1>5, <2>1 DEF OfKey
  <2>2. CASE OfKey(k) = {} /\ Insert(k, FALSE)
    <3>1. Len(orders') = Len(orders) + 1 /\ orders'[Len(orders')].key = k BY <1>3, <2>2, OrderAdded
    <3>2. Len(orders) \in Nat BY DEF IntakeInv, OrdersInv
    <3>3. Len(orders') \in 1..Len(orders') BY <3>1, <3>2
    <3> QED BY <3>1, <3>3
  <2> QED BY <1>2, <2>1, <2>2
<1> DEFINE n == CHOOSE o \in DOMAIN orders' : orders'[o].key = k
<1>7. DOMAIN orders' = 1..Len(orders') BY <1>5
<1>8. n \in 1..Len(orders') /\ orders'[n].key = k BY <1>6, <1>7
<1>9. PICK o : o = n OBVIOUS
<1>10. poll' = [left |-> poll.left \ {k}, key |-> k, step |-> "link", order |-> o] BY <1>2, <1>9
<1> HIDE DEF n
<1>11. o \in 0..MaxOrders BY <1>5, <1>8, <1>9 DEF MaxOrders
<1> DEFINE row == [left |-> poll.left \ {k}, key |-> k, step |-> "link", order |-> o]
<1>12. row \in Poll /\ row.left \subseteq queue /\ row.key = k /\ row.step = "link" /\ row.order = o
  BY <1>1, <1>3, <1>11 DEF Poll
<1>13. poll' = row BY <1>10
<1> HIDE DEF row
<1>14. PollInv' BY <1>1, <1>3, <1>8, <1>9, <1>12, <1>13 DEF PollInv
<1> QED BY <1>1, <1>4, <1>14, KeptByOrders DEF IntakeInv, CallsInv

LEMMA PollLinkStep ==
  ASSUME IntakeInv, PollLink
  PROVE  IntakeInv'
<1>1. /\ UNCHANGED <<creating, syncing, queue, receipts, remote, fresh>> /\ poll # NoCall /\ poll.step = "link"
      /\ poll' = [poll EXCEPT !.step = "receipt"]
  BY DEF PollLink, Polling
<1>2. /\ poll \in Poll /\ poll.left \subseteq queue /\ poll.key \in queue /\ poll.order \in 1..Len(orders)
      /\ orders[poll.order].key = poll.key /\ queue \subseteq Hosted
  BY <1>1 DEF IntakeInv, PollInv
<1>3. PICK o \in 1..Len(orders), k \in Hosted : o = poll.order /\ k = poll.key BY <1>2
<1>4. /\ OrdersInv' /\ OrdersKept /\ SyncInv' /\ orders'[o].issue = k /\ orders'[o].key = k
      /\ Len(orders') = Len(orders)
  <2>1. CASE orders[o].issue = k /\ UNCHANGED orders BY <1>1, <1>2, <1>3, <2>1, OrdersSame
  <2>2. CASE orders[o].link = "none" /\ orders' = [orders EXCEPT ![o] = [orders[o] EXCEPT !.link = "synced", !.issue = k]]
    <3> DEFINE row == [orders[o] EXCEPT !.link = "synced", !.issue = k]
    <3>1. OrderOK(orders[o]) /\ orders[o] \in Order /\ orders[o].issue = NoIssue /\ orders[o].key = k
      BY <1>2, <1>3, <2>2 DEF IntakeInv, OrdersInv, OrderOK
    <3>2. orders[o].asked = {}
      <4>1. orders[o].asked \subseteq Issues /\ orders[o].asked \subseteq {NoIssue} BY <3>1 DEF OrderOK, Order
      <4> QED BY <4>1, IntakeBounds
    <3>3. /\ row \in Order /\ row.key = k /\ row.asked = {} /\ row.link = "synced" /\ row.issue = k
      BY <3>1, <3>2 DEF Order
    <3>4. orders' = [orders EXCEPT ![o] = row] BY <2>2
    <3> HIDE DEF row
    <3>5. PICK made : made = row OBVIOUS
    <3>6. OrderOK(made)' BY <3>3, <3>5, IntakeBounds DEF OrderOK
    <3>7. fresh' \in fresh..MaxIssues BY <1>1, IntakeBounds DEF IntakeInv, OrdersInv
    <3>8. OrdersInv' /\ OrdersKept /\ Len(orders') = Len(orders) /\ \A p \in 1..Len(orders) : orders'[p] = IF p = o THEN made ELSE orders[p]
      BY <3>1, <3>2, <3>3, <3>4, <3>5, <3>6, <3>7, OrderWritten
    <3>9. SyncInv' BY <1>1, <2>2, <3>3, <3>5, <3>8 DEF IntakeInv, SyncInv
    <3> QED BY <3>3, <3>5, <3>8, <3>9
  <2> QED BY <1>3, <2>1, <2>2 DEF PollLink
<1>5. PollInv'
  <2> DEFINE row == [poll EXCEPT !.step = "receipt"]
  <2>1. /\ row \in Poll /\ row.left \subseteq queue /\ row.key = k /\ row.order = o
    BY <1>2, <1>3 DEF Poll
  <2>2. poll' = row BY <1>1
  <2> HIDE DEF row
  <2> QED BY <1>1, <1>2, <1>3, <1>4, <2>1, <2>2 DEF PollInv
<1> QED BY <1>1, <1>4, <1>5, KeptByOrders DEF IntakeInv, CallsInv

LEMMA PollReceiptStep ==
  ASSUME IntakeInv, PollReceipt
  PROVE  IntakeInv'
<1>1. /\ UNCHANGED <<orders, creating, syncing, queue, remote, fresh>> /\ poll # NoCall /\ poll.step = "receipt"
      /\ receipts' = [receipts EXCEPT ![poll.key] = poll.order] /\ NextIssue(poll.left)
  BY DEF PollReceipt, Polling
<1>2. /\ poll \in Poll /\ poll.left \subseteq queue /\ poll.key \in queue /\ poll.order \in 1..Len(orders)
      /\ orders[poll.order].key = poll.key /\ orders[poll.order].issue = poll.key /\ queue \subseteq Hosted
  BY <1>1 DEF IntakeInv, PollInv
<1>3. OrdersInv' /\ OrdersKept /\ SyncInv' BY <1>1, OrdersSame
<1>4. ReceiptsInv'
  <2>1. poll.order \in 0..MaxOrders BY <1>2 DEF Poll
  <2>2. receipts' \in [Hosted -> 0..MaxOrders] BY <1>1, <2>1 DEF IntakeInv, ReceiptsInv
  <2>3. \A k \in Hosted : receipts'[k] = IF k = poll.key THEN poll.order ELSE receipts[k]
    BY <1>1 DEF IntakeInv, ReceiptsInv
  <2> QED BY <1>1, <1>2, <2>2, <2>3 DEF IntakeInv, ReceiptsInv
<1>5. PollInv'
  <2> DEFINE row == [left |-> poll.left, key |-> NoCall, order |-> 0, step |-> "next"]
  <2>1. poll' = row BY <1>1 DEF NextIssue
  <2>2. row \in Poll /\ row.left \subseteq queue /\ row.step = "next" BY <1>2 DEF Poll, MaxOrders
  <2> HIDE DEF row
  <2> QED BY <1>1, <1>2, <2>1, <2>2 DEF PollInv
<1> QED BY <1>1, <1>3, <1>4, <1>5, KeptByOrders DEF IntakeInv, CallsInv

LEMMA IntakeRestartStep ==
  ASSUME IntakeInv, IntakeRestart
  PROVE  IntakeInv'
<1> DEFINE n == Len(orders)
           lost(o) == IF orders[o].link = "syncing" THEN [orders[o] EXCEPT !.link = "unknown"] ELSE orders[o]
<1>1. /\ creating' = [c \in Creators |-> NoCall] /\ syncing' = [o \in 1..MaxOrders |-> "none"] /\ poll' = NoCall
      /\ UNCHANGED <<queue, receipts, remote, fresh>>
  BY DEF IntakeRestart
<1>2. orders \in Seq(Order) /\ n \in Nat /\ DOMAIN orders = 1..n BY DEF IntakeInv, OrdersInv
<1>3. ASSUME NEW o \in 1..n
      PROVE  /\ lost(o) \in Order /\ lost(o).key = orders[o].key /\ lost(o).issue = orders[o].issue
             /\ lost(o).asked = orders[o].asked /\ lost(o).link # "syncing"
             /\ lost(o).link = orders[o].link \/ (orders[o].link = "syncing" /\ lost(o).link = "unknown")
  <2>1. orders[o] \in Order BY <1>2
  <2>2. CASE orders[o].link = "syncing" BY <2>1, <2>2 DEF Order
  <2>3. CASE orders[o].link # "syncing" BY <2>1, <2>3
  <2> QED BY <2>2, <2>3
<1>4. orders' = [o \in 1..n |-> lost(o)] BY <1>2 DEF IntakeRestart
<1> HIDE DEF lost
<1>5. orders' \in [1..n -> Order] BY <1>3, <1>4
<1>6. orders' \in Seq(Order) /\ Len(orders') = n /\ \A o \in 1..n : orders'[o] = lost(o) BY <1>2, <1>4, <1>5
<1> HIDE DEF n
<1>7. ASSUME NEW o \in 1..Len(orders') PROVE OrderOK(orders[o])'
  <2>1. OrderOK(orders[o]) BY <1>6 DEF IntakeInv, OrdersInv, n
  <2> QED BY <1>1, <1>3, <1>6, <2>1 DEF OrderOK
<1>8. \A o, p \in 1..Len(orders') : o # p =>
        orders'[o].key # orders'[p].key /\ (orders'[o].issue = orders'[p].issue => orders'[o].issue = NoIssue)
  BY <1>3, <1>6 DEF IntakeInv, OrdersInv, n
<1>9. OrdersInv' BY <1>1, <1>6, <1>7, <1>8 DEF IntakeInv, OrdersInv, n
<1>10. OrdersKept BY <1>2, <1>3, <1>6 DEF OrdersKept, n
<1>11. SyncInv' BY <1>1, <1>3, <1>6 DEF SyncInv
<1>12. PollInv' BY <1>1 DEF PollInv, IntakeInv
<1> QED BY <1>1, <1>9, <1>10, <1>11, <1>12, KeptByOrders DEF IntakeInv, CallsInv

LEMMA IntakeStarts ==
  ASSUME IntakeInit
  PROVE  IntakeInv
<1>1. /\ orders = <<>> /\ creating = [c \in Creators |-> NoCall] /\ syncing = [o \in 1..MaxOrders |-> "none"]
      /\ poll = NoCall /\ queue = {} /\ receipts = [k \in Hosted |-> 0] /\ remote = {} /\ fresh = 0
  BY DEF IntakeInit
<1>2. OrdersInv BY <1>1, IntakeBounds DEF OrdersInv, MaxOrders
<1>3. SyncInv BY <1>1 DEF SyncInv
<1>4. PollInv /\ RemoteInv /\ CallsInv BY <1>1 DEF PollInv, RemoteInv, CallsInv
<1>5. ReceiptsInv BY <1>1 DEF ReceiptsInv, MaxOrders
<1> QED BY <1>2, <1>3, <1>4, <1>5 DEF IntakeInv

LEMMA IntakeSteps ==
  ASSUME IntakeInv, [IntakeNext \/ IntakeRestart]_intakeVars
  PROVE  IntakeInv'
<1>1. DOMAIN orders = 1..Len(orders) BY DEF IntakeInv, OrdersInv
<1>2. CASE UNCHANGED intakeVars
  <2>1. UNCHANGED <<orders, creating, syncing, poll, queue, receipts, remote, fresh>> BY <1>2 DEF intakeVars
  <2> QED BY <2>1, OrdersSame, KeptByOrders DEF IntakeInv, CallsInv
<1>3. ASSUME NEW c \in Creators, Deny(c) \/ Create(c) \/ \E k \in Local, sync \in BOOLEAN : AskCreate(c, k, sync) PROVE IntakeInv'
  BY <1>3, CreateSteps
<1>4. ASSUME NEW o \in DOMAIN orders, Sync(o) \/ SyncStep(o) \/ \E i \in Issues : Appear(o, i) PROVE IntakeInv'
  BY <1>1, <1>4, SyncBegins, SyncEnds, SyncAsks, IssueAppears DEF SyncStep
<1>5. CASE (\E k \in Hosted : Submit(k)) \/ PollStart \/ PollEnds \/ PollAborts \/ PollRejects BY <1>5, SubmitStep, PollMoves
<1>6. CASE PollCreate \/ PollLink \/ PollReceipt BY <1>6, PollCreateStep, PollLinkStep, PollReceiptStep
<1>7. CASE IntakeRestart BY <1>7, IntakeRestartStep
<1> QED BY <1>2, <1>3, <1>4, <1>5, <1>6, <1>7 DEF IntakeNext
-----------------------------------------------------------------------------
(* Previews *)

\* What a client sees of the previews: see PL in PreviewManager.
PShown == [a \in Apps |-> Shown(a)]
PProc  == [a \in Apps |-> CASE preview[a] = NoPreview -> "none"
                            [] preview[a] # NoPreview /\ preview[a].proc = "termed" -> "live"
                            [] OTHER -> preview[a].proc]
PAsked == {a \in Apps : Active(a) /\ preview[a].stopping}

LEMMA LifeSpelled ==
  /\ PL!Init <=> PShown = [a \in Apps |-> "none"] /\ PProc = [a \in Apps |-> "none"] /\ PAsked = {}
  /\ PL!lifeVars' = PL!lifeVars <=> UNCHANGED <<PShown, PProc, PAsked>>
BY DEF PL!Init, PL!lifeVars, PShown, PProc, PAsked

Shows(a)        == PShown[a] \in {"building", "running"}
Moves(a, s, p) == PShown' = [PShown EXCEPT ![a] = s] /\ PProc' = [PProc EXCEPT ![a] = p]

LEMMA LifeSteps ==
  ASSUME NEW a
  PROVE  /\ ~Shows(a) /\ PAsked' = PAsked \ {a} /\ (Moves(a, "building", "live") \/ Moves(a, "failed", "none")) => PL!Begin(a)
         /\ PShown[a] = "building" /\ a \notin PAsked /\ Moves(a, "running", "live") /\ UNCHANGED PAsked => PL!Run(a)
         /\ Shows(a) /\ PAsked' = PAsked \cup {a} /\ UNCHANGED <<PShown, PProc>> => PL!Ask(a)
         /\ PProc[a] = "live" /\ Moves(a, PShown[a], "killed") /\ UNCHANGED PAsked => PL!Kill(a)
         /\ a \in PAsked /\ Moves(a, PShown[a], "none") /\ UNCHANGED PAsked => PL!Exit(a)
         /\ Shows(a) /\ a \notin PAsked /\ Moves(a, "failed", "none") /\ UNCHANGED PAsked => PL!Fail(a)
         /\ Shows(a) /\ a \in PAsked /\ PAsked' = PAsked \ {a}
            /\ (Moves(a, "stopped", "none") \/ (PProc[a] = "killed" /\ Moves(a, "stopped", "killed"))) => PL!Stop(a)
<1>1. /\ PL!Open(a) <=> Shows(a)
      /\ \A s, p : Moves(a, s, p) <=> PL!Becomes(a, s, p)
  BY DEF PL!Becomes, PL!Open, Shows, Moves, PShown, PProc
<1>2. ~Shows(a) /\ PAsked' = PAsked \ {a} /\ (Moves(a, "building", "live") \/ Moves(a, "failed", "none")) => PL!Begin(a)
  BY <1>1 DEF PL!Begin, PAsked
<1>3. PShown[a] = "building" /\ a \notin PAsked /\ Moves(a, "running", "live") /\ UNCHANGED PAsked => PL!Run(a)
  BY <1>1 DEF PL!Run, PShown, PAsked
<1>4. Shows(a) /\ PAsked' = PAsked \cup {a} /\ UNCHANGED <<PShown, PProc>> => PL!Ask(a)
  BY <1>1 DEF PL!Ask, PShown, PProc, PAsked
<1>5. PProc[a] = "live" /\ Moves(a, PShown[a], "killed") /\ UNCHANGED PAsked => PL!Kill(a)
  BY DEF PL!Kill, PL!Becomes, Moves, PShown, PProc, PAsked
<1>6. a \in PAsked /\ Moves(a, PShown[a], "none") /\ UNCHANGED PAsked => PL!Exit(a)
  BY DEF PL!Exit, PL!Becomes, Moves, PShown, PProc, PAsked
<1>7. Shows(a) /\ a \notin PAsked /\ Moves(a, "failed", "none") /\ UNCHANGED PAsked => PL!Fail(a)
  BY <1>1 DEF PL!Fail, PAsked
<1>8. Shows(a) /\ a \in PAsked /\ PAsked' = PAsked \ {a}
      /\ (Moves(a, "stopped", "none") \/ (PProc[a] = "killed" /\ Moves(a, "stopped", "killed"))) => PL!Stop(a)
  BY <1>1 DEF PL!Stop, PAsked, PProc
<1> QED BY <1>2, <1>3, <1>4, <1>5, <1>6, <1>7, <1>8

LEMMA NothingMoves ==
  ASSUME NEW a \in Apps, Moves(a, PShown[a], PProc[a])
  PROVE  UNCHANGED <<PShown, PProc>>
<1>1. PShown = [b \in Apps |-> PShown[b]] BY DEF PShown
<1>2. PProc = [b \in Apps |-> PProc[b]] BY DEF PProc
<1>3. [PShown EXCEPT ![a] = PShown[a]] = PShown BY <1>1
<1>4. [PProc EXCEPT ![a] = PProc[a]] = PProc BY <1>2
<1> QED BY <1>3, <1>4 DEF Moves

Life == PL!Next \/ PL!lifeVars' = PL!lifeVars

SeenProc(entry) == IF entry.proc = "termed" THEN "live" ELSE entry.proc
Running(entry)  == entry.status \in {"building", "running"}

LEMMA EntrySeen ==
  ASSUME PreviewSound, NEW a \in Apps, preview[a] # NoPreview
  PROVE  /\ preview[a] \in Entry /\ event[a] \in Told[preview[a].status] /\ a \in built
         /\ PShown[a] = preview[a].status /\ PProc[a] = SeenProc(preview[a])
         /\ (Active(a) <=> Running(preview[a])) /\ (a \in PAsked <=> Running(preview[a]) /\ preview[a].stopping)
BY DEF PreviewSound, PShown, Shown, PProc, SeenProc, PAsked, Active, Running

LEMMA IdleSeen ==
  ASSUME PreviewSound, NEW a \in Apps, ~Active(a)
  PROVE  PShown[a] \notin {"building", "running"} /\ a \notin PAsked
<1>1. CASE preview[a] = NoPreview
  <2>1. event[a] \in Events /\ event[a] \notin {"requested", "started"} BY <1>1 DEF PreviewSound
  <2> QED BY <1>1, <2>1 DEF PShown, Shown, PAsked, Active, Events
<1>2. CASE preview[a] # NoPreview BY <1>2, EntrySeen DEF Active, Running
<1> QED BY <1>1, <1>2

\* One entry is put, with what its last event says.
LEMMA EntryPut ==
  ASSUME PreviewSound, NEW a \in Apps, NEW entry \in Entry, NEW e \in Events, e \in Told[entry.status], a \in built,
         preview' = [preview EXCEPT ![a] = entry], event' = [event EXCEPT ![a] = e], built' = built
  PROVE  /\ PreviewSound'
         /\ PShown' = [PShown EXCEPT ![a] = entry.status] /\ PProc' = [PProc EXCEPT ![a] = SeenProc(entry)]
         /\ PAsked' = IF Running(entry) /\ entry.stopping THEN PAsked \cup {a} ELSE PAsked \ {a}
<1>1. entry # NoPreview BY PreviewSentinel
<1>2. preview \in [Apps -> Entry \cup {NoPreview}] /\ event \in [Apps -> Events] BY DEF PreviewSound
<1>3. \A b \in Apps : preview'[b] = (IF b = a THEN entry ELSE preview[b]) /\ event'[b] = IF b = a THEN e ELSE event[b]
  BY <1>2
<1>4. preview' \in [Apps -> Entry \cup {NoPreview}] /\ event' \in [Apps -> Events] BY <1>2
<1>5. PreviewSound'
  <2>1. ASSUME NEW b \in Apps
        PROVE  IF preview'[b] = NoPreview THEN event'[b] \notin {"requested", "started"}
               ELSE b \in built' /\ event'[b] \in Told[preview'[b].status]
    <3>1. CASE b = a BY <1>1, <1>3, <3>1
    <3>2. CASE b # a
      <4>1. preview'[b] = preview[b] /\ event'[b] = event[b] BY <1>3, <3>2
      <4>2. IF preview[b] = NoPreview THEN event[b] \notin {"requested", "started"}
            ELSE b \in built /\ event[b] \in Told[preview[b].status]
        BY DEF PreviewSound
      <4> QED BY <4>1, <4>2
    <3> QED BY <3>1, <3>2
  <2>2. Told' = Told BY DEF Told
  <2> QED BY <1>4, <2>1, <2>2 DEF PreviewSound
<1>6. PShown' = [PShown EXCEPT ![a] = entry.status]
  <2>1. \A b \in Apps : Shown(b)' = IF b = a THEN entry.status ELSE Shown(b) BY <1>1, <1>3 DEF Shown
  <2> QED BY <2>1 DEF PShown
<1>7. PProc' = [PProc EXCEPT ![a] = SeenProc(entry)]
  <2> DEFINE seen(put) == CASE put = NoPreview -> "none"
                            [] put # NoPreview /\ put.proc = "termed" -> "live"
                            [] OTHER -> put.proc
  <2>1. PProc = [b \in Apps |-> seen(preview[b])] /\ PProc' = [b \in Apps |-> seen(preview'[b])] BY DEF PProc
  <2>2. seen(entry) = SeenProc(entry) BY <1>1 DEF SeenProc
  <2> HIDE DEF seen
  <2>3. \A b \in Apps : seen(preview'[b]) = IF b = a THEN SeenProc(entry) ELSE seen(preview[b]) BY <1>3, <2>2
  <2> QED BY <2>1, <2>3
<1>8. PAsked' = IF Running(entry) /\ entry.stopping THEN PAsked \cup {a} ELSE PAsked \ {a}
  BY <1>1, <1>3 DEF PAsked, Active, Running
<1> QED BY <1>5, <1>6, <1>7, <1>8


LEMMA BeginSeen ==
  ASSUME PreviewSound, NEW a \in Apps, Begin(a)
  PROVE  PreviewSound' /\ Life
<1>1. a \in built /\ ~Active(a) /\ UNCHANGED built BY DEF Begin, Emit
<1>2. PICK ok \in BOOLEAN :
        /\ preview' = [preview EXCEPT ![a] = [status |-> IF ok THEN "building" ELSE "failed", stopping |-> FALSE,
                                              step |-> 1, proc |-> IF ok THEN "live" ELSE "none"]]
        /\ event' = [event EXCEPT ![a] = IF ok THEN "requested" ELSE "failed"]
  BY DEF Begin, Set, Emit, VerifySource
<1> DEFINE entry == [status |-> IF ok THEN "building" ELSE "failed", stopping |-> FALSE,
                     step |-> 1, proc |-> IF ok THEN "live" ELSE "none"]
           e     == IF ok THEN "requested" ELSE "failed"
<1>3. /\ entry \in Entry /\ e \in Events /\ e \in Told[entry.status] /\ ~entry.stopping
      /\ ((entry.status = "building" /\ SeenProc(entry) = "live") \/ (entry.status = "failed" /\ SeenProc(entry) = "none"))
  BY DEF Entry, Server, Events, Told, SeenProc
<1>4. preview' = [preview EXCEPT ![a] = entry] /\ event' = [event EXCEPT ![a] = e] BY <1>2
<1> HIDE DEF entry, e
<1>5. /\ PreviewSound' /\ PAsked' = PAsked \ {a}
      /\ PShown' = [PShown EXCEPT ![a] = entry.status] /\ PProc' = [PProc EXCEPT ![a] = SeenProc(entry)]
  BY <1>1, <1>3, <1>4, EntryPut
<1>6. Moves(a, "building", "live") \/ Moves(a, "failed", "none") BY <1>3, <1>5 DEF Moves
<1>7. PL!Begin(a) BY <1>1, <1>5, <1>6, IdleSeen, LifeSteps DEF Shows
<1> QED BY <1>5, <1>7 DEF Life, PL!Next

\* Of an active preview one step moves its entry and perhaps its event.
LEMMA ActiveSeen ==
  ASSUME PreviewSound, NEW a \in Apps, Active(a), NEW entry \in Entry, NEW e \in Events, e \in Told[entry.status],
         preview' = [preview EXCEPT ![a] = entry], event' = [event EXCEPT ![a] = e], built' = built
  PROVE  /\ PreviewSound' /\ Shows(a) /\ PShown[a] = preview[a].status /\ PProc[a] = SeenProc(preview[a])
         /\ a \in PAsked <=> preview[a].stopping
         /\ Moves(a, entry.status, SeenProc(entry))
         /\ PAsked' = IF Running(entry) /\ entry.stopping THEN PAsked \cup {a} ELSE PAsked \ {a}
<1>1. preview[a] # NoPreview BY DEF Active
<1>2. /\ a \in built /\ PShown[a] = preview[a].status /\ PProc[a] = SeenProc(preview[a]) /\ Running(preview[a])
      /\ (a \in PAsked <=> Running(preview[a]) /\ preview[a].stopping)
  BY <1>1, EntrySeen
<1> QED BY <1>2, EntryPut DEF Running, Shows, Moves

\* Nothing of it is seen.
LEMMA StutterSeen ==
  ASSUME PreviewSound, NEW a \in Apps, Active(a), NEW entry \in Entry,
         preview' = [preview EXCEPT ![a] = entry], UNCHANGED <<event, built>>,
         entry.status = preview[a].status, entry.stopping = preview[a].stopping, SeenProc(entry) = SeenProc(preview[a])
  PROVE  PreviewSound' /\ Life
<1>1. preview[a] # NoPreview BY DEF Active
<1>2. event[a] \in Told[entry.status] /\ event[a] \in Events BY <1>1, EntrySeen DEF PreviewSound
<1>3. event' = [event EXCEPT ![a] = event[a]] BY DEF PreviewSound
<1>4. /\ PreviewSound' /\ PShown[a] = preview[a].status /\ PProc[a] = SeenProc(preview[a])
      /\ a \in PAsked <=> preview[a].stopping
      /\ Moves(a, entry.status, SeenProc(entry))
      /\ PAsked' = IF Running(entry) /\ entry.stopping THEN PAsked \cup {a} ELSE PAsked \ {a}
  BY <1>2, <1>3, ActiveSeen
<1>5. UNCHANGED <<PShown, PProc>>
  <2>1. Moves(a, PShown[a], PProc[a]) BY <1>4 DEF Moves
  <2> QED BY <2>1, NothingMoves
<1>6. Running(entry) BY DEF Active, Running
<1>7. PAsked' = PAsked BY <1>4, <1>6
<1> QED BY <1>4, <1>5, <1>7, LifeSpelled DEF Life

LEMMA ProgressSeen ==
  ASSUME PreviewSound, NEW a \in Apps, CommandSucceeds(a) \/ Overrun(a)
  PROVE  PreviewSound' /\ Life
<1>1. Active(a) /\ UNCHANGED <<event, built>> /\ preview[a].proc = "live"
  BY DEF CommandSucceeds, Overrun, InCommand, Building, Proc
<1>2. preview[a] \in Entry BY <1>1, EntrySeen DEF Active
<1>3. CASE CommandSucceeds(a)
  <2> DEFINE entry == [preview[a] EXCEPT !.step = preview[a].step + 1]
  <2>1. preview' = [preview EXCEPT ![a] = entry] /\ preview[a].step < Server BY <1>3 DEF CommandSucceeds, Set, InCommand
  <2>2. /\ entry \in Entry /\ entry.status = preview[a].status /\ entry.stopping = preview[a].stopping
        /\ entry.proc = preview[a].proc
    BY <1>2, <2>1 DEF Entry, Server
  <2> HIDE DEF entry
  <2> QED BY <1>1, <2>1, <2>2, StutterSeen DEF SeenProc
<1>4. CASE Overrun(a)
  <2> DEFINE entry == [preview[a] EXCEPT !.proc = "termed"]
  <2>1. preview' = [preview EXCEPT ![a] = entry] BY <1>4 DEF Overrun, Set
  <2>2. /\ entry \in Entry /\ entry.status = preview[a].status /\ entry.stopping = preview[a].stopping
        /\ entry.proc = "termed"
    BY <1>2 DEF Entry
  <2> HIDE DEF entry
  <2> QED BY <1>1, <2>1, <2>2, StutterSeen DEF SeenProc
<1> QED BY <1>3, <1>4

LEMMA ReadySeen ==
  ASSUME PreviewSound, NEW a \in Apps, ServerReady(a)
  PROVE  PreviewSound' /\ Life
<1> DEFINE entry == [preview[a] EXCEPT !.status = "running"]
<1>1. /\ Active(a) /\ preview[a].status = "building" /\ preview[a].proc = "live" /\ ~preview[a].stopping
      /\ preview' = [preview EXCEPT ![a] = entry] /\ event' = [event EXCEPT ![a] = "started"] /\ UNCHANGED built
  BY DEF ServerReady, Building, Proc, Set, Emit
<1>2. preview[a] \in Entry BY <1>1, EntrySeen DEF Active
<1>3. entry \in Entry /\ entry.status = "running" /\ entry.proc = "live" /\ ~entry.stopping BY <1>1, <1>2 DEF Entry
<1> HIDE DEF entry
<1>4. "started" \in Events /\ "started" \in Told[entry.status] BY <1>3 DEF Events, Told
<1>5. /\ PreviewSound' /\ PShown[a] = preview[a].status /\ (a \in PAsked <=> preview[a].stopping)
      /\ Moves(a, entry.status, SeenProc(entry))
      /\ PAsked' = IF Running(entry) /\ entry.stopping THEN PAsked \cup {a} ELSE PAsked \ {a}
  BY <1>1, <1>3, <1>4, ActiveSeen
<1>6. PL!Run(a)
  <2>1. UNCHANGED PAsked BY <1>1, <1>3, <1>5
  <2>2. SeenProc(entry) = "live" BY <1>3 DEF SeenProc
  <2>3. Moves(a, "running", "live") BY <1>3, <1>5, <2>2
  <2> QED BY <1>1, <1>5, <2>1, <2>3, LifeSteps
<1> QED BY <1>5, <1>6 DEF Life, PL!Next

\* The preview ends: as stopped if it was asked to, otherwise as failed.
LEMMA EndSeen ==
  ASSUME PreviewSound, NEW a \in Apps, Active(a), NEW status, NEW e,
         preview[a].stopping => status = "stopped" /\ e = "stopped",
         ~preview[a].stopping => status = "failed" /\ e \in {"failed", "exited"},
         Becomes(a, status, e)
  PROVE  PreviewSound' /\ Life
<1> DEFINE entry == [preview[a] EXCEPT !.status = status, !.proc = "none"]
<1>1. preview' = [preview EXCEPT ![a] = entry] /\ event' = [event EXCEPT ![a] = e] /\ UNCHANGED built
  BY DEF Becomes, Set, Emit
<1>2. preview[a] \in Entry BY EntrySeen DEF Active
<1>3. preview[a].stopping \in BOOLEAN BY <1>2 DEF Entry
<1>4. entry \in Entry /\ entry.status = status /\ entry.proc = "none" /\ status \in {"failed", "stopped"}
  BY <1>2, <1>3 DEF Entry
<1> HIDE DEF entry
<1>5. e \in Events /\ e \in Told[entry.status] BY <1>3, <1>4 DEF Events, Told
<1>6. /\ PreviewSound' /\ Shows(a) /\ (a \in PAsked <=> preview[a].stopping) /\ Moves(a, status, "none")
      /\ PAsked' = PAsked \ {a}
  BY <1>1, <1>4, <1>5, ActiveSeen DEF SeenProc, Running
<1>7. CASE preview[a].stopping
  <2>1. PL!Stop(a) BY <1>6, <1>7, LifeSteps
  <2> QED BY <1>6, <2>1 DEF Life, PL!Next
<1>8. CASE ~preview[a].stopping
  <2>1. UNCHANGED PAsked BY <1>6, <1>8
  <2>2. PL!Fail(a) BY <1>6, <1>8, <2>1, LifeSteps
  <2> QED BY <1>6, <2>2 DEF Life, PL!Next
<1> QED BY <1>7, <1>8

LEMMA ClosesSeen ==
  ASSUME PreviewSound, NEW a \in Apps, BuildEnds(a) \/ ServerEnds(a)
  PROVE  PreviewSound' /\ Life
<1>1. Active(a) BY DEF BuildEnds, ServerEnds, Building, InServer
<1>2. preview[a] \in Entry BY <1>1, EntrySeen DEF Active
<1>3. CASE BuildEnds(a) BY <1>1, <1>3, EndSeen DEF BuildEnds
<1>4. CASE ServerEnds(a) /\ ~preview[a].stopping BY <1>1, <1>4, EndSeen DEF ServerEnds
<1>5. CASE ServerEnds(a) /\ preview[a].stopping
  <2> DEFINE entry == [preview[a] EXCEPT !.proc = "none"]
  <2>1. preview' = [preview EXCEPT ![a] = entry] /\ UNCHANGED <<built, event>> BY <1>5 DEF ServerEnds, Set
  <2>2. /\ entry \in Entry /\ entry.status = preview[a].status /\ entry.stopping = preview[a].stopping
        /\ entry.proc = "none"
    BY <1>2 DEF Entry
  <2> HIDE DEF entry
  <2>3. event[a] \in Events /\ event[a] \in Told[entry.status] /\ event' = [event EXCEPT ![a] = event[a]]
    BY <1>1, <2>1, <2>2, EntrySeen DEF PreviewSound, Active
  <2>4. /\ PreviewSound' /\ PShown[a] = preview[a].status /\ (a \in PAsked <=> preview[a].stopping)
        /\ Moves(a, entry.status, SeenProc(entry))
        /\ PAsked' = IF Running(entry) /\ entry.stopping THEN PAsked \cup {a} ELSE PAsked \ {a}
    BY <1>1, <2>1, <2>2, <2>3, ActiveSeen
  <2>5. Running(entry) BY <1>1, <2>2 DEF Active, Running
  <2>6. a \in PAsked /\ UNCHANGED PAsked BY <1>5, <2>2, <2>4, <2>5
  <2>7. SeenProc(entry) = "none" BY <2>2 DEF SeenProc
  <2>8. Moves(a, PShown[a], "none") BY <2>2, <2>4, <2>7
  <2>9. PL!Exit(a) BY <2>6, <2>8, LifeSteps
  <2> QED BY <2>4, <2>9 DEF Life, PL!Next
<1> QED BY <1>3, <1>4, <1>5

LEMMA KillSeen ==
  ASSUME PreviewSound, NEW a \in Apps, KillWithGrace(a)
  PROVE  PreviewSound' /\ Life
<1> DEFINE entry == [preview[a] EXCEPT !.proc = "killed"]
<1>1. Active(a) /\ preview[a].proc = "termed" /\ preview' = [preview EXCEPT ![a] = entry] /\ UNCHANGED <<built, event>>
  BY DEF KillWithGrace, Proc, Set
<1>2. preview[a] \in Entry BY <1>1, EntrySeen DEF Active
<1>3. /\ entry \in Entry /\ entry.status = preview[a].status /\ entry.stopping = preview[a].stopping
      /\ entry.proc = "killed"
  BY <1>2 DEF Entry
<1> HIDE DEF entry
<1>4. event[a] \in Events /\ event[a] \in Told[entry.status] /\ event' = [event EXCEPT ![a] = event[a]]
  BY <1>1, <1>3, EntrySeen DEF PreviewSound, Active
<1>5. /\ PreviewSound' /\ PShown[a] = preview[a].status /\ PProc[a] = "live" /\ (a \in PAsked <=> preview[a].stopping)
      /\ Moves(a, entry.status, SeenProc(entry)) /\ SeenProc(entry) = "killed"
      /\ PAsked' = IF Running(entry) /\ entry.stopping THEN PAsked \cup {a} ELSE PAsked \ {a}
  BY <1>1, <1>3, <1>4, ActiveSeen DEF SeenProc
<1>6. Running(entry) BY <1>1, <1>3 DEF Active, Running
<1>7. UNCHANGED PAsked BY <1>3, <1>5, <1>6
<1>8. Moves(a, PShown[a], "killed") BY <1>3, <1>5
<1>9. PL!Kill(a) BY <1>5, <1>7, <1>8, LifeSteps
<1> QED BY <1>5, <1>9 DEF Life, PL!Next

LEMMA StopSeen ==
  ASSUME PreviewSound, NEW a \in Apps, Stop(a)
  PROVE  PreviewSound' /\ Life
<1> DEFINE gone  == IF InCommand(a) /\ preview[a].proc = "live" THEN "termed" ELSE preview[a].proc
           entry == [preview[a] EXCEPT !.stopping = TRUE, !.proc = gone]
<1>1. Active(a) /\ preview' = [preview EXCEPT ![a] = entry] /\ UNCHANGED <<built, event>> BY DEF Stop, Set
<1>2. preview[a] \in Entry BY <1>1, EntrySeen DEF Active
<1>3. gone \in {"none", "live", "termed", "killed"} /\ (gone = preview[a].proc \/ (gone = "termed" /\ preview[a].proc = "live"))
  BY <1>2 DEF Entry
<1> HIDE DEF gone
<1>4. entry \in Entry /\ entry.status = preview[a].status /\ entry.stopping /\ entry.proc = gone BY <1>2, <1>3 DEF Entry
<1> HIDE DEF entry
<1>5. event[a] \in Events /\ event[a] \in Told[entry.status] /\ event' = [event EXCEPT ![a] = event[a]]
  BY <1>1, <1>4, EntrySeen DEF PreviewSound, Active
<1>6. SeenProc(entry) = SeenProc(preview[a]) BY <1>3, <1>4 DEF SeenProc
<1>7. /\ PreviewSound' /\ Shows(a) /\ PShown[a] = preview[a].status /\ PProc[a] = SeenProc(preview[a])
      /\ Moves(a, entry.status, SeenProc(entry))
      /\ PAsked' = IF Running(entry) /\ entry.stopping THEN PAsked \cup {a} ELSE PAsked \ {a}
  BY <1>1, <1>4, <1>5, ActiveSeen
<1>8. Running(entry) BY <1>1, <1>4 DEF Active, Running
<1>9. PAsked' = PAsked \cup {a} BY <1>4, <1>7, <1>8
<1>10. UNCHANGED <<PShown, PProc>>
  <2>1. Moves(a, PShown[a], PProc[a]) BY <1>4, <1>6, <1>7
  <2> QED BY <2>1, NothingMoves
<1>11. PL!Ask(a) BY <1>7, <1>9, <1>10, LifeSteps
<1> QED BY <1>7, <1>11 DEF Life, PL!Next

LEMMA StopReturnsSeen ==
  ASSUME PreviewSound, NEW a \in Apps, StopReturns(a)
  PROVE  PreviewSound' /\ Life
<1> DEFINE entry == [preview[a] EXCEPT !.status = "stopped"]
<1>1. /\ Active(a) /\ preview[a].stopping /\ preview[a].proc \in {"none", "killed"}
      /\ preview' = [preview EXCEPT ![a] = entry] /\ event' = [event EXCEPT ![a] = "stopped"] /\ UNCHANGED built
  BY DEF StopReturns, InServer, Set, Emit
<1>2. preview[a] \in Entry BY <1>1, EntrySeen DEF Active
<1>3. entry \in Entry /\ entry.status = "stopped" /\ entry.proc = preview[a].proc BY <1>2 DEF Entry
<1> HIDE DEF entry
<1>4. "stopped" \in Events /\ "stopped" \in Told[entry.status] BY <1>3 DEF Events, Told
<1>5. /\ PreviewSound' /\ Shows(a) /\ PProc[a] = SeenProc(preview[a]) /\ (a \in PAsked <=> preview[a].stopping)
      /\ Moves(a, entry.status, SeenProc(entry))
      /\ PAsked' = IF Running(entry) /\ entry.stopping THEN PAsked \cup {a} ELSE PAsked \ {a}
  BY <1>1, <1>3, <1>4, ActiveSeen
<1>6. PL!Stop(a)
  <2>1. SeenProc(entry) = preview[a].proc /\ SeenProc(preview[a]) = preview[a].proc BY <1>1, <1>3 DEF SeenProc
  <2>2. Moves(a, "stopped", preview[a].proc) BY <1>3, <1>5, <2>1
  <2>3. ~Running(entry) BY <1>3 DEF Running
  <2>4. PAsked' = PAsked \ {a} BY <1>5, <2>3
  <2>5. Moves(a, "stopped", "none") \/ (PProc[a] = "killed" /\ Moves(a, "stopped", "killed")) BY <1>1, <1>5, <2>1, <2>2
  <2> QED BY <1>1, <1>5, <2>4, <2>5, LifeSteps
<1> QED BY <1>5, <1>6 DEF Life, PL!Next

LEMMA InterruptedSeen ==
  ASSUME PreviewSound, Interrupted
  PROVE  PreviewSound' /\ Life
<1>1. /\ preview' = [a \in Apps |-> NoPreview] /\ UNCHANGED built
      /\ event' = [a \in Apps |-> IF event[a] \in {"requested", "started"} THEN "interrupted" ELSE event[a]]
  BY DEF Interrupted
<1>2. event \in [Apps -> Events] BY DEF PreviewSound
<1>3. event' \in [Apps -> Events] /\ \A a \in Apps : event'[a] \notin {"requested", "started"} BY <1>1, <1>2 DEF Events
<1>4. PreviewSound' BY <1>1, <1>3 DEF PreviewSound
<1> DEFINE exited == {a \in Apps : PShown[a] = "failed" /\ Shown(a)' = "stopped"}
<1>5. ASSUME NEW a \in Apps
      PROVE  Shown(a)' = CASE PShown[a] \in {"building", "running"} -> "interrupted"
                           [] a \in exited -> "stopped"
                           [] OTHER -> PShown[a]
  <2>1. /\ preview'[a] = NoPreview /\ event[a] \in Events
        /\ event'[a] = IF event[a] \in {"requested", "started"} THEN "interrupted" ELSE event[a]
    BY <1>1, <1>2
  <2>2. Shown(a)' = IF event'[a] = "exited" THEN "stopped" ELSE event'[a] BY <1>3, <2>1 DEF Shown
  <2>3. CASE preview[a] = NoPreview
    <3>1. event[a] \notin {"requested", "started"} BY <2>3 DEF PreviewSound
    <3>2. PShown[a] = IF event[a] = "exited" THEN "stopped" ELSE event[a] BY <2>3, <3>1 DEF PShown, Shown
    <3> QED BY <2>1, <2>2, <3>1, <3>2 DEF Events
  <2>4. CASE preview[a] # NoPreview
    <3>1. preview[a] \in Entry /\ event[a] \in Told[preview[a].status] /\ PShown[a] = preview[a].status BY <2>4, EntrySeen
    <3>2. preview[a].status \in {"building", "running", "failed", "stopped"} BY <3>1 DEF Entry
    <3> QED BY <2>1, <2>2, <3>1, <3>2 DEF Told
  <2> QED BY <2>3, <2>4
<1>6. exited \in SUBSET {a \in Apps : PShown[a] = "failed"} OBVIOUS
<1> HIDE DEF exited
<1>7. PShown' = [a \in Apps |-> CASE PShown[a] \in {"building", "running"} -> "interrupted"
                                  [] a \in exited -> "stopped"
                                  [] OTHER -> PShown[a]]
  BY <1>5 DEF PShown
<1>8. PProc' = [a \in Apps |-> "none"] BY <1>1 DEF PProc
<1>9. PAsked' = {} BY <1>1 DEF PAsked, Active
<1>10. PICK gone : gone = exited OBVIOUS
<1>11. /\ gone \in SUBSET {a \in Apps : PShown[a] = "failed"}
       /\ PShown' = [a \in Apps |-> CASE PShown[a] \in {"building", "running"} -> "interrupted"
                                      [] a \in gone -> "stopped"
                                      [] OTHER -> PShown[a]]
  BY <1>6, <1>7, <1>10
<1>12. PL!Interrupt BY <1>8, <1>9, <1>11 DEF PL!Interrupt, PL!Open, PShown, PProc, PAsked
<1> QED BY <1>4, <1>12 DEF Life, PL!Next

LEMMA PreviewSteps == PreviewSound /\ [PreviewNext \/ Interrupted]_previewVars => PreviewSound' /\ [PL!Next]_(PL!lifeVars)
<1> SUFFICES ASSUME PreviewSound, [PreviewNext \/ Interrupted]_previewVars PROVE PreviewSound' /\ Life
  BY DEF Life
<1>1. CASE UNCHANGED <<preview, event>> /\ built \subseteq built'
  <2>1. PreviewSound' BY <1>1 DEF PreviewSound, Told
  <2>2. UNCHANGED <<PShown, PProc, PAsked>> BY <1>1 DEF PShown, Shown, PProc, PAsked, Active
  <2> QED BY <2>1, <2>2, LifeSpelled DEF Life
<1>2. ASSUME NEW a \in Apps, Begin(a) \/ CommandSucceeds(a) \/ ServerReady(a) \/ BuildEnds(a) \/ ServerEnds(a)
                             \/ Overrun(a) \/ Stop(a) \/ KillWithGrace(a) \/ StopReturns(a)
      PROVE  PreviewSound' /\ Life
  BY <1>2, BeginSeen, ProgressSeen, ReadySeen, ClosesSeen, KillSeen, StopSeen, StopReturnsSeen
<1>3. \/ UNCHANGED <<preview, event>> /\ built \subseteq built'
      \/ Interrupted
      \/ \E a \in Apps : Begin(a) \/ CommandSucceeds(a) \/ ServerReady(a) \/ BuildEnds(a) \/ ServerEnds(a)
                         \/ Overrun(a) \/ Stop(a) \/ KillWithGrace(a) \/ StopReturns(a)
  BY DEF PreviewNext, Scaffold, previewVars, Timers, StopInsists
<1> QED BY <1>1, <1>2, <1>3, InterruptedSeen

LEMMA PreviewStarts ==
  ASSUME PreviewInit
  PROVE  PreviewSound /\ PL!Init
<1>1. preview = [a \in Apps |-> NoPreview] /\ event = [a \in Apps |-> "none"] BY DEF PreviewInit
<1>2. PreviewSound BY <1>1 DEF PreviewSound, Events
<1>3. PShown = [a \in Apps |-> "none"] /\ PProc = [a \in Apps |-> "none"] /\ PAsked = {}
  BY <1>1 DEF PShown, Shown, PProc, PAsked, Active
<1> QED BY <1>2, <1>3, LifeSpelled
-----------------------------------------------------------------------------
(* One issue for a WorkOrder *)

\* What Linear and a reader of the WorkOrders see: see IO in HostedIntake.
OLink   == [o \in 1..MaxOrders |-> IF o \in DOMAIN orders THEN orders[o].link ELSE "none"]
OAsked  == {o \in DOMAIN orders : orders[o].asked # {}}
OIssues == [o \in 1..MaxOrders |-> IF o \in DOMAIN orders THEN Cardinality(orders[o].asked \cap remote) ELSE 0]

Goes(o, from, to) == OLink[o] \in from /\ OLink' = [OLink EXCEPT ![o] = to] /\ UNCHANGED <<OAsked, OIssues>>
Once == IO!Next \/ IO!onceVars' = IO!onceVars

LEMMA OnceSpelled ==
  /\ IO!Init <=> OLink = [o \in 1..MaxOrders |-> "none"] /\ OAsked = {} /\ OIssues = [o \in 1..MaxOrders |-> 0]
  /\ IO!onceVars' = IO!onceVars <=> UNCHANGED <<OLink, OAsked, OIssues>>
BY DEF IO!Init, IO!onceVars, OLink, OAsked, OIssues

LEMMA OnceSteps ==
  ASSUME NEW o
  PROVE  /\ Goes(o, {"none"}, "pending") => IO!Prepare(o)
         /\ Goes(o, {"none"}, "synced") => IO!Adopt(o)
         /\ Goes(o, {"none", "pending", "unknown"}, "syncing") => IO!Start(o)
         /\ Goes(o, {"syncing"}, "unknown") => IO!Fail(o)
         /\ OIssues[o] = 1 /\ Goes(o, {"syncing"}, "synced") => IO!Succeed(o)
         /\ OLink[o] = "syncing" /\ OAsked' = OAsked \cup {o} /\ UNCHANGED <<OLink, OIssues>> => IO!Ask(o)
         /\ o \in OAsked /\ OIssues[o] = 0 /\ OIssues' = [OIssues EXCEPT ![o] = 1] /\ UNCHANGED <<OLink, OAsked>> => IO!Appear(o)
<1>1. \A from, to : Goes(o, from, to) => IO!Move(o, from, to) BY DEF Goes, IO!Move, OLink, OAsked, OIssues
<1>2. OIssues[o] = 1 /\ Goes(o, {"syncing"}, "synced") => IO!Succeed(o) BY <1>1 DEF IO!Succeed, OIssues
<1>3. OLink[o] = "syncing" /\ OAsked' = OAsked \cup {o} /\ UNCHANGED <<OLink, OIssues>> => IO!Ask(o)
  BY DEF IO!Ask, OLink, OAsked, OIssues
<1>4. o \in OAsked /\ OIssues[o] = 0 /\ OIssues' = [OIssues EXCEPT ![o] = 1] /\ UNCHANGED <<OLink, OAsked>> => IO!Appear(o)
  BY DEF IO!Appear, OLink, OAsked, OIssues
<1> QED BY <1>1, <1>2, <1>3, <1>4 DEF IO!Prepare, IO!Adopt, IO!Start, IO!Fail

\* What is written to one order is seen of that order only.
LEMMA WrittenSeen ==
  ASSUME IntakeInv, NEW o \in 1..Len(orders), NEW row, orders' = [orders EXCEPT ![o] = row]
  PROVE  /\ o \in 1..MaxOrders /\ OLink[o] = orders[o].link /\ OLink' = [OLink EXCEPT ![o] = row.link]
         /\ DOMAIN orders' = 1..Len(orders) /\ \A p \in 1..Len(orders) : orders'[p] = IF p = o THEN row ELSE orders[p]
         /\ remote' = remote /\ row.asked = orders[o].asked => UNCHANGED <<OAsked, OIssues>>
<1>1. DOMAIN orders = 1..Len(orders) /\ Len(orders) \in Nat /\ Len(orders) <= MaxOrders BY DEF IntakeInv, OrdersInv
<1>2. DOMAIN orders' = 1..Len(orders) /\ \A p \in 1..Len(orders) : orders'[p] = IF p = o THEN row ELSE orders[p]
  BY <1>1
<1>3. o \in 1..MaxOrders /\ \A p \in 1..Len(orders) : p \in 1..MaxOrders BY <1>1 DEF MaxOrders
<1>4. OLink[o] = orders[o].link BY <1>1, <1>3 DEF OLink
<1>5. OLink' = [OLink EXCEPT ![o] = row.link]
  <2>1. ASSUME NEW p \in 1..MaxOrders
        PROVE  (IF p \in DOMAIN orders' THEN orders'[p].link ELSE "none")
               = IF p = o THEN row.link ELSE IF p \in DOMAIN orders THEN orders[p].link ELSE "none"
    BY <1>1, <1>2
  <2> QED BY <2>1 DEF OLink
<1>6. ASSUME remote' = remote, row.asked = orders[o].asked PROVE UNCHANGED <<OAsked, OIssues>>
  <2>1. \A p \in 1..Len(orders) : orders'[p].asked = orders[p].asked BY <1>2, <1>6
  <2>2. OAsked' = OAsked BY <1>1, <1>2, <2>1 DEF OAsked
  <2>3. OIssues' = OIssues BY <1>1, <1>2, <1>6, <2>1 DEF OIssues
  <2> QED BY <2>2, <2>3
<1> QED BY <1>2, <1>3, <1>4, <1>5, <1>6

\* An order that is added asked for nothing yet.
LEMMA AddedSeen ==
  ASSUME IntakeInv, NEW k \in Keys, OfKey(k) = {}, NEW sync \in BOOLEAN, Insert(k, sync), UNCHANGED remote
  PROVE  Once
<1> DEFINE n   == Len(orders)
           row == IF sync THEN Prepared(NewOrder(k)) ELSE NewOrder(k)
<1>1. DOMAIN orders = 1..n /\ n \in Nat /\ n < MaxOrders /\ orders \in Seq(Order) BY DEF IntakeInv, OrdersInv, Insert
<1>2. row.link = (IF sync THEN "pending" ELSE "none") /\ row.asked = {} BY DEF Prepared, NewOrder
<1>3. orders' = Append(orders, row) BY DEF Insert
<1> HIDE DEF row
<1>4. /\ DOMAIN orders' = 1..(n + 1)
      /\ \A p \in 1..(n + 1) : orders'[p] = IF p = n + 1 THEN row ELSE orders[p]
  BY <1>1, <1>3
<1> HIDE DEF n
<1>5. n + 1 \in 1..MaxOrders /\ n + 1 \notin DOMAIN orders BY <1>1 DEF MaxOrders
<1>6. \A p \in 1..(n + 1) : p = n + 1 \/ p \in 1..n BY <1>1
<1>7. UNCHANGED <<OAsked, OIssues>>
  <2>1. \A p : p \in DOMAIN orders' /\ orders'[p].asked # {} <=> p \in DOMAIN orders /\ orders[p].asked # {}
    BY <1>1, <1>2, <1>4, <1>5, <1>6
  <2>2. OAsked' = OAsked BY <2>1 DEF OAsked
  <2>3. Cardinality({} \cap remote) = 0 BY FS_EmptySet
  <2>4. ASSUME NEW p \in 1..MaxOrders
        PROVE  (IF p \in DOMAIN orders' THEN Cardinality(orders'[p].asked \cap remote) ELSE 0)
               = IF p \in DOMAIN orders THEN Cardinality(orders[p].asked \cap remote) ELSE 0
    <3>1. CASE p = n + 1 BY <1>1, <1>2, <1>4, <1>5, <2>3, <3>1
    <3>2. CASE p # n + 1
      <4>1. p \in DOMAIN orders' <=> p \in DOMAIN orders BY <1>1, <1>4, <1>6, <3>2
      <4>2. p \in DOMAIN orders => orders'[p] = orders[p] BY <1>1, <1>4, <3>2
      <4> QED BY <4>1, <4>2
    <3> QED BY <3>1, <3>2
  <2>5. OIssues' = OIssues BY <2>4 DEF OIssues
  <2> QED BY <2>2, <2>5
<1>8. OLink[n + 1] = "none" BY <1>5 DEF OLink
<1>9. OLink' = [OLink EXCEPT ![n + 1] = row.link]
  <2>1. ASSUME NEW p \in 1..MaxOrders
        PROVE  (IF p \in DOMAIN orders' THEN orders'[p].link ELSE "none")
               = IF p = n + 1 THEN row.link ELSE IF p \in DOMAIN orders THEN orders[p].link ELSE "none"
    BY <1>1, <1>4, <1>5, <1>6
  <2> QED BY <2>1 DEF OLink
<1>10. CASE sync
  <2>1. PICK o \in 1..MaxOrders : o = n + 1 BY <1>5
  <2>2. Goes(o, {"none"}, "pending") BY <1>2, <1>7, <1>8, <1>9, <1>10, <2>1 DEF Goes
  <2>3. IO!Prepare(o) BY <2>2, OnceSteps
  <2> QED BY <2>3 DEF Once, IO!Next
<1>11. CASE ~sync
  <2>1. OLink = [p \in 1..MaxOrders |-> OLink[p]] BY DEF OLink
  <2>2. OLink' = OLink BY <1>2, <1>8, <1>9, <1>11, <2>1
  <2> QED BY <1>7, <2>2, OnceSpelled DEF Once
<1> QED BY <1>10, <1>11

\* An issue at Linear is the issue of the one order that asked for it.
LEMMA IssueAtLinear ==
  ASSUME IntakeInv, NEW o \in 1..Len(orders), orders[o].issue \in remote
  PROVE  Cardinality(orders[o].asked \cap remote) = 1
<1>1. PICK p \in 1..Len(orders) : orders[o].issue \in orders[p].asked BY DEF IntakeInv, RemoteInv
<1>2. OrderOK(orders[o]) /\ OrderOK(orders[p]) /\ orders[o].issue \in Issues BY DEF IntakeInv, OrdersInv, RemoteInv
<1>3. orders[p].issue = orders[o].issue /\ orders[o].issue # NoIssue BY <1>1, <1>2, IntakeBounds DEF OrderOK
<1>4. p = o BY <1>3 DEF IntakeInv, OrdersInv
<1>5. orders[o].asked \cap remote = {orders[o].issue} BY <1>1, <1>2, <1>4 DEF OrderOK
<1> QED BY <1>5, FS_Singleton

LEMMA SyncSeen ==
  ASSUME IntakeInv, NEW o \in 1..Len(orders), Sync(o) \/ Found(o) \/ Created(o) \/ SyncFails(o)
  PROVE  Once
<1>1. OrderOK(orders[o]) /\ orders[o] \in Order /\ o \in 1..MaxOrders BY DEF IntakeInv, OrdersInv, OrderOK, MaxOrders
<1>2. UNCHANGED remote BY DEF Sync, Found, Created, Synced, SyncFails
<1>3. CASE Sync(o)
  <2> DEFINE row == [(IF orders[o].link = "none" THEN Prepared(orders[o]) ELSE orders[o]) EXCEPT !.link = "syncing"]
  <2>1. orders' = [orders EXCEPT ![o] = row] BY <1>3 DEF Sync
  <2>2. row.link = "syncing" /\ row.asked = orders[o].asked BY <1>1 DEF Prepared, Order
  <2> HIDE DEF row
  <2>3. orders[o].link \in {"none", "pending", "unknown"}
    <3>1. syncing[o] = "none" /\ orders[o].link # "synced" BY <1>3 DEF Sync
    <3>2. orders[o].link # "syncing" BY <1>1, <3>1 DEF IntakeInv, SyncInv
    <3> QED BY <1>1, <3>1, <3>2 DEF Order
  <2>4. Goes(o, {"none", "pending", "unknown"}, "syncing") BY <1>2, <2>1, <2>2, <2>3, WrittenSeen DEF Goes
  <2>5. IO!Start(o) BY <2>4, OnceSteps
  <2> QED BY <1>1, <2>5 DEF Once, IO!Next
<1>4. CASE Found(o) \/ Created(o) \/ SyncFails(o)
  <2>1. PICK link : /\ orders' = [orders EXCEPT ![o].link = link]
                    /\ (link = "synced" /\ orders[o].issue \in remote) \/ link = "unknown"
    BY <1>4 DEF Found, Created, Synced, SyncFails, Link
  <2> DEFINE row == [orders[o] EXCEPT !.link = link]
  <2>2. orders' = [orders EXCEPT ![o] = row] BY <2>1
  <2>3. row.link = link /\ row.asked = orders[o].asked BY <1>1 DEF Order
  <2> HIDE DEF row
  <2>4. orders[o].link = "syncing" BY <1>4, Syncing DEF Found, Created, SyncFails
  <2>5. Goes(o, {"syncing"}, link) BY <1>2, <2>2, <2>3, <2>4, WrittenSeen DEF Goes
  <2>6. CASE link = "unknown"
    <3>1. IO!Fail(o) BY <2>5, <2>6, OnceSteps
    <3> QED BY <1>1, <3>1 DEF Once, IO!Next
  <2>7. CASE link = "synced" /\ orders[o].issue \in remote
    <3>1. OIssues[o] = 1 BY <1>1, <2>7, IssueAtLinear DEF OIssues, IntakeInv, OrdersInv
    <3>2. IO!Succeed(o) BY <2>5, <2>7, <3>1, OnceSteps
    <3> QED BY <1>1, <3>2 DEF Once, IO!Next
  <2> QED BY <2>1, <2>6, <2>7
<1> QED BY <1>3, <1>4

LEMMA AskSeen ==
  ASSUME IntakeInv, NEW o \in 1..Len(orders), NotFound(o)
  PROVE  Once
<1>1. syncing[o] # "none" /\ orders[o].issue \notin remote /\ UNCHANGED remote BY DEF NotFound
<1>2. OrderOK(orders[o]) /\ orders[o] \in Order /\ orders[o].link = "syncing" BY <1>1, Syncing
<1> DEFINE row == [orders[o] EXCEPT !.asked = orders[o].asked \cup {orders[o].issue}]
<1>3. orders' = [orders EXCEPT ![o] = row] BY DEF NotFound
<1>4. row.link = "syncing" /\ row.asked = orders[o].asked \cup {orders[o].issue} BY <1>2 DEF Order
<1> HIDE DEF row
<1>5. /\ o \in 1..MaxOrders /\ OLink[o] = "syncing" /\ OLink' = [OLink EXCEPT ![o] = "syncing"]
      /\ DOMAIN orders' = 1..Len(orders) /\ \A p \in 1..Len(orders) : orders'[p] = IF p = o THEN row ELSE orders[p]
  <2>1. /\ o \in 1..MaxOrders /\ OLink[o] = orders[o].link /\ OLink' = [OLink EXCEPT ![o] = row.link]
        /\ DOMAIN orders' = 1..Len(orders) /\ \A p \in 1..Len(orders) : orders'[p] = IF p = o THEN row ELSE orders[p]
    BY <1>3, WrittenSeen
  <2> QED BY ONLY <1>2, <1>4, <2>1
<1>6. DOMAIN orders = 1..Len(orders) BY DEF IntakeInv, OrdersInv
<1>7. OLink' = OLink
  <2>1. OLink = [p \in 1..MaxOrders |-> OLink[p]] BY DEF OLink
  <2> QED BY <1>5, <2>1
<1>8. OAsked' = OAsked \cup {o} BY <1>4, <1>5, <1>6 DEF OAsked
<1>9. \A p \in 1..Len(orders) : orders'[p].asked \cap remote = orders[p].asked \cap remote BY <1>1, <1>4, <1>5
<1>10. OIssues' = OIssues BY <1>1, <1>5, <1>6, <1>9 DEF OIssues
<1>11. IO!Ask(o) BY <1>5, <1>7, <1>8, <1>10, OnceSteps
<1> QED BY <1>5, <1>11 DEF Once, IO!Next

LEMMA AppearSeen ==
  ASSUME IntakeInv, NEW o \in 1..Len(orders), NEW i \in Issues, Appear(o, i)
  PROVE  Once
<1>1. i \in orders[o].asked /\ i \notin remote /\ remote' = remote \cup {i} /\ orders' = orders BY DEF Appear
<1>2. o \in 1..MaxOrders /\ DOMAIN orders = 1..Len(orders) BY DEF IntakeInv, OrdersInv, MaxOrders
<1>3. orders[o].asked = {i} /\ orders[o].issue = i /\ i # NoIssue BY <1>1, IntakeBounds DEF IntakeInv, OrdersInv, OrderOK
<1>4. ASSUME NEW p \in 1..Len(orders), p # o PROVE i \notin orders[p].asked
  <2>1. orders[p].issue # i BY <1>3, <1>4 DEF IntakeInv, OrdersInv
  <2> QED BY <2>1 DEF IntakeInv, OrdersInv, OrderOK
<1>5. Cardinality(orders[o].asked \cap remote) = 0 /\ Cardinality(orders[o].asked \cap remote') = 1
  <2>1. orders[o].asked \cap remote = {} /\ orders[o].asked \cap remote' = {i} BY <1>1, <1>3
  <2> QED BY <2>1, FS_EmptySet, FS_Singleton
<1>6. ASSUME NEW p \in 1..Len(orders), p # o PROVE orders[p].asked \cap remote' = orders[p].asked \cap remote
  BY <1>1, <1>4, <1>6
<1>7. OIssues[o] = 0 /\ o \in OAsked BY <1>1, <1>2, <1>5 DEF OIssues, OAsked
<1>8. OIssues' = [OIssues EXCEPT ![o] = 1]
  <2>1. ASSUME NEW p \in 1..MaxOrders
        PROVE  (IF p \in DOMAIN orders' THEN Cardinality(orders'[p].asked \cap remote') ELSE 0)
               = IF p = o THEN 1 ELSE IF p \in DOMAIN orders THEN Cardinality(orders[p].asked \cap remote) ELSE 0
    BY <1>1, <1>2, <1>5, <1>6
  <2> QED BY <2>1 DEF OIssues
<1>9. UNCHANGED <<OLink, OAsked>> BY <1>1 DEF OLink, OAsked
<1>10. IO!Appear(o) BY <1>7, <1>8, <1>9, OnceSteps
<1> QED BY <1>2, <1>10 DEF Once, IO!Next

LEMMA LinkSeen ==
  ASSUME IntakeInv, PollLink, orders' # orders
  PROVE  Once
<1>1. UNCHANGED remote /\ poll # NoCall /\ poll.step = "link" BY DEF PollLink, Polling
<1>2. poll.order \in 1..Len(orders) BY <1>1 DEF IntakeInv, PollInv
<1>3. PICK o \in 1..Len(orders) : o = poll.order BY <1>2
<1> DEFINE row == [orders[o] EXCEPT !.link = "synced", !.issue = poll.key]
<1>4. orders[o].link = "none" /\ orders' = [orders EXCEPT ![o] = row] BY <1>3 DEF PollLink
<1>5. orders[o] \in Order BY DEF IntakeInv, OrdersInv, OrderOK
<1>6. row.link = "synced" /\ row.asked = orders[o].asked BY <1>5 DEF Order
<1> HIDE DEF row
<1>7. o \in 1..MaxOrders /\ Goes(o, {"none"}, "synced") BY <1>1, <1>4, <1>6, WrittenSeen DEF Goes
<1>8. IO!Adopt(o) BY <1>7, OnceSteps
<1> QED BY <1>7, <1>8 DEF Once, IO!Next

LEMMA LostSeen ==
  ASSUME IntakeInv, IntakeRestart
  PROVE  Once
<1>1. DOMAIN orders = 1..Len(orders) /\ \A o \in DOMAIN orders : orders[o] \in Order
  BY DEF IntakeInv, OrdersInv, OrderOK
<1>2. /\ UNCHANGED remote
      /\ orders' = [o \in DOMAIN orders |->
           IF orders[o].link = "syncing" THEN [orders[o] EXCEPT !.link = "unknown"] ELSE orders[o]]
  BY DEF IntakeRestart
<1>3. ASSUME NEW o \in DOMAIN orders
      PROVE  /\ orders'[o].link = (IF orders[o].link = "syncing" THEN "unknown" ELSE orders[o].link)
             /\ orders'[o].asked = orders[o].asked
  <2>1. orders[o] \in Order BY <1>1
  <2>2. CASE orders[o].link = "syncing" BY <1>2, <2>1, <2>2 DEF Order
  <2>3. CASE orders[o].link # "syncing" BY <1>2, <2>3
  <2> QED BY <2>2, <2>3
<1>4. DOMAIN orders' = DOMAIN orders BY <1>2
<1>5. OAsked' = OAsked BY <1>3, <1>4 DEF OAsked
<1>6. OIssues' = OIssues BY <1>2, <1>3, <1>4 DEF OIssues
<1>7. OLink' = [o \in 1..MaxOrders |-> IF OLink[o] = "syncing" THEN "unknown" ELSE OLink[o]]
  <2>1. ASSUME NEW o \in 1..MaxOrders
        PROVE  (IF o \in DOMAIN orders' THEN orders'[o].link ELSE "none")
               = IF OLink[o] = "syncing" THEN "unknown" ELSE OLink[o]
    BY <1>3, <1>4 DEF OLink
  <2> QED BY <2>1 DEF OLink
<1>8. IO!LoseAll BY <1>5, <1>6, <1>7 DEF IO!LoseAll, OLink, OAsked, OIssues
<1> QED BY <1>8 DEF Once, IO!Next

LEMMA OnceKept ==
  ASSUME IntakeInv, [IntakeNext \/ IntakeRestart]_intakeVars
  PROVE  Once
<1>1. DOMAIN orders = 1..Len(orders) BY DEF IntakeInv, OrdersInv
<1>2. CASE UNCHANGED <<orders, remote>> BY <1>2, OnceSpelled DEF Once, OLink, OAsked, OIssues
<1>3. ASSUME NEW c \in Creators, Create(c), orders' # orders PROVE Once
  <2>1. /\ OfKey(creating[c].key) = {} /\ Insert(creating[c].key, creating[c].sync) /\ UNCHANGED remote
        /\ creating[c] # NoCall
    BY <1>3 DEF Create
  <2>2. creating[c].key \in Keys /\ creating[c].sync \in BOOLEAN BY <2>1 DEF IntakeInv, CallsInv, Keys
  <2> QED BY <2>1, <2>2, AddedSeen
<1>4. ASSUME PollCreate, orders' # orders PROVE Once
  <2>1. UNCHANGED remote /\ poll # NoCall /\ poll.left \subseteq Hosted
    BY <1>4 DEF PollCreate, Polling, IntakeInv, PollInv
  <2>2. PICK k \in poll.left : OfKey(k) = {} /\ Insert(k, FALSE) BY <1>4 DEF PollCreate
  <2>3. k \in Keys BY <2>1 DEF Keys
  <2> QED BY <2>1, <2>2, <2>3, AddedSeen
<1>5. ASSUME NEW o \in DOMAIN orders, Sync(o) \/ SyncStep(o) \/ \E i \in Issues : Appear(o, i) PROVE Once
  BY <1>1, <1>5, SyncSeen, AskSeen, AppearSeen DEF SyncStep
<1>6. CASE IntakeRestart BY <1>6, LostSeen
<1>7. \/ UNCHANGED <<orders, remote>> \/ IntakeRestart \/ PollLink \/ PollCreate
      \/ \E c \in Creators : Create(c) /\ UNCHANGED remote
      \/ \E o \in DOMAIN orders : Sync(o) \/ SyncStep(o) \/ \E i \in Issues : Appear(o, i)
  BY DEF IntakeNext, intakeVars, Deny, Create, AskCreate, Submit, PollStart, PollEnds, PollAborts, PollRejects, PollReceipt
<1>8. CASE PollLink
  <2>1. UNCHANGED remote BY <1>8 DEF PollLink
  <2> QED BY <1>2, <1>8, <2>1, LinkSeen
<1>9. CASE PollCreate
  <2>1. UNCHANGED remote BY <1>9 DEF PollCreate
  <2> QED BY <1>2, <1>4, <1>9, <2>1
<1> QED BY <1>2, <1>3, <1>5, <1>6, <1>7, <1>8, <1>9
-----------------------------------------------------------------------------
(* Intake and previews in the supervisor *)

LEMMA ServicesParts ==
  ServicesSpec => /\ IntakeInit /\ [][IntakeNext \/ IntakeRestart]_intakeVars
                  /\ PreviewInit /\ [][PreviewNext \/ Interrupted]_previewVars
<1>1. ServicesInit => IntakeInit /\ PreviewInit BY DEF ServicesInit
<1>2. [ServicesNext]_serviceVars => [IntakeNext \/ IntakeRestart]_intakeVars
  BY DEF ServicesNext, serviceVars, intakeVars, IntakeStep, PreviewStep, StoreStep, FeedStep, Restart
<1>3. [ServicesNext]_serviceVars => [PreviewNext \/ Interrupted]_previewVars
  BY DEF ServicesNext, serviceVars, previewVars, IntakeStep, PreviewStep, StoreStep, FeedStep, Restart
<1> QED BY <1>1, <1>2, <1>3, PTL DEF ServicesSpec

LEMMA IntakeAlways == ServicesSpec => []IntakeInv
<1>1. IntakeInit => IntakeInv BY IntakeStarts
<1>2. IntakeInv /\ [IntakeNext \/ IntakeRestart]_intakeVars => IntakeInv' BY IntakeSteps
<1> QED BY <1>1, <1>2, ServicesParts, PTL

LEMMA PreviewAlways == ServicesSpec => []PreviewSound
<1>1. PreviewInit => PreviewSound BY PreviewStarts
<1>2. PreviewSound /\ [PreviewNext \/ Interrupted]_previewVars => PreviewSound' BY PreviewSteps
<1> QED BY <1>1, <1>2, ServicesParts, PTL

LEMMA RestartsAlways == ServicesSpec => [](restarts \in 0..MaxRestarts)
<1>1. ServicesInit => restarts \in 0..MaxRestarts BY RestartBound DEF ServicesInit
<1>2. restarts \in 0..MaxRestarts /\ [ServicesNext]_serviceVars => (restarts \in 0..MaxRestarts)'
  BY RestartBound DEF ServicesNext, serviceVars, IntakeStep, PreviewStep, StoreStep, FeedStep, Restart
<1> QED BY <1>1, <1>2, PTL DEF ServicesSpec

LEMMA IntakeInvSound == IntakeInv => IntakeSound
<1> SUFFICES ASSUME IntakeInv PROVE IntakeSound OBVIOUS
<1>1. DOMAIN orders = 1..Len(orders) BY DEF IntakeInv, OrdersInv
<1>2. ASSUME NEW k \in Hosted, receipts[k] # 0
      PROVE  k \in queue /\ OfKey(k) = {receipts[k]} /\ orders[receipts[k]].issue = k
  <2>1. k \in queue /\ receipts[k] \in 1..Len(orders) /\ orders[receipts[k]].key = k /\ orders[receipts[k]].issue = k
    BY <1>2 DEF IntakeInv, ReceiptsInv
  <2>2. \A o \in 1..Len(orders) : o # receipts[k] => orders[o].key # k BY <2>1 DEF IntakeInv, OrdersInv
  <2> QED BY <1>1, <2>1, <2>2 DEF OfKey
<1>3. \A o \in 1..MaxOrders : syncing[o] # "none" <=> o \in DOMAIN orders /\ orders[o].link = "syncing"
  BY <1>1 DEF IntakeInv, SyncInv
<1>4. \A o, p \in DOMAIN orders : o # p =>
        orders[o].key # orders[p].key /\ (orders[o].issue = orders[p].issue => orders[o].issue = NoIssue)
  BY <1>1 DEF IntakeInv, OrdersInv
<1> QED BY <1>2, <1>3, <1>4 DEF IntakeSound, IntakeInv, OrdersInv, PollInv, RemoteInv, CallsInv

\* A key has one WorkOrder and an issue has one, whatever calls wait for the owner, are repeated by
\* a poll or are lost at a restart (workorder.create, hosted-intake.ts); a receipt names the
\* WorkOrder of its request (ensureHostedReceipt); a link says "syncing" exactly while something
\* synchronizes it (linear.ts); and the last event of a preview says what its entry says
\* (preview.ts): for every number of keys, calls, issues and previews.
THEOREM ServicesSoundHolds == ServicesSpec => []ServicesSound
<1>1. IntakeInv /\ PreviewSound /\ restarts \in 0..MaxRestarts => ServicesSound BY IntakeInvSound DEF ServicesSound
<1> QED BY <1>1, IntakeAlways, PreviewAlways, RestartsAlways, PTL

\* linear.ts takes only the steps that IssueOnce allows: it asks for the one issue it saved, and a
\* WorkOrder is synced only when its issue exists.  This is ImplementsIssueOnce without its Ends.
THEOREM IntakeKeepsPromise == ServicesSpec => IO!Init /\ [][IO!Next]_(IO!onceVars)
<1>1. IntakeInit => IO!Init
  <2> SUFFICES ASSUME IntakeInit PROVE IO!Init OBVIOUS
  <2>1. orders = <<>> /\ DOMAIN orders = {} BY DEF IntakeInit
  <2>2. OLink = [o \in 1..MaxOrders |-> "none"] /\ OAsked = {} /\ OIssues = [o \in 1..MaxOrders |-> 0]
    BY <2>1 DEF OLink, OAsked, OIssues
  <2> QED BY <2>2, OnceSpelled
<1>2. IntakeInv /\ [IntakeNext \/ IntakeRestart]_intakeVars => [IO!Next]_(IO!onceVars) BY OnceKept DEF Once
<1> QED BY <1>1, <1>2, IntakeAlways, ServicesParts, PTL

\* preview.ts takes only the steps that PreviewLifecycle allows: what a client is shown is the fate
\* of the preview, and a preview that failed or was stopped left no process that was not killed.
\* This is ImplementsPreviewLifecycle without its Ends.
THEOREM PreviewKeepsPromise == ServicesSpec => PL!Init /\ [][PL!Next]_(PL!lifeVars)
<1>1. PreviewInit => PL!Init BY PreviewStarts
<1>2. PreviewSound /\ [PreviewNext \/ Interrupted]_previewVars => [PL!Next]_(PL!lifeVars) BY PreviewSteps
<1> QED BY <1>1, <1>2, PreviewAlways, ServicesParts, PTL
=============================================================================
