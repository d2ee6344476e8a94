---------------------------- MODULE ResultSigning ----------------------------
(***************************************************************************)
(* The signed Result of one attempt (producer-results.ts, result.ts): what *)
(* processes that share the database sign and freeze while their owner     *)
(* rotates keys, and what a consumer accepts of it.                        *)
(*                                                                         *)
(* A process keeps the registry of keys it was started with; one whose     *)
(* source was replaced only refuses.  finalize is synchronous, but two     *)
(* processes may both have read that nothing is frozen before either of    *)
(* them saves: signing and freezing are two steps.  The host's clock may   *)
(* be set back.  Bytes and digests are data; a signature is the id of its  *)
(* key.                                                                    *)
(***************************************************************************)
EXTENDS Naturals, Sequences, FiniteSets

CONSTANTS
  KeyIds,      \* key ids: position in the order in which they become current
  Signers,     \* supervisor processes
  MaxTime,     \* bound: the clock
  MaxRings,    \* bound: versions of the registry
  NoResult

ASSUME SigningBounds ==
  /\ 1 \in KeyIds /\ \A k \in KeyIds : k \in Nat \ {0} /\ 1..k \subseteq KeyIds
  /\ MaxTime \in Nat /\ MaxRings \in Nat \ {0}

VARIABLES
  rings,     \* result-signing.json, every version of it
  pem,       \* the private key on disk
  started,   \* [Signers -> the version a process was started with, or NoResult]
  attempt,   \* the attempt: its state, whether it has a snapshot, its candidate and its times
  signing,   \* [Signers -> a Result that is signed and not saved, or NoResult]
  frozen,    \* the run.signed_result event
  accepted,  \* Results a consumer admitted
  now

signingVars == <<rings, pem, started, attempt, signing, frozen, accepted, now>>
processVars == <<started, signing, frozen, accepted>>
ownerVars   == <<rings, pem>>

Never    == MaxTime + 2
Time     == 0..MaxTime
ResultKey == [from : Time, until : 0..(MaxTime + 2), retired : 0..Never, revoked : BOOLEAN]
States   == {"absent", "running", "ready_for_review", "failed", "interrupted"}   \* failed, or cancelled
Attempt  == [state : States, snapshot : BOOLEAN, candidate : BOOLEAN, captured : Time, committed : Time, finished : Time]
SignedResult == [key : KeyIds, issued : Time, state : States, by : 1..MaxRings]

ASSUME ResultSentinel == NoResult \notin SignedResult \cup 1..MaxRings

\* An attempt of which the producer may attest something.
Terminal == attempt.state \in {"ready_for_review", "failed"}

\* The chronology a manifest must have, whatever the clock did.
ValidManifest(issued) ==
  /\ attempt.captured <= attempt.finished /\ attempt.finished <= issued
  /\ attempt.candidate => attempt.captured <= attempt.committed /\ attempt.committed <= attempt.finished
  /\ attempt.state = "ready_for_review" => attempt.candidate

\* verifyResult with the registry `ring'.
VerifyResult(result, ring, historical) ==
  /\ result.key \in DOMAIN ring.keys
  /\ LET key == ring.keys[result.key]
     IN /\ key.from <= result.issued /\ result.issued <= key.until /\ result.issued <= now
        /\ result.issued < key.retired
        /\ historical \/ (~key.revoked /\ key.retired = Never /\ now <= key.until)

\* compareResults, of two Results of the attempt.
Conflicting(first, second) == first # second

Ring(p) == rings[started[p]]
-----------------------------------------------------------------------------
\* The attempt is to come, or was made before results were signed.
SigningInit ==
  /\ \E until \in {0, 2} :
       rings = << [current |-> 1,
                   keys |-> [k \in {1} |-> [from |-> 0, until |-> until, retired |-> Never, revoked |-> FALSE]]] >>
  /\ pem = 1 /\ started = [p \in Signers |-> NoResult]
  /\ \E state \in {"absent", "running"} :
       attempt = [state |-> state, snapshot |-> FALSE, candidate |-> FALSE, captured |-> 0, committed |-> 0, finished |-> 0]
  /\ signing = [p \in Signers |-> NoResult] /\ frozen = NoResult /\ accepted = {} /\ now = 0

\* A process starts only with the private key of its current public one.
Boot(p) ==
  /\ started[p] = NoResult /\ pem = rings[Len(rings)].current
  /\ started' = [started EXCEPT ![p] = Len(rings)]
  /\ UNCHANGED <<ownerVars, attempt, signing, frozen, accepted, now>>

Exit(p) ==
  /\ started[p] # NoResult
  /\ started' = [started EXCEPT ![p] = NoResult] /\ signing' = [signing EXCEPT ![p] = NoResult]
  /\ UNCHANGED <<ownerVars, attempt, frozen, accepted, now>>

\* The snapshot is saved with the run, under a key that admits.
CaptureSnapshot(p) ==
  /\ started[p] # NoResult /\ attempt.state = "absent"
  /\ LET key == Ring(p).keys[Ring(p).current]
     IN ~key.revoked /\ key.retired = Never /\ key.from <= now /\ now <= key.until
  /\ attempt' = [attempt EXCEPT !.state = "running", !.snapshot = TRUE, !.captured = now]
  /\ UNCHANGED <<ownerVars, processVars, now>>

\* The candidate is committed, and the attempt ends: see JobManager.
Executing == attempt.state = "running" /\ \E p \in Signers : started[p] # NoResult
Commit ==
  /\ Executing /\ ~attempt.candidate
  /\ attempt' = [attempt EXCEPT !.candidate = TRUE, !.committed = now]
  /\ UNCHANGED <<ownerVars, processVars, now>>
Finish ==
  /\ Executing
  /\ \E s \in {"failed", "interrupted"} \cup (IF attempt.candidate THEN {"ready_for_review"} ELSE {}) :
       attempt' = [attempt EXCEPT !.state = s, !.finished = now]
  /\ UNCHANGED <<ownerVars, processVars, now>>

\* finalize up to its transaction: the Result is checked as a consumer would check it.
Sign(p) ==
  /\ started[p] # NoResult
  /\ frozen = NoResult /\ attempt.snapshot /\ Terminal /\ ValidManifest(now)
  /\ LET result == [key |-> Ring(p).current, issued |-> now, state |-> attempt.state, by |-> started[p]]
     IN VerifyResult(result, Ring(p), FALSE) /\ signing' = [signing EXCEPT ![p] = result]
  /\ UNCHANGED <<ownerVars, started, attempt, frozen, accepted, now>>

\* Its transaction: another Result that was saved meanwhile stays, and the call throws.
Freeze(p) ==
  /\ signing[p] # NoResult /\ signing[p].state = attempt.state
  /\ frozen' = (IF frozen = NoResult THEN signing[p] ELSE frozen)
  /\ signing' = [signing EXCEPT ![p] = NoResult]
  /\ UNCHANGED <<ownerVars, started, attempt, accepted, now>>

\* The process reads the frozen Result back, as in its own history; a consumer with some
\* version of the registry verifies the answer for current use and compares it with others.
Consume(p) ==
  /\ started[p] # NoResult /\ frozen # NoResult
  /\ VerifyResult(frozen, Ring(p), TRUE) /\ frozen.state = attempt.state
  /\ \E v \in DOMAIN rings : VerifyResult(frozen, rings[v], FALSE)
  /\ ~\E other \in accepted : Conflicting(other, frozen)
  /\ accepted' = accepted \cup {frozen}
  /\ UNCHANGED <<ownerVars, started, attempt, signing, frozen, now>>
-----------------------------------------------------------------------------
\* The owner writes the registry: the next key becomes current and the old record stays, with
\* its boundary of retirement or without one yet; or a key is retired or revoked.
Boundaries == {now, now + 1}
Retired(ring, k) == {[ring EXCEPT !.keys[k].retired = t] : t \in Boundaries}
Rotated(ring) ==
  {[current |-> k, keys |-> [i \in 1..k |-> IF i = k
                               THEN [from |-> now, until |-> now + 2, retired |-> Never, revoked |-> FALSE]
                               ELSE ring.keys[i]]] : k \in {ring.current + 1} \cap KeyIds}
WriteRing ==
  /\ Len(rings) < MaxRings
  /\ LET ring == rings[Len(rings)] IN
       \E next \in Rotated(ring)
                   \cup (UNION {Retired(r, ring.current) : r \in Rotated(ring)})
                   \cup (UNION {Retired(ring, k) : k \in {i \in DOMAIN ring.keys : ring.keys[i].retired = Never}})
                   \cup {[ring EXCEPT !.keys[k].revoked = TRUE] : k \in DOMAIN ring.keys} :
         next # ring /\ rings' = Append(rings, next)
  /\ UNCHANGED <<pem, attempt, processVars, now>>

WritePem ==
  /\ pem + 1 \in KeyIds /\ pem' = pem + 1
  /\ UNCHANGED <<rings, attempt, processVars, now>>
SetClock ==
  /\ now' \in Time \ {now}
  /\ UNCHANGED <<ownerVars, attempt, processVars>>

SigningNext ==
  \/ \E p \in Signers : Boot(p) \/ Exit(p) \/ CaptureSnapshot(p) \/ Sign(p) \/ Freeze(p) \/ Consume(p)
  \/ Commit \/ Finish \/ WriteRing \/ WritePem \/ SetClock
SigningSpec == SigningInit /\ [][SigningNext]_signingVars
-----------------------------------------------------------------------------
SigningTypeOK ==
  /\ \A v \in DOMAIN rings : DOMAIN rings[v].keys \subseteq KeyIds /\ \A k \in DOMAIN rings[v].keys : rings[v].keys[k] \in ResultKey
  /\ attempt \in Attempt /\ signing \in [Signers -> SignedResult \cup {NoResult}] /\ frozen \in SignedResult \cup {NoResult}
  /\ accepted \subseteq SignedResult /\ now \in Time

\* "competing writers cannot replace a frozen record": whoever asked, when and of which
\* process, what was admitted is one Result, the frozen one, which agrees with the attempt.
OneResult ==
  /\ accepted \subseteq {frozen}
  /\ frozen # NoResult => attempt.snapshot /\ frozen.state = attempt.state

\* A frozen Result can be audited with its signer's registry and with every later one, once
\* the clock is where it was, unless a boundary was written later than the signer was started
\* and set no later than the Result was issued.
Auditable ==
  frozen # NoResult /\ frozen.issued <= now => \A v \in frozen.by..Len(rings) :
    \/ VerifyResult(frozen, rings[v], TRUE)
    \/ rings[v].keys[frozen.key].retired <= frozen.issued /\ rings[frozen.by].keys[frozen.key].retired = Never

ResultSound == SigningTypeOK /\ OneResult /\ Auditable
=============================================================================
