-------------------------- MODULE CapabilityPolicy --------------------------
(***************************************************************************)
(* The owner's capability policy at the hosted factory: admission under it *)
(* (packages/capability-enforcement, capability-control), the recovery     *)
(* witness that keeps its head on a disk of its own, and the controls by   *)
(* which an owner pauses or revokes what was admitted                      *)
(* (capability-controls.mjs).                                              *)
(*                                                                         *)
(* The policy is written by another product, which advances the witness    *)
(* and then commits; its database may be restored to an earlier policy.    *)
(* The admission transaction holds the rows it read, not the clock.  The   *)
(* life of a machine is CloudWork's: here it is none, live or gone.        *)
(***************************************************************************)
EXTENDS Naturals, Sequences, SequencesExt, FiniteSets

CONSTANTS
  Runs,         \* runs of the client
  MaxPolicies,  \* bound: revisions of the policy
  NoRun,
  NoPolicy

ASSUME CapabilityBounds == MaxPolicies \in Nat /\ NoRun \notin Runs

VARIABLES
  history,     \* every owner_state the witness was shown, by revision, committed or not
  stored,      \* the revision owner_state is at
  head,        \* recovery head: the policy the witness saw last
  changing,    \* the operation of a policy the witness has and the database not yet
  lapsed,      \* the evidence of the policy has lapsed
  admitting,   \* the run whose admission transaction is open
  controlled,  \* control_requests: operation and revision
  run,         \* [Runs -> events and resources of the run]
  replies      \* [control -> what applyFactoryCapabilityControl answered last]

capabilityVars == <<history, stored, head, changing, lapsed, admitting, controlled, run, replies>>

Capabilities == {"work", "myfactory"}

\* The registry: what depends on what, without cycles.
dependencies == [c \in Capabilities |-> IF c = "myfactory" THEN {"work"} ELSE {}]

\* preferences and controls of a revision.  The facts observed of a capability are as needed
\* until they expire.
OwnerStates == [enabled : SUBSET Capabilities, controls : [Capabilities -> {"none", "pause", "revoke"}]]
OwnerState  == history[stored]

\* An older source admitted runs without saying under which policy.
NewRun == [older |-> FALSE, revision |-> 0, at |-> 0, paused |-> {}, revoked |-> {},
           machine |-> "none", verifier |-> "none"]
OlderRun == [NewRun EXCEPT !.older = TRUE]
Older == {r \in Runs : run[r].older}
Admitted(r) == r \in Older \/ run[r].revision > 0

CapabilityInit ==
  /\ history = << [enabled |-> Capabilities, controls |-> [c \in Capabilities |-> "none"]] >>
  /\ stored = 1 /\ head = [revision |-> 1, policy |-> OwnerState] /\ changing = NoPolicy
  /\ lapsed = FALSE /\ admitting = NoRun
  /\ controlled = <<>> /\ replies = <<>>
  /\ run \in [Runs -> {NewRun, OlderRun}]
-----------------------------------------------------------------------------
(* The policy and its witness *)

recoveryHead == [revision |-> stored, policy |-> OwnerState]

\* Slip: a head that is ahead of the database is taken for a late one.
HeadAtLeast == head.revision >= stored

\* assertRecoveryHead
HeadMatches == head = recoveryHead

Unlocked == changing = NoPolicy /\ admitting = NoRun

\* The head is written before the commit, and only over the head of the policy it follows.
AdvanceWitness(operation, policy) ==
  /\ Unlocked /\ HeadMatches /\ stored < MaxPolicies
  /\ changing' = operation /\ head' = [revision |-> stored + 1, policy |-> policy]
  /\ history' = Append(SubSeq(history, 1, stored), policy)
  /\ UNCHANGED <<stored, lapsed, admitting, controlled, run, replies>>

\* A control is requested in the transaction that puts it into the policy.
CommitPolicy ==
  /\ changing # NoPolicy /\ changing' = NoPolicy /\ stored' = stored + 1
  /\ IF changing = "none" THEN UNCHANGED <<controlled, replies>>
     ELSE /\ controlled' = Append(controlled, [operation |-> changing, revision |-> stored'])
          /\ replies' = Append(replies, [complete |-> FALSE, pending |-> {}])
  /\ UNCHANGED <<history, head, lapsed, admitting, run>>

\* A commit that fails, or of which nobody knows, leaves the witness where it is.
LosePolicy ==
  /\ changing # NoPolicy /\ changing' = NoPolicy
  /\ UNCHANGED <<history, stored, head, lapsed, admitting, controlled, run, replies>>

\* The policy comes back from a backup; what was requested of the factory does not.
RestorePolicy ==
  /\ Unlocked /\ stored' \in 1..(stored - 1)
  /\ UNCHANGED <<history, head, changing, lapsed, admitting, controlled, run, replies>>

\* Evidence expires; it is observed again, as it was.
ExpireEvidence ==
  /\ lapsed' = ~lapsed
  /\ UNCHANGED <<history, stored, head, changing, admitting, controlled, run, replies>>

Change ==
  \/ \E c \in Capabilities, operation \in {"pause", "revoke"} :
       AdvanceWitness(operation, [OwnerState EXCEPT !.controls[c] = operation])
  \/ \E c \in Capabilities :
       /\ OwnerState.controls[c] # "none" \/ c \notin OwnerState.enabled
       /\ AdvanceWitness("none", [OwnerState EXCEPT !.controls[c] = "none", !.enabled = @ \cup {c}])
  \/ \E c \in OwnerState.enabled : AdvanceWitness("none", [OwnerState EXCEPT !.enabled = @ \ {c}])
-----------------------------------------------------------------------------
(* Admission *)

\* resolveCapabilities: enabled, and ready only if what it depends on is resolved.
Resolved(c) == {c} \cup dependencies[c] \subseteq OwnerState.enabled

\* include: what the request needs, with the Work it is about.
Required == {"work", "myfactory"} \cup UNION {dependencies[c] : c \in {"work", "myfactory"}}

\* assertCapabilityAdmission
CapabilityAdmission ==
  /\ HeadMatches /\ ~lapsed
  /\ \A c \in Required : OwnerState.controls[c] = "none" /\ Resolved(c)

\* prepare up to its snapshot, with the rows of the policy locked.
BeginAdmission(r) ==
  /\ Unlocked /\ ~Admitted(r) /\ CapabilityAdmission
  /\ admitting' = r
  /\ UNCHANGED <<history, stored, head, changing, lapsed, controlled, run, replies>>

\* The checks are made again at the end: evidence may have lapsed meanwhile.
CommitAdmission ==
  /\ admitting # NoRun /\ admitting' = NoRun
  /\ IF CapabilityAdmission
     THEN run' = [run EXCEPT ![admitting] = [@ EXCEPT !.revision = stored, !.at = Len(history)]]
     ELSE UNCHANGED run
  /\ UNCHANGED <<history, stored, head, changing, lapsed, controlled, replies>>
-----------------------------------------------------------------------------
(* What a run does *)

Suspended(r) == run[r].paused # {} \/ run[r].revoked # {}

\* claim, which asks for no policy any more.
ClaimMachine(r) ==
  /\ admitting = NoRun /\ Admitted(r) /\ run[r].machine = "none" /\ ~Suspended(r)
  /\ run' = [run EXCEPT ![r].machine = "live"]
  /\ UNCHANGED <<history, stored, head, changing, lapsed, admitting, controlled, replies>>

ClaimVerifier(r) ==
  /\ admitting = NoRun /\ run[r].machine = "gone" /\ run[r].verifier = "none" /\ ~Suspended(r)
  /\ run' = [run EXCEPT ![r].verifier = "live"]
  /\ UNCHANGED <<history, stored, head, changing, lapsed, admitting, controlled, replies>>

\* confirmCleanup, of the producer or of the verifier.
ConfirmCleanup(r) ==
  /\ admitting = NoRun
  /\ \/ run[r].machine = "live" /\ run' = [run EXCEPT ![r].machine = "gone"]
     \/ run[r].verifier = "live" /\ run' = [run EXCEPT ![r].verifier = "gone"]
  /\ UNCHANGED <<history, stored, head, changing, lapsed, admitting, controlled, replies>>
-----------------------------------------------------------------------------
(* Controls *)

Clean(r) == run[r].machine # "live" /\ run[r].verifier # "live"

\* What a control marks: Work admitted after it was lifted is let alone, and so is what has no
\* record of its owner.
Subject(c) == {r \in Runs \ Older : Admitted(r) /\ run[r].revision <= controlled[c].revision}

\* One transaction: it marks what the control is about and answers with one receipt each.
ApplyControl(c) ==
  /\ Unlocked /\ stored >= controlled[c].revision
  /\ run' = [r \in Runs |->
       IF r \notin Subject(c) THEN run[r]
       ELSE IF controlled[c].operation = "pause" THEN [run[r] EXCEPT !.paused = @ \cup {c}]
            ELSE [run[r] EXCEPT !.revoked = @ \cup {c}]]
  /\ LET pending == {r \in Subject(c) : ~Clean(r)} IN
       replies' = [replies EXCEPT ![c] = [complete |-> pending = {} /\ Older = {}, pending |-> pending]]
  /\ UNCHANGED <<history, stored, head, changing, lapsed, admitting, controlled>>

\* Teardown by name: a machine that was never there stays so.
Destroyed(machine) == IF machine = "live" THEN "gone" ELSE machine

\* Between two applications the machines of a revoked run are destroyed by name.  A failure
\* is noted for the next receipt; the receipts of the first may be out of date.
ReconcileControl(c, r) ==
  /\ controlled[c].operation = "revoke" /\ r \in replies[c].pending /\ admitting = NoRun
  /\ run' = [run EXCEPT ![r].machine = Destroyed(@), ![r].verifier = Destroyed(@)]
  /\ UNCHANGED <<history, stored, head, changing, lapsed, admitting, controlled, replies>>

CapabilityNext ==
  \/ Change \/ CommitPolicy \/ LosePolicy \/ RestorePolicy \/ ExpireEvidence \/ CommitAdmission
  \/ \E r \in Runs : BeginAdmission(r) \/ ClaimMachine(r) \/ ClaimVerifier(r) \/ ConfirmCleanup(r)
  \/ \E c \in DOMAIN controlled : ApplyControl(c) \/ \E r \in Runs : ReconcileControl(c, r)

CapabilitySpec == CapabilityInit /\ [][CapabilityNext]_capabilityVars
-----------------------------------------------------------------------------
CapabilityTypeOK ==
  /\ history \in Seq(OwnerStates) /\ stored \in DOMAIN history /\ head.policy \in OwnerStates
  /\ admitting \in Runs \cup {NoRun} /\ Len(replies) = Len(controlled)

\* A run is admitted under the last policy the witness was shown: not under one that came back
\* from a backup, nor under the one before a commit that the database lost (recovery-witness.ts,
\* assertRecoveryHead).
AdmittedCurrent == \A r \in Runs : run[r].revision = run[r].at

\* A control never touches Work that was admitted when it had already been requested, however
\* often it is applied again (capability-controls.mjs).
ControlsForward == \A r \in Runs : \A c \in run[r].paused \cup run[r].revoked :
  run[r].at < controlled[c].revision

\* Once a control is acknowledged, nothing admitted before it runs, or ever runs again.
AcknowledgedQuiet == \A c \in DOMAIN replies : replies[c].complete =>
  \A r \in Runs : Admitted(r) /\ run[r].at < controlled[c].revision => Clean(r) /\ Suspended(r)

CapabilitySound == CapabilityTypeOK /\ AdmittedCurrent /\ ControlsForward /\ AcknowledgedQuiet
=============================================================================
