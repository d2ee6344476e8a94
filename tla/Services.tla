------------------------------ MODULE Services ------------------------------
(***************************************************************************)
(* The supervisor's services beside its runs: intake, Linear               *)
(* synchronization, local previews, the database and the streams of events *)
(* in one process, which may stop and start again (createSupervisor and    *)
(* close in server.ts).                                                    *)
(***************************************************************************)
EXTENDS HostedIntake, PreviewManager, FactoryStore, EventFeed

CONSTANTS MaxRestarts   \* bound: restarts

ASSUME RestartBound == MaxRestarts \in Nat

VARIABLES restarts

serviceVars == <<intakeVars, previewVars, storeVars, feedVars, restarts>>

ServicesInit == IntakeInit /\ PreviewInit /\ StoreInit /\ FeedInit /\ restarts = 0

IntakeStep  == IntakeNext /\ UNCHANGED <<previewVars, storeVars, feedVars, restarts>>
PreviewStep == PreviewNext /\ UNCHANGED <<intakeVars, storeVars, feedVars, restarts>>
StoreStep   == StoreNext /\ UNCHANGED <<intakeVars, previewVars, feedVars, restarts>>
FeedStep    == FeedNext /\ UNCHANGED <<intakeVars, previewVars, storeVars, restarts>>

\* At any await.  A shutdown first waits for the poll, the synchronizations and the previews,
\* which is a restart after their own steps.
Restart ==
  /\ restarts < MaxRestarts /\ restarts' = restarts + 1
  /\ IntakeRestart /\ Interrupted /\ FeedRestart /\ \E p \in Processes : StoreRestart(p)

ServicesNext == IntakeStep \/ PreviewStep \/ StoreStep \/ FeedStep \/ Restart

\* Linear is given 15 seconds; timers fire.
ServicesFairness ==
  /\ \A o \in 1..MaxOrders : WF_serviceVars(
       o \in DOMAIN orders /\ SyncStep(o) /\ UNCHANGED <<previewVars, storeVars, feedVars, restarts>>)
  /\ \A a \in Apps : WF_serviceVars(Timers(a) /\ UNCHANGED <<intakeVars, storeVars, feedVars, restarts>>)

ServicesSpec == ServicesInit /\ [][ServicesNext]_serviceVars /\ ServicesFairness
-----------------------------------------------------------------------------
\* One WorkOrder for a key, also when two calls ask the owner at a time and when a poll is
\* repeated (workorder.create looks the key up again in its transaction); one WorkOrder for an
\* issue; a receipt names the WorkOrder of its request; a link says "syncing" only while
\* something synchronizes it, and a preview's last event only what its entry says.
ServicesSound == IntakeSound /\ PreviewSound /\ restarts \in 0..MaxRestarts

\* linear.ts keeps the promise of IssueOnce.
ImplementsIssueOnce == IO!Spec

\* The preview manager keeps the promise of PreviewLifecycle.
ImplementsPreviewLifecycle == PL!Spec
=============================================================================
