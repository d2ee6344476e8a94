--------------------------- MODULE PreviewManager ---------------------------
(***************************************************************************)
(* Local previews of generated apps: packages/app-builder/src/preview.ts   *)
(* with the actions builder.create, builder.preview.start and stop.        *)
(*                                                                         *)
(* A preview runs three commands and then a server, each a process group   *)
(* of its own, one at a time.  The manifest and the sources are verified   *)
(* before each; they may change on disk at any time, so every verification *)
(* may fail.  The content of files and logs is left out.                   *)
(***************************************************************************)
EXTENDS Naturals

CONSTANTS Apps, NoPreview

VARIABLES
  built,    \* WorkOrders with a scaffold
  preview,  \* [Apps -> the manager's entry], in memory
  event     \* [Apps -> the last builder.preview event], durable

previewVars == <<built, preview, event>>

Server == 4     \* install, typecheck, build, and the server
Entry  == [status : {"building", "running", "failed", "stopped"}, stopping : BOOLEAN,
           step : 1..Server, proc : {"none", "live", "termed", "killed"}]
Events == {"none", "requested", "started", "failed", "exited", "stopped", "interrupted"}

ASSUME PreviewSentinel == NoPreview \notin Entry

PreviewInit ==
  /\ built = {} /\ preview = [a \in Apps |-> NoPreview] /\ event = [a \in Apps |-> "none"]

Active(a)     == preview[a] # NoPreview /\ preview[a].status \in {"building", "running"}
Building(a)   == Active(a) /\ preview[a].status = "building"
InCommand(a)  == Building(a) /\ preview[a].step < Server
InServer(a)   == Active(a) /\ preview[a].step = Server
Proc(a, p)    == Active(a) /\ preview[a].proc = p
Set(a, entry) == preview' = [preview EXCEPT ![a] = entry]
Emit(a, type) == event' = [event EXCEPT ![a] = type] /\ UNCHANGED built

Becomes(a, status, type) == Set(a, [preview[a] EXCEPT !.status = status, !.proc = "none"]) /\ Emit(a, type)

\* builder.create: the directory appears whole, and goes again if the WorkOrder is not saved.
Scaffold(a) == a \notin built /\ built' = built \cup {a} /\ UNCHANGED <<preview, event>>

\* #verifySource: whether the directory is, right now, what the manifest says.
VerifySource == BOOLEAN

\* An active preview is returned as it is.
Begin(a) ==
  /\ a \in built /\ ~Active(a)
  /\ \E ok \in VerifySource :
       /\ Set(a, [status |-> IF ok THEN "building" ELSE "failed", stopping |-> FALSE,
                  step |-> 1, proc |-> IF ok THEN "live" ELSE "none"])
       /\ Emit(a, IF ok THEN "requested" ELSE "failed")

\* The command succeeded and the sources are still the manifest's.
CommandSucceeds(a) ==
  /\ InCommand(a) /\ Proc(a, "live") /\ ~preview[a].stopping
  /\ Set(a, [preview[a] EXCEPT !.step = @ + 1]) /\ UNCHANGED <<built, event>>

ServerReady(a) ==
  /\ InServer(a) /\ Building(a) /\ Proc(a, "live") /\ ~preview[a].stopping
  /\ Set(a, [preview[a] EXCEPT !.status = "running"]) /\ Emit(a, "started")

\* The process closes, by itself or killed, before the preview runs.
BuildEnds(a) ==
  /\ Building(a)
  /\ IF preview[a].stopping THEN Becomes(a, "stopped", "stopped") ELSE Becomes(a, "failed", "failed")

\* A running server closes; a stop that waits for it records the end.
ServerEnds(a) ==
  /\ InServer(a) /\ ~Building(a) /\ preview[a].proc # "none"
  /\ IF preview[a].stopping
     THEN Set(a, [preview[a] EXCEPT !.proc = "none"]) /\ UNCHANGED <<built, event>>
     ELSE Becomes(a, "failed", "exited")

\* Out of time before it runs, or over the log limit: SIGTERM to the group.
Overrun(a) ==
  /\ Proc(a, "live") /\ Set(a, [preview[a] EXCEPT !.proc = "termed"]) /\ UNCHANGED <<built, event>>

\* SIGKILL after 1.5 seconds.
KillWithGrace(a) ==
  /\ Proc(a, "termed") /\ Set(a, [preview[a] EXCEPT !.proc = "killed"]) /\ UNCHANGED <<built, event>>

\* Slip: a stop marks the preview stopped while its process is asked to end.
StopAtOnce(a) ==
  /\ Active(a) /\ ~preview[a].stopping
  /\ Set(a, [preview[a] EXCEPT !.stopping = TRUE, !.status = "stopped"]) /\ Emit(a, "stopped")

\* A command gets SIGTERM; a server is asked on its standard input.
Stop(a) ==
  /\ Active(a) /\ ~preview[a].stopping
  /\ Set(a, [preview[a] EXCEPT !.stopping = TRUE, !.proc = IF InCommand(a) /\ @ = "live" THEN "termed" ELSE @])
  /\ UNCHANGED <<built, event>>

\* The server did not answer in 1.5 seconds.
StopInsists(a) == InServer(a) /\ preview[a].stopping /\ Overrun(a)

\* stop goes on when the server closed, or 4 seconds later; then it waits for the build.
StopReturns(a) ==
  /\ InServer(a) /\ ~Building(a) /\ preview[a].stopping /\ preview[a].proc \in {"none", "killed"}
  /\ Set(a, [preview[a] EXCEPT !.status = "stopped"]) /\ Emit(a, "stopped")

\* Timers fire, and a process group that got SIGKILL closes.
Timers(a) ==
  \/ Building(a) /\ Overrun(a)
  \/ KillWithGrace(a) \/ StopInsists(a) \/ StopReturns(a)
  \/ Proc(a, "killed") /\ (BuildEnds(a) \/ ServerEnds(a))

PreviewNext == \E a \in Apps :
  \/ Scaffold(a) \/ Begin(a) \/ CommandSucceeds(a) \/ ServerReady(a)
  \/ BuildEnds(a) \/ ServerEnds(a) \/ Overrun(a) \/ Stop(a) \/ Timers(a)

\* A restart forgets the entries.  createSupervisor closes the last event of each.
Interrupted ==
  /\ preview' = [a \in Apps |-> NoPreview]
  /\ event' = [a \in Apps |-> IF event[a] \in {"requested", "started"} THEN "interrupted" ELSE event[a]]
  /\ UNCHANGED built
-----------------------------------------------------------------------------
\* What the status route answers: the entry's status, or after a restart what the event tells.
Shown(a) ==
  IF preview[a] # NoPreview THEN preview[a].status
  ELSE CASE event[a] \in {"requested", "started"} -> "interrupted"
         [] event[a] = "exited" -> "stopped"
         [] OTHER -> event[a]

Told == [building |-> {"requested"}, running |-> {"started"}, failed |-> {"failed", "exited"}, stopped |-> {"stopped"}]

PreviewSound ==
  /\ preview \in [Apps -> Entry \cup {NoPreview}] /\ event \in [Apps -> Events]
  /\ \A a \in Apps : IF preview[a] = NoPreview THEN event[a] \notin {"requested", "started"}
                     ELSE a \in built /\ event[a] \in Told[preview[a].status]

PL == INSTANCE PreviewLifecycle WITH
  shown <- [a \in Apps |-> Shown(a)],
  proc  <- [a \in Apps |-> CASE preview[a] = NoPreview -> "none"
                             [] preview[a] # NoPreview /\ preview[a].proc = "termed" -> "live"
                             [] OTHER -> preview[a].proc],
  asked <- {a \in Apps : Active(a) /\ preview[a].stopping}
=============================================================================
