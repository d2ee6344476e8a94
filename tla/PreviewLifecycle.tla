-------------------------- MODULE PreviewLifecycle --------------------------
(***************************************************************************)
(* What a local preview promises (LocalAppPreviewManager): the status the  *)
(* supervisor shows is its fate, except that a server that exited may be   *)
(* shown as stopped after a restart; a preview that failed or was stopped  *)
(* left no process that was not killed; a build ends, and so does every    *)
(* preview somebody asked to stop.                                         *)
(***************************************************************************)
CONSTANTS Apps

VARIABLES
  shown,  \* "none", "building", "running", "failed", "stopped", "interrupted"
  proc,   \* its process group: "none", "live", "killed"
  asked   \* previews asked to stop

lifeVars == <<shown, proc, asked>>

Init == shown = [a \in Apps |-> "none"] /\ proc = [a \in Apps |-> "none"] /\ asked = {}

Becomes(a, s, p) == shown' = [shown EXCEPT ![a] = s] /\ proc' = [proc EXCEPT ![a] = p]
Open(a) == shown[a] \in {"building", "running"}

Begin(a) == ~Open(a) /\ asked' = asked \ {a} /\ (Becomes(a, "building", "live") \/ Becomes(a, "failed", "none"))
Run(a)   == shown[a] = "building" /\ a \notin asked /\ Becomes(a, "running", "live") /\ UNCHANGED asked
Ask(a)   == Open(a) /\ asked' = asked \cup {a} /\ UNCHANGED <<shown, proc>>
Kill(a)  == proc[a] = "live" /\ Becomes(a, shown[a], "killed") /\ UNCHANGED asked
Exit(a)  == a \in asked /\ Becomes(a, shown[a], "none") /\ UNCHANGED asked

Fail(a) == Open(a) /\ a \notin asked /\ Becomes(a, "failed", "none") /\ UNCHANGED asked
Stop(a) ==
  /\ Open(a) /\ a \in asked /\ asked' = asked \ {a}
  /\ \/ Becomes(a, "stopped", "none")
     \/ proc[a] = "killed" /\ Becomes(a, "stopped", "killed")

Interrupt ==
  /\ \E exited \in SUBSET {a \in Apps : shown[a] = "failed"} :
       shown' = [a \in Apps |-> CASE Open(a) -> "interrupted" [] a \in exited -> "stopped" [] OTHER -> shown[a]]
  /\ proc' = [a \in Apps |-> "none"] /\ asked' = {}

Next == Interrupt \/ \E a \in Apps :
  Begin(a) \/ Run(a) \/ Ask(a) \/ Kill(a) \/ Exit(a) \/ Fail(a) \/ Stop(a)

Ends == \A a \in Apps : (shown[a] = "building" ~> shown[a] # "building") /\ (a \in asked ~> a \notin asked)

Spec == Init /\ [][Next]_lifeVars /\ Ends
=============================================================================
