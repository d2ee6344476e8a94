----------------------------- MODULE IssueOnce -----------------------------
(***************************************************************************)
(* What Linear synchronization promises for a WorkOrder (linear.ts): it    *)
(* creates at most one issue for it, whatever is lost, retried or          *)
(* restarted; a synced WorkOrder has its issue and asks for nothing more;  *)
(* and a synchronization under way ends.                                   *)
(***************************************************************************)
EXTENDS Naturals

CONSTANTS Orders

VARIABLES
  link,   \* "none", "pending", "syncing", "unknown", "synced"
  asked,  \* orders whose issue Linear was asked to create
  issues  \* issues created for the order

onceVars == <<link, asked, issues>>

Init == link = [o \in Orders |-> "none"] /\ asked = {} /\ issues = [o \in Orders |-> 0]

Move(o, from, to) == link[o] \in from /\ link' = [link EXCEPT ![o] = to] /\ UNCHANGED <<asked, issues>>

Prepare(o) == Move(o, {"none"}, "pending")
Adopt(o)   == Move(o, {"none"}, "synced")      \* of a hosted request, which is an issue already
Start(o)   == Move(o, {"none", "pending", "unknown"}, "syncing")
Fail(o)    == Move(o, {"syncing"}, "unknown")
Succeed(o) == issues[o] = 1 /\ Move(o, {"syncing"}, "synced")

Ask(o)    == link[o] = "syncing" /\ asked' = asked \cup {o} /\ UNCHANGED <<link, issues>>
Appear(o) == o \in asked /\ issues[o] = 0 /\ issues' = [issues EXCEPT ![o] = 1] /\ UNCHANGED <<link, asked>>

LoseAll ==
  /\ link' = [o \in Orders |-> IF link[o] = "syncing" THEN "unknown" ELSE link[o]]
  /\ UNCHANGED <<asked, issues>>

Next == LoseAll \/ \E o \in Orders :
  Prepare(o) \/ Adopt(o) \/ Start(o) \/ Fail(o) \/ Succeed(o) \/ Ask(o) \/ Appear(o)

Ends == \A o \in Orders : link[o] = "syncing" ~> link[o] # "syncing"

Spec == Init /\ [][Next]_onceVars /\ Ends
=============================================================================
