------------------------------ MODULE WebPanels ------------------------------
(***************************************************************************)
(* The panels of the web application that act and then read again what     *)
(* they show: previews (LocalPreviewPanel.tsx), connections                *)
(* (ConnectionsPage.tsx), and the switch of dispatch (DispatchControl.tsx),*)
(* which sends the revision it shows.                                      *)
(*                                                                         *)
(* What a panel reads is numbered by the actions of this panel that were   *)
(* carried out before; what others do to it shows at the next poll.        *)
(***************************************************************************)
EXTENDS Naturals, FiniteSets

CONSTANTS
  Panels,       \* panels that may be on display
  MaxActions,   \* bound: actions of the panel, and changes of the policy
  MaxReads,     \* bound: loads under way
  Unread        \* nothing on display, or no answer yet

ASSUME PanelBounds ==
  /\ Panels \subseteq {"preview", "connections"} /\ Unread \notin Nat
  /\ MaxActions \in Nat /\ MaxReads \in Nat

VARIABLES
  panel,      \* the panel on display
  served,     \* its actions that the supervisor has carried out
  display,    \* what it shows: as of which of them, or Unread
  trouble,    \* it shows that its last load failed
  acting,     \* pending: "no", "asked" or "served"
  loads,      \* loads under way
  policy,     \* the factory policy: revision and dispatchPaused
  switch,     \* the policy DispatchControl shows
  refreshes,  \* its reads of the policy under way
  loading,    \* flag of the last of them to end
  change,     \* the change it asked for, and the answer
  switched    \* changes that were applied: with the policy shown and the policy they met

panelVars  == <<panel, served, display, trouble, acting, loads>>
switchVars == <<policy, switch, refreshes, loading, change, switched>>
panelsVars == <<panel, served, display, trouble, acting, loads, policy, switch, refreshes, loading, change, switched>>

NoChange == [shown |-> Unread, answer |-> "none"]
Load     == [active |-> TRUE, answer |-> Unread]

PanelsInit ==
  /\ panel \in Panels /\ served = 0 /\ display = Unread /\ trouble = FALSE /\ acting = "no" /\ loads = {Load}
  /\ policy = [revision |-> 1, paused |-> FALSE] /\ switch = Unread
  /\ refreshes = {Unread} /\ loading = TRUE /\ change = NoChange /\ switched = {}
-----------------------------------------------------------------------------
(* Panels *)

\* The effect runs again: nobody waits for its former loads.
Rerun == loads' = {[l EXCEPT !.active = FALSE] : l \in loads} \cup {Load}

\* A poll, on focus also while an action is under way; connections have a button.
LoadAgain ==
  /\ Cardinality(loads) < MaxReads /\ Load \notin loads
  /\ IF panel = "preview" THEN loads' = loads \cup {Load} ELSE Rerun
  /\ UNCHANGED <<panel, served, display, trouble, acting, switchVars>>

ReadStatus(l) ==
  /\ l.answer = Unread /\ loads' = (loads \ {l}) \cup {[l EXCEPT !.answer = served]}
  /\ UNCHANGED <<panel, served, display, trouble, acting, switchVars>>

\* A load that fails leaves a preview without a status, and connections as they were.
StatusArrives(l) ==
  /\ loads' = loads \ {l}
  /\ IF ~l.active THEN UNCHANGED <<display, trouble>>
     ELSE \/ l.answer # Unread /\ display' = l.answer /\ trouble' = FALSE
          \/ trouble' = TRUE /\ display' = IF panel = "preview" THEN Unread ELSE display
  /\ UNCHANGED <<panel, served, acting, switchVars>>

\* perform, verifyLinear.  Only the panel of previews loads anew at once.
Perform ==
  /\ acting = "no" /\ display # Unread /\ served < MaxActions /\ Cardinality(loads) < MaxReads
  /\ acting' = "asked" /\ IF panel = "preview" THEN Rerun ELSE UNCHANGED loads
  /\ UNCHANGED <<panel, served, display, trouble, switchVars>>

Carry ==
  /\ acting = "asked" /\ acting' = "served" /\ served' = served + 1
  /\ UNCHANGED <<panel, display, trouble, loads, switchVars>>

\* With an error as well: what was asked may have been done.
PerformAnswered ==
  /\ acting # "no" /\ acting' = "no" /\ Cardinality(loads) < MaxReads /\ Rerun
  /\ UNCHANGED <<panel, served, display, trouble, switchVars>>
-----------------------------------------------------------------------------
(* DispatchControl *)

OthersChange ==
  /\ policy.revision < MaxActions /\ policy' = [policy EXCEPT !.revision = @ + 1, !.paused = ~@]
  /\ UNCHANGED <<switch, refreshes, loading, change, switched, panelVars>>

\* refresh: nothing tells an older read from a newer one.
Refresh ==
  /\ Cardinality(refreshes) < MaxReads /\ Unread \notin refreshes
  /\ refreshes' = refreshes \cup {Unread} /\ loading' = TRUE
  /\ UNCHANGED <<policy, switch, change, switched, panelVars>>

ReadPolicy ==
  /\ Unread \in refreshes /\ refreshes' = (refreshes \ {Unread}) \cup {policy}
  /\ UNCHANGED <<policy, switch, loading, change, switched, panelVars>>

\* The read that changePaused waits for ends it too.
PolicyArrives(p) ==
  /\ refreshes' = refreshes \ {p} /\ loading' = FALSE
  /\ switch' \in (IF p = Unread THEN {switch} ELSE {p})
  /\ change' = IF change.answer = "error" THEN NoChange ELSE change
  /\ UNCHANGED <<policy, switched, panelVars>>

ChangePaused ==
  /\ switch # Unread /\ change = NoChange /\ ~loading
  /\ change' = [shown |-> switch, answer |-> "none"]
  /\ UNCHANGED <<policy, switch, refreshes, loading, switched, panelVars>>

\* dispatch.set_paused, of the revision it was decided on only.
SetPausedShown ==
  /\ change.shown # Unread /\ change.answer = "none"
  /\ \/ /\ change.shown.revision = policy.revision /\ policy.revision <= MaxActions
        /\ policy' = [revision |-> policy.revision + 1, paused |-> ~change.shown.paused]
        /\ change' = [change EXCEPT !.answer = "done"]
        /\ switched' = switched \cup {[shown |-> change.shown, met |-> policy]}
     \/ change' = [change EXCEPT !.answer = "refused"] /\ UNCHANGED <<policy, switched>>
  /\ UNCHANGED <<switch, refreshes, loading, panelVars>>

\* The new policy, or an error, which reads it again.  The answer itself may be lost.
ChangeAnswered ==
  \/ /\ change.answer = "done" /\ change' = NoChange
     /\ switch' = [revision |-> change.shown.revision + 1, paused |-> ~change.shown.paused]
     /\ UNCHANGED <<policy, refreshes, loading, switched, panelVars>>
  \/ /\ change.answer \in {"done", "refused"} /\ change' = [change EXCEPT !.answer = "error"]
     /\ Cardinality(refreshes) < MaxReads
     /\ refreshes' = refreshes \cup {Unread} /\ loading' = TRUE
     /\ UNCHANGED <<policy, switch, switched, panelVars>>

PanelsNext ==
  \/ LoadAgain \/ Perform \/ Carry \/ PerformAnswered
  \/ \E l \in loads : ReadStatus(l) \/ StatusArrives(l)
  \/ OthersChange \/ Refresh \/ ReadPolicy \/ ChangePaused \/ SetPausedShown \/ ChangeAnswered
  \/ \E p \in refreshes : PolicyArrives(p)

PanelsSpec == PanelsInit /\ [][PanelsNext]_panelsVars
-----------------------------------------------------------------------------
PanelsTypeOK == served \in 0..MaxActions /\ display \in (0..served) \cup {Unread}

\* A panel that waits for nothing shows what was so after its last action, whatever loads were
\* under way when it acted (LocalPreviewPanel.tsx, the effect and its dependencies), or that
\* it could not be read.
ShowsOwnAction == acting = "no" /\ (\A l \in loads : ~l.active) => trouble \/ display = served

\* Dispatch is switched from what was on display, also when that was an old read that arrived
\* after a newer one (DispatchControl.tsx, expectedRevision).
SwitchMeant == \A c \in switched : c.shown = c.met

PanelsSound == PanelsTypeOK /\ ShowsOwnAction /\ SwitchMeant
=============================================================================
