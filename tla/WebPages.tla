------------------------------ MODULE WebPages ------------------------------
(***************************************************************************)
(* The pages of the supervisor's web application and the actions that move *)
(* between them: the flags of App.tsx, the browser's history, the forms    *)
(* that create Work (CreateWorkOrderForm.tsx, AppBuilderPage.tsx) and the  *)
(* question before a run is cancelled.                                     *)
(*                                                                         *)
(* An action is answered wherever its user has gone meanwhile.  Its answer *)
(* may be lost, before or after the action was carried out.                *)
(***************************************************************************)
EXTENDS Naturals, Sequences, SequencesExt

CONSTANTS
  Views,         \* pages of the side navigation, beside the overview
  MaxAddresses,  \* bound: addresses in the browser's history
  MaxForms,      \* bound: forms that are opened
  MaxAsked       \* bound: actions under way

ASSUME PagesBounds == /\ Views \subseteq {"queue", "new", "builder", "connections"}
                      /\ MaxAddresses \in Nat /\ MaxForms \in Nat /\ MaxAsked \in Nat

VARIABLES
  page,       \* selectedId and the flags creating, showingQueue, showingBuilder, showingConnections
  addresses,  \* the browser's history
  at,         \* where in it the browser is
  form,       \* the form on display: its idempotency key, or 0
  forms,      \* forms opened so far
  made,       \* WorkOrders, by the key they were asked for with; a scaffold has none
  asked,      \* actions under way, in the order they were asked for
  pending,    \* pendingAction
  dialog,     \* confirmCancel
  strayed     \* a scaffold was answered while the form for a WorkOrder was open

pageVars == <<page, addresses, at, form, forms, made, asked, pending, dialog, strayed>>

Blank  == [selected |-> 0, creating |-> FALSE, queue |-> FALSE, builder |-> FALSE, connections |-> FALSE]
Orders == {[order |-> i] : i \in DOMAIN made}
Order(i)  == [order |-> i]
View(v)   == [view |-> v]
Overview  == View("overview")

\* urlSelection, and what every button of the navigation sets.
PageOf(a) ==
  IF "order" \in DOMAIN a THEN [Blank EXCEPT !.selected = a.order]
  ELSE CASE a.view = "new"         -> [Blank EXCEPT !.creating = TRUE]
         [] a.view = "queue"       -> [Blank EXCEPT !.queue = TRUE]
         [] a.view = "builder"     -> [Blank EXCEPT !.builder = TRUE]
         [] a.view = "connections" -> [Blank EXCEPT !.connections = TRUE]
         [] OTHER                  -> Blank

\* The page that is rendered, by precedence of the flags.
Rendered(p) ==
  IF p.connections THEN View("connections")
  ELSE IF p.creating THEN View("new")
  ELSE IF p.builder THEN View("builder")
  ELSE IF p.selected > 0 THEN Order(p.selected)
  ELSE IF p.queue THEN View("queue")
  ELSE Overview
Shown == Rendered(page)

PagesInit ==
  /\ page = Blank /\ addresses = <<Overview>> /\ at = 1
  /\ form = 0 /\ forms = 0 /\ made = <<0>> /\ asked = <<>> /\ pending = "none"
  /\ dialog = FALSE /\ strayed = FALSE
-----------------------------------------------------------------------------
(* Moving.  The backdrop of the question keeps the mouse from the page behind it, not the keyboard. *)

\* A form that comes on display is a new one, with a key of its own.
Display(p) ==
  /\ page' = p
  /\ IF Rendered(p) # View("new") THEN form' = 0 /\ forms' = forms
     ELSE IF form > 0 THEN UNCHANGED <<form, forms>>
     ELSE forms < MaxForms /\ forms' = forms + 1 /\ form' = forms + 1

\* navigate: pushState forgets what was ahead.
Navigate(a) == addresses' = Append(SubSeq(addresses, 1, at), a) /\ at' = at + 1

Open(a) ==
  /\ at < MaxAddresses /\ Display(PageOf(a)) /\ Navigate(a) /\ strayed' = FALSE
  /\ UNCHANGED <<made, asked, pending, dialog>>

\* popstate.
Travel(k) ==
  /\ k # at /\ at' = k /\ Display(PageOf(addresses[k])) /\ strayed' = FALSE
  /\ UNCHANGED <<addresses, made, asked, pending, dialog>>
-----------------------------------------------------------------------------
(* Actions *)

Ask(kind, subject) ==
  /\ Len(asked) < MaxAsked /\ pending' = kind
  /\ asked' = Append(asked, [kind |-> kind, subject |-> subject, answer |-> "none", order |-> 0, awaited |-> TRUE])

browserVars == <<page, addresses, at, form, forms, strayed>>

\* A form is submitted once more after an error, or when the answer to another action has
\* cleared pendingAction meanwhile.
SubmitForm ==
  /\ Shown = View("new") /\ pending # "create" /\ Ask("create", form)
  /\ UNCHANGED <<browserVars, made, dialog>>

SubmitBrief ==
  /\ Shown = View("builder") /\ pending # "builder" /\ Ask("builder", 0)
  /\ UNCHANGED <<browserVars, made, dialog>>

\* actionPending of a WorkOrder's page: a form under way does not count.
Enabled == page.selected > 0 /\ Shown = Order(page.selected) /\ pending \notin {"start", "cancel"}

StartRun == Enabled /\ Ask("start", page.selected) /\ UNCHANGED <<browserVars, made, dialog>>

AskCancel == Enabled /\ dialog' = TRUE /\ UNCHANGED <<browserVars, made, asked, pending>>

KeepRunning == dialog /\ dialog' = FALSE /\ UNCHANGED <<browserVars, made, asked, pending>>

\* runAction, with whatever is selected by then and whatever is pending.
CancelRun ==
  /\ dialog /\ dialog' = FALSE
  /\ IF page.selected = 0 THEN UNCHANGED <<asked, pending>> ELSE Ask("cancel", page.selected)
  /\ UNCHANGED <<browserVars, made>>
-----------------------------------------------------------------------------
(* The supervisor *)

WithKey(k) == {i \in DOMAIN made : k > 0 /\ made[i] = k}

\* Carried out, whoever still waits for it.
Done(s, i) ==
  asked' = IF asked[s].awaited THEN [asked EXCEPT ![s] = [asked[s] EXCEPT !.answer = "done", !.order = i]]
           ELSE RemoveAt(asked, s)

\* workorder.create asks for the owner's presence, unless it has seen the key ...
Receive(s) ==
  /\ asked[s].kind = "create" /\ asked[s].answer = "none"
  /\ IF WithKey(asked[s].subject) = {} THEN asked' = [asked EXCEPT ![s].answer = "presence"]
     ELSE \E i \in WithKey(asked[s].subject) : Done(s, i)
  /\ UNCHANGED <<browserVars, made, pending, dialog>>

\* Slip: the look before the owner's presence is the only one.
RecordOrderBlind(s) ==
  /\ asked[s].kind = "create" /\ asked[s].answer = "presence"
  /\ made' = Append(made, asked[s].subject) /\ Done(s, Len(made) + 1)
  /\ UNCHANGED <<browserVars, pending, dialog>>

\* ... and looks once more in its transaction.
RecordOrder(s) ==
  /\ asked[s].kind = "create" /\ asked[s].answer = "presence"
  /\ IF WithKey(asked[s].subject) = {} THEN made' = Append(made, asked[s].subject) /\ Done(s, Len(made) + 1)
     ELSE made' = made /\ \E i \in WithKey(asked[s].subject) : Done(s, i)
  /\ UNCHANGED <<browserVars, pending, dialog>>

\* builder.create, run.start and run.cancel.
CarryOut(s) ==
  /\ asked[s].kind \in {"builder", "start", "cancel"} /\ asked[s].answer = "none"
  /\ IF asked[s].kind = "builder" THEN made' = Append(made, 0) /\ Done(s, Len(made) + 1)
     ELSE made' = made /\ Done(s, 0)
  /\ UNCHANGED <<browserVars, pending, dialog>>

\* It refuses, and the page is told unless it no longer waits.
Refuse(s) ==
  /\ asked[s].answer # "done" /\ asked' = RemoveAt(asked, s)
  /\ pending' = (IF asked[s].awaited THEN "none" ELSE pending)
  /\ UNCHANGED <<browserVars, made, dialog>>
-----------------------------------------------------------------------------
(* Answers *)

\* An answer that is lost, also of an action that is still to be carried out.
AnswerLost(s) ==
  /\ asked[s].awaited /\ pending' = "none"
  /\ asked' = IF asked[s].answer = "done" THEN RemoveAt(asked, s) ELSE [asked EXCEPT ![s].awaited = FALSE]
  /\ UNCHANGED <<browserVars, made, dialog>>

\* Whichever action pendingAction is about by now.
Answered(s) == asked[s].answer = "done" /\ asked' = RemoveAt(asked, s) /\ pending' = "none"

RunAnswered(s) ==
  asked[s].kind \in {"start", "cancel"} /\ Answered(s) /\ UNCHANGED <<browserVars, made, dialog>>

\* createWorkOrder goes to the new WorkOrder from wherever the user is.
CreateAnswered(s) ==
  /\ asked[s].kind = "create" /\ Answered(s) /\ at < MaxAddresses
  /\ Display(PageOf(Order(asked[s].order))) /\ Navigate(Order(asked[s].order)) /\ strayed' = FALSE
  /\ UNCHANGED <<made, dialog>>

\* createAppScaffold does as well, but leaves the flags creating and showingQueue alone.
ScaffoldAnswered(s) ==
  /\ asked[s].kind = "builder" /\ Answered(s) /\ at < MaxAddresses
  /\ Display([page EXCEPT !.selected = asked[s].order, !.builder = FALSE, !.connections = FALSE])
  /\ Navigate(Order(asked[s].order)) /\ strayed' = page.creating
  /\ UNCHANGED <<made, dialog>>

PagesNext ==
  \/ SubmitForm \/ SubmitBrief \/ StartRun \/ AskCancel \/ KeepRunning \/ CancelRun
  \/ \E v \in Views : Open(View(v))
  \/ Open(Overview) \/ \E a \in Orders : Open(a)
  \/ \E k \in DOMAIN addresses : Travel(k)
  \/ \E s \in DOMAIN asked : \/ Receive(s) \/ RecordOrder(s) \/ CarryOut(s) \/ Refuse(s) \/ AnswerLost(s)
                      \/ RunAnswered(s) \/ CreateAnswered(s) \/ ScaffoldAnswered(s)

PagesSpec == PagesInit /\ [][PagesNext]_pageVars
-----------------------------------------------------------------------------
PagesTypeOK == at \in DOMAIN addresses /\ form \in 0..forms /\ page.selected \in 0..Len(made)

\* The page on display is the one whose address the browser shows, wherever the user was when
\* an answer arrived, except for a scaffold that is answered under the other form (App.tsx).
AddressShown == Shown = addresses[at] \/ strayed

\* What a start or a cancellation is about is the WorkOrder whose address the browser shows,
\* also when the question stayed open over a move or a page strayed (App.tsx, runAction).
ActsOnAddressed == page.selected > 0 => addresses[at] = Order(page.selected)

\* However often a form is submitted, and however its requests overtake one another at the
\* owner's presence, it makes one WorkOrder, and every answer to it is that WorkOrder
\* (CreateWorkOrderForm.tsx:29, actions.ts, workorder.create).
OneOrderPerForm ==
  /\ \A i, j \in DOMAIN made : made[i] > 0 /\ made[i] = made[j] => i = j
  /\ \A s \in DOMAIN asked : asked[s].kind = "create" /\ asked[s].answer = "done" => made[asked[s].order] = asked[s].subject

\* What the pages say is pending is under way and will be answered: nothing stays disabled
\* after its answer, or the loss of it (App.tsx, the finally of every action).
PendingTrue == pending # "none" => \E s \in DOMAIN asked : asked[s].kind = pending /\ asked[s].awaited

PagesSound == PagesTypeOK /\ AddressShown /\ ActsOnAddressed /\ OneOrderPerForm /\ PendingTrue
=============================================================================
