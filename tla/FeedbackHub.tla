---------------------------- MODULE FeedbackHub ----------------------------
(***************************************************************************)
(* The feedback-hub application of templates/feedback-hub: its store, the  *)
(* agent that opens the same database from the command line                *)
(* (scripts/agent.ts), and the page that reloads itself every five seconds *)
(* while its reader edits (src/App.tsx).                                   *)
(*                                                                         *)
(* A record is the sequence of its revisions: its version is their number. *)
(* The page has one load of the list and one of the record under way at a  *)
(* time: a new one aborts the old one.                                     *)
(***************************************************************************)
EXTENDS Naturals, Sequences

CONSTANTS
  Feedback,     \* identities of records
  Texts,        \* what the details of a record may say
  Statuses,     \* feedbackStatuses
  MaxRevisions, \* bound: revisions of a record
  NoRecord

ASSUME HubBounds == MaxRevisions \in Nat /\ "new" \in Statuses /\ NoRecord \notin Feedback

VARIABLES
  records,    \* [Feedback -> its revisions]
  selected,   \* selectedId
  shown,      \* detail
  filter,     \* the status the list is filtered by
  listLoad,   \* the load of the list under way
  detailLoad, \* the load of the record under way
  form,       \* formMode with the draft of FeedbackForm
  write       \* the write the page waits for (busy)

hubVars == <<records, selected, shown, filter, listLoad, detailLoad, form, write>>

Revision   == [text : Texts, status : Statuses]
Nothing    == [phase |-> "none"]
Nobody     == [id |-> NoRecord, version |-> 0]
Version(f) == Len(records[f])
Latest(f)  == records[f][Version(f)]
Existing   == {f \in Feedback : records[f] # <<>>}
Waiting    == write.phase # "none"
Visible    == {f \in Existing : filter \in {"all", Latest(f).status}}

HubInit ==
  /\ records = [f \in Feedback |-> <<>>] 
  /\ selected = NoRecord /\ shown = Nobody /\ filter = "all"
  /\ listLoad = [phase |-> "sent"] /\ detailLoad = Nothing
  /\ form = Nothing /\ write = Nothing
-----------------------------------------------------------------------------
(* The store.  Every change is one transaction with one event and one new version. *)

Revise(f, revision) ==
  /\ Version(f) < MaxRevisions
  /\ records' = [records EXCEPT ![f] = Append(@, revision)]

\* create_feedback
Capture(f, text) == f \notin Existing /\ Revise(f, [text |-> text, status |-> "new"])

\* update_feedback: the statement repeats the comparison made before its transaction.
Fits(f, version) == f \in Existing /\ Version(f) = version
Update(f, version, revision) ==
  /\ Fits(f, version)
  /\ IF revision = Latest(f) THEN UNCHANGED records ELSE Revise(f, revision)

\* add_note asks for no version, and makes one.
AddNote(f) == f \in Existing /\ Revise(f, Latest(f))
-----------------------------------------------------------------------------
(* The agent, a process of its own *)

\* Its update names a version it read: another one than the last changes nothing.
AgentWrites ==
  /\ \/ \E f \in Feedback, text \in Texts : Capture(f, text)
     \/ \E f \in Feedback : AddNote(f)
     \/ \E f \in Existing, revision \in Revision : Update(f, Version(f), revision)
  /\ UNCHANGED <<selected, shown, filter, listLoad, detailLoad, form, write>>
-----------------------------------------------------------------------------
(* The page's loads *)

\* Slip: the form is keyed by its mode alone.
RekeyedByMode(s) == form

\* The form is keyed by its mode and the record: another record gives it a fresh draft.
Rekeyed(s) == IF form # Nothing /\ form.key # s.id
              THEN [form EXCEPT !.key = s.id, !.since = s.version] ELSE form

PutShown(s) == shown' = s /\ form' = Rekeyed(s)

LoadList      == listLoad' = [phase |-> "sent"]
LoadDetail(f) == detailLoad' = IF f = NoRecord THEN Nothing ELSE [phase |-> "sent", id |-> f]

\* The revision counter: every 5 seconds, on Retry, Refresh, and after a write.
Reload == LoadList /\ LoadDetail(selected) /\ UNCHANGED selected

Tick == Reload /\ UNCHANGED <<records, shown, filter, form, write>>

ListAnswered ==
  /\ listLoad.phase = "sent" /\ listLoad' = [phase |-> "answered", visible |-> Visible]
  /\ UNCHANGED <<records, selected, shown, filter, detailLoad, form, write>>

\* A selection the list does not show any more moves to its first record.
ListShown ==
  /\ listLoad.phase = "answered" /\ listLoad' = Nothing
  /\ LET visible == listLoad.visible IN
     selected' \in IF selected \in visible THEN {selected}
                   ELSE IF visible = {} THEN {NoRecord} ELSE visible
  /\ IF selected' = selected THEN UNCHANGED <<shown, form, detailLoad>>
     ELSE /\ LoadDetail(selected')
          /\ IF selected' = NoRecord THEN PutShown(Nobody) ELSE UNCHANGED <<shown, form>>
  /\ UNCHANGED <<records, filter, write>>

DetailAnswered ==
  /\ detailLoad.phase = "sent"
  /\ detailLoad' = [phase |-> "answered", id |-> detailLoad.id, version |-> Version(detailLoad.id)]
  /\ UNCHANGED <<records, selected, shown, filter, listLoad, form, write>>

DetailShown ==
  /\ detailLoad.phase = "answered" /\ detailLoad' = Nothing
  /\ PutShown([id |-> detailLoad.id, version |-> detailLoad.version])
  /\ UNCHANGED <<records, selected, filter, listLoad, write>>

LoadFails ==
  /\ \/ listLoad # Nothing /\ listLoad' = Nothing /\ UNCHANGED detailLoad
     \/ detailLoad # Nothing /\ detailLoad' = Nothing /\ UNCHANGED listLoad
  /\ UNCHANGED <<records, selected, shown, filter, form, write>>
-----------------------------------------------------------------------------
(* The page's reader.  An open form covers the page. *)

Select(f) ==
  /\ form = Nothing /\ f \in Existing \ {selected}
  /\ selected' = f /\ LoadDetail(f)
  /\ UNCHANGED <<records, shown, filter, listLoad, form, write>>

SetFilter(status) ==
  /\ form = Nothing /\ filter # status /\ filter' = status /\ LoadList
  /\ UNCHANGED <<records, selected, shown, detailLoad, form, write>>

\* A record that is loaded again is still the one on display.
OnDisplay == shown # Nobody /\ selected = shown.id

\* A form covers the page, but it may be opened to capture something while a write is awaited.
OpenForm(mode) ==
  /\ form = Nothing /\ (mode = "edit" => OnDisplay /\ ~Waiting)
  /\ form' = [phase |-> "open", mode |-> mode, key |-> shown.id, since |-> shown.version]
  /\ UNCHANGED <<records, selected, shown, filter, listLoad, detailLoad, write>>

CloseForm ==
  /\ form # Nothing /\ ~Waiting /\ form' = Nothing
  /\ UNCHANGED <<records, selected, shown, filter, listLoad, detailLoad, write>>

Send(kind, text, status, since) ==
  /\ ~Waiting
  /\ write' = [phase |-> "sent", kind |-> kind, id |-> shown.id, expected |-> shown.version,
               version |-> 0, text |-> text, status |-> status, since |-> since]
  /\ UNCHANGED <<records, selected, shown, filter, listLoad, detailLoad, form>>

Displayed == records[shown.id][shown.version]

\* createOrEdit: the version is the one shown now, the draft is as old as the form.
SubmitForm(text) ==
  /\ form # Nothing
  /\ IF form.mode = "edit" /\ shown # Nobody
     THEN Send("edit", text, Displayed.status, form.since)
     ELSE Send("create", text, "new", 0)

\* update: the decision is made on what is shown.
Triage(status) == form = Nothing /\ OnDisplay /\ Send("triage", Displayed.text, status, shown.version)

Note == form = Nothing /\ OnDisplay /\ Send("note", Displayed.text, Displayed.status, shown.version)
-----------------------------------------------------------------------------
(* The page's writes *)

\* What the server does with the request: a conflict changes nothing and is an error.
Commits(f) ==
  CASE write.kind = "create" -> Capture(f, write.text)
    [] write.kind = "note"   -> f = write.id /\ AddNote(f)
    [] write.kind = "edit"   -> f = write.id /\ Update(f, write.expected, [Latest(f) EXCEPT !.text = write.text])
    [] OTHER                 -> f = write.id /\ Update(f, write.expected, [Latest(f) EXCEPT !.status = write.status])

Handled ==
  /\ write.phase = "sent"
  /\ \E f \in Feedback :
       Commits(f) /\ write' = [write EXCEPT !.phase = "done", !.id = f, !.version = Len(records'[f])]
  /\ UNCHANGED <<selected, shown, filter, listLoad, detailLoad, form>>

\* The answer shows the record as it was read after the write, which the agent may have got in
\* between, and loads everything again; a new record is selected.  Only a form that was
\* submitted closes.
Saved ==
  /\ write.phase = "done" /\ write' = Nothing
  /\ IF write.kind = "create"
     THEN selected' = write.id /\ filter' = "all" /\ LoadList /\ LoadDetail(write.id) /\ UNCHANGED shown
     ELSE /\ Reload /\ UNCHANGED filter
          /\ \E version \in write.version..Version(write.id) : shown' = [id |-> write.id, version |-> version]
  /\ form' = IF write.kind \in {"create", "edit"} THEN Nothing ELSE Rekeyed(shown')
  /\ UNCHANGED <<records>>

\* A conflict, an error, or an answer that is lost.
WriteFails ==
  /\ Waiting /\ write' = Nothing
  /\ IF write.kind = "note" THEN UNCHANGED <<listLoad, detailLoad, selected>> ELSE Reload
  /\ UNCHANGED <<records, shown, filter, form>>

HubNext ==
  \/ \E f \in Feedback : Select(f)
  \/ \E status \in Statuses : SetFilter(status) \/ Triage(status)
  \/ SetFilter("all")
  \/ \E mode \in {"create", "edit"} : OpenForm(mode)
  \/ \E text \in Texts : SubmitForm(text)
  \/ AgentWrites \/ Tick \/ ListAnswered \/ ListShown \/ DetailAnswered \/ DetailShown \/ LoadFails
  \/ CloseForm \/ Note \/ Handled \/ Saved \/ WriteFails

HubSpec == HubInit /\ [][HubNext]_hubVars
-----------------------------------------------------------------------------
HubTypeOK ==
  /\ records \in [Feedback -> Seq(Revision)]
  /\ shown = Nobody \/ (shown.id \in Existing /\ shown.version \in 1..Version(shown.id))
  /\ selected \in Existing \cup {NoRecord} /\ filter \in Statuses \cup {"all"}

\* The draft in a form belongs to the record it would be saved to, also when the list, loaded
\* again after a change of the agent, moves the selection under the open form (App.tsx).
DraftHome == form # Nothing /\ form.mode = "edit" => form.key = shown.id

HubSound == HubTypeOK /\ DraftHome

\* What is shown of a record goes back to an older version only by the answer to a write of
\* this page: no load that was started earlier is shown after a later one (App.tsx).
ShownForward == shown'.id = shown.id => shown'.version >= shown.version \/ write.phase = "done"

\* README.md:38 of the template: updates require the current revision to prevent an old editor
\* from silently overwriting a newer decision.
NothingOverwritten ==
  write.phase = "done" /\ write.kind = "edit" /\ write.version > write.expected =>
    records[write.id][write.since].text = records[write.id][write.expected].text
=============================================================================
