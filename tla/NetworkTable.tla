---------------------------- MODULE NetworkTable ----------------------------
(***************************************************************************)
(* The network table of one browser tab (react-ui): NetworkDataTable.tsx   *)
(* with its pending changes, useUndoRedo.ts over UndoRedoManager.ts and    *)
(* EditCommand.ts, and the data under it, which usePowerFlowSDK.ts and the *)
(* SDK (Xolution.js, EditService.js) refetch after every accepted edit.    *)
(*                                                                         *)
(* JavaScript runs one handler at a time, so a step of the model is what a *)
(* handler does up to its next await.  Pending changes and commands name a *)
(* row by its position; a request names the element by its identifier.     *)
(*                                                                         *)
(* An element has one editable field, and it always has a value.  A row is *)
(* an object that is changed in place: the rows of each answer are kept    *)
(* under the answer's number, and whoever holds the answer shares them.    *)
(*                                                                         *)
(* Opening another case gives the SDK another session, to which requests   *)
(* and refetches go from then on; the table is the same component with     *)
(* the same pending changes and history.                                   *)
(***************************************************************************)
EXTENDS FiniteSets, Naturals, Sequences, SequencesExt

CONSTANTS
    Elements,    \* network elements of the type the table shows
    Values,      \* values of the field
    FirstValue,  \* what every element has when the table opens
    Sessions,    \* sessions of the user, one for each case that is opened
    None,        \* no value, no element, no session
    Answers,     \* bound: network answers that are in use at one time
    MaxHistory,  \* maxHistorySize
    MaxEdits, MaxSaves, MaxRequests, MaxFaults  \* bounds

ASSUME ElementsAssumption == IsFiniteSet(Elements)
ASSUME FirstValueAssumption == FirstValue \in Values
ASSUME NoneAssumption == None \notin Values \cup Elements \cup Sessions
ASSUME AnswersAssumption == Answers # {}
ASSUME BoundsAssumption == MaxHistory \in Nat /\ MaxEdits \in Nat

VARIABLES
    server,    \* the rows of each session's case
    session,   \* the SDK's session id
    opening,   \* how far the opening of each session's case has come
    objects,   \* the rows of each answer, as they are now in the browser
    shown,     \* networkData: the answer in the table and in the SDK's cache
    asked,     \* refetches whose request is on its way, and their session
    reading,   \* refetches the server has answered, in that order
    patient,   \* the refetches among them that are made again when they fail
    changes,   \* pending value by position
    undoStack, redoStack,
    editing,   \* the cell in the editor (position, and the element seen there)
    save,      \* handleSaveChanges while it runs
    request,   \* an edit by dialog, from the opening of the dialog to its answer
    edits, requests, faults,  \* bounded counters
    saves,     \* saves and resets, bounded together
    wanted,    \* history: the value last given to each element of a session
    harm       \* history: what has happened that a property excepts

tableVars == <<changes, undoStack, redoStack, editing>>
fetchVars == <<shown, asked, reading, patient>>
sessionVars == <<session, opening>>
caseVars == <<server, sessionVars>>
counters == <<edits, saves, requests, faults>>
vars == <<caseVars, objects, fetchVars, tableVars, save, request, counters,
          wanted, harm>>

Row == [id : Elements, value : Values]
\* "apart": the session was made for the chat, and the tab has not heard of it.
Stages == {"closed", "sent", "loaded", "created", "open", "apart"}
Tables == Seq(Row)
Positions == 1..Cardinality(Elements)
Command == [row : Positions, prev : Values, new : Values, fresh : BOOLEAN]
NoEdit == [row |-> 0, id |-> None]
NotSaving == [at |-> "idle", of |-> None, todo |-> {}, emptied |-> {},
              id |-> None, value |-> None, to |-> None]

\* The dialog of an edit: the element it is about and the session that element
\* was seen in, and the row object it holds (its answer and position).
NoRequest == [act |-> "none", id |-> None, value |-> None, to |-> None,
              at |-> "idle", of |-> None, row |-> 0]
Nothing == [of |-> None, rows |-> <<>>]

Harms == {"midsave", "beside", "shifted", "overtaken", "unread", "refused",
          "typed back", "merged", "early", "switched", "crossed", "carried"}

TypeOK ==
    /\ server \in [Sessions -> Tables]
    /\ session \in Sessions
    /\ opening \in [Sessions -> Stages]
    /\ \A s \in Sessions : opening[s] \in {"closed", "sent"} => server[s] = <<>>
    /\ opening[session] \in {"created", "open"}
    /\ objects \in [Answers -> [of : Sessions \cup {None}, rows : Tables]]
    /\ shown \in Answers
    /\ DOMAIN asked \subseteq Answers
    /\ \A a \in DOMAIN asked : asked[a] \in Sessions
    /\ reading \in Seq(Answers) /\ IsInjective(reading)
    /\ shown \notin DOMAIN asked \cup ToSet(reading)
    /\ DOMAIN asked \cap ToSet(reading) = {}
    /\ patient \subseteq DOMAIN asked
    /\ DOMAIN changes \subseteq Positions
    /\ \A i \in DOMAIN changes : changes[i] \in Values
    /\ Len(undoStack) <= MaxHistory
    /\ Len(undoStack) + Len(redoStack) <= MaxEdits
    /\ ToSet(undoStack) \cup ToSet(redoStack) \subseteq Command
    /\ editing = NoEdit \/ editing \in [row : Positions, id : Elements]
    /\ save.at \in {"idle", "sent", "applied", "refused"}
    /\ (save.at = "idle") <=> (save = NotSaving)
    /\ save.emptied \subseteq save.todo
    /\ request.act \in {"none", "add", "modify", "delete"}
    /\ request.at \in {"idle", "open", "sent", "applied", "refused"}
    /\ save.to \in Sessions \cup {None} /\ request.to \in Sessions \cup {None}
    /\ wanted \in [Sessions -> [Elements -> Values]]
    /\ harm \subseteq Harms

Rows == objects[shown].rows

\* The session the rows in the table are of.
Owner == objects[shown].of

Has(table, e) == \E r \in ToSet(table) : r.id = e
ValueAt(table, e) == (CHOOSE r \in ToSet(table) : r.id = e).value
Ids(table) == [i \in DOMAIN table |-> table[i].id]

\* getCellValue: the pending value, or the row's.
Cell(i) == IF i \in DOMAIN changes THEN changes[i] ELSE Rows[i].value

\* The map with i set, or removed.
Set(i, v) == [j \in DOMAIN changes \cup {i} |-> IF j = i THEN v ELSE changes[j]]
Unset(i) == [j \in DOMAIN changes \ {i} |-> changes[j]]

Saving == save.at # "idle"
Covered == request.at = "open"
InFlight == request.at \in {"sent", "applied", "refused"}

\* The rows are not those of the session requests go to.
Astray == Owner # session

Opening == \E s \in Sessions : opening[s] \in {"sent", "loaded", "created"}

\* A request, a refetch or another case is on its way: the rows may be about
\* to change.
Behind == InFlight \/ DOMAIN asked # {} \/ reading # <<>> \/ Opening

\* The cases as they are in the user's files.
Cases == {t \in [Positions -> [id : Elements, value : {FirstValue}]] :
            IsInjective(Ids(t))}

\* The table shows the network of the first case, and nothing was edited yet.
Init ==
    /\ session \in Sessions
    /\ opening = [s \in Sessions |-> IF s = session THEN "open" ELSE "closed"]
    /\ \E t \in Cases :
          /\ server = [s \in Sessions |-> IF s = session THEN t ELSE <<>>]
          /\ shown \in Answers
          /\ objects = [a \in Answers |->
                IF a = shown THEN [of |-> session, rows |-> t] ELSE Nothing]
    /\ asked = <<>>
    /\ reading = <<>>
    /\ patient = {}
    /\ changes = <<>>
    /\ undoStack = <<>>
    /\ redoStack = <<>>
    /\ editing = NoEdit
    /\ save = NotSaving
    /\ request = NoRequest
    /\ edits = 0 /\ saves = 0 /\ requests = 0 /\ faults = 0
    /\ wanted = [s \in Sessions |-> [e \in Elements |-> FirstValue]]
    /\ harm = {}

Suffers(kinds) == harm' = harm \cup kinds
When(condition, kind) == IF condition THEN {kind} ELSE {}
-----------------------------------------------------------------------------
(* Editing a cell.                                                         *)

\* A click on a cell opens the editor there.
OpenEditor(i) ==
    /\ editing = NoEdit /\ ~Covered
    /\ edits < MaxEdits
    /\ i \in DOMAIN Rows
    /\ editing' = [row |-> i, id |-> Rows[i].id]
    /\ UNCHANGED <<caseVars, objects, fetchVars, changes, undoStack, redoStack,
                   save, request, counters, wanted, harm>>

CancelEdit ==
    /\ editing # NoEdit
    /\ editing' = NoEdit
    /\ UNCHANGED <<caseVars, objects, fetchVars, changes, undoStack, redoStack,
                   save, request, counters, wanted, harm>>

\* trackEdit: an edit of the cell that was edited last, less than two seconds
\* ago, is merged into that command, and then the redo stack is kept.
CanMerge(i) ==
    /\ undoStack # <<>>
    /\ Last(undoStack).row = i
    /\ Last(undoStack).fresh

Merge(i, v) ==
    /\ CanMerge(i)
    /\ undoStack' = [undoStack EXCEPT ![Len(undoStack)].new = v,
                                      ![Len(undoStack)].fresh = TRUE]
    /\ UNCHANGED redoStack

\* Mutant: the history is trimmed one command too late.
Push_OneMore(command) ==
    LET longer == Append(undoStack, command)
    IN  undoStack' = IF Len(longer) > MaxHistory + 1 THEN Tail(longer) ELSE longer

\* trimHistory drops the oldest command.
Push(command) ==
    LET longer == Append(undoStack, command)
    IN  undoStack' = IF Len(longer) > MaxHistory THEN Tail(longer) ELSE longer

Track(i, v) ==
    \/ Merge(i, v)
    \/ /\ ~CanMerge(i)
       /\ Push([row |-> i, prev |-> Cell(i), new |-> v, fresh |-> TRUE])
       /\ redoStack' = <<>>

\* saveEdit with a new value.  On a position without a row it throws.
SaveEdit(v) ==
    LET i == editing.row
    IN  /\ editing # NoEdit
        /\ i \in DOMAIN Rows
        /\ v # Rows[i].value
        /\ edits < MaxEdits
        /\ Track(i, v)
        /\ changes' = Set(i, v)
        /\ editing' = NoEdit
        /\ edits' = edits + 1
        /\ wanted' = [wanted EXCEPT ![Owner][editing.id] = v]
        /\ Suffers(When(Saving, "midsave") \cup When(InFlight, "beside")
                   \cup When(Behind, "early") \cup When(Astray, "switched")
                   \cup When(CanMerge(i) /\ redoStack # <<>>, "merged"))
        /\ UNCHANGED <<caseVars, objects, fetchVars, save, request,
                       saves, requests, faults>>

\* saveEdit with the row's value: a pending value is taken back without a
\* command.  It is removed from the inner map, which a running save may hold.
SaveEditUnchanged ==
    LET i == editing.row
    IN  /\ editing # NoEdit
        /\ i \in DOMAIN Rows
        /\ editing' = NoEdit
        /\ changes' = Unset(i)
        /\ save' = IF i \in DOMAIN changes /\ i \in save.todo
                   THEN [save EXCEPT !.emptied = @ \cup {i}]
                   ELSE save
        /\ IF i \in DOMAIN changes
           THEN /\ wanted' = [wanted EXCEPT ![Owner][editing.id] = Rows[i].value]
                /\ Suffers({"typed back"} \cup When(Saving, "midsave")
                           \cup When(Behind, "beside"))
           ELSE UNCHANGED <<wanted, harm>>
        /\ UNCHANGED <<caseVars, objects, fetchVars, undoStack, redoStack,
                       request, counters>>

\* Two seconds pass.
Pause ==
    /\ \E c \in ToSet(undoStack) \cup ToSet(redoStack) : c.fresh
    /\ undoStack' = [k \in DOMAIN undoStack |-> [undoStack[k] EXCEPT !.fresh = FALSE]]
    /\ redoStack' = [k \in DOMAIN redoStack |-> [redoStack[k] EXCEPT !.fresh = FALSE]]
    /\ UNCHANGED <<caseVars, objects, fetchVars, changes, editing, save, request,
                   counters, wanted, harm>>
-----------------------------------------------------------------------------
(* Undo, redo and reset.                                                   *)

\* The element at a position, as far as there is one.
Want(i, v) ==
    wanted' = IF i \in DOMAIN Rows
              THEN [wanted EXCEPT ![Owner][Rows[i].id] = v] ELSE wanted

\* Mutant: a command only changes a pending value.
Revert_Pending(c) ==
    /\ changes' = IF c.row \in DOMAIN changes THEN Set(c.row, c.prev) ELSE changes
    /\ Want(c.row, c.prev)

\* EditCommand.undo makes the previous value pending, even when it is the
\* row's own, and whether or not a value is pending now: after a save none is.
Revert(c) == changes' = Set(c.row, c.prev) /\ Want(c.row, c.prev)

\* EditCommand.execute.
Execute(c) == changes' = Set(c.row, c.new) /\ Want(c.row, c.new)

\* The shortcuts do nothing while a cell is edited, and a click on a button
\* closes the editor first.
Shortcut ==
    /\ editing = NoEdit
    /\ Suffers(When(Saving, "midsave") \cup When(InFlight, "beside")
               \cup When(Astray, "switched"))
    /\ UNCHANGED <<caseVars, objects, fetchVars, editing, save, request, counters>>

Undo ==
    /\ undoStack # <<>>
    /\ Revert(Last(undoStack))
    /\ undoStack' = Front(undoStack)
    /\ redoStack' = Append(redoStack, Last(undoStack))

HandleUndo == Shortcut /\ Undo

Redo ==
    /\ redoStack # <<>>
    /\ Execute(Last(redoStack))
    /\ redoStack' = Front(redoStack)
    /\ undoStack' = Append(undoStack, Last(redoStack))

HandleRedo == Shortcut /\ Redo

ClearHistory ==
    /\ undoStack' = <<>>
    /\ redoStack' = <<>>

\* The rows of the answers somebody holds; the others are garbage.
Held(table, holders) ==
    [a \in Answers |-> IF a \in holders THEN table[a] ELSE Nothing]

\* handleNetworkUpdated: what the SDK's cache holds now is what the table
\* shows from now on.
Show(a) ==
    /\ shown' = a
    /\ objects' = Held(objects, {a, save.of, request.of} \cup ToSet(reading))

\* The refetch asked for goes into an answer nobody holds.
Free(a) ==
    /\ a \notin DOMAIN asked \cup ToSet(reading) \cup {shown, save.of, request.of}

\* SessionService.getNetwork asks for the SDK's session.
Request(a) ==
    asked' = [b \in DOMAIN asked \cup {a} |-> IF b = a THEN session ELSE asked[b]]

Ask == /\ \E a \in Answers : Free(a) /\ Request(a)
       /\ UNCHANGED patient

\* handleResetChanges: the pending changes and the history go, and the network
\* is fetched again.
ResetChanges ==
    /\ changes # <<>> /\ ~Saving /\ ~Covered
    /\ editing = NoEdit
    /\ saves < MaxSaves
    /\ saves' = saves + 1
    /\ changes' = <<>>
    /\ ClearHistory
    /\ Ask
    /\ wanted' = [wanted EXCEPT ![Owner] = [e \in Elements |->
           IF Has(server[Owner], e) /\ (\E i \in DOMAIN changes \cap DOMAIN Rows : Rows[i].id = e)
           THEN ValueAt(server[Owner], e) ELSE @[e]]]
    /\ Suffers(When(InFlight, "beside"))
    /\ UNCHANGED <<caseVars, objects, shown, reading, editing, save, request,
                   edits, requests, faults>>
-----------------------------------------------------------------------------
(* handleSaveChanges.                                                      *)

\* The next row is changed in place, and its element modified at the server.
\* The value is the one its map holds now.
SendRow(of, todo, emptied) ==
    \E i \in todo :
        LET row == objects[of].rows[i]
            value == IF i \in emptied THEN None ELSE changes[i]
        IN  /\ objects' = IF value = None THEN objects
                          ELSE [objects EXCEPT ![of].rows[i].value = value]
            /\ save' = [at |-> "sent", of |-> of, todo |-> todo \ {i},
                        emptied |-> emptied \ {i}, id |-> row.id, value |-> value,
                        to |-> session]
            /\ UNCHANGED <<shown, changes>>

\* All rows are saved: all pending changes are dropped, and the rows that were
\* saved are shown.  The history is kept.
FinishSave(of) ==
    /\ save' = NotSaving
    /\ changes' = <<>>
    /\ Show(of)

\* Mutant: only the first row is sent.
NextRow_FirstOnly(of, todo, emptied) ==
    IF todo = {} \/ save.at = "applied"
    THEN FinishSave(of) ELSE SendRow(of, todo, emptied)

NextRow(of, todo, emptied) ==
    IF todo = {} THEN FinishSave(of) ELSE SendRow(of, todo, emptied)

\* Changes of positions without a row are skipped.
SaveChanges ==
    /\ changes # <<>> /\ ~Saving /\ ~Covered
    /\ editing = NoEdit
    /\ saves < MaxSaves
    /\ NextRow(shown, DOMAIN changes \cap DOMAIN Rows, {})
    /\ saves' = saves + 1
    /\ Suffers(When(InFlight, "beside"))
    /\ UNCHANGED <<caseVars, asked, reading, patient, undoStack, redoStack, editing,
                   request, edits, requests, faults, wanted>>

\* modifyElement returned; handleEditComplete asks for the network.
RowSaved ==
    /\ save.at = "applied"
    /\ NextRow(save.of, save.todo, save.emptied)
    /\ Ask
    /\ UNCHANGED <<caseVars, reading, undoStack, redoStack, editing, request,
                   counters, wanted, harm>>

\* modifyElement threw: the pending changes stay, and so do the rows.
SaveFails ==
    /\ save.at = "refused"
    /\ save' = NotSaving
    /\ UNCHANGED <<caseVars, objects, fetchVars, tableVars, request, counters,
                   wanted, harm>>
-----------------------------------------------------------------------------
(* Edits that do not go through the table's pending changes: a dialog is   *)
(* opened from the context menu, and closes when it is applied.  It covers *)
(* the table, but not the shortcuts, and what runs goes on beneath it.     *)
(* One dialog or request at a time is a bound.                             *)

\* The user works on something the request may change.
UnderEdit == changes # <<>> \/ undoStack \o redoStack # <<>> \/ editing # NoEdit

OpenDialog(act, e, of, i) ==
    /\ request.at = "idle"
    /\ requests < MaxRequests
    /\ requests' = requests + 1
    /\ request' = [act |-> act, id |-> e, value |-> None, to |-> Owner,
                   at |-> "open", of |-> of, row |-> i]
    /\ UNCHANGED <<caseVars, objects, fetchVars, tableVars, save,
                   edits, saves, faults, wanted, harm>>

\* handleModifyElement keeps the row object, which a save may still change.
ModifyElement(i) ==
    i \in DOMAIN Rows /\ OpenDialog("modify", Rows[i].id, shown, i)

OpenAdd == OpenDialog("add", None, None, 0)

\* showDeleteConfirmation keeps the identifier.
ShowDelete(i) ==
    i \in DOMAIN Rows /\ OpenDialog("delete", Rows[i].id, None, 0)

CloseDialog ==
    /\ request.at = "open"
    /\ request' = NoRequest
    /\ UNCHANGED <<caseVars, objects, fetchVars, tableVars, save, counters,
                   wanted, harm>>

\* The request goes to the session there is now.
SendRequest(act, e, v) ==
    /\ request.at = "open" /\ request.act = act
    /\ request' = [act |-> act, id |-> e, value |-> v, to |-> session,
                   at |-> "sent", of |-> None, row |-> 0]
    /\ Suffers(When(Saving, "midsave") \cup When(UnderEdit, "beside")
               \cup When(request.to # session, "switched"))
    /\ UNCHANGED <<caseVars, objects, fetchVars, tableVars, save, counters>>

\* handleParameterApply sends what differs from the row object as it is now.
ParameterApply(v) ==
    /\ SendRequest("modify", request.id, v)
    /\ v # objects[request.of].rows[request.row].value
    /\ wanted' = [wanted EXCEPT ![request.to][request.id] = v]

AddElement(e, v) ==
    /\ e \notin {r.id : r \in ToSet(Rows)}
    /\ SendRequest("add", e, v)
    /\ wanted' = [wanted EXCEPT ![request.to][e] = v]

\* handleDeleteElement leaves pending changes and history as they are.
DeleteElement ==
    /\ SendRequest("delete", request.id, None)
    /\ UNCHANGED wanted

RequestDone ==
    /\ request.at \in {"applied", "refused"}
    /\ IF request.at = "applied" THEN Ask ELSE UNCHANGED <<asked, patient>>
    /\ request' = NoRequest
    /\ UNCHANGED <<caseVars, objects, shown, reading, tableVars, save, counters,
                   wanted, harm>>
-----------------------------------------------------------------------------
(* The api-server, as this code uses it.                                   *)

\* What an edit makes of the case.  A modification without a value changes
\* nothing.
Edited(table, act, e, v) ==
    CASE act = "modify" -> [i \in DOMAIN table |->
             IF table[i].id = e /\ v # None THEN [table[i] EXCEPT !.value = v]
             ELSE table[i]]
      [] act = "add"    -> Append(table, [id |-> e, value |-> v])
      [] act = "delete" -> RemoveAt(table, CHOOSE i \in DOMAIN table : table[i].id = e)

Possible(s, act, e) == Has(server[s], e) <=> act # "add"

Carry(s, act, e, v) ==
    server' = [server EXCEPT ![s] = Edited(@, act, e, v)]

\* A modification of handleSaveChanges is carried out.
ApplyRow ==
    /\ save.at = "sent"
    /\ Possible(save.to, "modify", save.id)
    /\ Carry(save.to, "modify", save.id, save.value)
    /\ save' = [save EXCEPT !.at = "applied"]
    /\ UNCHANGED <<sessionVars, objects, fetchVars, tableVars, request, counters, wanted, harm>>

ApplyRequest ==
    /\ request.at = "sent"
    /\ Possible(request.to, request.act, request.id)
    /\ Carry(request.to, request.act, request.id, request.value)
    /\ request' = [request EXCEPT !.at = "applied"]
    /\ UNCHANGED <<sessionVars, objects, fetchVars, tableVars, save, counters, wanted, harm>>

\* An edit is refused, or its answer does not come.
Fault == faults < MaxFaults /\ faults' = faults + 1

RefuseRow ==
    /\ save.at \in {"sent", "applied"}
    /\ IF Possible(save.to, "modify", save.id) THEN Fault ELSE UNCHANGED faults
    /\ save' = [save EXCEPT !.at = "refused"]
    /\ Suffers({"refused"})
    /\ UNCHANGED <<caseVars, objects, fetchVars, tableVars, request,
                   edits, saves, requests, wanted>>

RefuseRequest ==
    /\ request.at \in {"sent", "applied"}
    /\ IF Possible(request.to, request.act, request.id) THEN Fault ELSE UNCHANGED faults
    /\ request' = [request EXCEPT !.at = "refused"]
    /\ Suffers({"refused"})
    /\ UNCHANGED <<caseVars, objects, fetchVars, tableVars, save,
                   edits, saves, requests, wanted>>

Answered(a) ==
    /\ asked' = [b \in DOMAIN asked \ {a} |-> asked[b]]
    /\ patient' = patient \ {a}

\* SessionService.getNetwork is answered with the case as it is now.
ReadNetwork(a) ==
    /\ a \in DOMAIN asked
    /\ Answered(a)
    /\ reading' = Append(reading, a)
    /\ objects' = [objects EXCEPT ![a] = [of |-> asked[a], rows |-> server[asked[a]]]]
    /\ UNCHANGED <<caseVars, shown, tableVars, save, request, counters, wanted, harm>>

\* The answer arrives, and the table shows it whatever arrived before it.
NetworkArrives(k) ==
    /\ k \in DOMAIN reading
    /\ Show(reading[k])
    /\ reading' = RemoveAt(reading, k)
    /\ LET next == objects[reading[k]]
       IN  Suffers(When(k > 1 \/ (Owner = session /\ next.of # session), "overtaken")
                   \cup When(Ids(next.rows) # Ids(Rows) /\ UnderEdit, "shifted"))
    /\ UNCHANGED <<caseVars, asked, patient, tableVars, save, request, counters, wanted>>

\* The refetch fails: what is shown stays.  The one made for a new session is
\* made again, for the session of that time.
NetworkFails(a) ==
    /\ a \in DOMAIN asked
    /\ Fault
    /\ IF a \in patient
       THEN Request(a) /\ UNCHANGED <<patient, harm>>
       ELSE Answered(a) /\ Suffers({"unread"})
    /\ UNCHANGED <<caseVars, objects, shown, reading, tableVars, save, request,
                   edits, saves, requests, wanted>>
-----------------------------------------------------------------------------
(* Another case is opened.                                                 *)

StageTo(s, stage) == opening' = [opening EXCEPT ![s] = stage]

\* createSessionFromFile: the network panel is covered, but neither its
\* shortcuts nor what already runs is stopped.
OpenCase(s) ==
    /\ opening[s] = "closed"
    /\ StageTo(s, "sent")
    /\ UNCHANGED <<server, session, objects, fetchVars, tableVars, save,
                   request, counters, wanted, harm>>

\* The api-server makes a session with a copy of the user's case.
LoadCase(s) ==
    /\ opening[s] = "sent"
    /\ StageTo(s, "loaded")
    /\ \E t \in Cases : server' = [server EXCEPT ![s] = t]
    /\ UNCHANGED <<session, objects, fetchVars, tableVars, save, request,
                   counters, wanted, harm>>

\* Requests go to the new session from now on.  Pending changes and the
\* history stay, and so does the network shown.
SetSession(s) ==
    /\ session' = s
    /\ LET unsaved == changes # <<>> \/ editing # NoEdit
       IN  Suffers(When(unsaved, "switched") \cup When(Saving, "crossed")
                   \cup When(UnderEdit /\ ~unsaved, "carried"))

\* The answer to createSessionFromFile.
SessionCreated(s) ==
    /\ opening[s] = "loaded"
    /\ StageTo(s, "created")
    /\ SetSession(s)
    /\ UNCHANGED <<server, objects, fetchVars, tableVars, save, request,
                   counters, wanted>>

\* handleSessionCreated has the session's info and has waited: it fetches the
\* network of the session there is then.
FetchOpened(s) ==
    /\ opening[s] = "created"
    /\ StageTo(s, "open")
    /\ \E a \in Answers : Free(a) /\ Request(a) /\ patient' = patient \cup {a}
    /\ UNCHANGED <<server, session, objects, shown, reading, tableVars, save,
                   request, counters, wanted, harm>>

\* The case is not loaded, or its session's info is not answered: then the
\* network is not fetched, although the session has changed.
OpenFails(s) ==
    /\ opening[s] \in {"sent", "created"}
    /\ Fault
    /\ StageTo(s, IF opening[s] = "sent" THEN "closed" ELSE "open")
    /\ Suffers(When(opening[s] = "created", "unread"))
    /\ UNCHANGED <<server, session, objects, fetchVars, tableVars, save,
                   request, edits, saves, requests, wanted>>
-----------------------------------------------------------------------------
User ==
    \/ \E s \in Sessions : OpenCase(s)
    \/ \E i \in Positions : OpenEditor(i) \/ ModifyElement(i) \/ ShowDelete(i)
    \/ \E v \in Values : SaveEdit(v)
    \/ SaveEditUnchanged \/ CancelEdit
    \/ HandleUndo \/ HandleRedo \/ Pause
    \/ ResetChanges \/ SaveChanges
    \/ OpenAdd \/ CloseDialog \/ DeleteElement
    \/ \E v \in Values : ParameterApply(v)
    \/ \E e \in Elements, v \in Values : AddElement(e, v)

Browser == RowSaved \/ SaveFails \/ RequestDone
           \/ \E s \in Sessions : SessionCreated(s) \/ FetchOpened(s)
           \/ \E k \in 1..Cardinality(Answers) : NetworkArrives(k)

Server == ApplyRow \/ ApplyRequest \/ RefuseRow \/ RefuseRequest
          \/ \E s \in Sessions : LoadCase(s) \/ OpenFails(s)
          \/ \E a \in Answers : ReadNetwork(a) \/ NetworkFails(a)

Next == User \/ Browser \/ Server

Spec == Init /\ [][Next]_vars
-----------------------------------------------------------------------------
(* What the properties are made of.  They are stated in Assistant, for the *)
(* table with the chat beside it.                                          *)

\* Nothing is on its way between the table and the server.
Quiet == ~Saving /\ ~Behind

Free_of(kinds) == harm \cap kinds = {}

\* The rows under the pending changes are those of the case that requests go to.
RowsAgree == Rows = server[session]

\* The value last given to an element is pending at its row, or it is in the
\* case it was given in.
EditsAreKept ==
    \A s \in Sessions : \A r \in ToSet(server[s]) :
        \/ r.value = wanted[s][r.id]
        \/ s = session /\ \E i \in DOMAIN changes \cap DOMAIN Rows :
              Rows[i].id = r.id /\ changes[i] = wanted[s][r.id]

\* The command at k is the next one of row i that a stack gives.
IsNext(stack, i, k) ==
    stack[k].row = i /\ \A j \in DOMAIN stack : j > k => stack[j].row # i

\* Of the commands of a row, the one undo would revert next brought the value
\* the cell has, and so did the undoing of the one redo would bring next.
HistoryAgrees(i) ==
    /\ \A k \in DOMAIN undoStack :
          IsNext(undoStack, i, k) => undoStack[k].new = Cell(i)
    /\ \A k \in DOMAIN redoStack :
          IsNext(redoStack, i, k) => redoStack[k].prev = Cell(i)
=============================================================================
