-------------------------- MODULE Assistant_proofs --------------------------
(* Theorems about NetworkTable and Assistant for any elements, sessions,   *)
(* answers, turns and bounds.                                              *)
EXTENDS Assistant, SequenceTheorems, FiniteSetTheorems, TLAPS

CallState == [at : {"none", "sent", "done", "refused"}, tool : Tools \cup {None},
              tries : Nat, made : Sessions \cup {None}]
TurnState == [at : {"unsent", "thinking", "calling", "ended"},
              to : Sessions \cup {None}, rounds : Nat, more : Nat,
              call : CallState, good : BOOLEAN, opened : Sessions \cup {None}]

CaseTypes ==
    /\ session \in Sessions
    /\ server = [s \in Sessions |-> server[s]]
    /\ opening \in [Sessions -> Stages]

\* A request and a save under way, with what is noted of a refused one.
EditTypes ==
    /\ save = [at |-> save.at, of |-> save.of, todo |-> save.todo,
               emptied |-> save.emptied, id |-> save.id, value |-> save.value,
               to |-> save.to]
    /\ save.at \in {"idle", "sent", "applied", "refused"}
    /\ request = [act |-> request.act, id |-> request.id, value |-> request.value,
                  to |-> request.to, at |-> request.at, of |-> request.of,
                  row |-> request.row]
    /\ request.at \in {"idle", "open", "sent", "applied", "refused"}
    /\ save.at = "refused" \/ request.at = "refused" => "refused" \in harm

\* An answer is asked for, waits to be read, or is held, and not two of these.
FetchTypes ==
    /\ objects = [a \in Answers |-> objects[a]]
    /\ shown \in Answers
    /\ DOMAIN asked \subseteq Answers
    /\ reading \in Seq(Answers)
    /\ shown \notin DOMAIN asked
    /\ ToSet(reading) \cap DOMAIN asked = {}
    /\ Saving => save.of \in Answers \ DOMAIN asked

ChatTypes ==
    /\ turn \in [Turns -> TurnState]
    /\ stream \in [Turns -> Seq(Event)]
    /\ due \in Nat
    /\ \A t \in Turns : turn[t].call.at # "none" <=> turn[t].at = "calling"
-----------------------------------------------------------------------------
(* Sequences.                                                              *)

LEMMA Removed ==
  ASSUME NEW S, NEW q \in Seq(S), NEW k \in DOMAIN q
  PROVE  /\ RemoveAt(q, k) \in Seq(S)
         /\ Len(RemoveAt(q, k)) = Len(q) - 1
         /\ \A i \in 1 .. Len(q) - 1 :
               RemoveAt(q, k)[i] = IF i < k THEN q[i] ELSE q[i + 1]
<1> DEFINE n == Len(q)
           front == SubSeq(q, 1, k - 1)
           back == SubSeq(q, k + 1, n)
<1>1. n \in Nat /\ k \in Nat /\ 1 <= k /\ k <= n /\ DOMAIN q = 1 .. n
  BY LenProperties
<1>2. \A i \in 1 .. n : q[i] \in S
  BY <1>1, ElementOfSeq
<1>3. RemoveAt(q, k) = front \o back
  BY DEF RemoveAt
<1>4. /\ front \in Seq(S) /\ Len(front) = k - 1
      /\ \A i \in 1 .. k - 1 : front[i] = q[i]
  <2>1. 1 \in Int /\ k - 1 \in Int /\ \A i \in 1 .. k - 1 : q[i] \in S
    BY <1>1, <1>2
  <2>2. /\ front \in Seq(S)
        /\ Len(front) = IF 1 <= k - 1 THEN k - 1 - 1 + 1 ELSE 0
        /\ \A i \in 1 .. k - 1 - 1 + 1 : front[i] = q[1 + i - 1]
    BY <2>1, SubSeqProperties
  <2> HIDE DEF front
  <2>3. \A i \in 1 .. k - 1 : i \in 1 .. k - 1 - 1 + 1 /\ 1 + i - 1 = i
    BY <1>1
  <2> QED
    BY <1>1, <2>2, <2>3
<1>5. /\ back \in Seq(S) /\ Len(back) = n - k
      /\ \A i \in 1 .. n - k : back[i] = q[k + i]
  <2>1. k + 1 \in Int /\ n \in Int /\ \A i \in k + 1 .. n : q[i] \in S
    BY <1>1, <1>2
  <2>2. /\ back \in Seq(S)
        /\ Len(back) = IF k + 1 <= n THEN n - (k + 1) + 1 ELSE 0
        /\ \A i \in 1 .. n - (k + 1) + 1 : back[i] = q[k + 1 + i - 1]
    BY <2>1, SubSeqProperties
  <2> HIDE DEF back, n
  <2>3. \A i \in 1 .. n - k : i \in 1 .. n - (k + 1) + 1 /\ k + 1 + i - 1 = k + i
    BY <1>1
  <2> QED
    BY <1>1, <2>2, <2>3
<1> HIDE DEF front, back, n
<1>6. /\ front \o back \in Seq(S)
      /\ Len(front \o back) = Len(front) + Len(back)
      /\ \A i \in 1 .. Len(front) + Len(back) : (front \o back)[i] =
            IF i <= Len(front) THEN front[i] ELSE back[i - Len(front)]
  BY <1>4, <1>5, ConcatProperties
<1>7. Len(front) + Len(back) = n - 1
  BY <1>1, <1>4, <1>5
<1>8. ASSUME NEW i \in 1 .. n - 1
      PROVE  (front \o back)[i] = IF i < k THEN q[i] ELSE q[i + 1]
  <2>1. CASE i < k
    <3>1. i \in 1 .. k - 1 /\ i <= Len(front) /\ i \in 1 .. Len(front) + Len(back)
      BY <1>1, <1>4, <1>7, <2>1
    <3> QED
      BY <3>1, <1>4, <1>6, <2>1
  <2>2. CASE ~(i < k)
    <3>1. /\ i - Len(front) \in 1 .. n - k /\ ~(i <= Len(front))
          /\ i \in 1 .. Len(front) + Len(back) /\ k + (i - Len(front)) = i + 1
      BY <1>1, <1>4, <1>7, <2>2
    <3> QED
      BY <3>1, <1>5, <1>6, <2>2
  <2> QED
    BY <2>1, <2>2
<1> QED
  BY <1>3, <1>6, <1>7, <1>8 DEF n

LEMMA Appended ==
  ASSUME NEW S, NEW q \in Seq(S), NEW e \in S
  PROVE  /\ Append(q, e) \in Seq(S)
         /\ Len(Append(q, e)) = Len(q) + 1
         /\ \A i \in 1..Len(q) + 1 :
               Append(q, e)[i] = IF i <= Len(q) THEN q[i] ELSE e
  BY LenProperties, AppendProperties

LEMMA Beheaded ==
  ASSUME NEW S, NEW q \in Seq(S), q # <<>>
  PROVE  /\ Len(q) \in Nat /\ Len(q) >= 1
         /\ Head(q) = q[1] /\ q[1] \in S
         /\ Tail(q) \in Seq(S) /\ Len(Tail(q)) = Len(q) - 1
         /\ \A i \in 1..Len(q) - 1 : Tail(q)[i] = q[i + 1]
<1>1. Len(q) \in Nat \ {0}
  BY EmptySeq
<1>2. /\ Head(q) \in S /\ Tail(q) \in Seq(S) /\ Len(Tail(q)) = Len(q) - 1
      /\ \A i \in 1..Len(Tail(q)) : Tail(q)[i] = q[i + 1]
  BY HeadTailProperties
<1>3. Head(q) = q[1]
  BY <1>1
<1> QED
  BY <1>1, <1>2, <1>3

LEMMA InSet ==
  ASSUME NEW S, NEW q \in Seq(S)
  PROVE  /\ ToSet(q) = {q[i] : i \in 1..Len(q)}
         /\ ToSet(q) \subseteq S
         /\ DOMAIN q = 1..Len(q) /\ Len(q) \in Nat
<1>1. DOMAIN q = 1..Len(q) /\ Len(q) \in Nat
  BY LenProperties
<1>2. \A i \in 1..Len(q) : q[i] \in S
  BY ElementOfSeq
<1> QED
  BY <1>1, <1>2 DEF ToSet
-----------------------------------------------------------------------------
(* Steps of the table.                                                     *)

\* A dialog is opened, closed, or applied.
OpenOrClose ==
    \/ \E i \in Positions : ModifyElement(i) \/ ShowDelete(i)
    \/ OpenAdd \/ CloseDialog

Apply ==
    \/ DeleteElement
    \/ \E v \in Values : ParameterApply(v)
    \/ \E e \in Elements, v \in Values : AddElement(e, v)

\* Opening a dialog, or closing it, changes nothing else.
LEMMA DialogSteps ==
  ASSUME OpenOrClose
  PROVE  /\ UNCHANGED <<caseVars, objects, fetchVars, tableVars, save,
                        edits, saves, faults, wanted, harm>>
         /\ request.at \in {"idle", "open"} /\ request'.at \in {"idle", "open"}
         /\ request'.act \in {"none", "add", "modify", "delete"}
         /\ request'.to = None \/ (request'.at = "open" /\ request'.to = Owner)
         /\ request'.at = "open" /\ request'.act = "modify" =>
               \E i \in DOMAIN Rows : request'.id = Rows[i].id
         /\ request' = [act |-> request'.act, id |-> request'.id,
                        value |-> request'.value, to |-> request'.to,
                        at |-> request'.at, of |-> request'.of, row |-> request'.row]
<1> DEFINE Known(act, e) == act = "modify" => \E i \in DOMAIN Rows : e = Rows[i].id
<1>1. ASSUME NEW act \in {"none", "add", "modify", "delete"}, NEW e, NEW of, NEW i,
             OpenDialog(act, e, of, i), Known(act, e)
      PROVE  /\ UNCHANGED <<caseVars, objects, fetchVars, tableVars, save,
                            edits, saves, faults, wanted, harm>>
             /\ request.at = "idle"
             /\ request' = [act |-> act, id |-> e, value |-> None, to |-> Owner,
                            at |-> "open", of |-> of, row |-> i]
             /\ Known(act, e)
  BY <1>1 DEF OpenDialog
<1>2. CASE CloseDialog
  <2>1. /\ UNCHANGED <<caseVars, objects, fetchVars, tableVars, save,
                       edits, saves, faults, wanted, harm>>
        /\ request.at = "open" /\ request' = NoRequest
    BY <1>2 DEF CloseDialog, counters
  <2>2. NoRequest.at = "idle" /\ NoRequest.act = "none" /\ NoRequest.to = None
    BY DEF NoRequest
  <2>3. NoRequest = [act |-> NoRequest.act, id |-> NoRequest.id, value |-> NoRequest.value,
                     to |-> NoRequest.to, at |-> NoRequest.at, of |-> NoRequest.of,
                     row |-> NoRequest.row]
    BY DEF NoRequest
  <2>4. request' = [act |-> request'.act, id |-> request'.id, value |-> request'.value,
                    to |-> request'.to, at |-> request'.at, of |-> request'.of,
                    row |-> request'.row]
    BY <2>1, <2>3
  <2>5. /\ request'.at = "idle" /\ request'.act = "none" /\ request'.to = None
        /\ request.at = "open"
    BY <2>1, <2>2
  <2> QED
    BY <2>1, <2>4, <2>5
<1>3. CASE \E act \in {"none", "add", "modify", "delete"} : \E e, of, i :
             OpenDialog(act, e, of, i) /\ Known(act, e)
  BY <1>1, <1>3
<1> QED
  BY <1>2, <1>3 DEF OpenOrClose, ModifyElement, ShowDelete, OpenAdd

\* Applying one sends its request.
LEMMA ApplySteps ==
  ASSUME Apply
  PROVE  \E act \in {"add", "modify", "delete"} : \E e, v : SendRequest(act, e, v)
<1> QED
  BY DEF Apply, DeleteElement, ParameterApply, AddElement

\* The user edits, and nothing is sent, saved or fetched but one edit beside
\* the table.
AtTheTable ==
    \/ \E i \in Positions : OpenEditor(i)
    \/ \E v \in Values : SaveEdit(v)
    \/ SaveEditUnchanged \/ CancelEdit
    \/ HandleUndo \/ HandleRedo \/ Pause
    \/ OpenOrClose \/ Apply

LEMMA EditedSave ==
  ASSUME EditTypes, NEW x
  PROVE  /\ [save EXCEPT !.emptied = x] =
               [at |-> save.at, of |-> save.of, todo |-> save.todo, emptied |-> x,
                id |-> save.id, value |-> save.value, to |-> save.to]
         /\ [save EXCEPT !.at = x] =
               [at |-> x, of |-> save.of, todo |-> save.todo,
                emptied |-> save.emptied, id |-> save.id, value |-> save.value,
                to |-> save.to]
         /\ [request EXCEPT !.at = x] =
               [act |-> request.act, id |-> request.id, value |-> request.value,
                to |-> request.to, at |-> x, of |-> request.of,
                row |-> request.row]
<1>1. /\ DOMAIN save = {"at", "of", "todo", "emptied", "id", "value", "to"}
      /\ DOMAIN request = {"act", "id", "value", "to", "at", "of", "row"}
  BY DEF EditTypes
<1>2. [save EXCEPT !.emptied = x] =
         [at |-> save.at, of |-> save.of, todo |-> save.todo, emptied |-> x,
          id |-> save.id, value |-> save.value, to |-> save.to]
  BY DEF EditTypes
<1>3. [save EXCEPT !.at = x] =
         [at |-> x, of |-> save.of, todo |-> save.todo,
          emptied |-> save.emptied, id |-> save.id, value |-> save.value,
          to |-> save.to]
  BY DEF EditTypes
<1>4. [request EXCEPT !.at = x] =
         [act |-> request.act, id |-> request.id, value |-> request.value,
          to |-> request.to, at |-> x, of |-> request.of, row |-> request.row]
  BY DEF EditTypes
<1> QED
  BY <1>2, <1>3, <1>4

LEMMA TableSteps ==
  ASSUME EditTypes, AtTheTable
  PROVE  /\ UNCHANGED <<caseVars, objects, fetchVars>>
         /\ save'.at = save.at /\ save'.of = save.of
         /\ request'.at = request.at \/ request.at \in {"idle", "open"}
         /\ EditTypes'
         /\ harm \subseteq harm'
<1>1. CASE /\ UNCHANGED <<caseVars, objects, fetchVars, save, request>>
           /\ harm \subseteq harm'
  BY <1>1 DEF EditTypes
<1>2. ASSUME NEW act, NEW e, NEW v, SendRequest(act, e, v)
      PROVE  /\ UNCHANGED <<caseVars, objects, fetchVars, save>>
             /\ request' = [act |-> act, id |-> e, value |-> v, to |-> session,
                            at |-> "sent", of |-> None, row |-> 0]
             /\ harm \subseteq harm' /\ request.at = "open"
  BY <1>2 DEF SendRequest, Suffers
<1>3. ASSUME NEW act, NEW e, NEW v, SendRequest(act, e, v)
      PROVE  /\ UNCHANGED <<caseVars, objects, fetchVars>>
             /\ save'.at = save.at /\ save'.of = save.of /\ request.at = "open"
             /\ EditTypes'
             /\ harm \subseteq harm'
  BY <1>2, <1>3 DEF EditTypes
<1>4. CASE SaveEditUnchanged
  <2>1. /\ UNCHANGED <<caseVars, objects, fetchVars, request>>
        /\ harm \subseteq harm'
    BY <1>4 DEF SaveEditUnchanged, Suffers
  <2>2. save' = save \/ \E x : save' = [save EXCEPT !.emptied = x]
    BY <1>4 DEF SaveEditUnchanged
  <2>3. CASE save' = save
    BY <2>1, <2>3 DEF EditTypes
  <2>4. ASSUME NEW x, save' = [save EXCEPT !.emptied = x]
        PROVE  /\ save'.at = save.at /\ save'.of = save.of
               /\ EditTypes'
    BY <2>1, <2>4, EditedSave DEF EditTypes
  <2> QED
    BY <2>1, <2>2, <2>3, <2>4
<1>5. ASSUME NEW i \in Positions, OpenEditor(i)
      PROVE  UNCHANGED <<caseVars, objects, fetchVars, save, request, harm>>
  BY <1>5 DEF OpenEditor
<1>6. ASSUME NEW v \in Values, SaveEdit(v)
      PROVE  /\ UNCHANGED <<caseVars, objects, fetchVars, save, request>>
             /\ harm \subseteq harm'
  BY <1>6 DEF SaveEdit, Suffers
<1>7. ASSUME CancelEdit \/ Pause
      PROVE  UNCHANGED <<caseVars, objects, fetchVars, save, request, harm>>
  BY <1>7 DEF CancelEdit, Pause
<1>8. ASSUME HandleUndo \/ HandleRedo
      PROVE  /\ UNCHANGED <<caseVars, objects, fetchVars, save, request>>
             /\ harm \subseteq harm'
  BY <1>8 DEF HandleUndo, HandleRedo, Shortcut, Suffers
<1>9. CASE OpenOrClose
  BY <1>9, DialogSteps DEF EditTypes
<1>10. CASE Apply
  BY <1>3, <1>10, ApplySteps
<1> QED
  BY <1>1, <1>4, <1>5, <1>6, <1>7, <1>8, <1>9, <1>10 DEF AtTheTable

\* The table's other steps, one by one.
LEMMA TableCases ==
  ASSUME Next
  PROVE  \/ AtTheTable
         \/ \E s \in Sessions : OpenCase(s) \/ LoadCase(s) \/ OpenFails(s)
         \/ \E s \in Sessions : SessionCreated(s) \/ FetchOpened(s)
         \/ ResetChanges \/ SaveChanges \/ RowSaved \/ SaveFails
         \/ RequestDone \/ ApplyRow \/ ApplyRequest \/ RefuseRow \/ RefuseRequest
         \/ \E k \in DOMAIN reading : NetworkArrives(k)
         \/ \E a \in DOMAIN asked : ReadNetwork(a) \/ NetworkFails(a)
<1>1. User => \/ AtTheTable \/ ResetChanges \/ SaveChanges
              \/ \E s \in Sessions : OpenCase(s)
  BY DEF User, AtTheTable, OpenOrClose, Apply
<1>2. Browser => \/ RowSaved \/ SaveFails \/ RequestDone
                 \/ \E s \in Sessions : SessionCreated(s) \/ FetchOpened(s)
                 \/ \E k \in DOMAIN reading : NetworkArrives(k)
  BY DEF Browser, NetworkArrives
<1>3. Server => \/ ApplyRow \/ ApplyRequest \/ RefuseRow \/ RefuseRequest
                \/ \E s \in Sessions : LoadCase(s) \/ OpenFails(s)
                \/ \E a \in DOMAIN asked : ReadNetwork(a) \/ NetworkFails(a)
  BY DEF Server, ReadNetwork, NetworkFails
<1> QED
  BY <1>1, <1>2, <1>3 DEF Next

\* The next row of a save, or its end.
LEMMA SaveGoesOn ==
  ASSUME NEW of, NEW todo, NEW emptied, NextRow(of, todo, emptied), FetchTypes
  PROVE  /\ save' = [at |-> save'.at, of |-> save'.of, todo |-> save'.todo,
                     emptied |-> save'.emptied, id |-> save'.id,
                     value |-> save'.value, to |-> save'.to]
         /\ \/ /\ save'.at = "sent" /\ save'.of = of
               /\ UNCHANGED shown
               /\ objects' = [a \in Answers |-> objects'[a]]
            \/ save'.at = "idle" /\ Show(of)
<1>1. CASE FinishSave(of)
  BY <1>1 DEF FinishSave, NotSaving
<1>2. CASE SendRow(of, todo, emptied)
  <2>1. PICK i, value :
          /\ objects' = IF value = None THEN objects
                        ELSE [objects EXCEPT ![of].rows[i].value = value]
          /\ save' = [at |-> "sent", of |-> of, todo |-> todo \ {i},
                      emptied |-> emptied \ {i}, id |-> objects[of].rows[i].id,
                      value |-> value, to |-> session]
          /\ UNCHANGED shown
    BY <1>2 DEF SendRow
  <2>2. objects = [a \in Answers |-> objects[a]]
    BY DEF FetchTypes
  <2>3. objects' = [a \in Answers |-> objects'[a]]
    <3>1. CASE objects' = objects
      BY <2>2, <3>1
    <3>2. CASE objects' = [objects EXCEPT ![of].rows[i].value = value]
      BY <2>2, <3>2
    <3> QED
      BY <2>1, <3>1, <3>2
  <2> QED
    BY <2>1, <2>3
<1> QED
  BY <1>1, <1>2 DEF NextRow

\* Opening a case, and the refetches, leave requests and saves alone.
LEMMA FetchSteps ==
  ASSUME \/ \E s \in Sessions : OpenCase(s) \/ LoadCase(s) \/ OpenFails(s)
         \/ \E s \in Sessions : SessionCreated(s) \/ FetchOpened(s)
         \/ \E k \in DOMAIN reading : NetworkArrives(k)
         \/ \E a \in DOMAIN asked : ReadNetwork(a) \/ NetworkFails(a)
         \/ ResetChanges
  PROVE  UNCHANGED <<save, request>> /\ harm \subseteq harm'
<1>1. ASSUME NEW s \in Sessions, OpenCase(s) \/ LoadCase(s) \/ OpenFails(s)
      PROVE  UNCHANGED <<save, request>> /\ harm \subseteq harm'
  BY <1>1 DEF OpenCase, LoadCase, OpenFails, Suffers
<1>2. ASSUME NEW s \in Sessions, SessionCreated(s) \/ FetchOpened(s)
      PROVE  UNCHANGED <<save, request>> /\ harm \subseteq harm'
  BY <1>2 DEF SessionCreated, FetchOpened, SetSession, Suffers
<1>3. ASSUME NEW k, NetworkArrives(k)
      PROVE  UNCHANGED <<save, request>> /\ harm \subseteq harm'
  BY <1>3 DEF NetworkArrives, Suffers
<1>4. ASSUME NEW a, ReadNetwork(a) \/ NetworkFails(a)
      PROVE  UNCHANGED <<save, request>> /\ harm \subseteq harm'
  BY <1>4 DEF ReadNetwork, NetworkFails, Suffers
<1>5. CASE ResetChanges
  BY <1>5 DEF ResetChanges, Suffers
<1> QED
  BY <1>1, <1>2, <1>3, <1>4, <1>5

LEMMA AssistantCases ==
  ASSUME [AssistantNext]_assistantVars
  PROVE  \/ UNCHANGED assistantVars
         \/ Next /\ UNCHANGED agentVars /\ Strains({})
         \/ StopGeneration \/ FetchDue
         \/ \E t \in Turns : \/ SendMessage(t) \/ ReadEvent(t) \/ CallTools(t)
                             \/ Answer(t) \/ CallEnds(t) \/ Unanswered(t)
                             \/ ApplyCall(t) \/ \E s \in Sessions : OpenForChat(t, s)
  BY DEF AssistantNext, Table, ChatTab, Agent

\* A step of the assistant, and what it leaves alone.
AssistantSteps ==
    \/ StopGeneration \/ FetchDue
    \/ \E t \in Turns : \/ SendMessage(t) \/ ReadEvent(t) \/ CallTools(t)
                        \/ Answer(t) \/ CallEnds(t) \/ Unanswered(t)
                        \/ ApplyCall(t) \/ \E s \in Sessions : OpenForChat(t, s)

LEMMA BesideTheTable ==
  ASSUME AssistantSteps
  PROVE  /\ UNCHANGED <<objects, shown, reading, save, request>>
         /\ harm \subseteq harm' /\ friction \subseteq friction'
         /\ FetchDue \/ UNCHANGED asked
<1>1. CASE StopGeneration
  BY <1>1 DEF StopGeneration, Strains, vars, fetchVars
<1>2. CASE FetchDue
  BY <1>2 DEF FetchDue, Strains
<1>3. ASSUME NEW t \in Turns, SendMessage(t) \/ CallTools(t) \/ Answer(t) \/ CallEnds(t)
      PROVE  /\ UNCHANGED <<objects, shown, reading, asked, save, request, harm>>
             /\ friction \subseteq friction'
  BY <1>3 DEF SendMessage, CallTools, Answer, CallEnds, Strains, vars, fetchVars
<1>4. ASSUME NEW t \in Turns, Unanswered(t)
      PROVE  /\ UNCHANGED <<objects, shown, reading, asked, save, request, harm>>
             /\ friction \subseteq friction'
  BY <1>4 DEF Unanswered, Strains, fetchVars
<1>5. ASSUME NEW t \in Turns, ApplyCall(t) \/ \E s \in Sessions : OpenForChat(t, s)
      PROVE  /\ UNCHANGED <<objects, shown, reading, asked, save, request, harm>>
             /\ friction \subseteq friction'
  BY <1>5 DEF ApplyCall, OpenForChat, Strains, tabVars, fetchVars
<1>6. ASSUME NEW t \in Turns, ReadEvent(t)
      PROVE  /\ UNCHANGED <<objects, shown, reading, asked, save, request>>
             /\ harm \subseteq harm' /\ friction \subseteq friction'
  BY <1>6 DEF ReadEvent, ToolResults, SetSession, Suffers, Strains, tabVars, fetchVars
<1> QED
  BY <1>1, <1>2, <1>3, <1>4, <1>5, <1>6 DEF AssistantSteps

LEMMA EditTypesStep ==
  ASSUME EditTypes, FetchTypes, [AssistantNext]_assistantVars
  PROVE  EditTypes'
<1>1. CASE UNCHANGED <<save, request>> /\ harm \subseteq harm'
  BY <1>1 DEF EditTypes
<1>2. CASE UNCHANGED assistantVars
  BY <1>1, <1>2 DEF assistantVars, vars
<1>3. CASE AssistantSteps
  BY <1>1, <1>3, BesideTheTable
<1>4. CASE Next
  <2>1. CASE AtTheTable
    BY <2>1, TableSteps
  <2>2. CASE SaveChanges \/ RowSaved
    <3>1. UNCHANGED request /\ harm \subseteq harm'
      BY <2>2 DEF SaveChanges, RowSaved, Suffers
    <3>2. \E of, todo, emptied : NextRow(of, todo, emptied)
      BY <2>2 DEF SaveChanges, RowSaved
    <3> QED
      BY <3>1, <3>2, SaveGoesOn DEF EditTypes
  <2>3. CASE SaveFails
    BY <2>3 DEF SaveFails, EditTypes, NotSaving
  <2>4. CASE RequestDone
    BY <2>4 DEF RequestDone, EditTypes, NoRequest
  <2>5. CASE ApplyRow
    <3>1. save' = [save EXCEPT !.at = "applied"] /\ UNCHANGED <<request, harm>>
      BY <2>5 DEF ApplyRow
    <3> QED
      BY <3>1, EditedSave DEF EditTypes
  <2>6. CASE ApplyRequest
    <3>1. request' = [request EXCEPT !.at = "applied"] /\ UNCHANGED <<save, harm>>
      BY <2>6 DEF ApplyRequest
    <3> QED
      BY <3>1, EditedSave DEF EditTypes
  <2>7. CASE RefuseRow
    <3>1. save' = [save EXCEPT !.at = "refused"] /\ UNCHANGED request
          /\ "refused" \in harm'
      BY <2>7 DEF RefuseRow, Suffers
    <3> QED
      BY <3>1, EditedSave DEF EditTypes
  <2>8. CASE RefuseRequest
    <3>1. request' = [request EXCEPT !.at = "refused"] /\ UNCHANGED save
          /\ "refused" \in harm'
      BY <2>8 DEF RefuseRequest, Suffers
    <3> QED
      BY <3>1, EditedSave DEF EditTypes
  <2> QED
    BY <1>1, <1>4, <2>1, <2>2, <2>3, <2>4, <2>5, <2>6, <2>7, <2>8, TableCases, FetchSteps
<1> QED
  BY <1>2, <1>3, <1>4, AssistantCases DEF AssistantSteps


\* A refetch is asked for, of the session there is now.
LEMMA Asking ==
  ASSUME NEW a \in Answers, Request(a)
  PROVE  DOMAIN asked' = DOMAIN asked \cup {a} /\ asked'[a] = session
         /\ \A b \in DOMAIN asked : b # a => asked'[b] = asked[b]
  BY DEF Request

LEMMA StillFetching ==
  ASSUME FetchTypes, UNCHANGED <<objects, shown, reading>>,
         UNCHANGED asked \/ \E a \in Answers : Free(a) /\ Request(a),
         Saving' => Saving /\ save'.of = save.of
  PROVE  FetchTypes'
<1>1. CASE UNCHANGED asked
  BY <1>1 DEF FetchTypes
<1>2. ASSUME NEW a \in Answers, Free(a), Request(a)
      PROVE  FetchTypes'
  <2>1. DOMAIN asked' = DOMAIN asked \cup {a}
    BY <1>2, Asking
  <2>2. a \notin ToSet(reading) /\ a # shown /\ a # save.of
    BY <1>2 DEF Free
  <2> QED
    BY <2>1, <2>2 DEF FetchTypes
<1> QED
  BY <1>1, <1>2

LEMMA FetchTypesStep ==
  ASSUME EditTypes, FetchTypes, [AssistantNext]_assistantVars
  PROVE  FetchTypes'
<1>1. CASE UNCHANGED assistantVars
  BY <1>1, StillFetching DEF assistantVars, vars, fetchVars, Saving
<1>2. CASE AssistantSteps
  <2>1. UNCHANGED <<objects, shown, reading, save>> /\ (FetchDue \/ UNCHANGED asked)
    BY <1>2, BesideTheTable
  <2>2. FetchDue => \E a \in Answers : Free(a) /\ Request(a)
    BY DEF FetchDue, Ask
  <2> QED
    BY <2>1, <2>2, StillFetching DEF Saving
<1>3. CASE Next
  <2>1. CASE AtTheTable
    BY <2>1, TableSteps, StillFetching DEF Saving, fetchVars
  <2>2. ASSUME NEW s \in Sessions,
               OpenCase(s) \/ LoadCase(s) \/ OpenFails(s) \/ SessionCreated(s)
        PROVE  FetchTypes'
    <3>1. UNCHANGED <<objects, shown, reading, asked, save>>
      BY <2>2 DEF OpenCase, LoadCase, OpenFails, SessionCreated, fetchVars
    <3> QED
      BY <3>1, StillFetching DEF Saving
  <2>3. ASSUME NEW s \in Sessions, FetchOpened(s)
        PROVE  FetchTypes'
    <3>1. /\ UNCHANGED <<objects, shown, reading, save>>
          /\ \E a \in Answers : Free(a) /\ Request(a)
      BY <2>3 DEF FetchOpened
    <3> QED
      BY <3>1, StillFetching DEF Saving
  <2>4. CASE ResetChanges
    <3>1. /\ UNCHANGED <<objects, shown, reading, save>>
          /\ \E a \in Answers : Free(a) /\ Request(a)
      BY <2>4 DEF ResetChanges, Ask
    <3> QED
      BY <3>1, StillFetching DEF Saving
  <2>5. CASE SaveChanges
    <3>1. /\ NextRow(shown, DOMAIN changes \cap DOMAIN Rows, {})
          /\ UNCHANGED <<asked, reading>>
      BY <2>5 DEF SaveChanges
    <3>2. CASE /\ save'.at = "sent" /\ save'.of = shown /\ UNCHANGED shown
               /\ objects' = [a \in Answers |-> objects'[a]]
      BY <3>1, <3>2 DEF FetchTypes
    <3>3. CASE save'.at = "idle" /\ Show(shown)
      BY <3>1, <3>3 DEF FetchTypes, Show, Held, Saving
    <3> QED
      BY <3>1, <3>2, <3>3, SaveGoesOn
  <2>6. CASE RowSaved
    <3>1. PICK a \in Answers : Free(a) /\ Request(a)
      BY <2>6 DEF RowSaved, Ask
    <3>2. DOMAIN asked' = DOMAIN asked \cup {a}
      BY <3>1, Asking
    <3>3. a \notin ToSet(reading) /\ a # shown /\ a # save.of
      BY <3>1 DEF Free
    <3>4. /\ NextRow(save.of, save.todo, save.emptied) /\ UNCHANGED reading
          /\ save.of \in Answers \ DOMAIN asked
      BY <2>6 DEF RowSaved, FetchTypes, Saving
    <3>5. CASE /\ save'.at = "sent" /\ save'.of = save.of /\ UNCHANGED shown
               /\ objects' = [b \in Answers |-> objects'[b]]
      BY <3>2, <3>3, <3>4, <3>5 DEF FetchTypes
    <3>6. CASE save'.at = "idle" /\ Show(save.of)
      BY <3>2, <3>3, <3>4, <3>6 DEF FetchTypes, Show, Held, Saving
    <3> QED
      BY <3>4, <3>5, <3>6, SaveGoesOn
  <2>7. CASE SaveFails
    BY <2>7, StillFetching DEF SaveFails, NotSaving, Saving, fetchVars
  <2>8. CASE RequestDone
    <3>1. /\ UNCHANGED <<objects, shown, reading, save>>
          /\ UNCHANGED asked \/ \E a \in Answers : Free(a) /\ Request(a)
      BY <2>8 DEF RequestDone, Ask
    <3> QED
      BY <3>1, StillFetching DEF Saving
  <2>9. CASE ApplyRow \/ RefuseRow
    <3>1. /\ UNCHANGED <<objects, shown, reading, asked>>
          /\ Saving
          /\ \E x : save' = [save EXCEPT !.at = x]
      BY <2>9 DEF ApplyRow, RefuseRow, fetchVars, Saving
    <3>2. save'.of = save.of
      BY <3>1, EditedSave
    <3> QED
      BY <3>1, <3>2, StillFetching
  <2>10. CASE ApplyRequest \/ RefuseRequest
    <3>1. UNCHANGED <<objects, shown, reading, asked, save>>
      BY <2>10 DEF ApplyRequest, RefuseRequest, fetchVars
    <3> QED
      BY <3>1, StillFetching DEF Saving
  <2>11. ASSUME NEW k \in DOMAIN reading, NetworkArrives(k)
         PROVE  FetchTypes'
    <3>1. /\ shown' = reading[k] /\ objects' = [a \in Answers |-> objects'[a]]
          /\ reading' = RemoveAt(reading, k)
          /\ UNCHANGED <<asked, save>>
      BY <2>11 DEF NetworkArrives, Show, Held
    <3>2. reading \in Seq(Answers)
      BY DEF FetchTypes
    <3>3. reading' \in Seq(Answers) /\ ToSet(reading') \subseteq ToSet(reading)
      <4>1. /\ reading' \in Seq(Answers) /\ Len(reading') = Len(reading) - 1
            /\ \A i \in 1..Len(reading) - 1 :
                  reading'[i] = IF i < k THEN reading[i] ELSE reading[i + 1]
        BY <3>1, <3>2, Removed
      <4>2. /\ ToSet(reading) = {reading[i] : i \in 1..Len(reading)}
            /\ ToSet(reading') = {reading'[i] : i \in 1..Len(reading')}
            /\ Len(reading) \in Nat
        BY <3>2, <4>1, InSet
      <4>3. ASSUME NEW i \in 1..Len(reading')
            PROVE  reading'[i] \in ToSet(reading)
        <5>1. i \in 1..Len(reading) - 1 /\ i \in 1..Len(reading) /\ i + 1 \in 1..Len(reading)
          BY <4>1, <4>2
        <5> QED
          BY <5>1, <4>1, <4>2
      <4> QED
        BY <4>1, <4>2, <4>3
    <3>4. reading[k] \in ToSet(reading) /\ reading[k] \in Answers
      BY <3>2, InSet
    <3> QED
      BY <3>1, <3>3, <3>4 DEF FetchTypes, Saving
  <2>12. ASSUME NEW a \in DOMAIN asked, ReadNetwork(a)
         PROVE  FetchTypes'
    <3>1. /\ DOMAIN asked' = DOMAIN asked \ {a}
          /\ reading' = Append(reading, a)
          /\ objects' = [objects EXCEPT ![a] =
                            [of |-> asked[a], rows |-> server[asked[a]]]]
          /\ UNCHANGED <<shown, save>>
      BY <2>12 DEF ReadNetwork, Answered
    <3>2. objects' = [b \in Answers |-> objects'[b]]
      BY <3>1 DEF FetchTypes
    <3>3. reading' \in Seq(Answers) /\ ToSet(reading') \subseteq ToSet(reading) \cup {a}
      <4>1. a \in Answers /\ reading \in Seq(Answers)
        BY DEF FetchTypes
      <4>2. /\ reading' \in Seq(Answers) /\ Len(reading') = Len(reading) + 1
            /\ \A i \in 1..Len(reading) + 1 :
                  reading'[i] = IF i <= Len(reading) THEN reading[i] ELSE a
        BY <3>1, <4>1, Appended
      <4>3. /\ ToSet(reading) = {reading[i] : i \in 1..Len(reading)}
            /\ ToSet(reading') = {reading'[i] : i \in 1..Len(reading')}
            /\ Len(reading) \in Nat
        BY <4>1, <4>2, InSet
      <4>4. ASSUME NEW i \in 1..Len(reading')
            PROVE  reading'[i] \in ToSet(reading) \cup {a}
        <5>1. i \in 1..Len(reading) + 1 /\ (i <= Len(reading) => i \in 1..Len(reading))
          BY <4>2, <4>3
        <5> QED
          BY <5>1, <4>2, <4>3
      <4> QED
        BY <4>2, <4>3, <4>4
    <3> QED
      BY <3>1, <3>2, <3>3 DEF FetchTypes, Saving
  <2>13. ASSUME NEW a \in DOMAIN asked, NetworkFails(a)
         PROVE  FetchTypes'
    <3>1. /\ DOMAIN asked' \subseteq DOMAIN asked
          /\ UNCHANGED <<objects, shown, reading, save>>
      BY <2>13 DEF NetworkFails, Answered, Request
    <3> QED
      BY <3>1 DEF FetchTypes, Saving
  <2> QED
    BY <1>3, <2>1, <2>2, <2>3, <2>4, <2>5, <2>6, <2>7, <2>8, <2>9, <2>10, <2>11,
       <2>12, <2>13, TableCases
<1> QED
  BY <1>1, <1>2, <1>3, AssistantCases DEF AssistantSteps
-----------------------------------------------------------------------------
(* Steps of the turns.                                                     *)

LEMMA Calls ==
  /\ NoCall \in CallState /\ NoCall.at = "none" /\ NoCall.made = None
  /\ \A c \in Tools : /\ Sent(c) \in CallState
                      /\ Sent(c).at = "sent" /\ Sent(c).made = None
                      /\ Sent(c).tool = c
  BY DEF NoCall, Sent, CallState

\* What SendMessage and Answer make of a turn.
LEMMA TurnRecords ==
  ASSUME NEW r \in TurnState
  PROVE  /\ \A s \in Sessions : LET n == [r EXCEPT !.at = "thinking", !.to = s] IN
               n \in TurnState /\ n.at = "thinking"
               /\ n.call = r.call /\ n.good = r.good /\ n.opened = r.opened
         /\ LET n == [r EXCEPT !.at = "ended"] IN
               n \in TurnState /\ n.at = "ended"
               /\ n.call = r.call /\ n.good = r.good /\ n.opened = r.opened
<1>1. ASSUME NEW s \in Sessions
      PROVE  LET n == [r EXCEPT !.at = "thinking", !.to = s] IN
               n \in TurnState /\ n.at = "thinking"
               /\ n.call = r.call /\ n.good = r.good /\ n.opened = r.opened
  BY DEF TurnState
<1>2. LET n == [r EXCEPT !.at = "ended"] IN
        n \in TurnState /\ n.at = "ended"
        /\ n.call = r.call /\ n.good = r.good /\ n.opened = r.opened
  BY DEF TurnState
<1> QED
  BY <1>1, <1>2

\* What an attempt makes of the call of a turn.
LEMMA CallRecords ==
  ASSUME NEW r \in TurnState
  PROVE  /\ \A a \in {"done", "refused"} : LET n == [r EXCEPT !.call.at = a] IN
               n \in TurnState /\ n.at = r.at /\ n.good = r.good /\ n.opened = r.opened
               /\ n.call.at = a /\ n.call.made = r.call.made /\ n.call.tool = r.call.tool
         /\ \A s \in Sessions :
               LET n == [r EXCEPT !.call.at = "done", !.call.made = s] IN
               n \in TurnState /\ n.at = r.at /\ n.good = r.good /\ n.opened = r.opened
               /\ n.call.at = "done" /\ n.call.made = s /\ n.call.tool = r.call.tool
         /\ LET n == [r EXCEPT !.call.at = "sent", !.call.tries = @ + 1] IN
               n \in TurnState /\ n.at = r.at /\ n.good = r.good /\ n.opened = r.opened
               /\ n.call.at = "sent" /\ n.call.made = r.call.made
               /\ n.call.tool = r.call.tool
<1>1. r.call \in CallState
  BY DEF TurnState
<1>2. ASSUME NEW c \in CallState
      PROVE  LET n == [r EXCEPT !.call = c] IN
               n \in TurnState /\ n.at = r.at /\ n.good = r.good /\ n.opened = r.opened
               /\ n.call = c
  BY DEF TurnState
<1>3. ASSUME NEW a \in {"done", "refused"}
      PROVE  /\ [r.call EXCEPT !.at = a] \in CallState
             /\ [r.call EXCEPT !.at = a].at = a
             /\ [r.call EXCEPT !.at = a].made = r.call.made
             /\ [r.call EXCEPT !.at = a].tool = r.call.tool
             /\ [r EXCEPT !.call.at = a] = [r EXCEPT !.call = [r.call EXCEPT !.at = a]]
  BY <1>1 DEF CallState
<1>4. ASSUME NEW s \in Sessions
      PROVE  /\ [r.call EXCEPT !.at = "done", !.made = s] \in CallState
             /\ [r.call EXCEPT !.at = "done", !.made = s].at = "done"
             /\ [r.call EXCEPT !.at = "done", !.made = s].made = s
             /\ [r.call EXCEPT !.at = "done", !.made = s].tool = r.call.tool
             /\ [r EXCEPT !.call.at = "done", !.call.made = s]
                  = [r EXCEPT !.call = [r.call EXCEPT !.at = "done", !.made = s]]
  BY <1>1 DEF CallState, TurnState
<1>5. /\ [r.call EXCEPT !.at = "sent", !.tries = @ + 1] \in CallState
      /\ [r.call EXCEPT !.at = "sent", !.tries = @ + 1].at = "sent"
      /\ [r.call EXCEPT !.at = "sent", !.tries = @ + 1].made = r.call.made
      /\ [r.call EXCEPT !.at = "sent", !.tries = @ + 1].tool = r.call.tool
      /\ [r EXCEPT !.call.at = "sent", !.call.tries = @ + 1]
           = [r EXCEPT !.call = [r.call EXCEPT !.at = "sent", !.tries = @ + 1]]
  <2>1. ASSUME NEW k \in Nat
        PROVE  /\ [r.call EXCEPT !.at = "sent", !.tries = k] \in CallState
               /\ [r.call EXCEPT !.at = "sent", !.tries = k].at = "sent"
               /\ [r.call EXCEPT !.at = "sent", !.tries = k].made = r.call.made
               /\ [r.call EXCEPT !.at = "sent", !.tries = k].tool = r.call.tool
    BY <1>1 DEF CallState
  <2>2. r.call.tries + 1 \in Nat
    BY <1>1 DEF CallState
  <2>3. /\ [r.call EXCEPT !.at = "sent", !.tries = @ + 1] \in CallState
        /\ [r.call EXCEPT !.at = "sent", !.tries = @ + 1].at = "sent"
        /\ [r.call EXCEPT !.at = "sent", !.tries = @ + 1].made = r.call.made
        /\ [r.call EXCEPT !.at = "sent", !.tries = @ + 1].tool = r.call.tool
    BY <2>1, <2>2
  <2>4. [r EXCEPT !.call.at = "sent", !.call.tries = @ + 1]
           = [r EXCEPT !.call = [r.call EXCEPT !.at = "sent", !.tries = @ + 1]]
    BY <1>1 DEF CallState, TurnState
  <2> QED
    BY <2>3, <2>4
<1>6. ASSUME NEW a \in {"done", "refused"}
      PROVE  LET n == [r EXCEPT !.call.at = a] IN
               n \in TurnState /\ n.at = r.at /\ n.good = r.good /\ n.opened = r.opened
               /\ n.call.at = a /\ n.call.made = r.call.made /\ n.call.tool = r.call.tool
  BY <1>2, <1>3
<1>7. ASSUME NEW s \in Sessions
      PROVE  LET n == [r EXCEPT !.call.at = "done", !.call.made = s] IN
               n \in TurnState /\ n.at = r.at /\ n.good = r.good /\ n.opened = r.opened
               /\ n.call.at = "done" /\ n.call.made = s /\ n.call.tool = r.call.tool
  <2> DEFINE c == [r.call EXCEPT !.at = "done", !.made = s]
             n == [r EXCEPT !.call = c]
  <2>1. /\ c \in CallState /\ c.at = "done" /\ c.made = s /\ c.tool = r.call.tool
        /\ [r EXCEPT !.call.at = "done", !.call.made = s] = n
    BY <1>4
  <2> HIDE DEF c
  <2>2. n \in TurnState /\ n.at = r.at /\ n.good = r.good /\ n.opened = r.opened
        /\ n.call = c
    BY <1>2, <2>1
  <2> QED
    BY <2>1, <2>2
<1>8. LET n == [r EXCEPT !.call.at = "sent", !.call.tries = @ + 1] IN
        n \in TurnState /\ n.at = r.at /\ n.good = r.good /\ n.opened = r.opened
        /\ n.call.at = "sent" /\ n.call.made = r.call.made
        /\ n.call.tool = r.call.tool
  <2> DEFINE c == [r.call EXCEPT !.at = "sent", !.tries = @ + 1]
             n == [r EXCEPT !.call = c]
  <2>1. /\ c \in CallState /\ c.at = "sent" /\ c.made = r.call.made
        /\ c.tool = r.call.tool
        /\ [r EXCEPT !.call.at = "sent", !.call.tries = @ + 1] = n
    BY <1>5
  <2> HIDE DEF c
  <2>2. n \in TurnState /\ n.at = r.at /\ n.good = r.good /\ n.opened = r.opened
        /\ n.call = c
    BY <1>2, <2>1
  <2> QED
    BY <2>1, <2>2
<1> QED
  BY <1>6, <1>7, <1>8

\* The call is over, with an answer or without: the next one is sent, or the
\* event of the round.
CallOver(t, n, good, opened) ==
    /\ n \in TurnState /\ Becomes(t, n)
    /\ n.good <=> turn[t].good \/ good
    /\ n.opened = IF turn[t].opened = None THEN opened ELSE turn[t].opened
    /\ n.call.made = None
    /\ \/ /\ n.at = "calling" /\ n.call.at = "sent" /\ n.call.tool \in Tools
          /\ UNCHANGED stream
       \/ /\ n.at = "thinking" /\ n.call.at = "none"
          /\ Emit(t, [last |-> FALSE, good |-> n.good, opened |-> n.opened])

LEMMA NextTurn ==
  ASSUME ChatTypes, NEW t \in Turns, turn[t].call.at # "none",
         NEW good \in BOOLEAN, NEW opened \in Sessions \cup {None},
         NextCall(t, good, opened)
  PROVE  \E n : CallOver(t, n, good, opened)
<1> DEFINE first == IF turn[t].opened = None THEN opened ELSE turn[t].opened
           so_far == [turn[t] EXCEPT !.good = @ \/ good, !.opened = first,
                                     !.to = IF opened = None THEN @ ELSE opened]
<1>1. turn[t] \in TurnState /\ turn[t].at = "calling"
  BY DEF ChatTypes
<1>2. first \in Sessions \cup {None}
  BY <1>1 DEF TurnState
<1> HIDE DEF first
<1>3. /\ so_far \in TurnState /\ so_far.opened = first /\ so_far.at = "calling"
      /\ so_far.good <=> turn[t].good \/ good
      /\ so_far.more = turn[t].more
  BY <1>1, <1>2 DEF TurnState
<1> HIDE DEF so_far
<1>4. \/ /\ turn[t].more > 0
         /\ \E c \in Tools :
               Becomes(t, [so_far EXCEPT !.more = @ - 1, !.call = Sent(c)])
         /\ UNCHANGED stream
      \/ /\ Becomes(t, [so_far EXCEPT !.at = "thinking", !.call = NoCall])
         /\ Emit(t, [last |-> FALSE, good |-> so_far.good, opened |-> first])
  BY DEF NextCall, first, so_far
<1>5. ASSUME NEW c \in CallState, turn[t].more > 0
      PROVE  LET n == [so_far EXCEPT !.more = @ - 1, !.call = c] IN
               n \in TurnState /\ n.good = so_far.good /\ n.opened = first
               /\ n.at = "calling" /\ n.call = c
  <2>1. ASSUME NEW k \in Nat
        PROVE  LET n == [so_far EXCEPT !.more = k, !.call = c] IN
                 n \in TurnState /\ n.good = so_far.good /\ n.opened = first
                 /\ n.at = "calling" /\ n.call = c
    BY <1>3 DEF TurnState
  <2>2. so_far.more - 1 \in Nat
    <3>1. turn[t].more \in Nat
      BY <1>1 DEF TurnState
    <3> QED
      BY <1>3, <1>5, <3>1
  <2> QED
    BY <2>1, <2>2
<1>6. ASSUME NEW c \in CallState
      PROVE  LET n == [so_far EXCEPT !.at = "thinking", !.call = c] IN
               n \in TurnState /\ n.good = so_far.good /\ n.opened = first
               /\ n.at = "thinking" /\ n.call = c
  BY <1>3 DEF TurnState
<1>7. ASSUME NEW c \in Tools, turn[t].more > 0, UNCHANGED stream,
             Becomes(t, [so_far EXCEPT !.more = @ - 1, !.call = Sent(c)])
      PROVE  \E n \in TurnState :
            /\ Becomes(t, n)
            /\ n.good <=> turn[t].good \/ good
            /\ n.opened = first
            /\ n.call.made = None
            /\ n.at = "calling" /\ n.call.at = "sent" /\ n.call.tool \in Tools
            /\ UNCHANGED stream
  <2>1. Sent(c) \in CallState /\ Sent(c).at = "sent" /\ Sent(c).made = None
        /\ Sent(c).tool = c
    BY Calls
  <2> DEFINE n == [so_far EXCEPT !.more = @ - 1, !.call = Sent(c)]
  <2>2. n \in TurnState /\ n.good = so_far.good /\ n.opened = first
        /\ n.at = "calling" /\ n.call = Sent(c)
    BY <1>5, <1>7, <2>1
  <2>3. Becomes(t, n)
    BY <1>7
  <2> HIDE DEF n
  <2> QED
    BY <1>3, <1>7, <2>1, <2>2, <2>3
<1>8. ASSUME Becomes(t, [so_far EXCEPT !.at = "thinking", !.call = NoCall]),
             Emit(t, [last |-> FALSE, good |-> so_far.good, opened |-> first])
      PROVE  \E n \in TurnState :
            /\ Becomes(t, n)
            /\ n.good <=> turn[t].good \/ good
            /\ n.opened = first
            /\ n.call.made = None
            /\ n.at = "thinking" /\ n.call.at = "none"
            /\ Emit(t, [last |-> FALSE, good |-> n.good, opened |-> n.opened])
  <2> DEFINE n == [so_far EXCEPT !.at = "thinking", !.call = NoCall]
  <2>1. n \in TurnState /\ n.good = so_far.good /\ n.opened = first
        /\ n.at = "thinking" /\ n.call = NoCall
    BY <1>6, Calls
  <2>2. Becomes(t, n)
    BY <1>8
  <2>3. Emit(t, [last |-> FALSE, good |-> n.good, opened |-> n.opened])
    BY <1>8, <2>1
  <2> HIDE DEF n
  <2> QED
    BY <1>3, <2>1, <2>2, <2>3, Calls
<1> QED
  BY <1>4, <1>7, <1>8 DEF first, CallOver


\* n is t's turn after a step that leaves its session, and what it has opened.
Keeps(t, n) ==
    n \in TurnState /\ Becomes(t, n) /\ n.good = turn[t].good /\ n.opened = turn[t].opened

LEMMA Begins ==
  ASSUME ChatTypes, CaseTypes, NEW t \in Turns, SendMessage(t)
  PROVE  \E n : /\ Keeps(t, n) /\ n.at = "thinking" /\ n.call = turn[t].call
                /\ turn[t].call.at = "none"
                /\ UNCHANGED <<vars, stream, due>> /\ talking' = t
<1> DEFINE n == [turn[t] EXCEPT !.at = "thinking", !.to = session]
<1>1. turn[t] \in TurnState /\ session \in Sessions /\ turn[t].at = "unsent"
      /\ turn[t].call.at = "none"
  BY DEF ChatTypes, CaseTypes, SendMessage
<1>2. n \in TurnState /\ n.at = "thinking" /\ n.call = turn[t].call
      /\ n.good = turn[t].good /\ n.opened = turn[t].opened
  BY <1>1, TurnRecords
<1>3. Becomes(t, n) /\ UNCHANGED <<vars, stream, due>> /\ talking' = t
  BY DEF SendMessage
<1> HIDE DEF n
<1> QED
  BY <1>1, <1>2, <1>3 DEF Keeps

LEMMA CallsTools ==
  ASSUME ChatTypes, NEW t \in Turns, CallTools(t)
  PROVE  \E n \in TurnState :
            /\ Becomes(t, n) /\ n.at = "calling" /\ n.call.at = "sent"
            /\ n.call.made = None /\ n.good = FALSE /\ n.opened = None
            /\ n.call.tool \in Tools
            /\ turn[t].at = "thinking"
            /\ UNCHANGED <<vars, stream, talking, due>>
<1>1. turn[t] \in TurnState /\ turn[t].rounds \in Nat
  BY DEF ChatTypes, TurnState
<1>2. PICK k \in 1..(MaxCalls - turn[t].rounds), c \in Tools :
         Becomes(t, [turn[t] EXCEPT !.at = "calling", !.more = k - 1, !.call = Sent(c),
                                    !.rounds = @ + 1, !.good = FALSE, !.opened = None])
  BY DEF CallTools
<1> DEFINE m == k - 1
           next == turn[t].rounds + 1
           n == [turn[t] EXCEPT !.at = "calling", !.more = m, !.call = Sent(c),
                                !.rounds = next, !.good = FALSE, !.opened = None]
<1>3. m \in Nat /\ next \in Nat
  BY <1>1, CallsAssumption
<1>4. Sent(c) \in CallState /\ Sent(c).at = "sent" /\ Sent(c).made = None
      /\ Sent(c).tool = c
  BY Calls
<1>5. Becomes(t, n)
  BY <1>2
<1> HIDE DEF m, next
<1>6. n \in TurnState /\ n.at = "calling" /\ n.call = Sent(c)
      /\ n.good = FALSE /\ n.opened = None
  <2>1. PICK r \in TurnState : r = turn[t]
    BY <1>1
  <2>2. PICK d \in CallState : d = Sent(c)
    BY <1>4
  <2> DEFINE y == [r EXCEPT !.at = "calling", !.more = m, !.call = d]
  <2>3. y \in TurnState /\ y.at = "calling" /\ y.call = d
    BY <1>3 DEF TurnState
  <2>4. n = [y EXCEPT !.rounds = next, !.good = FALSE, !.opened = None]
    BY Zenon, <2>1, <2>2
  <2> HIDE DEF y, n
  <2> QED
    BY <1>3, <2>2, <2>3, <2>4 DEF TurnState
<1>7. turn[t].at = "thinking" /\ UNCHANGED <<vars, stream, talking, due>>
  BY DEF CallTools
<1> HIDE DEF n
<1> QED
  BY <1>4, <1>5, <1>6, <1>7

LEMMA AnswersText ==
  ASSUME ChatTypes, NEW t \in Turns, Answer(t)
  PROVE  \E n : /\ Keeps(t, n) /\ n.at = "ended" /\ n.call = turn[t].call
                /\ turn[t].call.at = "none" /\ turn[t].at = "thinking"
                /\ Emit(t, End) /\ UNCHANGED <<vars, talking, due>>
<1> DEFINE n == [turn[t] EXCEPT !.at = "ended"]
<1>1. turn[t] \in TurnState /\ turn[t].at = "thinking" /\ turn[t].call.at = "none"
  BY DEF ChatTypes, Answer
<1>2. n \in TurnState /\ n.at = "ended" /\ n.call = turn[t].call
      /\ n.good = turn[t].good /\ n.opened = turn[t].opened
  BY <1>1, TurnRecords
<1>3. Becomes(t, n) /\ Emit(t, End) /\ UNCHANGED <<vars, talking, due>>
  BY DEF Answer
<1> HIDE DEF n
<1> QED
  BY <1>1, <1>2, <1>3 DEF Keeps

LEMMA Ends ==
  ASSUME ChatTypes, NEW t \in Turns, CallEnds(t)
  PROVE  /\ turn[t].at = "calling"
         /\ \E n, good, opened :
               /\ CallOver(t, n, good, opened)
               /\ good <=> turn[t].call.at = "done" /\ turn[t].call.tool.act # "open"
               /\ opened \in {None, turn[t].call.made}
         /\ UNCHANGED <<vars, talking, due>>
<1> DEFINE done == turn[t].call.at = "done"
           opens == turn[t].call.tool.act = "open"
           good == done /\ ~opens
           opened == IF done /\ opens THEN turn[t].call.made ELSE None
<1>1. /\ turn[t].call.at \in {"done", "refused"}
      /\ NextCall(t, good, opened)
      /\ UNCHANGED <<vars, talking, due>>
  BY DEF CallEnds
<1>2. turn[t] \in TurnState /\ turn[t].call \in CallState
  BY DEF ChatTypes, TurnState
<1>3. good \in BOOLEAN /\ opened \in Sessions \cup {None}
  BY <1>2 DEF CallState
<1>4. opened \in {None, turn[t].call.made}
  OBVIOUS
<1>5. good <=> turn[t].call.at = "done" /\ turn[t].call.tool.act # "open"
  OBVIOUS
<1> HIDE DEF good, opened
<1>6. PICK n : CallOver(t, n, good, opened)
  BY <1>1, <1>3, NextTurn
<1>7. turn[t].at = "calling"
  BY <1>1 DEF ChatTypes
<1> QED
  BY <1>1, <1>4, <1>5, <1>6, <1>7

LEMMA GoesUnanswered ==
  ASSUME ChatTypes, NEW t \in Turns, Unanswered(t)
  PROVE  /\ turn[t].at = "calling"
         /\ \/ \E n : /\ Keeps(t, n) /\ n.at = "calling" /\ n.call.at = "sent"
                      /\ n.call.made = turn[t].call.made
                      /\ n.call.tool = turn[t].call.tool
                      /\ UNCHANGED stream
            \/ \E n : CallOver(t, n, FALSE, None)
         /\ UNCHANGED <<caseVars, asked, talking, due>>
         /\ turn[t].call.at = "done" /\ turn[t].call.tool.act # "open"
               => "unanswered" \in friction'
<1>1. /\ turn[t].call.at \in {"sent", "done", "refused"}
      /\ \/ /\ Becomes(t, [turn[t] EXCEPT !.call.at = "sent", !.call.tries = @ + 1])
            /\ UNCHANGED stream
         \/ NextCall(t, FALSE, None)
      /\ UNCHANGED <<caseVars, asked, talking, due>>
  BY DEF Unanswered, fetchVars
<1>2. turn[t] \in TurnState /\ turn[t].at = "calling" /\ turn[t].call.at # "none"
  BY <1>1 DEF ChatTypes
<1>3. turn[t].call.at = "done" /\ turn[t].call.tool.act # "open"
         => "unanswered" \in friction'
  BY DEF Unanswered, Strains, When
<1>4. CASE /\ Becomes(t, [turn[t] EXCEPT !.call.at = "sent", !.call.tries = @ + 1])
           /\ UNCHANGED stream
  <2> DEFINE n == [turn[t] EXCEPT !.call.at = "sent", !.call.tries = @ + 1]
  <2>1. n \in TurnState /\ n.at = "calling" /\ n.good = turn[t].good
        /\ n.opened = turn[t].opened /\ n.call.at = "sent"
        /\ n.call.made = turn[t].call.made /\ n.call.tool = turn[t].call.tool
    BY <1>2, CallRecords
  <2>2. Becomes(t, n)
    BY <1>4
  <2> HIDE DEF n
  <2> QED
    BY <1>1, <1>2, <1>3, <1>4, <2>1, <2>2 DEF Keeps
<1>5. CASE NextCall(t, FALSE, None)
  <2>1. PICK n : CallOver(t, n, FALSE, None)
    BY <1>2, <1>5, NextTurn
  <2> QED
    BY <1>1, <1>2, <1>3, <2>1
<1> QED
  BY <1>1, <1>4, <1>5

LEMMA Applies ==
  ASSUME ChatTypes, NEW t \in Turns, ApplyCall(t)
  PROVE  /\ turn[t].at = "calling"
         /\ \E n, a : /\ Keeps(t, n) /\ n.at = "calling" /\ n.call.at = a
                      /\ n.call.made = turn[t].call.made
                      /\ n.call.tool = turn[t].call.tool
                      /\ n.call.tool.act # "open"
                      /\ \/ a = "refused" /\ UNCHANGED server
                         \/ /\ a = "done"
                            /\ \E s, act, e, v : Carry(s, act, e, v)
                            /\ talking # t => "unheard" \in friction'
         /\ UNCHANGED <<sessionVars, asked, stream, talking, due>>
<1> DEFINE c == turn[t].call.tool
           possible == Possible(turn[t].to, c.act, c.id)
<1>1. /\ turn[t].call.at = "sent" /\ c.act # "open"
      /\ IF possible THEN Carry(turn[t].to, c.act, c.id, c.value) ELSE UNCHANGED server
      /\ UNCHANGED <<sessionVars, asked, stream, talking, due>>
      /\ possible /\ talking # t => "unheard" \in friction'
  BY DEF ApplyCall, tabVars, fetchVars, Strains, When
<1>2. Becomes(t, [turn[t] EXCEPT !.call.at = IF possible THEN "done" ELSE "refused"])
  BY DEF ApplyCall
<1>3. turn[t] \in TurnState /\ turn[t].at = "calling"
  BY <1>1 DEF ChatTypes
<1> HIDE DEF possible
<1> DEFINE a == IF possible THEN "done" ELSE "refused"
           n == [turn[t] EXCEPT !.call.at = a]
<1>4. a \in {"done", "refused"} /\ Becomes(t, n)
  BY <1>2
<1>5. \/ a = "refused" /\ UNCHANGED server
      \/ /\ a = "done" /\ \E s, act, e, v : Carry(s, act, e, v)
         /\ talking # t => "unheard" \in friction'
  BY <1>1
<1> HIDE DEF a
<1>6. n \in TurnState /\ n.at = "calling" /\ n.good = turn[t].good
      /\ n.opened = turn[t].opened /\ n.call.at = a
      /\ n.call.made = turn[t].call.made /\ n.call.tool = c
  <2>1. \A x \in {"done", "refused"} : LET y == [turn[t] EXCEPT !.call.at = x] IN
           y \in TurnState /\ y.at = turn[t].at /\ y.good = turn[t].good
           /\ y.opened = turn[t].opened /\ y.call.at = x
           /\ y.call.made = turn[t].call.made /\ y.call.tool = c
    BY <1>3, CallRecords
  <2> QED
    BY <1>3, <1>4, <2>1
<1> HIDE DEF n
<1> QED
  BY <1>1, <1>3, <1>4, <1>5, <1>6 DEF Keeps

LEMMA Opens ==
  ASSUME ChatTypes, NEW t \in Turns, NEW s \in Sessions, OpenForChat(t, s)
  PROVE  /\ turn[t].at = "calling" /\ turn[t].call.at = "sent"
         /\ \E n : /\ Keeps(t, n) /\ n.at = "calling" /\ n.call.at = "done"
                   /\ n.call.made = s /\ n.call.tool = turn[t].call.tool
                   /\ n.call.tool.act = "open"
         /\ opening[s] = "closed" \/ turn[t].call.made = s
         /\ opening' = [opening EXCEPT ![s] = "apart"]
         /\ \E cases \in Cases : server' = [server EXCEPT ![s] = cases]
         /\ UNCHANGED <<session, asked, stream, talking, due>>
<1> DEFINE n == [turn[t] EXCEPT !.call.at = "done", !.call.made = s]
<1>1. /\ turn[t].call.at = "sent" /\ turn[t].call.tool.act = "open"
      /\ opening[s] = "closed" \/ turn[t].call.made = s
      /\ opening' = [opening EXCEPT ![s] = "apart"]
      /\ \E cases \in Cases : server' = [server EXCEPT ![s] = cases]
      /\ UNCHANGED <<session, asked, stream, talking, due>>
      /\ Becomes(t, n)
  BY DEF OpenForChat, StageTo, tabVars, fetchVars
<1>2. turn[t] \in TurnState /\ turn[t].at = "calling"
  BY <1>1 DEF ChatTypes
<1>3. n \in TurnState /\ n.at = "calling" /\ n.good = turn[t].good
      /\ n.opened = turn[t].opened /\ n.call.at = "done" /\ n.call.made = s
      /\ n.call.tool = turn[t].call.tool
  <2>1. \A x \in Sessions :
           LET y == [turn[t] EXCEPT !.call.at = "done", !.call.made = x] IN
           y \in TurnState /\ y.at = turn[t].at /\ y.good = turn[t].good
           /\ y.opened = turn[t].opened /\ y.call.at = "done" /\ y.call.made = x
           /\ y.call.tool = turn[t].call.tool
    BY <1>2, CallRecords
  <2> QED
    BY <1>2, <2>1
<1> HIDE DEF n
<1>4. Keeps(t, n) /\ n.at = "calling" /\ n.call.at = "done" /\ n.call.made = s
      /\ n.call.tool = turn[t].call.tool /\ n.call.tool.act = "open"
  BY <1>1, <1>3 DEF Keeps
<1> QED
  BY <1>1, <1>2, <1>4


LEMMA TurnMoves ==
  ASSUME ChatTypes, NEW t \in Turns, NEW n \in TurnState, Becomes(t, n)
  PROVE  /\ turn' \in [Turns -> TurnState] /\ turn'[t] = n
         /\ \A u \in Turns : u # t => turn'[u] = turn[u]
  BY DEF ChatTypes, Becomes

LEMMA Emits ==
  ASSUME ChatTypes, NEW t \in Turns, NEW e \in Event, Emit(t, e)
  PROVE  /\ stream' \in [Turns -> Seq(Event)]
         /\ \A u \in Turns : u # t => stream'[u] = stream[u]
         /\ IF talking = t THEN stream'[t] = Append(stream[t], e)
            ELSE stream'[t] = stream[t]
<1>1. stream \in [Turns -> Seq(Event)] /\ Append(stream[t], e) \in Seq(Event)
  BY Appended DEF ChatTypes
<1> QED
  BY <1>1 DEF Emit

LEMMA EventTypes ==
  /\ End \in Event /\ End.last /\ ~End.good /\ End.opened = None
  /\ \A n \in TurnState :
        LET e == [last |-> FALSE, good |-> n.good, opened |-> n.opened]
        IN  e \in Event /\ ~e.last /\ e.good = n.good /\ e.opened = n.opened
  BY DEF End, Event, TurnState

LEMMA EventRead ==
  ASSUME ChatTypes, NEW t \in Turns, ReadEvent(t)
  PROVE  /\ stream' \in [Turns -> Seq(Event)]
         /\ \A u \in Turns : u # t => stream'[u] = stream[u]
         /\ stream[t] # <<>> /\ stream'[t] = Tail(stream[t])
         /\ stream[t][1] \in Event /\ Head(stream[t]) = stream[t][1]
         /\ talking = t /\ UNCHANGED <<turn, server, asked>>
<1>1. stream \in [Turns -> Seq(Event)] /\ stream[t] # <<>>
  BY DEF ChatTypes, ReadEvent
<1>2. /\ Head(stream[t]) = stream[t][1] /\ stream[t][1] \in Event
      /\ Tail(stream[t]) \in Seq(Event)
  BY <1>1, Beheaded
<1>3. /\ stream' = [stream EXCEPT ![t] = Tail(@)]
      /\ talking = t /\ UNCHANGED <<turn, server, asked>>
  BY DEF ReadEvent, tabVars, fetchVars
<1> QED
  BY <1>1, <1>2, <1>3

\* A turn's next state, and the call it has just then.
InPlace(r) == r.call.at # "none" <=> r.at = "calling"

LEMMA ChatTypesStep ==
  ASSUME ChatTypes, CaseTypes, [AssistantNext]_assistantVars
  PROVE  ChatTypes'
<1>1. ASSUME UNCHANGED <<turn, stream, due>>
      PROVE  ChatTypes'
  BY <1>1 DEF ChatTypes
<1>2. ASSUME NEW t \in Turns, NEW n \in TurnState, Becomes(t, n), InPlace(n),
             stream' \in [Turns -> Seq(Event)], due' \in Nat
      PROVE  ChatTypes'
  <2>1. /\ turn' \in [Turns -> TurnState] /\ turn'[t] = n
        /\ \A u \in Turns : u # t => turn'[u] = turn[u]
    BY <1>2, TurnMoves
  <2> QED
    BY <1>2, <2>1 DEF ChatTypes, InPlace
<1>3. stream \in [Turns -> Seq(Event)] /\ due \in Nat /\ \A t \in Turns : InPlace(turn[t])
  BY DEF ChatTypes, InPlace
<1>4. CASE UNCHANGED agentVars
  BY <1>1, <1>4 DEF agentVars
<1>5. CASE StopGeneration
  <2>1. stream' = [stream EXCEPT ![talking] = <<>>] /\ UNCHANGED <<turn, due>>
    BY <1>5 DEF StopGeneration
  <2>2. <<>> \in Seq(Event)
    BY EmptySeq
  <2>3. stream' \in [Turns -> Seq(Event)]
    BY <1>3, <2>1, <2>2
  <2> QED
    BY <2>1, <2>3 DEF ChatTypes
<1>6. CASE FetchDue
  <2>1. due > 0 /\ due' = due - 1 /\ UNCHANGED <<turn, stream>>
    BY <1>6 DEF FetchDue
  <2>2. due' \in Nat
    BY <1>3, <2>1
  <2> QED
    BY <2>1, <2>2 DEF ChatTypes
<1>7. ASSUME NEW t \in Turns, SendMessage(t)
      PROVE  ChatTypes'
  <2>1. PICK n : Keeps(t, n) /\ n.at = "thinking" /\ n.call = turn[t].call
                 /\ turn[t].call.at = "none" /\ UNCHANGED <<stream, due>>
    BY <1>7, Begins
  <2> QED
    BY <1>2, <1>3, <2>1 DEF Keeps, InPlace
<1>8. ASSUME NEW t \in Turns, ReadEvent(t)
      PROVE  ChatTypes'
  <2>1. stream' \in [Turns -> Seq(Event)] /\ UNCHANGED turn
    BY <1>8, EventRead
  <2>2. due' = due \/ due' = due + 0 \/ due' = due + 1
    BY <1>8 DEF ReadEvent, ToolResults
  <2>3. due' \in Nat
    BY <1>3, <2>2
  <2> QED
    BY <2>1, <2>3 DEF ChatTypes
<1>9. ASSUME NEW t \in Turns, CallTools(t)
      PROVE  ChatTypes'
  <2>1. PICK n \in TurnState : Becomes(t, n) /\ n.at = "calling" /\ n.call.at = "sent"
                               /\ UNCHANGED <<stream, due>>
    BY <1>9, CallsTools
  <2> QED
    BY <1>2, <1>3, <2>1 DEF InPlace
<1>10. ASSUME NEW t \in Turns, Answer(t)
       PROVE  ChatTypes'
  <2>1. PICK n : Keeps(t, n) /\ n.at = "ended" /\ n.call = turn[t].call
                 /\ turn[t].call.at = "none" /\ Emit(t, End) /\ UNCHANGED due
    BY <1>10, AnswersText
  <2>2. stream' \in [Turns -> Seq(Event)]
    BY <2>1, Emits, EventTypes
  <2> QED
    BY <1>2, <1>3, <2>1, <2>2 DEF Keeps, InPlace
<1>11. ASSUME NEW t \in Turns, NEW n, NEW good, NEW opened,
              CallOver(t, n, good, opened), UNCHANGED due
       PROVE  ChatTypes'
  <2>1. n \in TurnState /\ Becomes(t, n) /\ InPlace(n)
    BY <1>11 DEF CallOver, InPlace
  <2>2. stream' \in [Turns -> Seq(Event)]
    <3>1. CASE UNCHANGED stream
      BY <1>3, <3>1
    <3>2. CASE Emit(t, [last |-> FALSE, good |-> n.good, opened |-> n.opened])
      BY <2>1, <3>2, Emits, EventTypes
    <3> QED
      BY <1>11, <3>1, <3>2 DEF CallOver
  <2> QED
    BY <1>2, <1>3, <1>11, <2>1, <2>2
<1>12. ASSUME NEW t \in Turns, CallEnds(t)
       PROVE  ChatTypes'
  BY <1>11, <1>12, Ends
<1>13. ASSUME NEW t \in Turns, Unanswered(t)
       PROVE  ChatTypes'
  <2>1. ASSUME NEW n, Keeps(t, n), n.at = "calling", n.call.at = "sent",
               UNCHANGED <<stream, due>>
        PROVE  ChatTypes'
    BY <1>2, <1>3, <2>1 DEF Keeps, InPlace
  <2> QED
    BY <1>11, <1>13, <2>1, GoesUnanswered
<1>14. ASSUME NEW t \in Turns, ApplyCall(t)
       PROVE  ChatTypes'
  <2>1. PICK n : Keeps(t, n) /\ n.at = "calling" /\ n.call.at \in {"refused", "done"}
                 /\ UNCHANGED <<stream, due>>
    BY <1>14, Applies
  <2> QED
    BY <1>2, <1>3, <2>1 DEF Keeps, InPlace
<1>15. ASSUME NEW t \in Turns, NEW s \in Sessions, OpenForChat(t, s)
       PROVE  ChatTypes'
  <2>1. PICK n : Keeps(t, n) /\ n.at = "calling" /\ n.call.at = "done"
                 /\ UNCHANGED <<stream, due>>
    BY <1>15, Opens
  <2> QED
    BY <1>2, <1>3, <2>1 DEF Keeps, InPlace
<1> QED
  BY <1>4, <1>5, <1>6, <1>7, <1>8, <1>9, <1>10, <1>12, <1>13, <1>14, <1>15,
     AssistantCases DEF assistantVars

LEMMA CaseTypesStep ==
  ASSUME ChatTypes, CaseTypes, EditTypes, [AssistantNext]_assistantVars
  PROVE  CaseTypes'
<1>1. /\ session \in Sessions /\ opening \in [Sessions -> Stages]
      /\ server = [s \in Sessions |-> server[s]]
  BY DEF CaseTypes
<1>2. ASSUME NEW s \in Sessions, NEW stage \in Stages, opening' = [opening EXCEPT ![s] = stage],
             session' \in Sessions, UNCHANGED server
      PROVE  CaseTypes'
  BY <1>1, <1>2 DEF CaseTypes
<1>3. ASSUME NEW s, NEW act, NEW e, NEW v, Carry(s, act, e, v), UNCHANGED sessionVars
      PROVE  CaseTypes'
  BY <1>1, <1>3 DEF CaseTypes, Carry, sessionVars
<1>4. CASE UNCHANGED caseVars
  BY <1>1, <1>4 DEF CaseTypes, caseVars, sessionVars
<1>5. CASE Next
  <2>1. CASE AtTheTable
    BY <1>4, <2>1, TableSteps
  <2>2. ASSUME NEW s \in Sessions, OpenCase(s) \/ OpenFails(s) \/ SessionCreated(s) \/ FetchOpened(s)
        PROVE  CaseTypes'
    <3>1. \E stage \in Stages : opening' = [opening EXCEPT ![s] = stage]
      BY <2>2 DEF OpenCase, OpenFails, SessionCreated, FetchOpened, StageTo, Stages
    <3>2. session' \in Sessions /\ UNCHANGED server
      BY <1>1, <2>2 DEF OpenCase, OpenFails, SessionCreated, FetchOpened, SetSession
    <3> QED
      BY <1>2, <3>1, <3>2
  <2>3. ASSUME NEW s \in Sessions, LoadCase(s)
        PROVE  CaseTypes'
    <3>1. /\ opening' = [opening EXCEPT ![s] = "loaded"] /\ UNCHANGED session
          /\ \E t : server' = [server EXCEPT ![s] = t]
      BY <2>3 DEF LoadCase, StageTo
    <3> QED
      BY <1>1, <3>1 DEF CaseTypes, Stages
  <2>4. CASE ResetChanges \/ SaveChanges \/ RowSaved \/ SaveFails \/ RequestDone
             \/ RefuseRow \/ RefuseRequest
    BY <1>4, <2>4 DEF ResetChanges, SaveChanges, RowSaved, SaveFails, RequestDone,
                      RefuseRow, RefuseRequest
  <2>5. CASE ApplyRow \/ ApplyRequest
    BY <1>3, <2>5 DEF ApplyRow, ApplyRequest
  <2>6. ASSUME NEW k, NetworkArrives(k)
        PROVE  CaseTypes'
    BY <1>4, <2>6 DEF NetworkArrives
  <2>7. ASSUME NEW a, ReadNetwork(a) \/ NetworkFails(a)
        PROVE  CaseTypes'
    BY <1>4, <2>7 DEF ReadNetwork, NetworkFails
  <2> QED
    BY <1>5, <2>1, <2>2, <2>3, <2>4, <2>5, <2>6, <2>7, TableCases
<1>6. CASE UNCHANGED vars
  BY <1>4, <1>6 DEF vars
<1>7. CASE StopGeneration \/ FetchDue
  BY <1>4, <1>7 DEF StopGeneration, FetchDue, vars
<1>8. ASSUME NEW t \in Turns, SendMessage(t) \/ CallTools(t) \/ Answer(t) \/ CallEnds(t)
      PROVE  CaseTypes'
  BY <1>6, <1>8 DEF SendMessage, CallTools, Answer, CallEnds
<1>9. ASSUME NEW t \in Turns, Unanswered(t)
      PROVE  CaseTypes'
  BY <1>4, <1>9 DEF Unanswered
<1>10. ASSUME NEW t \in Turns, ApplyCall(t)
       PROVE  CaseTypes'
  <2>1. UNCHANGED server \/ \E s, act, e, v : Carry(s, act, e, v)
    BY <1>10, Applies
  <2>2. UNCHANGED sessionVars
    BY <1>10, Applies
  <2> QED
    BY <1>3, <1>4, <2>1, <2>2 DEF caseVars
<1>11. ASSUME NEW t \in Turns, NEW s \in Sessions, OpenForChat(t, s)
       PROVE  CaseTypes'
  <2>1. /\ opening' = [opening EXCEPT ![s] = "apart"] /\ UNCHANGED session
        /\ \E cases : server' = [server EXCEPT ![s] = cases]
    BY <1>11, Opens
  <2> QED
    BY <1>1, <2>1 DEF CaseTypes, Stages
<1>12. ASSUME NEW t \in Turns, ReadEvent(t)
       PROVE  CaseTypes'
  <2>1. Head(stream[t]) \in Event /\ UNCHANGED server
    BY <1>12, EventRead
  <2>2. CASE UNCHANGED sessionVars
    BY <1>4, <2>1, <2>2 DEF caseVars
  <2>3. CASE /\ Head(stream[t]).opened # None
             /\ StageTo(Head(stream[t]).opened, "open")
             /\ SetSession(Head(stream[t]).opened)
    BY <1>2, <2>1, <2>3 DEF StageTo, SetSession, Event, Stages
  <2> QED
    BY <1>12, <2>2, <2>3 DEF ReadEvent, ToolResults
<1> QED
  BY <1>5, <1>6, <1>7, <1>8, <1>9, <1>10, <1>11, <1>12, AssistantCases DEF assistantVars
-----------------------------------------------------------------------------
(* The sessions and the events about them.                                 *)

\* The last event of a turn is the last of its stream, and says of no edit.
StreamInv ==
    \A t \in Turns : \A i \in 1..Len(stream[t]) : stream[t][i].last =>
        i = Len(stream[t]) /\ turn[t].at = "ended" /\ ~stream[t][i].good

\* The tab hears, or will hear, that the chat has opened s.
Told(s) ==
    \E t \in Turns : \/ turn[t].opened = s
                     \/ \E i \in 1..Len(stream[t]) : stream[t][i].opened = s

\* The session of the tab is a case it has opened, and what a call has made is
\* the call's alone until its answer.
OpenInv ==
    /\ opening[session] \in {"created", "open"}
    /\ \A s \in Sessions : Told(s) => opening[s] \in {"apart", "open"}
    /\ \A t \in Turns, s \in Sessions : turn[t].call.made = s =>
          /\ opening[s] = "apart" /\ ~Told(s)
          /\ \A u \in Turns : u # t => turn[u].call.made # s

LEMMA StreamStep ==
  ASSUME ChatTypes, CaseTypes, StreamInv, [AssistantNext]_assistantVars
  PROVE  StreamInv'
<1> DEFINE Fine(q, r) == \A i \in 1..Len(q) : q[i].last =>
                            i = Len(q) /\ r.at = "ended" /\ ~q[i].good
<1>1. \A t \in Turns : /\ stream[t] \in Seq(Event) /\ Len(stream[t]) \in Nat
                       /\ Fine(stream[t], turn[t])
  BY LenProperties DEF ChatTypes, StreamInv
<1>2. ASSUME UNCHANGED <<turn, stream>>
      PROVE  StreamInv'
  BY <1>2 DEF StreamInv
<1>3. ASSUME NEW t \in Turns, NEW n \in TurnState, Becomes(t, n),
             \A u \in Turns : u # t => stream'[u] = stream[u],
             Fine(stream'[t], n)
      PROVE  StreamInv'
  <2>1. turn'[t] = n /\ \A u \in Turns : u # t => turn'[u] = turn[u]
    BY <1>3, TurnMoves
  <2> QED
    BY <1>1, <1>3, <2>1 DEF StreamInv
<1>4. ASSUME NEW t \in Turns, NEW n \in TurnState, turn[t].at # "ended"
      PROVE  /\ Fine(stream[t], n)
             /\ \A e \in Event :
                   ~e.good /\ (e.last => n.at = "ended") => Fine(Append(stream[t], e), n)
             /\ \A e \in Event : ~e.last => Fine(Append(stream[t], e), n)
  <2>1. \A i \in 1..Len(stream[t]) : ~stream[t][i].last
    BY <1>1, <1>4
  <2>2. ASSUME NEW e \in Event,
               (~e.good /\ (e.last => n.at = "ended")) \/ ~e.last,
               NEW i \in 1..Len(Append(stream[t], e)), Append(stream[t], e)[i].last
        PROVE  /\ i = Len(Append(stream[t], e)) /\ n.at = "ended"
               /\ ~Append(stream[t], e)[i].good
    <3>1. /\ Len(Append(stream[t], e)) = Len(stream[t]) + 1 /\ i \in 1..Len(stream[t]) + 1
          /\ Append(stream[t], e)[i] = IF i <= Len(stream[t]) THEN stream[t][i] ELSE e
      BY <1>1, <2>2, Appended
    <3>2. ~(i <= Len(stream[t]))
      <4>1. i <= Len(stream[t]) => i \in 1..Len(stream[t])
        BY <1>1, <3>1
      <4> QED
        BY <2>1, <2>2, <3>1, <4>1
    <3>3. i = Len(stream[t]) + 1
      BY <1>1, <3>1, <3>2
    <3> QED
      BY <2>2, <3>1, <3>2, <3>3
  <2> QED
    BY <2>1, <2>2
<1> HIDE DEF Fine
<1>5. CASE UNCHANGED agentVars
  BY <1>2, <1>5 DEF agentVars
<1>6. CASE StopGeneration
  <2>1. stream' = [stream EXCEPT ![talking] = <<>>] /\ UNCHANGED turn
    BY <1>6 DEF StopGeneration
  <2>2. \A t \in Turns : stream'[t] = stream[t] \/ stream'[t] = <<>>
    BY <2>1 DEF ChatTypes
  <2>3. \A r : Fine(<<>>, r)
    <3>1. 1..Len(<<>>) = {}
      BY EmptySeq
    <3> QED
      BY <3>1 DEF Fine
  <2> QED
    BY <1>1, <2>1, <2>2, <2>3 DEF StreamInv, Fine
<1>7. CASE FetchDue
  BY <1>2, <1>7 DEF FetchDue
<1>8. ASSUME NEW t \in Turns, SendMessage(t)
      PROVE  StreamInv'
  <2>1. PICK n : Keeps(t, n) /\ UNCHANGED stream
    BY <1>8, Begins
  <2>2. turn[t].at # "ended"
    BY <1>8 DEF SendMessage
  <2> QED
    BY <1>3, <1>4, <2>1, <2>2 DEF Keeps
<1>9. ASSUME NEW t \in Turns, ReadEvent(t)
      PROVE  StreamInv'
  <2>1. /\ \A u \in Turns : u # t => stream'[u] = stream[u]
        /\ stream[t] # <<>> /\ stream'[t] = Tail(stream[t]) /\ UNCHANGED turn
    BY <1>9, EventRead
  <2>2. /\ Len(stream'[t]) = Len(stream[t]) - 1
        /\ \A i \in 1..Len(stream[t]) - 1 : stream'[t][i] = stream[t][i + 1]
    BY <1>1, <2>1, Beheaded
  <2>3. Fine(stream'[t], turn[t])
    <3>1. ASSUME NEW i \in 1..Len(stream'[t]), stream'[t][i].last
          PROVE  i = Len(stream'[t]) /\ turn[t].at = "ended" /\ ~stream'[t][i].good
      <4>1. i \in 1..Len(stream[t]) - 1 /\ i + 1 \in 1..Len(stream[t])
        BY <1>1, <2>2
      <4>2. i + 1 = Len(stream[t]) /\ turn[t].at = "ended" /\ ~stream[t][i + 1].good
        BY <1>1, <2>2, <3>1, <4>1 DEF Fine
      <4> QED
        BY <1>1, <2>2, <4>1, <4>2
    <3> QED
      BY <3>1 DEF Fine
  <2> QED
    BY <1>1, <2>1, <2>3 DEF StreamInv, Fine
<1>10. ASSUME NEW t \in Turns, CallTools(t)
       PROVE  StreamInv'
  <2>1. PICK n \in TurnState : Becomes(t, n) /\ turn[t].at = "thinking" /\ UNCHANGED stream
    BY <1>10, CallsTools
  <2> QED
    BY <1>3, <1>4, <2>1
<1>11. ASSUME NEW t \in Turns, Answer(t)
       PROVE  StreamInv'
  <2>1. PICK n : Keeps(t, n) /\ n.at = "ended" /\ turn[t].at = "thinking" /\ Emit(t, End)
    BY <1>11, AnswersText
  <2>2. /\ \A u \in Turns : u # t => stream'[u] = stream[u]
        /\ stream'[t] = Append(stream[t], End) \/ stream'[t] = stream[t]
    BY <2>1, Emits, EventTypes
  <2>3. n \in TurnState /\ Becomes(t, n) /\ turn[t].at # "ended"
    BY <2>1 DEF Keeps
  <2>4. Fine(stream[t], n) /\ Fine(Append(stream[t], End), n)
    BY <1>4, <2>1, <2>3, EventTypes
  <2> QED
    BY <1>3, <2>2, <2>3, <2>4
<1>12. ASSUME NEW t \in Turns, NEW n, NEW good, NEW opened,
              CallOver(t, n, good, opened), turn[t].at = "calling"
       PROVE  StreamInv'
  <2> DEFINE e == [last |-> FALSE, good |-> n.good, opened |-> n.opened]
  <2>1. n \in TurnState /\ Becomes(t, n) /\ (UNCHANGED stream \/ Emit(t, e))
    BY <1>12 DEF CallOver
  <2>2. e \in Event /\ ~e.last
    BY <2>1, EventTypes
  <2> HIDE DEF e
  <2>3. /\ \A u \in Turns : u # t => stream'[u] = stream[u]
        /\ stream'[t] = Append(stream[t], e) \/ stream'[t] = stream[t]
    BY <2>1, <2>2, Emits
  <2>4. Fine(stream[t], n) /\ Fine(Append(stream[t], e), n)
    BY <1>4, <1>12, <2>1, <2>2
  <2> QED
    BY <1>3, <2>1, <2>3, <2>4
<1>13. ASSUME NEW t \in Turns, NEW n, Keeps(t, n), turn[t].at = "calling", UNCHANGED stream
       PROVE  StreamInv'
  BY <1>3, <1>4, <1>13 DEF Keeps
<1>14. ASSUME NEW t \in Turns, CallEnds(t)
       PROVE  StreamInv'
  BY <1>12, <1>14, Ends
<1>15. ASSUME NEW t \in Turns, Unanswered(t)
       PROVE  StreamInv'
  BY <1>12, <1>13, <1>15, GoesUnanswered
<1>16. ASSUME NEW t \in Turns, ApplyCall(t)
       PROVE  StreamInv'
  BY <1>13, <1>16, Applies
<1>17. ASSUME NEW t \in Turns, NEW s \in Sessions, OpenForChat(t, s)
       PROVE  StreamInv'
  BY <1>13, <1>17, Opens
<1> QED
  BY <1>5, <1>6, <1>7, <1>8, <1>9, <1>10, <1>11, <1>14, <1>15, <1>16, <1>17,
     AssistantCases DEF assistantVars


\* A turn moves, and what it says of sessions is what it or its call had made.
LEMMA TellsNoMore ==
  ASSUME ChatTypes, OpenInv, NEW t \in Turns, NEW n \in TurnState, Becomes(t, n),
         n.call.made \in {None, turn[t].call.made}, UNCHANGED sessionVars,
         \A s \in Sessions : Told(s)' =>
             Told(s) \/ (turn[t].call.made = s /\ n.call.made = None)
  PROVE  OpenInv'
<1>1. turn'[t] = n /\ \A u \in Turns : u # t => turn'[u] = turn[u]
  BY TurnMoves
<1>2. \A u \in Turns : turn[u].call.made \in Sessions \cup {None}
  BY DEF ChatTypes, TurnState, CallState
<1>3. \A s \in Sessions : Told(s)' => opening[s] \in {"apart", "open"}
  BY <1>2, NoneAssumption DEF OpenInv
<1>4. ASSUME NEW u \in Turns, NEW s \in Sessions, turn'[u].call.made = s
      PROVE  /\ opening[s] = "apart" /\ ~Told(s)'
             /\ \A v \in Turns : v # u => turn'[v].call.made # s
  <2>1. turn[u].call.made = s /\ s # None
    BY <1>1, <1>4, NoneAssumption
  <2>2. /\ opening[s] = "apart" /\ ~Told(s)
        /\ \A v \in Turns : v # u => turn[v].call.made # s
    BY <2>1 DEF OpenInv
  <2>3. ~Told(s)'
    BY <1>1, <1>4, <2>1, <2>2
  <2>4. \A v \in Turns : v # u => turn'[v].call.made # s
    BY <1>1, <1>4, <2>1, <2>2
  <2> QED
    BY <2>2, <2>3, <2>4
<1> QED
  BY <1>3, <1>4 DEF OpenInv, sessionVars

\* Of the table's steps, those that open a case.
LEMMA OpensBesideTheChat ==
  ASSUME CaseTypes, OpenInv, UNCHANGED <<turn, stream>>,
         NEW s \in Sessions, NEW stage \in Stages,
         opening' = [opening EXCEPT ![s] = stage],
         opening[s] \notin {"apart", "open"},
         stage # "apart",
         \/ session' = s /\ stage = "created"
         \/ session' = session /\ (s # session \/ stage = "open")
  PROVE  OpenInv'
<1>1. \A x : Told(x)' <=> Told(x)
  BY DEF Told
<1>2. opening \in [Sessions -> Stages] /\ session \in Sessions
  BY DEF CaseTypes
<1>3. \A x : x # s => opening'[x] = opening[x]
  BY <1>2
<1>4. opening'[session'] \in {"created", "open"}
  BY <1>2 DEF OpenInv
<1>5. \A x \in Sessions : Told(x)' => opening'[x] \in {"apart", "open"}
  BY <1>1, <1>3 DEF OpenInv
<1>6. \A t \in Turns, x \in Sessions : turn[t].call.made = x =>
          /\ opening'[x] = "apart" /\ ~Told(x)'
          /\ \A u \in Turns : u # t => turn[u].call.made # x
  BY <1>1, <1>3 DEF OpenInv
<1> QED
  BY <1>4, <1>5, <1>6 DEF OpenInv

LEMMA OpenStep ==
  ASSUME ChatTypes, CaseTypes, EditTypes, OpenInv, [AssistantNext]_assistantVars
  PROVE  OpenInv'
<1>1. /\ session \in Sessions /\ opening \in [Sessions -> Stages]
      /\ opening[session] \in {"created", "open"}
  BY DEF CaseTypes, OpenInv
<1>2. ASSUME UNCHANGED <<sessionVars, turn, stream>>
      PROVE  OpenInv'
  BY <1>2 DEF OpenInv, Told, sessionVars
<1>3. CASE UNCHANGED assistantVars
  BY <1>2, <1>3 DEF assistantVars, vars, caseVars, agentVars
<1>4. CASE Next /\ UNCHANGED agentVars
  <2>1. UNCHANGED <<turn, stream>>
    BY <1>4 DEF agentVars
  <2>2. CASE AtTheTable
    BY <1>2, <2>1, <2>2, TableSteps DEF caseVars
  <2>3. ASSUME NEW s \in Sessions, OpenCase(s)
        PROVE  OpenInv'
    <3>1. opening[s] = "closed" /\ opening' = [opening EXCEPT ![s] = "sent"]
          /\ UNCHANGED session
      BY <2>3 DEF OpenCase, StageTo
    <3>2. s # session
      BY <1>1, <3>1
    <3> QED
      BY <2>1, <3>1, <3>2, OpensBesideTheChat DEF Stages
  <2>4. ASSUME NEW s \in Sessions, LoadCase(s)
        PROVE  OpenInv'
    <3>1. opening[s] = "sent" /\ opening' = [opening EXCEPT ![s] = "loaded"]
          /\ UNCHANGED session
      BY <2>4 DEF LoadCase, StageTo
    <3>2. s # session
      BY <1>1, <3>1
    <3> QED
      BY <2>1, <3>1, <3>2, OpensBesideTheChat DEF Stages
  <2>5. ASSUME NEW s \in Sessions, OpenFails(s)
        PROVE  OpenInv'
    <3>1. /\ opening[s] \in {"sent", "created"} /\ UNCHANGED session
          /\ opening' = [opening EXCEPT ![s] = IF opening[s] = "sent" THEN "closed" ELSE "open"]
      BY <2>5 DEF OpenFails, StageTo
    <3>2. CASE opening[s] = "sent"
      <4>1. s # session /\ opening' = [opening EXCEPT ![s] = "closed"]
        BY <1>1, <3>1, <3>2
      <4> QED
        BY <2>1, <3>1, <3>2, <4>1, OpensBesideTheChat DEF Stages
    <3>3. CASE opening[s] = "created"
      <4>1. opening' = [opening EXCEPT ![s] = "open"]
        BY <3>1, <3>3
      <4> QED
        BY <2>1, <3>1, <3>3, <4>1, OpensBesideTheChat DEF Stages
    <3> QED
      BY <3>1, <3>2, <3>3
  <2>6. ASSUME NEW s \in Sessions, SessionCreated(s)
        PROVE  OpenInv'
    <3>1. opening[s] = "loaded" /\ opening' = [opening EXCEPT ![s] = "created"]
          /\ session' = s
      BY <2>6 DEF SessionCreated, StageTo, SetSession
    <3> QED
      BY <2>1, <3>1, OpensBesideTheChat DEF Stages
  <2>7. ASSUME NEW s \in Sessions, FetchOpened(s)
        PROVE  OpenInv'
    <3>1. opening[s] = "created" /\ opening' = [opening EXCEPT ![s] = "open"]
          /\ UNCHANGED session
      BY <2>7 DEF FetchOpened, StageTo
    <3> QED
      BY <2>1, <3>1, OpensBesideTheChat DEF Stages
  <2>8. CASE ResetChanges \/ SaveChanges \/ RowSaved \/ SaveFails \/ RequestDone
             \/ RefuseRow \/ RefuseRequest \/ ApplyRow \/ ApplyRequest
    BY <1>2, <2>1, <2>8
       DEF ResetChanges, SaveChanges, RowSaved, SaveFails, RequestDone,
           RefuseRow, RefuseRequest, ApplyRow, ApplyRequest, caseVars
  <2>9. ASSUME NEW k, NetworkArrives(k)
        PROVE  OpenInv'
    BY <1>2, <2>1, <2>9 DEF NetworkArrives, caseVars
  <2>10. ASSUME NEW a, ReadNetwork(a) \/ NetworkFails(a)
         PROVE  OpenInv'
    BY <1>2, <2>1, <2>10 DEF ReadNetwork, NetworkFails, caseVars
  <2> QED
    BY <1>4, <2>2, <2>3, <2>4, <2>5, <2>6, <2>7, <2>8, <2>9, <2>10, TableCases
<1>5. CASE StopGeneration
  <2>1. stream' = [stream EXCEPT ![talking] = <<>>] /\ UNCHANGED <<turn, sessionVars>>
    BY <1>5 DEF StopGeneration, vars, caseVars
  <2>2. \A t \in Turns : stream'[t] = stream[t] \/ stream'[t] = <<>>
    BY <2>1 DEF ChatTypes
  <2>3. 1..Len(<<>>) = {}
    BY EmptySeq
  <2>4. \A s : Told(s)' => Told(s)
    BY <2>1, <2>2, <2>3 DEF Told
  <2> QED
    BY <2>1, <2>4 DEF OpenInv, sessionVars
<1>6. CASE FetchDue
  BY <1>2, <1>6 DEF FetchDue, caseVars
<1>7. ASSUME NEW t \in Turns, NEW n \in TurnState, Becomes(t, n),
             n.call.made \in {None, turn[t].call.made}, UNCHANGED <<sessionVars, stream>>,
             n.opened = turn[t].opened \/ n.opened = None
      PROVE  OpenInv'
  <2>1. turn'[t] = n /\ \A u \in Turns : u # t => turn'[u] = turn[u]
    BY <1>7, TurnMoves
  <2>2. \A s \in Sessions : Told(s)' => Told(s)
    BY <1>7, <2>1, NoneAssumption DEF Told
  <2> QED
    BY <1>7, <2>2, TellsNoMore
<1>8. ASSUME NEW t \in Turns, NEW n, NEW opened, NEW e \in Event,
             n \in TurnState, Becomes(t, n), n.call.made = None, UNCHANGED sessionVars,
             opened \in {None, turn[t].call.made},
             n.opened \in {turn[t].opened, opened},
             UNCHANGED stream \/ Emit(t, e),
             e.opened \in {None, n.opened}
      PROVE  OpenInv'
  <2>1. turn'[t] = n /\ \A u \in Turns : u # t => turn'[u] = turn[u]
    BY <1>8, TurnMoves
  <2>2. /\ \A u \in Turns : u # t => stream'[u] = stream[u]
        /\ stream'[t] = Append(stream[t], e) \/ stream'[t] = stream[t]
    BY <1>8, Emits
  <2>3. /\ stream[t] \in Seq(Event) /\ Len(stream[t]) \in Nat
        /\ Len(Append(stream[t], e)) = Len(stream[t]) + 1
        /\ \A i \in 1..Len(stream[t]) + 1 :
              Append(stream[t], e)[i] = IF i <= Len(stream[t]) THEN stream[t][i] ELSE e
    BY Appended, LenProperties DEF ChatTypes
  <2>4. ASSUME NEW s \in Sessions, NEW i \in 1..Len(stream'[t]), stream'[t][i].opened = s
        PROVE  Told(s) \/ turn[t].call.made = s
    <3>1. CASE stream'[t][i] = e
      BY <1>8, <2>4, <3>1, NoneAssumption DEF Told
    <3>2. CASE i \in 1..Len(stream[t]) /\ stream'[t][i] = stream[t][i]
      BY <2>4, <3>2 DEF Told
    <3>3. stream'[t][i] = e \/ (i \in 1..Len(stream[t]) /\ stream'[t][i] = stream[t][i])
      <4>1. CASE stream'[t] = stream[t]
        BY <4>1
      <4>2. CASE stream'[t] = Append(stream[t], e)
        <5>1. i \in 1..Len(stream[t]) + 1
          BY <2>3, <4>2
        <5>2. i <= Len(stream[t]) => i \in 1..Len(stream[t])
          BY <2>3, <5>1
        <5> QED
          BY <2>3, <4>2, <5>1, <5>2
      <4> QED
        BY <2>2, <4>1, <4>2
    <3> QED
      BY <3>1, <3>2, <3>3
  <2>5. ASSUME NEW s \in Sessions, Told(s)'
        PROVE  Told(s) \/ turn[t].call.made = s
    <3>1. PICK u \in Turns : \/ turn'[u].opened = s
                             \/ \E i \in 1..Len(stream'[u]) : stream'[u][i].opened = s
      BY <2>5 DEF Told
    <3>2. CASE u # t
      BY <2>1, <2>2, <3>1, <3>2 DEF Told
    <3>3. CASE u = t /\ turn'[t].opened = s
      BY <1>8, <2>1, <3>3, NoneAssumption DEF Told
    <3> QED
      BY <2>4, <3>1, <3>2, <3>3
  <2> QED
    BY <1>8, <2>5, TellsNoMore
<1>9. ASSUME NEW t \in Turns, NEW n, NEW good, NEW opened,
             CallOver(t, n, good, opened), opened \in {None, turn[t].call.made},
             UNCHANGED sessionVars
      PROVE  OpenInv'
  <2> DEFINE e == [last |-> FALSE, good |-> n.good, opened |-> n.opened]
  <2>1. /\ n \in TurnState /\ Becomes(t, n) /\ n.call.made = None
        /\ n.opened \in {turn[t].opened, opened} /\ (UNCHANGED stream \/ Emit(t, e))
    BY <1>9 DEF CallOver
  <2>2. e \in Event /\ e.opened = n.opened
    BY <2>1, EventTypes
  <2> HIDE DEF e
  <2> QED
    BY <1>8, <1>9, <2>1, <2>2
<1>10. ASSUME NEW t \in Turns, SendMessage(t)
       PROVE  OpenInv'
  <2>1. PICK n : Keeps(t, n) /\ n.call = turn[t].call /\ UNCHANGED <<vars, stream>>
    BY <1>10, Begins
  <2> QED
    BY <1>7, <2>1 DEF Keeps, vars, caseVars
<1>11. ASSUME NEW t \in Turns, CallTools(t)
       PROVE  OpenInv'
  <2>1. PICK n \in TurnState : Becomes(t, n) /\ n.call.made = None /\ n.opened = None
                               /\ UNCHANGED <<vars, stream>>
    BY <1>11, CallsTools
  <2> QED
    BY <1>7, <2>1 DEF vars, caseVars
<1>12. ASSUME NEW t \in Turns, Answer(t)
       PROVE  OpenInv'
  <2>1. PICK n : Keeps(t, n) /\ n.call = turn[t].call /\ turn[t].call.at = "none"
                 /\ Emit(t, End) /\ UNCHANGED vars
    BY <1>12, AnswersText
  <2>2. UNCHANGED sessionVars
    BY <2>1 DEF vars, caseVars
  <2>3. /\ \A u \in Turns : u # t => stream'[u] = stream[u]
        /\ stream'[t] = Append(stream[t], End) \/ stream'[t] = stream[t]
    BY <2>1, Emits, EventTypes
  <2>4. /\ stream[t] \in Seq(Event) /\ Len(stream[t]) \in Nat
        /\ Len(Append(stream[t], End)) = Len(stream[t]) + 1
        /\ \A i \in 1..Len(stream[t]) + 1 :
              Append(stream[t], End)[i] = IF i <= Len(stream[t]) THEN stream[t][i] ELSE End
    BY Appended, LenProperties, EventTypes DEF ChatTypes
  <2>5. turn'[t] = n /\ \A u \in Turns : u # t => turn'[u] = turn[u]
    BY <2>1, TurnMoves DEF Keeps
  <2>6. ASSUME NEW s \in Sessions, NEW i \in 1..Len(stream'[t]), stream'[t][i].opened = s
        PROVE  Told(s)
    <3>1. stream'[t][i] # End
      BY <2>6, EventTypes, NoneAssumption
    <3>2. i \in 1..Len(stream[t]) /\ stream'[t][i] = stream[t][i]
      <4>1. CASE stream'[t] = stream[t]
        BY <4>1
      <4>2. CASE stream'[t] = Append(stream[t], End)
        <5>1. i \in 1..Len(stream[t]) + 1
          BY <2>4, <4>2
        <5>2. i <= Len(stream[t]) => i \in 1..Len(stream[t])
          BY <2>4, <5>1
        <5> QED
          BY <2>4, <3>1, <4>2, <5>1, <5>2
      <4> QED
        BY <2>3, <4>1, <4>2
    <3> QED
      BY <2>6, <3>2 DEF Told
  <2>7. ASSUME NEW s \in Sessions, Told(s)'
        PROVE  Told(s)
    <3>1. PICK u \in Turns : \/ turn'[u].opened = s
                             \/ \E i \in 1..Len(stream'[u]) : stream'[u][i].opened = s
      BY <2>7 DEF Told
    <3>2. CASE u # t
      BY <2>3, <2>5, <3>1, <3>2 DEF Told
    <3>3. CASE u = t /\ turn'[t].opened = s
      BY <2>1, <2>5, <3>3 DEF Told, Keeps
    <3> QED
      BY <2>6, <3>1, <3>2, <3>3
  <2> QED
    BY <2>1, <2>2, <2>7, TellsNoMore DEF Keeps
<1>13. ASSUME NEW t \in Turns, CallEnds(t)
       PROVE  OpenInv'
  <2>1. UNCHANGED sessionVars
    BY <1>13, Ends DEF vars, caseVars
  <2> QED
    BY <1>9, <1>13, <2>1, Ends
<1>14. ASSUME NEW t \in Turns, Unanswered(t)
       PROVE  OpenInv'
  <2>1. UNCHANGED sessionVars
    BY <1>14, GoesUnanswered DEF caseVars
  <2>2. ASSUME NEW n, Keeps(t, n), n.call.made = turn[t].call.made, UNCHANGED stream
        PROVE  OpenInv'
    BY <1>7, <2>1, <2>2 DEF Keeps
  <2> QED
    BY <1>9, <1>14, <2>1, <2>2, GoesUnanswered
<1>15. ASSUME NEW t \in Turns, ApplyCall(t)
       PROVE  OpenInv'
  <2>1. PICK n : Keeps(t, n) /\ n.call.made = turn[t].call.made
    BY <1>15, Applies
  <2>2. UNCHANGED <<sessionVars, stream>>
    BY <1>15, Applies
  <2> QED
    BY <1>7, <2>1, <2>2 DEF Keeps
<1>16. ASSUME NEW t \in Turns, NEW s \in Sessions, OpenForChat(t, s)
       PROVE  OpenInv'
  <2>1. PICK n : Keeps(t, n) /\ n.call.made = s
    BY <1>16, Opens
  <2>2. /\ opening[s] = "closed" \/ turn[t].call.made = s
        /\ opening' = [opening EXCEPT ![s] = "apart"]
        /\ UNCHANGED <<session, stream>>
    BY <1>16, Opens
  <2>3. turn'[t] = n /\ \A u \in Turns : u # t => turn'[u] = turn[u]
    BY <2>1, TurnMoves DEF Keeps
  <2>4. \A x : Told(x)' <=> Told(x)
    BY <2>1, <2>2, <2>3 DEF Told, Keeps
  <2>5. s # None
    BY NoneAssumption
  <2>6. s # session /\ ~Told(s) /\ \A u \in Turns : u # t => turn[u].call.made # s
    BY <1>1, <2>2, <2>5 DEF OpenInv
  <2>7. opening'[s] = "apart" /\ \A x : x # s => opening'[x] = opening[x]
    BY <1>1, <2>2
  <2>8. opening'[session'] \in {"created", "open"}
    BY <1>1, <2>2, <2>6, <2>7
  <2>9. \A x \in Sessions : Told(x)' => opening'[x] \in {"apart", "open"}
    BY <2>4, <2>7 DEF OpenInv
  <2>10. ASSUME NEW u \in Turns, NEW x \in Sessions, turn'[u].call.made = x
         PROVE  /\ opening'[x] = "apart" /\ ~Told(x)'
                /\ \A v \in Turns : v # u => turn'[v].call.made # x
    <3>1. CASE u = t
      BY <2>1, <2>3, <2>4, <2>6, <2>7, <2>10, <3>1
    <3>2. CASE u # t
      BY <2>1, <2>3, <2>4, <2>6, <2>7, <2>10, <3>2 DEF OpenInv
    <3> QED
      BY <3>1, <3>2
  <2> QED
    BY <2>8, <2>9, <2>10 DEF OpenInv
<1>17. ASSUME NEW t \in Turns, ReadEvent(t)
       PROVE  OpenInv'
  <2> DEFINE s == Head(stream[t]).opened
  <2>1. /\ \A u \in Turns : u # t => stream'[u] = stream[u]
        /\ stream[t] # <<>> /\ stream'[t] = Tail(stream[t])
        /\ stream[t][1] \in Event /\ Head(stream[t]) = stream[t][1] /\ UNCHANGED turn
    BY <1>17, EventRead
  <2>2. /\ Len(stream[t]) \in Nat /\ Len(stream[t]) >= 1
        /\ Len(stream'[t]) = Len(stream[t]) - 1
        /\ \A i \in 1..Len(stream[t]) - 1 : stream'[t][i] = stream[t][i + 1]
    BY <2>1, Beheaded DEF ChatTypes
  <2>3. ASSUME NEW i \in 1..Len(stream'[t])
        PROVE  i + 1 \in 1..Len(stream[t]) /\ stream'[t][i] = stream[t][i + 1]
    BY <2>2
  <2>4. ASSUME NEW x, Told(x)'
        PROVE  Told(x)
    <3>1. PICK u \in Turns : \/ turn[u].opened = x
                             \/ \E i \in 1..Len(stream'[u]) : stream'[u][i].opened = x
      BY <2>1, <2>4 DEF Told
    <3>2. CASE u = t
      BY <2>3, <3>1, <3>2 DEF Told
    <3>3. CASE u # t
      BY <2>1, <3>1, <3>3 DEF Told
    <3> QED
      BY <3>2, <3>3
  <2>5. CASE UNCHANGED sessionVars
    BY <2>1, <2>4, <2>5 DEF OpenInv, sessionVars
  <2>6. CASE s # None /\ StageTo(s, "open") /\ SetSession(s)
    <3>1. s \in Sessions
      BY <2>1, <2>6 DEF Event
    <3>2. Told(s)
      <4>1. 1 \in 1..Len(stream[t])
        BY <2>2
      <4> QED
        BY <2>1, <4>1 DEF Told
    <3> HIDE DEF s
    <3>3. session' = s /\ opening' = [opening EXCEPT ![s] = "open"]
      BY <2>6 DEF StageTo, SetSession
    <3>4. opening'[s] = "open" /\ \A x : x # s => opening'[x] = opening[x]
      BY <1>1, <3>1, <3>3
    <3> QED
      BY <2>1, <2>4, <3>1, <3>2, <3>3, <3>4 DEF OpenInv
  <2> QED
    BY <1>17, <2>5, <2>6 DEF ReadEvent, ToolResults
<1> QED
  BY <1>3, <1>4, <1>5, <1>6, <1>10, <1>11, <1>12, <1>13, <1>14, <1>15, <1>16, <1>17,
     AssistantCases
-----------------------------------------------------------------------------
(* The rows in the table and those of the server.                          *)

Sound ==
    /\ Free_of({"refused", "unread", "overtaken", "crossed"})
    /\ friction \subseteq {"clash", "rewritten"}

\* The turn has changed something of which the tab has not been told.
Changed(t) ==
    /\ turn[t].call.at # "none"
    /\ \/ turn[t].good
       \/ turn[t].call.at = "done" /\ turn[t].call.tool.act # "open"
Tells(t) == \E i \in 1..Len(stream[t]) : stream[t][i].good

\* The network of the session is asked for, or will be.
Promise ==
    \/ \E a \in DOMAIN asked : asked[a] = session
    \/ Saving
    \/ request.at = "applied"
    \/ due > 0
    \/ \E s \in Sessions : opening[s] = "created"
    \/ \E t \in Turns : talking = t /\ (Changed(t) \/ Tells(t))

\* The answer read last of those of the session, if there is one, or else what
\* is shown has the rows of the server.
IsCurrent(a) == objects[a].of = session /\ objects[a].rows = server[session]
OfOther(k) == objects[reading[k]].of # session
Latest ==
    \/ \E k \in 1..Len(reading) :
          /\ IsCurrent(reading[k])
          /\ \A j \in 1..Len(reading) : j > k => OfOther(j)
    \/ (\A k \in 1..Len(reading) : OfOther(k)) /\ IsCurrent(shown)

FreshInv == Sound => Promise \/ Latest

LEMMA SoundBefore ==
  ASSUME harm \subseteq harm', friction \subseteq friction', Sound'
  PROVE  Sound
BY DEF Sound, Free_of

LEMMA LatestStays ==
  ASSUME Latest, FetchTypes, UNCHANGED <<shown, reading, session>>,
         server'[session] = server[session],
         \A a \in ToSet(reading) \cup {shown} : objects'[a] = objects[a]
  PROVE  Latest'
<1>1. \A k \in 1..Len(reading) : reading[k] \in ToSet(reading)
  BY InSet DEF FetchTypes
<1>2. \A a \in ToSet(reading) \cup {shown} : IsCurrent(a)' <=> IsCurrent(a)
  BY DEF IsCurrent
<1>3. \A k \in 1..Len(reading) : OfOther(k)' <=> OfOther(k)
  BY <1>1 DEF OfOther
<1>4. CASE \E k \in 1..Len(reading) :
              IsCurrent(reading[k]) /\ \A j \in 1..Len(reading) : j > k => OfOther(j)
  BY <1>1, <1>2, <1>3, <1>4 DEF Latest
<1>5. CASE (\A k \in 1..Len(reading) : OfOther(k)) /\ IsCurrent(shown)
  BY <1>2, <1>3, <1>5 DEF Latest
<1> QED
  BY <1>4, <1>5 DEF Latest

LEMMA AskedNow ==
  ASSUME NEW a \in Answers, Request(a), UNCHANGED session
  PROVE  Promise'
  BY Asking DEF Promise

\* The network arrives.
LEMMA LatestArrives ==
  ASSUME FetchTypes, Latest, NEW k \in DOMAIN reading, NetworkArrives(k), Sound'
  PROVE  Latest'
<1>1. /\ reading \in Seq(Answers) /\ DOMAIN reading = 1..Len(reading)
      /\ Len(reading) \in Nat /\ ToSet(reading) = {reading[i] : i \in 1..Len(reading)}
  BY InSet DEF FetchTypes
<1>2. /\ shown' = reading[k] /\ reading' = RemoveAt(reading, k)
      /\ objects' = [b \in Answers |-> IF b \in {reading[k], save.of, request.of} \cup ToSet(reading)
                                       THEN objects[b] ELSE Nothing]
      /\ UNCHANGED <<server, session>>
  BY DEF NetworkArrives, Show, Held, caseVars, sessionVars
<1>3. ~(k > 1) /\ ~(Owner = session /\ objects[reading[k]].of # session)
  BY DEF NetworkArrives, Suffers, When, Sound, Free_of
<1>4. k = 1
  BY <1>1, <1>3
<1>5. /\ Len(reading') = Len(reading) - 1
      /\ \A i \in 1..Len(reading) - 1 : reading'[i] = reading[i + 1]
  <2>1. /\ Len(reading') = Len(reading) - 1
        /\ \A i \in 1..Len(reading) - 1 :
              reading'[i] = IF i < k THEN reading[i] ELSE reading[i + 1]
    BY <1>1, <1>2, Removed
  <2> QED
    BY <1>1, <1>4, <2>1
<1>6. ASSUME NEW i \in 1..Len(reading)
      PROVE  /\ reading[i] \in Answers /\ objects'[reading[i]] = objects[reading[i]]
             /\ i > 1 => i - 1 \in 1..Len(reading') /\ reading'[i - 1] = reading[i]
  <2>1. reading[i] \in Answers /\ reading[i] \in ToSet(reading)
    BY <1>1, ElementOfSeq
  <2>2. i > 1 => i - 1 \in 1..Len(reading) - 1 /\ (i - 1) + 1 = i
    BY <1>1
  <2> QED
    BY <1>2, <1>5, <2>1, <2>2
<1>7. ASSUME NEW i \in 1..Len(reading'), OfOther(i + 1)
      PROVE  OfOther(i)'
  <2>1. i \in 1..Len(reading) - 1 /\ i + 1 \in 1..Len(reading)
    BY <1>1, <1>5
  <2> QED
    BY <1>2, <1>5, <1>6, <1>7, <2>1 DEF OfOther
<1>8. ASSUME NEW i \in 1..Len(reading), IsCurrent(reading[i]),
             \A j \in 1..Len(reading) : j > i => OfOther(j)
      PROVE  Latest'
  <2>1. ASSUME NEW j \in 1..Len(reading'), j + 1 > i
        PROVE  OfOther(j)'
    <3>1. j + 1 \in 1..Len(reading)
      BY <1>1, <1>5
    <3> QED
      BY <1>7, <1>8, <2>1, <3>1
  <2>2. CASE i = 1
    <3>1. \A j \in 1..Len(reading') : j + 1 > i
      BY <2>2
    <3>2. \A j \in 1..Len(reading') : OfOther(j)'
      BY <2>1, <3>1
    <3>3. IsCurrent(shown)'
      BY <1>2, <1>4, <1>6, <1>8, <2>2 DEF IsCurrent
    <3> QED
      BY <3>2, <3>3 DEF Latest
  <2>3. CASE i > 1
    <3>1. i - 1 \in 1..Len(reading') /\ reading'[i - 1] = reading[i]
      BY <1>6, <2>3
    <3>2. IsCurrent(reading[i - 1])'
      BY <1>2, <1>6, <1>8, <3>1 DEF IsCurrent
    <3>3. \A j \in 1..Len(reading') : j > i - 1 => j + 1 > i
      BY <1>1
    <3>4. \A j \in 1..Len(reading') : j > i - 1 => OfOther(j)'
      BY <2>1, <3>3
    <3> DEFINE m == i - 1
    <3>5. m \in 1..Len(reading') /\ IsCurrent(reading[m])'
          /\ \A j \in 1..Len(reading') : j > m => OfOther(j)'
      BY <3>1, <3>2, <3>4
    <3> HIDE DEF m
    <3> QED
      BY <3>5 DEF Latest
  <2> QED
    BY <1>1, <2>2, <2>3
<1>9. CASE (\A i \in 1..Len(reading) : OfOther(i)) /\ IsCurrent(shown)
  BY <1>1, <1>3, <1>9 DEF IsCurrent, OfOther, Owner
<1> QED
  BY <1>8, <1>9 DEF Latest

\* The server answers.
LEMMA LatestRead ==
  ASSUME FetchTypes, NEW a \in DOMAIN asked, ReadNetwork(a), UNCHANGED agentVars,
         Promise \/ Latest
  PROVE  Promise' \/ Latest'
<1>1. /\ reading \in Seq(Answers) /\ a \in Answers /\ Len(reading) \in Nat
      /\ ToSet(reading) = {reading[i] : i \in 1..Len(reading)}
      /\ a \notin ToSet(reading) /\ a # shown
  BY InSet DEF FetchTypes
<1>2. /\ asked' = [b \in DOMAIN asked \ {a} |-> asked[b]]
      /\ reading' = Append(reading, a)
      /\ objects' = [objects EXCEPT ![a] = [of |-> asked[a], rows |-> server[asked[a]]]]
      /\ UNCHANGED <<server, session, opening, shown, save, request>>
  BY DEF ReadNetwork, Answered, caseVars, sessionVars
<1>3. objects'[a] = [of |-> asked[a], rows |-> server[asked[a]]]
      /\ \A b \in Answers : b # a => objects'[b] = objects[b]
  BY <1>1, <1>2 DEF FetchTypes
<1> PICK n \in Nat : n = Len(reading) + 1
  BY <1>1
<1>4. /\ Len(reading') = n /\ reading'[n] = a
      /\ \A i \in 1..Len(reading) : reading'[i] = reading[i]
  <2>1. /\ Len(reading') = Len(reading) + 1
        /\ \A i \in 1..Len(reading) + 1 :
              reading'[i] = IF i <= Len(reading) THEN reading[i] ELSE a
    BY <1>1, <1>2, Appended
  <2>2. \A i \in 1..Len(reading) : i \in 1..Len(reading) + 1 /\ i <= Len(reading)
    BY <1>1
  <2>3. Len(reading) + 1 \in 1..Len(reading) + 1 /\ ~(Len(reading) + 1 <= Len(reading))
    BY <1>1
  <2> QED
    BY <2>1, <2>2, <2>3
<1>5. ASSUME NEW i \in 1..Len(reading)
      PROVE  reading[i] \in Answers /\ reading[i] # a
             /\ objects'[reading'[i]] = objects[reading[i]]
  BY <1>1, <1>3, <1>4, ElementOfSeq
<1>6. \A i \in 1..Len(reading') : i \in 1..Len(reading) \/ i = n
  BY <1>1, <1>4
<1>7. CASE asked[a] = session
  <2>1. n \in 1..Len(reading') /\ \A j \in 1..Len(reading') : ~(j > n)
    BY <1>1, <1>4
  <2>2. IsCurrent(reading[n])'
    BY <1>2, <1>3, <1>4, <1>7 DEF IsCurrent
  <2> QED
    BY <2>1, <2>2 DEF Latest
<1>8. CASE asked[a] # session
  <2>1. OfOther(n)'
    BY <1>2, <1>3, <1>4, <1>8 DEF OfOther
  <2>2. \A i \in 1..Len(reading) : OfOther(i) => OfOther(i)'
    BY <1>2, <1>5 DEF OfOther
  <2>3. CASE Promise
    <3>1. CASE \E b \in DOMAIN asked : asked[b] = session
      BY <1>2, <1>8, <3>1 DEF Promise
    <3>2. CASE ~\E b \in DOMAIN asked : asked[b] = session
      <4>1. Saving' <=> Saving
        BY <1>2 DEF Saving
      <4> QED
        BY <1>2, <2>3, <3>2, <4>1 DEF Promise, Changed, Tells, agentVars
    <3> QED
      BY <3>1, <3>2
  <2>4. ASSUME NEW k \in 1..Len(reading), IsCurrent(reading[k]),
               \A j \in 1..Len(reading) : j > k => OfOther(j)
        PROVE  Latest'
    <3>1. k \in 1..Len(reading')
      BY <1>1, <1>4
    <3>2. IsCurrent(reading[k])'
      BY <1>2, <1>5, <2>4 DEF IsCurrent
    <3>3. \A j \in 1..Len(reading') : j > k => OfOther(j)'
      BY <1>6, <2>1, <2>2, <2>4
    <3> QED
      BY <3>1, <3>2, <3>3 DEF Latest
  <2>5. CASE (\A k \in 1..Len(reading) : OfOther(k)) /\ IsCurrent(shown)
    <3>1. \A j \in 1..Len(reading') : OfOther(j)'
      BY <1>6, <2>1, <2>2, <2>5
    <3>2. IsCurrent(shown)'
      BY <1>1, <1>2, <1>3, <2>5 DEF IsCurrent, FetchTypes
    <3> QED
      BY <3>1, <3>2 DEF Latest
  <2> QED
    BY <2>3, <2>4, <2>5 DEF Latest
<1> QED
  BY <1>7, <1>8


\* What is promised is not lost by a step that keeps its parts.
LEMMA PromiseStays ==
  ASSUME Promise, UNCHANGED <<session, asked, talking, due>>,
         Saving => Saving', request.at = "applied" => request'.at = "applied",
         \A s \in Sessions : opening[s] = "created" => opening'[s] = "created",
         \A t \in Turns : talking = t => (Changed(t) \/ Tells(t) => Changed(t)' \/ Tells(t)')
  PROVE  Promise'
<1>1. CASE \E a \in DOMAIN asked : asked[a] = session
  BY <1>1 DEF Promise
<1>2. CASE Saving \/ request.at = "applied" \/ due > 0
  BY <1>2 DEF Promise
<1>3. CASE \E s \in Sessions : opening[s] = "created"
  BY <1>3 DEF Promise
<1>4. CASE \E t \in Turns : talking = t /\ (Changed(t) \/ Tells(t))
  BY <1>4 DEF Promise
<1> QED
  BY <1>1, <1>2, <1>3, <1>4 DEF Promise

LEMMA TableFresh ==
  ASSUME CaseTypes, EditTypes, FetchTypes, OpenInv, Next, UNCHANGED agentVars,
         Sound, Sound', Promise \/ Latest
  PROVE  Promise' \/ Latest'
<1>1. /\ \A t \in Turns : (Changed(t)' <=> Changed(t)) /\ (Tells(t)' <=> Tells(t))
      /\ UNCHANGED <<talking, due>>
  BY DEF agentVars, Changed, Tells
<1>2. /\ session \in Sessions /\ opening \in [Sessions -> Stages]
      /\ opening[session] \in {"created", "open"}
      /\ server = [s \in Sessions |-> server[s]]
  BY DEF CaseTypes, OpenInv
<1>3. ASSUME UNCHANGED <<session, asked, objects, shown, reading>>,
             server'[session] = server[session],
             Saving => Saving', request.at = "applied" => request'.at = "applied",
             \A s \in Sessions : opening[s] = "created" => opening'[s] = "created"
      PROVE  Promise' \/ Latest'
  BY <1>1, <1>3, PromiseStays, LatestStays
<1>4. "refused" \notin harm' /\ "unread" \notin harm' /\ "refused" \notin harm
  BY DEF Sound, Free_of
<1>5. CASE AtTheTable
  <2>1. /\ UNCHANGED <<caseVars, objects, fetchVars>> /\ save'.at = save.at
        /\ request'.at = request.at \/ request.at \in {"idle", "open"}
    BY <1>5, TableSteps
  <2> QED
    BY <1>3, <2>1 DEF caseVars, sessionVars, fetchVars, Saving
<1>6. ASSUME NEW s \in Sessions, OpenCase(s)
      PROVE  Promise' \/ Latest'
  <2>1. /\ opening[s] = "closed" /\ opening' = [opening EXCEPT ![s] = "sent"]
        /\ UNCHANGED <<server, session, asked, objects, shown, reading, save, request>>
    BY <1>6 DEF OpenCase, StageTo, fetchVars
  <2>2. \A x \in Sessions : opening[x] = "created" => opening'[x] = "created"
    BY <1>2, <2>1
  <2> QED
    BY <1>3, <2>1, <2>2 DEF Saving
<1>7. ASSUME NEW s \in Sessions, LoadCase(s)
      PROVE  Promise' \/ Latest'
  <2>1. /\ opening[s] = "sent" /\ opening' = [opening EXCEPT ![s] = "loaded"]
        /\ \E c : server' = [server EXCEPT ![s] = c]
        /\ UNCHANGED <<session, asked, objects, shown, reading, save, request>>
    BY <1>7 DEF LoadCase, StageTo, fetchVars
  <2>2. \A x \in Sessions : opening[x] = "created" => opening'[x] = "created"
    BY <1>2, <2>1
  <2>3. s # session /\ server'[session] = server[session]
    BY <1>2, <2>1
  <2> QED
    BY <1>3, <2>1, <2>2, <2>3 DEF Saving
<1>8. ASSUME NEW s \in Sessions, OpenFails(s)
      PROVE  Promise' \/ Latest'
  <2>1. /\ opening' = [opening EXCEPT ![s] = IF opening[s] = "sent" THEN "closed" ELSE "open"]
        /\ opening[s] # "created"
        /\ UNCHANGED <<server, session, asked, objects, shown, reading, save, request>>
    BY <1>4, <1>8 DEF OpenFails, StageTo, fetchVars, Suffers, When
  <2>2. \A x \in Sessions : opening[x] = "created" => opening'[x] = "created"
    BY <1>2, <2>1
  <2> QED
    BY <1>3, <2>1, <2>2 DEF Saving
<1>9. ASSUME NEW s \in Sessions, SessionCreated(s)
      PROVE  Promise' \/ Latest'
  <2>1. opening' = [opening EXCEPT ![s] = "created"]
    BY <1>9 DEF SessionCreated, StageTo
  <2>2. opening'[s] = "created"
    BY <1>2, <2>1
  <2> QED
    BY <2>2 DEF Promise
<1>10. ASSUME NEW s \in Sessions, FetchOpened(s)
       PROVE  Promise' \/ Latest'
  <2>1. UNCHANGED session /\ \E a \in Answers : Request(a)
    BY <1>10 DEF FetchOpened
  <2> QED
    BY <2>1, AskedNow
<1>11. CASE ResetChanges \/ RowSaved \/ (RequestDone /\ request.at = "applied")
  <2>1. UNCHANGED session /\ \E a \in Answers : Request(a)
    BY <1>11 DEF ResetChanges, RowSaved, RequestDone, Ask, caseVars, sessionVars
  <2> QED
    BY <2>1, AskedNow
<1>12. CASE SaveChanges
  <2>1. /\ NextRow(shown, DOMAIN changes \cap DOMAIN Rows, {}) /\ ~Saving
        /\ UNCHANGED <<server, session, opening, asked, reading, request>>
    BY <1>12 DEF SaveChanges, caseVars, sessionVars
  <2>2. CASE save'.at = "sent"
    BY <2>2 DEF Promise, Saving
  <2>3. CASE Show(shown)
    <3>1. \A a \in ToSet(reading) \cup {shown} : a \in Answers
      BY InSet DEF FetchTypes
    <3>2. /\ UNCHANGED shown
          /\ \A a \in ToSet(reading) \cup {shown} : objects'[a] = objects[a]
      BY <2>3, <3>1 DEF Show, Held
    <3>3. Latest => Latest'
      BY <2>1, <3>2, LatestStays
    <3>4. Promise => Promise'
      BY <1>1, <2>1, PromiseStays
    <3> QED
      BY <3>3, <3>4
  <2> QED
    BY <2>1, <2>2, <2>3, SaveGoesOn
<1>13. CASE SaveFails \/ (RequestDone /\ request.at # "applied")
  BY <1>4, <1>13 DEF SaveFails, RequestDone, EditTypes
<1>14. CASE ApplyRow
  <2>1. save' = [save EXCEPT !.at = "applied"]
    BY <1>14 DEF ApplyRow
  <2>2. save'.at = "applied"
    BY <2>1, EditedSave
  <2> QED
    BY <2>2 DEF Promise, Saving
<1>15. CASE ApplyRequest
  <2>1. request' = [request EXCEPT !.at = "applied"]
    BY <1>15 DEF ApplyRequest
  <2>2. request'.at = "applied"
    BY <2>1, EditedSave
  <2> QED
    BY <2>2 DEF Promise
<1>16. CASE RefuseRow \/ RefuseRequest
  BY <1>4, <1>16 DEF RefuseRow, RefuseRequest, Suffers
<1>17. ASSUME NEW k \in DOMAIN reading, NetworkArrives(k)
       PROVE  Promise' \/ Latest'
  <2>1. UNCHANGED <<session, opening, asked, save, request>>
    BY <1>17 DEF NetworkArrives, caseVars, sessionVars
  <2>2. Promise => Promise'
    BY <1>1, <2>1, PromiseStays DEF Saving
  <2> QED
    BY <1>17, <2>2, LatestArrives
<1>18. ASSUME NEW a \in DOMAIN asked, ReadNetwork(a)
       PROVE  Promise' \/ Latest'
  BY <1>18, LatestRead
<1>19. ASSUME NEW a \in DOMAIN asked, NetworkFails(a)
       PROVE  Promise' \/ Latest'
  <2>1. Request(a) /\ UNCHANGED session
    BY <1>4, <1>19 DEF NetworkFails, Suffers, caseVars, sessionVars
  <2>2. a \in Answers
    BY DEF FetchTypes
  <2> QED
    BY <2>1, <2>2, AskedNow
<1> QED
  BY <1>5, <1>6, <1>7, <1>8, <1>9, <1>10, <1>11, <1>12, <1>13, <1>14, <1>15, <1>16,
     <1>17, <1>18, <1>19, TableCases

LEMMA ChatFresh ==
  ASSUME ChatTypes, CaseTypes, EditTypes, FetchTypes, StreamInv, OpenInv,
         AssistantSteps, Sound', Promise \/ Latest
  PROVE  Promise' \/ Latest'
<1>1. UNCHANGED <<objects, shown, reading, save, request>> /\ (FetchDue \/ UNCHANGED asked)
  BY BesideTheTable
<1>2. /\ session \in Sessions /\ opening \in [Sessions -> Stages]
      /\ opening[session] \in {"created", "open"}
      /\ server = [s \in Sessions |-> server[s]]
  BY DEF CaseTypes, OpenInv
<1>3. "unheard" \notin friction' /\ "unanswered" \notin friction'
  BY DEF Sound
<1>4. CASE FetchDue
  <2>1. UNCHANGED session /\ \E a \in Answers : Request(a)
    BY <1>4 DEF FetchDue, Ask, caseVars, sessionVars
  <2> QED
    BY <2>1, AskedNow
<1>5. ASSUME UNCHANGED <<session, asked, talking, due>>, server'[session] = server[session],
             \A s \in Sessions : opening[s] = "created" => opening'[s] = "created",
             \A t \in Turns : talking = t =>
                 (Changed(t) \/ Tells(t) => Changed(t)' \/ Tells(t)')
      PROVE  Promise' \/ Latest'
  <2>1. Saving' <=> Saving
    BY <1>1 DEF Saving
  <2>2. Latest => Latest'
    BY <1>1, <1>5, LatestStays
  <2>3. Promise => Promise'
    BY <1>1, <1>5, <2>1, PromiseStays
  <2> QED
    BY <2>2, <2>3
<1>6. ASSUME UNCHANGED <<session, opening, server, asked, due>>,
             \A t \in Turns : talking = t => ~Changed(t) /\ ~Tells(t)
      PROVE  Promise' \/ Latest'
  <2>1. Saving' <=> Saving
    BY <1>1 DEF Saving
  <2>2. Latest => Latest'
    BY <1>1, <1>6, LatestStays
  <2>3. Promise => Promise'
    BY <1>1, <1>6, <2>1 DEF Promise
  <2> QED
    BY <2>2, <2>3
<1>7. CASE StopGeneration
  <2>1. ~Unheard(talking) /\ UNCHANGED <<vars, turn, due>>
    BY <1>3, <1>7 DEF StopGeneration, Strains, When
  <2>2. ASSUME NEW t \in Turns, talking = t, Changed(t) \/ Tells(t)
        PROVE  FALSE
    <3>1. ~Changed(t)
      BY <2>1, <2>2 DEF Unheard, Changed, ChatTypes
    <3>2. PICK i \in 1..Len(stream[t]) : stream[t][i].good
      BY <2>2, <3>1 DEF Tells
    <3>3. stream[t][i] \in ToSet(stream[t])
      BY InSet DEF ChatTypes
    <3> QED
      BY <2>1, <2>2, <3>2, <3>3 DEF Unheard
  <2> QED
    BY <1>6, <2>1, <2>2 DEF vars, caseVars, sessionVars, fetchVars
<1>8. ASSUME NEW t \in Turns, NEW n \in TurnState, Becomes(t, n),
             UNCHANGED <<sessionVars, server, asked, talking, due>>,
             \A u \in Turns : u # t => stream'[u] = stream[u],
             talking = t /\ (Changed(t) \/ Tells(t)) => Changed(t)' \/ Tells(t)'
      PROVE  Promise' \/ Latest'
  <2>1. turn'[t] = n /\ \A u \in Turns : u # t => turn'[u] = turn[u]
    BY <1>8, TurnMoves
  <2>2. \A u \in Turns : talking = u => (Changed(u) \/ Tells(u) => Changed(u)' \/ Tells(u)')
    BY <1>8, <2>1 DEF Changed, Tells
  <2> QED
    BY <1>5, <1>8, <2>2 DEF sessionVars
<1>9. ASSUME NEW t \in Turns, NEW e \in Event, talking = t, Tells(t) \/ e.good, Emit(t, e)
      PROVE  Tells(t)'
  <2>1. stream'[t] = Append(stream[t], e)
    BY <1>9, Emits
  <2>2. /\ stream[t] \in Seq(Event) /\ Len(stream[t]) \in Nat
        /\ Len(Append(stream[t], e)) = Len(stream[t]) + 1
        /\ \A i \in 1..Len(stream[t]) + 1 :
              Append(stream[t], e)[i] = IF i <= Len(stream[t]) THEN stream[t][i] ELSE e
    BY Appended, LenProperties DEF ChatTypes
  <2>3. PICK m \in Nat : m = Len(stream[t]) + 1
    BY <2>2
  <2>4. CASE e.good
    <3>1. m \in 1..Len(stream'[t]) /\ stream'[t][m] = e
      BY <2>1, <2>2, <2>3
    <3> QED
      BY <2>4, <3>1 DEF Tells
  <2>5. ASSUME NEW i \in 1..Len(stream[t]), stream[t][i].good
        PROVE  Tells(t)'
    <3>1. i \in 1..Len(stream'[t]) /\ stream'[t][i] = stream[t][i]
      BY <2>1, <2>2
    <3> QED
      BY <2>5, <3>1 DEF Tells
  <2> QED
    BY <1>9, <2>4, <2>5 DEF Tells
<1>10. ASSUME NEW t \in Turns, NEW n, NEW good, NEW opened,
              CallOver(t, n, good, opened), Changed(t) => turn[t].good \/ good,
              UNCHANGED <<sessionVars, server, asked, talking, due>>
       PROVE  Promise' \/ Latest'
  <2> DEFINE e == [last |-> FALSE, good |-> n.good, opened |-> n.opened]
  <2>1. n \in TurnState /\ Becomes(t, n) /\ (n.good <=> turn[t].good \/ good)
    BY <1>10 DEF CallOver
  <2>2. e \in Event /\ e.good = n.good
    BY <2>1, EventTypes
  <2>3. \/ n.call.at = "sent" /\ UNCHANGED stream
        \/ n.call.at = "none" /\ Emit(t, e)
    BY <1>10 DEF CallOver
  <2> HIDE DEF e
  <2>4. turn'[t] = n
    BY <2>1, TurnMoves
  <2>5. CASE n.call.at = "sent" /\ UNCHANGED stream
    <3>1. Changed(t) \/ Tells(t) => Changed(t)' \/ Tells(t)'
      BY <1>10, <2>1, <2>4, <2>5 DEF Changed, Tells
    <3> QED
      BY <1>8, <1>10, <2>1, <2>5, <3>1
  <2>6. CASE Emit(t, e)
    <3>1. talking = t /\ (Changed(t) \/ Tells(t)) => Tells(t)'
      BY <1>9, <1>10, <2>1, <2>2, <2>6
    <3>2. \A u \in Turns : u # t => stream'[u] = stream[u]
      BY <2>2, <2>6, Emits
    <3> QED
      BY <1>8, <1>10, <2>1, <3>1, <3>2
  <2> QED
    BY <2>3, <2>5, <2>6
<1>11. ASSUME NEW t \in Turns, SendMessage(t)
       PROVE  Promise' \/ Latest'
  <2>1. UNCHANGED <<vars, due>>
    BY <1>11, Begins
  <2>2. \A u \in Turns : talking # u
    BY <1>11, TurnsAssumption DEF SendMessage
  <2> QED
    BY <1>6, <2>1, <2>2 DEF vars, caseVars, sessionVars, fetchVars
<1>12. ASSUME NEW t \in Turns, CallTools(t)
       PROVE  Promise' \/ Latest'
  <2>1. PICK n \in TurnState : Becomes(t, n) /\ turn[t].at = "thinking"
                               /\ UNCHANGED <<vars, stream, talking, due>>
    BY <1>12, CallsTools
  <2>2. ~Changed(t) /\ (Tells(t) => Tells(t)')
    BY <2>1 DEF Changed, Tells, ChatTypes
  <2> QED
    BY <1>8, <2>1, <2>2 DEF vars, caseVars, fetchVars
<1>13. ASSUME NEW t \in Turns, Answer(t)
       PROVE  Promise' \/ Latest'
  <2>1. PICK n : Keeps(t, n) /\ turn[t].call.at = "none" /\ Emit(t, End)
                 /\ UNCHANGED <<vars, talking, due>>
    BY <1>13, AnswersText
  <2>2. ~Changed(t)
    BY <2>1 DEF Changed
  <2>3. talking = t /\ Tells(t) => Tells(t)'
    BY <1>9, <2>1, EventTypes
  <2>4. \A u \in Turns : u # t => stream'[u] = stream[u]
    BY <2>1, Emits, EventTypes
  <2> QED
    BY <1>8, <2>1, <2>2, <2>3, <2>4 DEF Keeps, vars, caseVars, fetchVars
<1>14. ASSUME NEW t \in Turns, CallEnds(t)
       PROVE  Promise' \/ Latest'
  <2>1. PICK n, good, opened : CallOver(t, n, good, opened)
              /\ (good <=> turn[t].call.at = "done" /\ turn[t].call.tool.act # "open")
    BY <1>14, Ends
  <2>2. UNCHANGED <<vars, talking, due>>
    BY <1>14, Ends
  <2>3. Changed(t) => turn[t].good \/ good
    BY <2>1 DEF Changed
  <2> QED
    BY <1>10, <2>1, <2>2, <2>3 DEF vars, caseVars, fetchVars
<1>15. ASSUME NEW t \in Turns, Unanswered(t)
       PROVE  Promise' \/ Latest'
  <2>1. UNCHANGED <<sessionVars, server, asked, talking, due>>
    BY <1>15, GoesUnanswered DEF caseVars
  <2>2. Changed(t) => turn[t].good
    BY <1>3, <1>15, GoesUnanswered DEF Changed
  <2>3. ASSUME NEW n, Keeps(t, n), n.at = "calling", n.call.at = "sent", UNCHANGED stream
        PROVE  Promise' \/ Latest'
    <3>1. n \in TurnState /\ Becomes(t, n) /\ n.good = turn[t].good
      BY <2>3 DEF Keeps
    <3>2. turn'[t] = n
      BY <3>1, TurnMoves
    <3>3. Changed(t) \/ Tells(t) => Changed(t)' \/ Tells(t)'
      BY <2>2, <2>3, <3>1, <3>2 DEF Changed, Tells
    <3> QED
      BY <1>8, <2>1, <2>3, <3>1, <3>3
  <2>4. ASSUME NEW n, CallOver(t, n, FALSE, None)
        PROVE  Promise' \/ Latest'
    BY <1>10, <2>1, <2>2, <2>4
  <2> QED
    BY <1>15, <2>3, <2>4, GoesUnanswered
<1>16. ASSUME NEW t \in Turns, ApplyCall(t)
       PROVE  Promise' \/ Latest'
  <2>1. PICK n, a : /\ Keeps(t, n) /\ n.call.at = a /\ n.call.tool.act # "open"
                    /\ \/ a = "refused" /\ UNCHANGED server
                       \/ a = "done" /\ (talking # t => "unheard" \in friction')
    BY <1>16, Applies
  <2>2. UNCHANGED <<sessionVars, asked, stream, talking, due>>
    BY <1>16, Applies
  <2>3. n \in TurnState /\ Becomes(t, n) /\ n.good = turn[t].good
    BY <2>1 DEF Keeps
  <2>4. turn'[t] = n
    BY <2>3, TurnMoves
  <2>5. CASE a = "refused" /\ UNCHANGED server
    <3>1. turn[t].call.at = "sent"
      BY <1>16 DEF ApplyCall
    <3>2. Changed(t) \/ Tells(t) => Changed(t)' \/ Tells(t)'
      BY <2>1, <2>2, <2>3, <2>4, <2>5, <3>1 DEF Changed, Tells
    <3> QED
      BY <1>8, <2>2, <2>3, <2>5, <3>2
  <2>6. CASE a = "done" /\ talking = t
    BY <2>1, <2>2, <2>4, <2>6 DEF Promise, Changed
  <2> QED
    BY <1>3, <2>1, <2>5, <2>6
<1>17. ASSUME NEW t \in Turns, NEW s \in Sessions, OpenForChat(t, s)
       PROVE  Promise' \/ Latest'
  <2>1. /\ turn[t].call.at = "sent"
        /\ opening[s] = "closed" \/ turn[t].call.made = s
        /\ opening' = [opening EXCEPT ![s] = "apart"]
        /\ \E cases : server' = [server EXCEPT ![s] = cases]
        /\ UNCHANGED <<session, asked, stream, talking, due>>
    BY <1>17, Opens
  <2>2. PICK n : Keeps(t, n) /\ n.call.at = "done"
    BY <1>17, Opens
  <2>3. n \in TurnState /\ Becomes(t, n) /\ n.good = turn[t].good
    BY <2>2 DEF Keeps
  <2>4. turn'[t] = n /\ \A u \in Turns : u # t => turn'[u] = turn[u]
    BY <2>3, TurnMoves
  <2>5. opening[s] \in {"closed", "apart"}
    BY <2>1 DEF OpenInv
  <2>6. s # session /\ server'[session] = server[session]
        /\ \A x \in Sessions : opening[x] = "created" => opening'[x] = "created"
    BY <1>2, <2>1, <2>5
  <2>7. \A u \in Turns : talking = u => (Changed(u) \/ Tells(u) => Changed(u)' \/ Tells(u)')
    BY <2>1, <2>2, <2>3, <2>4 DEF Changed, Tells
  <2> QED
    BY <1>5, <2>1, <2>6, <2>7
<1>18. ASSUME NEW t \in Turns, ReadEvent(t)
       PROVE  Promise' \/ Latest'
  <2> DEFINE e == stream[t][1]
  <2>1. /\ \A u \in Turns : u # t => stream'[u] = stream[u]
        /\ stream[t] # <<>> /\ stream'[t] = Tail(stream[t])
        /\ e \in Event /\ Head(stream[t]) = e /\ talking = t
        /\ UNCHANGED <<turn, server, asked>>
    BY <1>18, EventRead
  <2>2. /\ Len(stream[t]) \in Nat /\ Len(stream[t]) >= 1
        /\ Len(stream'[t]) = Len(stream[t]) - 1
        /\ \A i \in 1..Len(stream[t]) - 1 : stream'[t][i] = stream[t][i + 1]
    BY <2>1, Beheaded DEF ChatTypes
  <2>3. 1 \in 1..Len(stream[t])
    BY <2>2
  <2>4. CASE e.last
    <3>1. UNCHANGED <<due, sessionVars>>
      BY <1>18, <2>1, <2>4 DEF ReadEvent
    <3>2. 1 = Len(stream[t]) /\ turn[t].at = "ended" /\ ~stream[t][1].good
      BY <2>3, <2>4 DEF StreamInv
    <3>3. ~Changed(t)
      BY <3>2 DEF Changed, ChatTypes
    <3>4. ~Tells(t)
      BY <3>2 DEF Tells
    <3> QED
      BY <1>6, <2>1, <3>1, <3>3, <3>4 DEF sessionVars
  <2>5. CASE ~e.last
    <3>1. ToolResults(e)
      BY <1>18, <2>1, <2>5 DEF ReadEvent
    <3>2. CASE e.good \/ e.opened # None
      <4>1. due' = due + 1
        BY <3>1, <3>2 DEF ToolResults
      <4>2. due' > 0
        BY <4>1 DEF ChatTypes
      <4> QED
        BY <4>2 DEF Promise
    <3>3. CASE ~e.good /\ e.opened = None
      <4>1. due' = due + 0 /\ UNCHANGED <<sessionVars, talking>>
        BY <3>1, <3>3 DEF ToolResults
      <4>2. due' = due
        BY <4>1 DEF ChatTypes
      <4>3. ASSUME NEW i \in 1..Len(stream[t]), stream[t][i].good
            PROVE  Tells(t)'
        <5>1. i # 1
          BY <3>3, <4>3
        <5>2. i - 1 \in 1..Len(stream[t]) - 1 /\ (i - 1) + 1 = i
          BY <2>2, <5>1
        <5>3. i - 1 \in 1..Len(stream'[t]) /\ stream'[t][i - 1] = stream[t][i]
          BY <2>2, <5>2
        <5> QED
          BY <4>3, <5>3 DEF Tells
      <4>4. Changed(t) \/ Tells(t) => Changed(t)' \/ Tells(t)'
        BY <2>1, <4>3 DEF Changed, Tells
      <4>5. \A u \in Turns : talking = u =>
               (Changed(u) \/ Tells(u) => Changed(u)' \/ Tells(u)')
        BY <2>1, <4>4
      <4> QED
        BY <1>5, <2>1, <4>1, <4>2, <4>5 DEF sessionVars
    <3> QED
      BY <3>2, <3>3
  <2> QED
    BY <2>4, <2>5
<1> QED
  BY <1>4, <1>7, <1>11, <1>12, <1>13, <1>14, <1>15, <1>16, <1>17, <1>18 DEF AssistantSteps


LEMMA TableHarm ==
  ASSUME EditTypes, Next
  PROVE  harm \subseteq harm'
<1>1. CASE SaveChanges \/ RowSaved \/ SaveFails \/ RequestDone \/ ApplyRow
           \/ ApplyRequest \/ RefuseRow \/ RefuseRequest
  BY <1>1 DEF SaveChanges, RowSaved, SaveFails, RequestDone, ApplyRow, ApplyRequest,
              RefuseRow, RefuseRequest, Suffers
<1> QED
  BY <1>1, TableCases, TableSteps, FetchSteps
-----------------------------------------------------------------------------
TypesInv == CaseTypes /\ EditTypes /\ FetchTypes /\ ChatTypes
IInv == TypesInv /\ StreamInv /\ OpenInv /\ FreshInv

LEMMA InitInv == AssistantInit => IInv
<1> SUFFICES ASSUME AssistantInit PROVE IInv
  OBVIOUS
<1>1. turn = [t \in Turns |-> Unsent] /\ stream = [t \in Turns |-> <<>>] /\ due = 0
  BY DEF AssistantInit
<1>2. /\ session \in Sessions /\ shown \in Answers
      /\ opening = [s \in Sessions |-> IF s = session THEN "open" ELSE "closed"]
      /\ asked = <<>> /\ reading = <<>> /\ save = NotSaving /\ request = NoRequest
  BY DEF AssistantInit, Init
<1>3. PICK c : /\ server = [s \in Sessions |-> IF s = session THEN c ELSE <<>>]
               /\ objects = [a \in Answers |->
                     IF a = shown THEN [of |-> session, rows |-> c] ELSE Nothing]
  BY DEF AssistantInit, Init
<1>4. <<>> \in Seq(Answers) /\ <<>> \in Seq(Event) /\ 1..Len(<<>>) = {} /\ DOMAIN <<>> = {}
      /\ ToSet(<<>>) = {}
  BY EmptySeq DEF ToSet
<1>5. Unsent \in TurnState /\ Unsent.call.at = "none" /\ Unsent.at = "unsent"
      /\ Unsent.opened = None /\ Unsent.call.made = None
  BY Calls DEF Unsent, TurnState
<1>6. CaseTypes
  BY <1>2, <1>3 DEF CaseTypes, Stages
<1>7. EditTypes
  BY <1>2 DEF EditTypes, NotSaving, NoRequest
<1>8. FetchTypes
  BY <1>2, <1>3, <1>4 DEF FetchTypes, Saving, NotSaving
<1>9. ChatTypes
  BY <1>1, <1>4, <1>5 DEF ChatTypes
<1>10. StreamInv
  BY <1>1, <1>4 DEF StreamInv
<1>11. \A s \in Sessions : ~Told(s)
  BY <1>1, <1>4, <1>5, NoneAssumption DEF Told
<1>12. OpenInv
  BY <1>1, <1>2, <1>5, <1>11, NoneAssumption DEF OpenInv
<1>13. IsCurrent(shown)
  BY <1>2, <1>3 DEF IsCurrent
<1>14. Latest
  BY <1>2, <1>4, <1>13 DEF Latest
<1> QED
  BY <1>6, <1>7, <1>8, <1>9, <1>10, <1>12, <1>14 DEF IInv, TypesInv, FreshInv

LEMMA StepInv == IInv /\ [AssistantNext]_assistantVars => IInv'
<1> SUFFICES ASSUME IInv, [AssistantNext]_assistantVars PROVE IInv'
  OBVIOUS
<1>1. CaseTypes /\ EditTypes /\ FetchTypes /\ ChatTypes /\ StreamInv /\ OpenInv /\ FreshInv
  BY DEF IInv, TypesInv
<1>2. TypesInv'
  BY <1>1, CaseTypesStep, EditTypesStep, FetchTypesStep, ChatTypesStep DEF TypesInv
<1>3. StreamInv' /\ OpenInv'
  BY <1>1, StreamStep, OpenStep
<1>4. ASSUME Sound'
      PROVE  Promise' \/ Latest'
  <2>1. CASE UNCHANGED assistantVars
    <3>1. /\ Sound /\ UNCHANGED <<objects, shown, reading, session, opening, server, asked>>
          /\ UNCHANGED <<talking, due, turn, stream, save, request>>
      BY <1>4, <2>1 DEF assistantVars, vars, agentVars, caseVars, sessionVars, fetchVars,
                        Sound, Free_of
    <3>2. Promise \/ Latest
      BY <1>1, <3>1 DEF FreshInv
    <3>3. \A t \in Turns : (Changed(t)' <=> Changed(t)) /\ (Tells(t)' <=> Tells(t))
      BY <3>1 DEF Changed, Tells
    <3> QED
      BY <1>1, <3>1, <3>2, <3>3, PromiseStays, LatestStays DEF Saving
  <2>2. CASE AssistantSteps
    <3>1. Sound
      BY <1>4, <2>2, BesideTheTable, SoundBefore
    <3> QED
      BY <1>1, <1>4, <2>2, <3>1, ChatFresh DEF FreshInv
  <2>3. CASE Next /\ UNCHANGED agentVars /\ Strains({})
    <3>1. friction \subseteq friction'
      BY <2>3 DEF Strains
    <3>2. harm \subseteq harm'
      BY <1>1, <2>3, TableHarm
    <3>3. Sound
      BY <1>4, <3>1, <3>2, SoundBefore
    <3> QED
      BY <1>1, <1>4, <2>3, <3>3, TableFresh DEF FreshInv
  <2> QED
    BY <2>1, <2>2, <2>3, AssistantCases DEF AssistantSteps
<1> QED
  BY <1>2, <1>3, <1>4 DEF IInv, FreshInv

\* At rest nothing is promised, and nothing waits to be read.
LEMMA RestIsCurrent ==
  ASSUME IInv, AtRest, Sound
  PROVE  IsCurrent(shown)
<1>1. /\ ChatTypes /\ FetchTypes /\ (Promise \/ Latest)
  BY DEF IInv, TypesInv, FreshInv
<1>2. /\ ~Saving /\ ~InFlight /\ ~Opening /\ DOMAIN asked = {} /\ reading = <<>>
      /\ due = 0 /\ \A t \in Turns : ~Running(t) /\ stream[t] = <<>>
  <2>1. /\ ~Saving /\ ~InFlight /\ ~Opening /\ DOMAIN asked = {} /\ reading = <<>>
        /\ ~(due > 0) /\ \A t \in Turns : ~Running(t) /\ stream[t] = <<>>
    BY DEF AtRest, Quiet, Behind, Assisting
  <2>2. due = 0
    BY <1>1, <2>1 DEF ChatTypes
  <2> QED
    BY <2>1, <2>2
<1>3. 1..Len(<<>>) = {}
  BY EmptySeq
<1>4. \A t \in Turns : ~Changed(t) /\ ~Tells(t)
  BY <1>1, <1>2, <1>3 DEF ChatTypes, Running, Changed, Tells
<1>5. ~Promise
  BY <1>2, <1>4 DEF Promise, InFlight, Opening
<1> QED
  BY <1>1, <1>2, <1>3, <1>5 DEF Latest

LEMMA RestIsFresh == IInv => RowsAreTheServers
  BY RestIsCurrent DEF RowsAreTheServers, Sound, IsCurrent, RowsAgree, Rows

\* When nothing is on its way, the table shows the rows of the case that
\* requests go to: for any cases, answers in flight, turns, rounds and
\* retries, and in whatever order the refetches of edits, openings and tools
\* are answered.
THEOREM TableFollows == AssistantSpec => []RowsAreTheServers
<1>1. AssistantSpec => []IInv
  BY InitInv, StepInv, PTL DEF AssistantSpec
<1> QED
  BY <1>1, RestIsFresh, PTL
-----------------------------------------------------------------------------
(* Rows.                                                                   *)

\* A table has one row of an element.
Proper(table) ==
    /\ table \in Seq(Row)
    /\ \A i, j \in 1..Len(table) : table[i].id = table[j].id => i = j

LEMMA ProperRows ==
  ASSUME NEW table, Proper(table)
  PROVE  /\ table \in Seq(Row) /\ DOMAIN table = 1..Len(table) /\ Len(table) \in Nat
         /\ \A i \in DOMAIN table : /\ table[i] \in Row
                                    /\ table[i] = [id |-> table[i].id, value |-> table[i].value]
                                    /\ table[i].id \in Elements /\ table[i].value \in Values
         /\ \A e : Has(table, e) <=> \E i \in DOMAIN table : table[i].id = e
<1>1. table \in Seq(Row)
  BY DEF Proper
<1>2. /\ DOMAIN table = 1..Len(table) /\ Len(table) \in Nat
      /\ ToSet(table) = {table[i] : i \in 1..Len(table)}
  BY <1>1, InSet
<1>3. \A i \in DOMAIN table : table[i] \in Row
  BY <1>1, <1>2, ElementOfSeq
<1> QED
  BY <1>1, <1>2, <1>3 DEF Row, Has

\* The rows of a table by position are those of another, but for values.
SameIds(t, u) == DOMAIN t = DOMAIN u /\ \A i \in DOMAIN t : t[i].id = u[i].id

LEMMA IdsAgree ==
  ASSUME NEW t, NEW u, Ids(t) = Ids(u)
  PROVE  SameIds(t, u)
<1>1. DOMAIN Ids(t) = DOMAIN t /\ DOMAIN Ids(u) = DOMAIN u
  BY DEF Ids
<1>2. \A i \in DOMAIN t : Ids(t)[i] = t[i].id
  BY DEF Ids
<1>3. \A i \in DOMAIN u : Ids(u)[i] = u[i].id
  BY DEF Ids
<1> QED
  BY <1>1, <1>2, <1>3 DEF SameIds

\* A table whose rows are those of another, some with new values.
LEMMA Revalued ==
  ASSUME NEW t, Proper(t), NEW u, u = [i \in DOMAIN t |-> u[i]],
         \A i \in DOMAIN t : u[i] \in Row /\ u[i].id = t[i].id
  PROVE  Proper(u) /\ SameIds(t, u)
<1>1. DOMAIN u = DOMAIN t /\ DOMAIN t = 1..Len(t) /\ Len(t) \in Nat
  BY ProperRows
<1>2. u \in Seq(Row) /\ Len(u) = Len(t)
  BY <1>1
<1> QED
  BY <1>1, <1>2 DEF Proper, SameIds

LEMMA ValueSet ==
  ASSUME NEW t, Proper(t), NEW k, NEW v \in Values
  PROVE  LET u == [t EXCEPT ![k].value = v]
         IN  /\ Proper(u) /\ SameIds(t, u)
             /\ \A i \in DOMAIN t : u[i].value = IF i = k THEN v ELSE t[i].value
<1> DEFINE u == [t EXCEPT ![k].value = v]
<1>1. u = [i \in DOMAIN t |-> u[i]]
  OBVIOUS
<1>2. ASSUME NEW i \in DOMAIN t
      PROVE  u[i] \in Row /\ u[i].id = t[i].id
             /\ u[i].value = IF i = k THEN v ELSE t[i].value
  <2>1. t[i] \in Row
    BY ProperRows
  <2>2. u[i] = IF i = k THEN [t[i] EXCEPT !.value = v] ELSE t[i]
    OBVIOUS
  <2> HIDE DEF u
  <2> QED
    BY <2>1, <2>2 DEF Row
<1> HIDE DEF u
<1>3. Proper(u) /\ SameIds(t, u)
  BY <1>1, <1>2, Revalued
<1> QED
  BY <1>2, <1>3 DEF u

\* What the server makes of the rows.
LEMMA Modified ==
  ASSUME NEW t, Proper(t), NEW e, NEW v \in Values \cup {None}
  PROVE  LET u == Edited(t, "modify", e, v)
         IN  /\ Proper(u) /\ SameIds(t, u)
             /\ \A i \in DOMAIN t : u[i].value = IF t[i].id = e /\ v # None
                                                 THEN v ELSE t[i].value
<1> DEFINE u == Edited(t, "modify", e, v)
<1>1. u = [i \in DOMAIN t |-> IF t[i].id = e /\ v # None
                              THEN [t[i] EXCEPT !.value = v] ELSE t[i]]
  BY DEF Edited
<1> HIDE DEF u
<1>2. ASSUME NEW i \in DOMAIN t
      PROVE  u[i] \in Row /\ u[i].id = t[i].id
             /\ u[i].value = IF t[i].id = e /\ v # None THEN v ELSE t[i].value
  <2>1. t[i] \in Row
    BY ProperRows
  <2> QED
    BY <1>1, <2>1 DEF Row
<1>3. Proper(u) /\ SameIds(t, u)
  BY <1>1, <1>2, Revalued
<1> QED
  BY <1>2, <1>3 DEF u

LEMMA Added ==
  ASSUME NEW t, Proper(t), NEW e \in Elements, NEW v \in Values, ~Has(t, e)
  PROVE  LET u == Edited(t, "add", e, v)
         IN  /\ Proper(u)
             /\ \A i \in DOMAIN u : \/ i \in DOMAIN t /\ u[i] = t[i]
                                    \/ u[i] = [id |-> e, value |-> v]
<1> DEFINE r == [id |-> e, value |-> v]
<1>1. Edited(t, "add", e, v) = Append(t, r)
  BY DEF Edited
<1>2. r \in Row /\ r.id = e
  BY DEF Row
<1>3. /\ t \in Seq(Row) /\ Len(t) \in Nat /\ DOMAIN t = 1..Len(t)
      /\ \A i \in 1..Len(t) : t[i].id # e
  BY ProperRows
<1> HIDE DEF r
<1> DEFINE u == Append(t, r)
<1>4. /\ u \in Seq(Row) /\ Len(u) = Len(t) + 1
      /\ \A i \in 1..Len(t) + 1 : u[i] = IF i <= Len(t) THEN t[i] ELSE r
  BY <1>2, <1>3, Appended
<1> HIDE DEF u
<1>5. DOMAIN u = 1..Len(t) + 1
  BY <1>4, LenProperties
<1>6. \A i \in 1..Len(t) + 1 : \/ i \in 1..Len(t) /\ u[i] = t[i]
                               \/ i = Len(t) + 1 /\ u[i] = r
  BY <1>3, <1>4
<1>7. Proper(u)
  BY <1>2, <1>3, <1>4, <1>6 DEF Proper
<1> QED
  BY <1>1, <1>3, <1>5, <1>6, <1>7 DEF u, r

LEMMA Deleted ==
  ASSUME NEW t, Proper(t), NEW e, NEW v, Has(t, e)
  PROVE  LET u == Edited(t, "delete", e, v)
         IN  /\ Proper(u)
             /\ \A i \in DOMAIN u : \E j \in DOMAIN t : u[i] = t[j] /\ t[j].id # e
<1>1. /\ t \in Seq(Row) /\ Len(t) \in Nat /\ DOMAIN t = 1..Len(t)
      /\ \E i \in DOMAIN t : t[i].id = e
  BY ProperRows
<1>2. PICK k \in 1..Len(t) : t[k].id = e /\ Edited(t, "delete", e, v) = RemoveAt(t, k)
  BY <1>1 DEF Edited
<1> DEFINE u == RemoveAt(t, k)
<1>3. /\ u \in Seq(Row) /\ Len(u) = Len(t) - 1
      /\ \A i \in 1..Len(t) - 1 : u[i] = IF i < k THEN t[i] ELSE t[i + 1]
  BY <1>1, <1>2, Removed
<1> HIDE DEF u
<1>4. DOMAIN u = 1..Len(t) - 1
  BY <1>3, LenProperties
<1>5. ASSUME NEW i \in 1..Len(t) - 1
      PROVE  \/ i < k /\ i \in 1..Len(t) /\ u[i] = t[i]
             \/ i >= k /\ i + 1 \in 1..Len(t) /\ u[i] = t[i + 1]
  BY <1>1, <1>2, <1>3
<1>6. \A i, j \in 1..Len(t) : t[i].id = t[j].id => i = j
  BY DEF Proper
<1>7. ASSUME NEW i \in 1..Len(t) - 1, NEW j \in 1..Len(t) - 1, u[i].id = u[j].id
      PROVE  i = j
  BY <1>1, <1>2, <1>5, <1>6, <1>7
<1>8. ASSUME NEW i \in 1..Len(t) - 1
      PROVE  \E j \in 1..Len(t) : u[i] = t[j] /\ t[j].id # e
  BY <1>1, <1>2, <1>5, <1>6, <1>8
<1>9. Proper(u)
  BY <1>3, <1>7 DEF Proper
<1>10. \A i \in DOMAIN u : \E j \in DOMAIN t : u[i] = t[j] /\ t[j].id # e
  BY <1>1, <1>4, <1>8
<1> QED
  BY <1>2, <1>9, <1>10 DEF u

\* A case as it is in the user's files.
LEMMA CaseRows ==
  ASSUME NEW t \in Cases
  PROVE  Proper(t) /\ \A i \in DOMAIN t : t[i].value = FirstValue
<1>1. Positions = 1..Cardinality(Elements) /\ Cardinality(Elements) \in Nat
  BY ElementsAssumption, FS_CardinalityType DEF Positions
<1>2. t \in [Positions -> [id : Elements, value : {FirstValue}]] /\ IsInjective(Ids(t))
  BY DEF Cases
<1>3. t \in Seq(Row) /\ Len(t) = Cardinality(Elements)
  <2>1. [id : Elements, value : {FirstValue}] \subseteq Row
    BY FirstValueAssumption DEF Row
  <2> QED
    BY <1>1, <1>2, <2>1
<1>4. ASSUME NEW i \in Positions, NEW j \in Positions, t[i].id = t[j].id
      PROVE  i = j
  BY <1>2, <1>4 DEF IsInjective, Ids
<1> QED
  BY <1>1, <1>2, <1>3, <1>4 DEF Proper
-----------------------------------------------------------------------------
(* What rows and edits are made of.                                        *)

RowTypes ==
    /\ \A s \in Sessions : Proper(server[s])
    /\ \A a \in DOMAIN asked : asked[a] \in Sessions
    /\ objects \in [Answers -> [of : Sessions \cup {None}, rows : Seq(Row)]]
    /\ \A a \in Answers : Proper(objects[a].rows)

\* An edit the server can be asked for.
ValidEdit(act, e, v) ==
    \/ act = "modify" /\ v \in Values \cup {None}
    \/ act = "add" /\ e \in Elements /\ v \in Values
    \/ act = "delete"

ChangeTypes == changes \in [DOMAIN changes -> Values]
SaveTypes ==
    Saving => /\ save.value \in Values \cup {None}
              /\ save.todo \subseteq DOMAIN changes \cup save.emptied
RequestTypes ==
    InFlight => ValidEdit(request.act, request.id, request.value)
ToolTypes == \A t \in Turns : turn[t].call.at # "none" => turn[t].call.tool \in Tools
EditValues == ChangeTypes /\ SaveTypes /\ RequestTypes /\ ToolTypes

LEMMA Carried ==
  ASSUME CaseTypes, RowTypes, NEW s, NEW act, NEW e, NEW v, ValidEdit(act, e, v),
         Possible(s, act, e), Carry(s, act, e, v)
  PROVE  /\ \A x \in Sessions : Proper(server'[x]) /\ (x # s => server'[x] = server[x])
         /\ s \in Sessions => server'[s] = Edited(server[s], act, e, v)
<1>1. \A x \in Sessions :
         server'[x] = IF x = s THEN Edited(server[x], act, e, v) ELSE server[x]
  BY DEF Carry, CaseTypes
<1>2. ASSUME s \in Sessions
      PROVE  Proper(Edited(server[s], act, e, v))
  <2>1. Proper(server[s])
    BY <1>2 DEF RowTypes
  <2>2. CASE act = "modify" /\ v \in Values \cup {None}
    BY <2>1, <2>2, Modified
  <2>3. CASE act = "add" /\ e \in Elements /\ v \in Values
    BY <2>1, <2>3, Added DEF Possible
  <2>4. CASE act = "delete"
    BY <2>1, <2>4, Deleted DEF Possible
  <2> QED
    BY <2>2, <2>3, <2>4 DEF ValidEdit
<1> QED
  BY <1>1, <1>2 DEF RowTypes

LEMMA NoRows == Proper(<<>>)
<1>1. 1..Len(<<>>) = {} /\ <<>> \in Seq(Row)
  BY EmptySeq
<1> QED
  BY <1>1 DEF Proper

LEMMA Shown ==
  ASSUME RowTypes, NEW a, Show(a)
  PROVE  /\ objects' \in [Answers -> [of : Sessions \cup {None}, rows : Seq(Row)]]
         /\ \A b \in Answers : Proper(objects'[b].rows)
         /\ \A b \in Answers \cap ({a, save.of, request.of} \cup ToSet(reading)) :
               objects'[b] = objects[b]
<1>1. \A b \in Answers : objects'[b] = IF b \in {a, save.of, request.of} \cup ToSet(reading)
                                       THEN objects[b] ELSE Nothing
  BY DEF Show, Held
<1>2. objects' = [b \in Answers |-> objects'[b]]
  BY DEF Show, Held
<1>3. Nothing \in [of : Sessions \cup {None}, rows : Seq(Row)] /\ Proper(Nothing.rows)
  BY NoRows, EmptySeq DEF Nothing
<1> QED
  BY <1>1, <1>2, <1>3 DEF RowTypes

\* The next row of a save.
LEMMA RowSent ==
  ASSUME RowTypes, EditValues, NEW of \in Answers, NEW todo, NEW emptied,
         todo \subseteq DOMAIN changes \cup emptied, SendRow(of, todo, emptied)
  PROVE  \E i \in todo, v \in Values \cup {None} :
            /\ v = IF i \in emptied THEN None ELSE changes[i]
            /\ save' = [at |-> "sent", of |-> of, todo |-> todo \ {i},
                        emptied |-> emptied \ {i}, id |-> objects[of].rows[i].id,
                        value |-> v, to |-> session]
            /\ \A a \in Answers : a # of => objects'[a] = objects[a]
            /\ objects'[of].of = objects[of].of
            /\ SameIds(objects[of].rows, objects'[of].rows)
            /\ objects' \in [Answers -> [of : Sessions \cup {None}, rows : Seq(Row)]]
            /\ \A a \in Answers : Proper(objects'[a].rows)
            /\ UNCHANGED <<shown, changes>>
<1>1. PICK i \in todo : \E v :
         /\ v = IF i \in emptied THEN None ELSE changes[i]
         /\ objects' = IF v = None THEN objects
                       ELSE [objects EXCEPT ![of].rows[i].value = v]
         /\ save' = [at |-> "sent", of |-> of, todo |-> todo \ {i},
                     emptied |-> emptied \ {i}, id |-> objects[of].rows[i].id,
                     value |-> v, to |-> session]
         /\ UNCHANGED <<shown, changes>>
  BY DEF SendRow
<1>2. PICK v :
         /\ v = IF i \in emptied THEN None ELSE changes[i]
         /\ objects' = IF v = None THEN objects
                       ELSE [objects EXCEPT ![of].rows[i].value = v]
         /\ save' = [at |-> "sent", of |-> of, todo |-> todo \ {i},
                     emptied |-> emptied \ {i}, id |-> objects[of].rows[i].id,
                     value |-> v, to |-> session]
         /\ UNCHANGED <<shown, changes>>
  BY <1>1
<1>3. v \in Values \cup {None}
  BY <1>1, <1>2 DEF EditValues, ChangeTypes
<1>4. /\ objects \in [Answers -> [of : Sessions \cup {None}, rows : Seq(Row)]]
      /\ \A a \in Answers : Proper(objects[a].rows)
  BY DEF RowTypes
<1>5. CASE v = None
  BY <1>1, <1>2, <1>3, <1>4, <1>5 DEF SameIds
<1>6. CASE v # None
  <2> DEFINE u == [objects[of].rows EXCEPT ![i].value = v]
  <2>1. Proper(u) /\ SameIds(objects[of].rows, u)
    BY <1>3, <1>4, <1>6, ValueSet
  <2>2. objects' = [objects EXCEPT ![of].rows[i].value = v]
    BY <1>2, <1>6
  <2>3. objects' = [objects EXCEPT ![of] = [@ EXCEPT !.rows = u]]
    BY <2>2
  <2> HIDE DEF u
  <2>4. u \in Seq(Row)
    BY <2>1, ProperRows
  <2>5. PICK o \in [of : Sessions \cup {None}, rows : Seq(Row)] : o = objects[of]
    BY <1>4
  <2>6. /\ [o EXCEPT !.rows = u] \in [of : Sessions \cup {None}, rows : Seq(Row)]
        /\ [o EXCEPT !.rows = u].rows = u /\ [o EXCEPT !.rows = u].of = o.of
    BY <2>4
  <2>7. objects' = [objects EXCEPT ![of] = [o EXCEPT !.rows = u]]
    BY <2>3, <2>5
  <2> PICK w \in [of : Sessions \cup {None}, rows : Seq(Row)] : w = [o EXCEPT !.rows = u]
    BY <2>6
  <2>8. w.rows = u /\ w.of = o.of
    BY <2>6
  <2>9. /\ objects' \in [Answers -> [of : Sessions \cup {None}, rows : Seq(Row)]]
        /\ objects'[of] = w
        /\ \A a \in Answers : a # of => objects'[a] = objects[a]
    BY <1>4, <2>7
  <2>10. \A a \in Answers : Proper(objects'[a].rows)
    BY <1>4, <2>1, <2>8, <2>9
  <2>11. objects'[of].of = objects[of].of /\ SameIds(objects[of].rows, objects'[of].rows)
    BY <2>1, <2>5, <2>8, <2>9
  <2> QED
    BY <1>2, <1>3, <2>9, <2>10, <2>11
<1> QED
  BY <1>5, <1>6

\* A step that changes neither rows nor what is shown of them.
LEMMA RowsStay ==
  ASSUME RowTypes, CaseTypes, UNCHANGED <<server, objects>>,
         \/ UNCHANGED asked
         \/ \E a \in Answers : Request(a)
         \/ \E a : Answered(a)
  PROVE  RowTypes'
<1>1. session \in Sessions
  BY DEF CaseTypes
<1>2. \A a \in DOMAIN asked' : asked'[a] \in Sessions
  BY <1>1 DEF RowTypes, Request, Answered
<1> QED
  BY <1>2 DEF RowTypes

LEMMA RowTypesStep ==
  ASSUME CaseTypes, EditTypes, FetchTypes, ChatTypes, RowTypes, EditValues,
         [AssistantNext]_assistantVars
  PROVE  RowTypes'
<1>1. CASE UNCHANGED <<server, objects, asked>>
  BY <1>1, RowsStay
<1>2. ASSUME UNCHANGED <<asked, objects>>, \A s \in Sessions : Proper(server'[s])
      PROVE  RowTypes'
  BY <1>2 DEF RowTypes
<1>3. ASSUME NEW s \in Sessions, NEW t \in Cases, server' = [server EXCEPT ![s] = t],
             UNCHANGED <<asked, objects>>
      PROVE  RowTypes'
  <2>1. \A x \in Sessions : server'[x] = IF x = s THEN t ELSE server[x]
    BY <1>3 DEF CaseTypes
  <2> QED
    BY <1>2, <1>3, <2>1, CaseRows DEF RowTypes
<1>4. ASSUME NEW s, NEW act, NEW e, NEW v, ValidEdit(act, e, v), Possible(s, act, e),
             Carry(s, act, e, v), UNCHANGED <<asked, objects>>
      PROVE  RowTypes'
  BY <1>2, <1>4, Carried
<1>5. ASSUME NEW of \in Answers, NEW todo, NEW emptied, NextRow(of, todo, emptied),
             todo \subseteq DOMAIN changes \cup emptied, UNCHANGED server,
             UNCHANGED asked \/ Ask
      PROVE  RowTypes'
  <2>1. \A a \in DOMAIN asked' : asked'[a] \in Sessions
    BY <1>5 DEF RowTypes, Ask, Request, CaseTypes
  <2>2. /\ objects' \in [Answers -> [of : Sessions \cup {None}, rows : Seq(Row)]]
        /\ \A a \in Answers : Proper(objects'[a].rows)
    <3>1. CASE SendRow(of, todo, emptied)
      BY <1>5, <3>1, RowSent
    <3>2. CASE FinishSave(of)
      BY <3>2, Shown DEF FinishSave
    <3> QED
      BY <1>5, <3>1, <3>2 DEF NextRow
  <2> QED
    BY <1>5, <2>1, <2>2 DEF RowTypes
<1>6. CASE Next
  <2>1. CASE AtTheTable
    BY <1>1, <2>1, TableSteps DEF caseVars, fetchVars
  <2>2. CASE \/ SaveFails \/ RefuseRow \/ RefuseRequest
             \/ \E s \in Sessions : OpenCase(s) \/ OpenFails(s) \/ SessionCreated(s)
    BY <1>1, <2>2 DEF SaveFails, RefuseRow, RefuseRequest, OpenCase, OpenFails,
                      SessionCreated, caseVars, fetchVars
  <2>3. CASE ResetChanges \/ RequestDone \/ \E s \in Sessions : FetchOpened(s)
    BY <2>3, RowsStay DEF ResetChanges, RequestDone, FetchOpened, Ask, caseVars
  <2>4. ASSUME NEW s \in Sessions, LoadCase(s)
        PROVE  RowTypes'
    <3>1. /\ \E t \in Cases : server' = [server EXCEPT ![s] = t]
          /\ UNCHANGED <<asked, objects>>
      BY <2>4 DEF LoadCase, fetchVars
    <3> QED
      BY <1>3, <3>1
  <2>5. CASE ApplyRow
    <3>1. /\ Possible(save.to, "modify", save.id)
          /\ Carry(save.to, "modify", save.id, save.value)
          /\ UNCHANGED <<asked, objects>> /\ Saving
      BY <2>5 DEF ApplyRow, fetchVars, Saving
    <3>2. ValidEdit("modify", save.id, save.value)
      BY <3>1 DEF ValidEdit, EditValues, SaveTypes
    <3> QED
      BY <1>4, <3>1, <3>2
  <2>6. CASE ApplyRequest
    <3>1. /\ Possible(request.to, request.act, request.id)
          /\ Carry(request.to, request.act, request.id, request.value)
          /\ UNCHANGED <<asked, objects>> /\ InFlight
      BY <2>6 DEF ApplyRequest, fetchVars, InFlight
    <3> QED
      BY <1>4, <3>1 DEF EditValues, RequestTypes
  <2>7. CASE SaveChanges
    <3>1. /\ NextRow(shown, DOMAIN changes \cap DOMAIN Rows, {})
          /\ UNCHANGED <<server, asked>> /\ shown \in Answers
      BY <2>7 DEF SaveChanges, caseVars, FetchTypes
    <3> QED
      BY <1>5, <3>1
  <2>8. CASE RowSaved
    <3>1. /\ NextRow(save.of, save.todo, save.emptied) /\ Ask
          /\ UNCHANGED server /\ Saving
      BY <2>8 DEF RowSaved, caseVars, Saving
    <3>2. save.of \in Answers /\ save.todo \subseteq DOMAIN changes \cup save.emptied
      BY <3>1 DEF FetchTypes, EditValues, SaveTypes
    <3> QED
      BY <1>5, <3>1, <3>2
  <2>9. ASSUME NEW k \in DOMAIN reading, NetworkArrives(k)
        PROVE  RowTypes'
    <3>1. Show(reading[k]) /\ UNCHANGED <<server, asked>>
      BY <2>9 DEF NetworkArrives, caseVars
    <3> QED
      BY <3>1, Shown DEF RowTypes
  <2>10. ASSUME NEW a \in DOMAIN asked, ReadNetwork(a)
         PROVE  RowTypes'
    <3>1. /\ Answered(a) /\ UNCHANGED server
          /\ objects' = [objects EXCEPT ![a] = [of |-> asked[a], rows |-> server[asked[a]]]]
      BY <2>10 DEF ReadNetwork, caseVars
    <3>2. asked[a] \in Sessions /\ Proper(server[asked[a]])
      BY DEF RowTypes
    <3>3. server[asked[a]] \in Seq(Row)
      BY <3>2, ProperRows
    <3> PICK o \in [of : Sessions \cup {None}, rows : Seq(Row)] :
                 o = [of |-> asked[a], rows |-> server[asked[a]]]
      BY <3>2, <3>3
    <3>4. Proper(o.rows)
      BY <3>2
    <3>5. /\ objects' \in [Answers -> [of : Sessions \cup {None}, rows : Seq(Row)]]
          /\ \A b \in Answers : objects'[b] = IF b = a THEN o ELSE objects[b]
      BY <3>1 DEF RowTypes
    <3>6. \A b \in DOMAIN asked' : asked'[b] \in Sessions
      BY <3>1 DEF Answered, RowTypes
    <3> QED
      BY <3>1, <3>4, <3>5, <3>6 DEF RowTypes
  <2>11. ASSUME NEW a \in DOMAIN asked, NetworkFails(a)
         PROVE  RowTypes'
    <3>1. a \in Answers
      BY DEF FetchTypes
    <3>2. UNCHANGED <<server, objects>> /\ (Request(a) \/ Answered(a))
      BY <2>11 DEF NetworkFails, caseVars
    <3> QED
      BY <3>1, <3>2, RowsStay
  <2> QED
    BY <1>6, <2>1, <2>2, <2>3, <2>4, <2>5, <2>6, <2>7, <2>8, <2>9, <2>10, <2>11, TableCases
<1>7. CASE UNCHANGED vars
  BY <1>1, <1>7 DEF vars, caseVars, fetchVars
<1>8. CASE StopGeneration
  BY <1>7, <1>8 DEF StopGeneration
<1>9. CASE FetchDue
  BY <1>9, RowsStay DEF FetchDue, Ask, caseVars
<1>10. ASSUME NEW t \in Turns, \/ SendMessage(t) \/ ReadEvent(t) \/ CallTools(t)
                               \/ Answer(t) \/ CallEnds(t) \/ Unanswered(t)
       PROVE  RowTypes'
  BY <1>1, <1>7, <1>10 DEF SendMessage, ReadEvent, CallTools, Answer, CallEnds, Unanswered,
                           caseVars, fetchVars, tabVars
<1>11. ASSUME NEW t \in Turns, ApplyCall(t)
       PROVE  RowTypes'
  <2> DEFINE c == turn[t].call.tool
             s == turn[t].to
  <2>1. /\ turn[t].call.at = "sent" /\ c.act # "open" /\ UNCHANGED <<asked, objects>>
        /\ \/ UNCHANGED server
           \/ Possible(s, c.act, c.id) /\ Carry(s, c.act, c.id, c.value)
    BY <1>11 DEF ApplyCall, tabVars, fetchVars
  <2>2. c \in Tools
    BY <2>1 DEF EditValues, ToolTypes
  <2> HIDE DEF c, s
  <2>3. ValidEdit(c.act, c.id, c.value)
    BY <2>1, <2>2, NoneAssumption DEF Tools, Call, ValidEdit
  <2> QED
    BY <1>1, <1>4, <2>1, <2>3
<1>12. ASSUME NEW t \in Turns, NEW s \in Sessions, OpenForChat(t, s)
       PROVE  RowTypes'
  <2>1. /\ \E x \in Cases : server' = [server EXCEPT ![s] = x]
        /\ UNCHANGED <<asked, objects>>
    BY <1>12 DEF OpenForChat, tabVars, fetchVars
  <2> QED
    BY <1>3, <2>1
<1> QED
  BY <1>6, <1>7, <1>8, <1>9, <1>10, <1>11, <1>12, AssistantCases DEF assistantVars
-----------------------------------------------------------------------------
(* The history.                                                            *)

Cmd == [row : Nat, prev : Values, new : Values, fresh : BOOLEAN]

LEMMA Fields ==
  ASSUME NEW c \in Cmd
  PROVE  c["new"] = c.new /\ c["prev"] = c.prev
  BY DEF Cmd

LEMMA LastOff ==
  ASSUME NEW S, NEW q \in Seq(S), q # <<>>
  PROVE  /\ Len(q) \in Nat /\ Len(q) >= 1
         /\ Last(q) = q[Len(q)] /\ Last(q) \in S
         /\ Front(q) \in Seq(S) /\ Len(Front(q)) = Len(q) - 1
         /\ \A i \in 1..Len(q) - 1 : Front(q)[i] = q[i]
<1>1. Len(q) \in Nat \ {0}
  BY EmptySeq
<1>2. \A i \in 1..Len(q) : q[i] \in S
  BY ElementOfSeq
<1>3. PICK n \in Nat : n = Len(q) - 1
  BY <1>1
<1>4. 1 \in Int /\ n \in Int /\ \A i \in 1..n : q[i] \in S
  BY <1>1, <1>2, <1>3
<1>5. /\ SubSeq(q, 1, n) \in Seq(S)
      /\ Len(SubSeq(q, 1, n)) = IF 1 <= n THEN n - 1 + 1 ELSE 0
      /\ \A i \in 1..n - 1 + 1 : SubSeq(q, 1, n)[i] = q[1 + i - 1]
  BY <1>4, SubSeqProperties
<1>6. Front(q) = SubSeq(q, 1, n) /\ Last(q) = q[Len(q)]
  BY <1>3 DEF Front, Last
<1> DEFINE f == SubSeq(q, 1, n)
<1> HIDE DEF f
<1>7. Len(f) = n /\ \A i \in 1..n : f[i] = q[i]
  <2>1. \A i \in 1..n : i \in 1..n - 1 + 1 /\ 1 + i - 1 = i
    OBVIOUS
  <2> QED
    BY <1>5, <2>1 DEF f
<1> QED
  BY <1>1, <1>2, <1>3, <1>5, <1>6, <1>7 DEF f

\* Of the commands at k and l, the one at k is next after the one at l is taken.
Chained(stack, k, l) ==
    /\ k < l /\ stack[k].row = stack[l].row
    /\ \A j \in 1..Len(stack) : k < j /\ j < l => stack[j].row # stack[k].row

\* Taken from the end, the commands of a stack lead back from the given values
\* of the rows.
LeadsBack(stack, to, from, values) ==
    /\ \A k \in 1..Len(stack) :
          IsNext(stack, stack[k].row, k) => stack[k][to] = values[stack[k].row]
    /\ \A k, l \in 1..Len(stack) : Chained(stack, k, l) => stack[k][to] = stack[l][from]

LEMMA NextIn ==
  ASSUME NEW q \in Seq(Cmd), NEW i, NEW k \in 1..Len(q)
  PROVE  IsNext(q, i, k) <=> q[k].row = i /\ \A j \in 1..Len(q) : j > k => q[j].row # i
<1>1. DOMAIN q = 1..Len(q)
  BY InSet
<1> QED
  BY <1>1 DEF IsNext

LEMMA StackPushed ==
  ASSUME NEW q \in Seq(Cmd), NEW c \in Cmd, NEW to, NEW from, NEW T, NEW U,
         LeadsBack(q, to, from, T), c[from] = T[c.row], c[to] = U[c.row],
         \A k \in 1..Len(q) : q[k].row # c.row => U[q[k].row] = T[q[k].row]
  PROVE  LeadsBack(Append(q, c), to, from, U)
<1> DEFINE p == Append(q, c)
<1>1. /\ p \in Seq(Cmd) /\ Len(p) = Len(q) + 1
      /\ \A k \in 1..Len(q) + 1 : p[k] = IF k <= Len(q) THEN q[k] ELSE c
  BY Appended
<1> HIDE DEF p
<1> PICK n \in Nat : n = Len(q)
  BY LenProperties
<1>2. /\ Len(p) = n + 1 /\ p[n + 1] = c /\ \A k \in 1..n : p[k] = q[k]
      /\ \A k \in 1..n + 1 : k \in 1..n \/ k = n + 1
      /\ 1..n \subseteq 1..n + 1 /\ n + 1 \in 1..n + 1
  <2>1. \A k \in 1..n : k \in 1..n + 1 /\ k <= n
    OBVIOUS
  <2>2. n + 1 \in 1..n + 1 /\ ~(n + 1 <= n)
    OBVIOUS
  <2>3. \A k \in 1..n + 1 : k \in 1..n \/ k = n + 1
    OBVIOUS
  <2>4. Len(p) = n + 1 /\ \A k \in 1..n + 1 : p[k] = IF k <= n THEN q[k] ELSE c
    BY <1>1
  <2> QED
    BY <2>1, <2>2, <2>3, <2>4
<1>3. ASSUME NEW k \in 1..n + 1, IsNext(p, p[k].row, k)
      PROVE  p[k][to] = U[p[k].row]
  <2>1. CASE k = n + 1
    BY <1>2, <2>1
  <2>2. CASE k \in 1..n
    <3>1. n + 1 > k /\ p[k] = q[k] /\ p[n + 1] = c /\ n + 1 \in 1..Len(p) /\ k \in 1..Len(p)
      BY <1>2, <2>2
    <3>2. \A j \in 1..Len(p) : j > k => p[j].row # q[k].row
      BY <1>1, <1>3, <3>1, NextIn
    <3>3. c.row # q[k].row
      BY <3>1, <3>2
    <3>4. IsNext(q, q[k].row, k)
      BY <1>2, <2>2, <3>2, NextIn
    <3> QED
      BY <2>2, <3>1, <3>3, <3>4 DEF LeadsBack
  <2> QED
    BY <1>2, <2>1, <2>2
<1>4. ASSUME NEW k \in 1..n + 1, NEW l \in 1..n + 1, Chained(p, k, l)
      PROVE  p[k][to] = p[l][from]
  <2>1. k \in 1..n /\ k < l /\ p[k] = q[k] /\ q[k].row = p[l].row
        /\ \A j \in 1..n : k < j /\ j < l => q[j].row # q[k].row
    <3>1. k < l /\ p[k].row = p[l].row
          /\ \A j \in 1..n + 1 : k < j /\ j < l => p[j].row # p[k].row
      BY <1>2, <1>4 DEF Chained
    <3>2. k \in 1..n
      BY <3>1
    <3> QED
      BY <1>2, <3>1, <3>2
  <2>2. CASE l \in 1..n
    <3>1. Chained(q, k, l)
      BY <1>2, <2>1, <2>2 DEF Chained
    <3> QED
      BY <1>2, <2>1, <2>2, <3>1 DEF LeadsBack
  <2>3. CASE l = n + 1
    <3>1. \A j \in 1..n : j > k => q[j].row # q[k].row
      BY <2>1, <2>3
    <3>2. IsNext(q, q[k].row, k)
      BY <2>1, <3>1, NextIn
    <3>3. q[k][to] = T[q[k].row]
      BY <2>1, <3>2 DEF LeadsBack
    <3> QED
      BY <1>2, <2>1, <2>3, <3>3
  <2> QED
    BY <1>2, <2>2, <2>3
<1> QED
  BY <1>2, <1>3, <1>4 DEF LeadsBack, p

LEMMA StackPopped ==
  ASSUME NEW q \in Seq(Cmd), q # <<>>, NEW to, NEW from, NEW T, NEW U,
         LeadsBack(q, to, from, T), U[Last(q).row] = Last(q)[from],
         \A k \in 1..Len(q) : q[k].row # Last(q).row => U[q[k].row] = T[q[k].row]
  PROVE  /\ LeadsBack(Front(q), to, from, U)
         /\ Last(q)[to] = T[Last(q).row]
<1> DEFINE p == Front(q)
           c == Last(q)
<1>1. /\ Len(q) \in Nat /\ Len(q) >= 1
      /\ c = q[Len(q)] /\ c \in Cmd
      /\ p \in Seq(Cmd) /\ Len(p) = Len(q) - 1
      /\ \A i \in 1..Len(q) - 1 : p[i] = q[i]
  BY LastOff
<1> HIDE DEF p, c
<1> PICK n \in Nat : n = Len(q) - 1
  BY <1>1
<1>2. /\ Len(q) = n + 1 /\ Len(p) = n /\ q[n + 1] = c /\ \A k \in 1..n : p[k] = q[k]
      /\ 1..n \subseteq 1..n + 1 /\ n + 1 \in 1..n + 1
  BY <1>1
<1>3. c[to] = T[c.row]
  <2>1. IsNext(q, q[n + 1].row, n + 1)
    <3>1. \A j \in 1..n + 1 : ~(j > n + 1)
      OBVIOUS
    <3> QED
      BY <1>2, <3>1, NextIn
  <2> QED
    BY <1>2, <2>1 DEF LeadsBack
<1>4. U[c.row] = c[from] /\ \A k \in 1..n + 1 : q[k].row # c.row => U[q[k].row] = T[q[k].row]
  BY <1>2 DEF c
<1>5. ASSUME NEW k \in 1..n, IsNext(p, p[k].row, k)
      PROVE  p[k][to] = U[p[k].row]
  <2>1. \A j \in 1..n : j > k => q[j].row # q[k].row
    BY <1>1, <1>2, <1>5, NextIn
  <2>2. k \in 1..n + 1 /\ k < n + 1 /\ p[k] = q[k]
    BY <1>2
  <2>3. CASE q[k].row = c.row
    <3>1. Chained(q, k, n + 1)
      BY <1>2, <2>1, <2>2, <2>3 DEF Chained
    <3>2. q[k][to] = c[from]
      BY <1>2, <2>2, <3>1 DEF LeadsBack
    <3> QED
      BY <1>4, <2>2, <2>3, <3>2
  <2>4. CASE q[k].row # c.row
    <3>1. \A j \in 1..n + 1 : j > k => q[j].row # q[k].row
      BY <1>2, <2>1, <2>4
    <3>2. IsNext(q, q[k].row, k)
      BY <1>2, <2>2, <3>1, NextIn
    <3> QED
      BY <1>2, <1>4, <2>2, <2>4, <3>2 DEF LeadsBack
  <2> QED
    BY <2>3, <2>4
<1>6. ASSUME NEW k \in 1..n, NEW l \in 1..n, Chained(p, k, l)
      PROVE  p[k][to] = p[l][from]
  <2>1. Chained(q, k, l)
    <3>1. \A j \in 1..n + 1 : k < j /\ j < l => j \in 1..n
      OBVIOUS
    <3> QED
      BY <1>2, <1>6, <3>1 DEF Chained
  <2> QED
    BY <1>2, <2>1 DEF LeadsBack
<1> QED
  BY <1>2, <1>3, <1>5, <1>6 DEF LeadsBack, p, c

LEMMA StackTrimmed ==
  ASSUME NEW q \in Seq(Cmd), q # <<>>, NEW to, NEW from, NEW T, LeadsBack(q, to, from, T)
  PROVE  LeadsBack(Tail(q), to, from, T)
<1> DEFINE p == Tail(q)
<1>1. /\ Len(q) \in Nat /\ Len(q) >= 1
      /\ p \in Seq(Cmd) /\ Len(p) = Len(q) - 1
      /\ \A i \in 1..Len(q) - 1 : p[i] = q[i + 1]
  BY Beheaded
<1> HIDE DEF p
<1> PICK n \in Nat : n = Len(q) - 1
  BY <1>1
<1>2. Len(q) = n + 1 /\ Len(p) = n /\ \A k \in 1..n : p[k] = q[k + 1] /\ k + 1 \in 1..n + 1
  BY <1>1
<1>3. ASSUME NEW k \in 1..n, IsNext(p, p[k].row, k)
      PROVE  p[k][to] = T[p[k].row]
  <2>1. ASSUME NEW j \in 1..n, j > k
        PROVE  q[j + 1].row # q[k + 1].row
    <3>1. p[j].row # p[k].row
      BY <1>1, <1>2, <1>3, <2>1, NextIn
    <3> QED
      BY <1>2, <3>1
  <2>2. ASSUME NEW j \in 1..n + 1, j > k + 1
        PROVE  q[j].row # q[k + 1].row
    <3>1. j - 1 \in 1..n /\ j - 1 > k /\ (j - 1) + 1 = j
      BY <2>2
    <3> QED
      BY <2>1, <3>1
  <2> PICK m \in 1..n + 1 : m = k + 1
    BY <1>2
  <2>3. IsNext(q, q[m].row, m)
    BY <1>2, <2>2, NextIn
  <2>4. q[m][to] = T[q[m].row]
    BY <1>2, <2>3 DEF LeadsBack
  <2> QED
    BY <1>2, <2>4
<1>4. ASSUME NEW k \in 1..n, NEW l \in 1..n, Chained(p, k, l)
      PROVE  p[k][to] = p[l][from]
  <2>1. /\ k < l /\ p[k].row = p[l].row
        /\ \A j \in 1..n : k < j /\ j < l => p[j].row # p[k].row
    BY <1>2, <1>4 DEF Chained
  <2> PICK a \in 1..n + 1, b \in 1..n + 1 : a = k + 1 /\ b = l + 1
    BY <1>2
  <2>2. p[k] = q[a] /\ p[l] = q[b] /\ a < b
    BY <1>2, <2>1
  <2>3. ASSUME NEW j \in 1..n + 1, a < j, j < b
        PROVE  q[j].row # q[a].row
    <3> PICK i \in 1..n : i = j - 1 /\ i + 1 = j /\ k < i /\ i < l
      BY <2>3
    <3>1. p[i] = q[j]
      BY <1>2
    <3> QED
      BY <2>1, <2>2, <3>1
  <2>4. Chained(q, a, b)
    BY <1>2, <2>1, <2>2, <2>3 DEF Chained
  <2> QED
    BY <1>2, <2>2, <2>4 DEF LeadsBack
<1> QED
  BY <1>2, <1>3, <1>4 DEF LeadsBack, p

\* The commands of p differ from those of q in nothing that matters, or only the
\* last one and where it leads from.
Touched(q, p, to, from, T, U) ==
    /\ Len(p) = Len(q)
    /\ \A k \in 1..Len(q) :
          /\ p[k].row = q[k].row /\ p[k][from] = q[k][from]
          /\ \/ p[k][to] = q[k][to] /\ U[q[k].row] = T[q[k].row]
             \/ k = Len(q) /\ p[k][to] = U[q[k].row]
             \/ p[k][to] = q[k][to] /\ \E j \in 1..Len(q) : j > k /\ q[j].row = q[k].row

LEMMA StackTouched ==
  ASSUME NEW q \in Seq(Cmd), NEW p \in Seq(Cmd), NEW to, NEW from, NEW T, NEW U,
         LeadsBack(q, to, from, T), Touched(q, p, to, from, T, U)
  PROVE  LeadsBack(p, to, from, U)
<1> USE DEF Touched
<1>1. ASSUME NEW k \in 1..Len(q), IsNext(p, p[k].row, k)
      PROVE  p[k][to] = U[p[k].row]
  <2>1. IsNext(q, q[k].row, k)
    BY <1>1, NextIn
  <2>2. \A j \in 1..Len(q) : j > k => q[j].row # q[k].row
    BY <2>1, NextIn
  <2> QED
    BY <2>1, <2>2 DEF LeadsBack
<1>2. ASSUME NEW k \in 1..Len(q), NEW l \in 1..Len(q), Chained(p, k, l)
      PROVE  p[k][to] = p[l][from]
  <2>1. Chained(q, k, l)
    BY <1>2 DEF Chained
  <2>2. k # Len(q)
    BY <1>2, LenProperties DEF Chained
  <2> QED
    BY <2>1, <2>2 DEF LeadsBack
<1> QED
  BY <1>1, <1>2 DEF LeadsBack
-----------------------------------------------------------------------------
(* What pending changes, saves, requests and calls are made of.            *)

StackTypes == undoStack \in Seq(Cmd) /\ redoStack \in Seq(Cmd)

LEMMA NoChanges ==
  /\ <<>> \in [DOMAIN <<>> -> Values] /\ DOMAIN <<>> = {} /\ Len(<<>>) = 0
  /\ \A S : <<>> \in Seq(S)
  /\ \A D, f : D = {} /\ f \in [D -> Values] => f = <<>>
  BY EmptySeq

LEMMA ChangeSet ==
  ASSUME EditValues, NEW i, NEW v \in Values
  PROVE  /\ Set(i, v) \in [DOMAIN Set(i, v) -> Values]
         /\ DOMAIN Set(i, v) = DOMAIN changes \cup {i}
         /\ Set(i, v)[i] = v
  BY DEF Set, EditValues, ChangeTypes

LEMMA ChangeUnset ==
  ASSUME EditValues, NEW i
  PROVE  /\ Unset(i) \in [DOMAIN Unset(i) -> Values]
         /\ DOMAIN Unset(i) = DOMAIN changes \ {i}
         /\ i \notin DOMAIN changes => Unset(i) = changes
<1>1. changes \in [DOMAIN changes -> Values]
  BY DEF EditValues, ChangeTypes
<1>2. Unset(i) = [j \in DOMAIN changes \ {i} |-> changes[j]]
  BY DEF Unset
<1>3. ASSUME i \notin DOMAIN changes
      PROVE  Unset(i) = changes
  <2>1. DOMAIN changes \ {i} = DOMAIN changes
    BY <1>3
  <2> QED
    BY <1>1, <1>2, <2>1
<1> QED
  BY <1>1, <1>2, <1>3

\* The commands of Merge and Push.
LEMMA Tracked ==
  ASSUME StackTypes, NEW c \in Cmd
  PROVE  /\ Append(undoStack, c) \in Seq(Cmd) /\ Append(undoStack, c) # <<>>
         /\ Tail(Append(undoStack, c)) \in Seq(Cmd)
<1>1. undoStack \in Seq(Cmd) /\ Append(undoStack, c) \in Seq(Cmd)
      /\ Len(Append(undoStack, c)) = Len(undoStack) + 1
  BY Appended DEF StackTypes
<1>2. Len(undoStack) \in Nat
  BY <1>1, LenProperties
<1>3. Append(undoStack, c) # <<>>
  BY <1>1, <1>2, NoChanges
<1> QED
  BY <1>1, <1>3, Beheaded

LEMMA Merged ==
  ASSUME StackTypes, NEW v \in Values, undoStack # <<>>,
         NEW p, p = [undoStack EXCEPT ![Len(undoStack)].new = v,
                                      ![Len(undoStack)].fresh = TRUE]
  PROVE  /\ p \in Seq(Cmd) /\ Len(p) = Len(undoStack)
         /\ \A k \in 1..Len(undoStack) :
               /\ p[k].row = undoStack[k].row /\ p[k].prev = undoStack[k].prev
               /\ p[k].new = IF k = Len(undoStack) THEN v ELSE undoStack[k].new
<1> PICK n \in Nat : n = Len(undoStack)
  BY LenProperties DEF StackTypes
<1> DEFINE c == [undoStack[n] EXCEPT !.new = v, !.fresh = TRUE]
<1>1. undoStack \in Seq(Cmd) /\ n \in Nat /\ n >= 1 /\ n \in 1..n /\ DOMAIN undoStack = 1..n
  BY LastOff, InSet DEF StackTypes
<1>2. \A k \in 1..n : undoStack[k] \in Cmd
  BY <1>1, ElementOfSeq
<1>3. c \in Cmd /\ c.row = undoStack[n].row /\ c.prev = undoStack[n].prev /\ c.new = v
  BY <1>1, <1>2 DEF Cmd
<1>4. p = [undoStack EXCEPT ![n] = c]
  BY <1>1
<1> HIDE DEF c
<1>5. /\ p \in Seq(Cmd) /\ Len(p) = n
      /\ \A k \in 1..n : p[k] = IF k = n THEN c ELSE undoStack[k]
  <2>1. undoStack \in Seq(Cmd) /\ n \in 1..Len(undoStack) /\ c \in Cmd
    BY <1>1, <1>3
  <2>2. /\ [undoStack EXCEPT ![n] = c] \in Seq(Cmd)
        /\ Len([undoStack EXCEPT ![n] = c]) = Len(undoStack)
        /\ \A k \in 1..Len(undoStack) :
              [undoStack EXCEPT ![n] = c][k] = IF k = n THEN c ELSE undoStack[k]
    BY <2>1, ExceptSeq
  <2> QED
    BY <1>4, <2>2
<1> QED
  BY <1>3, <1>5

LEMMA Paused ==
  ASSUME NEW q \in Seq(Cmd),
         NEW p, p = [k \in DOMAIN q |-> [q[k] EXCEPT !.fresh = FALSE]]
  PROVE  /\ p \in Seq(Cmd) /\ Len(p) = Len(q)
         /\ \A k \in 1..Len(q) : /\ p[k].row = q[k].row /\ p[k].prev = q[k].prev
                                 /\ p[k].new = q[k].new
<1>1. DOMAIN q = 1..Len(q) /\ Len(q) \in Nat /\ \A k \in 1..Len(q) : q[k] \in Cmd
  BY InSet, ElementOfSeq
<1>2. \A c \in Cmd : LET d == [c EXCEPT !.fresh = FALSE] IN
         d \in Cmd /\ d.row = c.row /\ d.prev = c.prev /\ d.new = c.new
  BY DEF Cmd
<1>3. p = [k \in 1..Len(q) |-> p[k]] /\ \A k \in 1..Len(q) : p[k] = [q[k] EXCEPT !.fresh = FALSE]
  BY <1>1
<1>4. \A k \in 1..Len(q) : p[k] \in Cmd
  BY <1>1, <1>2, <1>3
<1>5. p \in Seq(Cmd) /\ Len(p) = Len(q)
  BY <1>1, <1>3, <1>4
<1>6. \A k \in 1..Len(q) : /\ p[k].row = q[k].row /\ p[k].prev = q[k].prev
                           /\ p[k].new = q[k].new
  BY <1>1, <1>2, <1>3
<1> QED
  BY <1>5, <1>6

LEMMA RequestTypesStep ==
  ASSUME EditTypes, RowTypes, FetchTypes, RequestTypes, [AssistantNext]_assistantVars
  PROVE  RequestTypes'
<1>1. CASE UNCHANGED request
  BY <1>1 DEF RequestTypes, InFlight
<1>2. ASSUME NEW x, request' = [request EXCEPT !.at = x], InFlight
      PROVE  RequestTypes'
  BY <1>2, EditedSave DEF RequestTypes
<1>3. ASSUME NEW act, NEW e, NEW v, SendRequest(act, e, v), ValidEdit(act, e, v)
      PROVE  RequestTypes'
  BY <1>3 DEF SendRequest, RequestTypes
<1>4. CASE Next
  <2>1. ASSUME NEW v \in Values, ParameterApply(v)
        PROVE  RequestTypes'
    BY <1>3, <2>1 DEF ParameterApply, ValidEdit
  <2>2. ASSUME NEW e \in Elements, NEW v \in Values, AddElement(e, v)
        PROVE  RequestTypes'
    BY <1>3, <2>2 DEF AddElement, ValidEdit
  <2>3. CASE DeleteElement
    BY <1>3, <2>3 DEF DeleteElement, ValidEdit
  <2>4. CASE RequestDone
    BY <2>4 DEF RequestDone, RequestTypes, NoRequest, InFlight
  <2>5. CASE ApplyRequest
    BY <1>2, <2>5 DEF ApplyRequest, InFlight
  <2>6. CASE RefuseRequest
    BY <1>2, <2>6 DEF RefuseRequest, InFlight
  <2>10. CASE OpenOrClose
    BY <2>10, DialogSteps DEF RequestTypes, InFlight
  <2>7. CASE \/ \E i \in Positions : OpenEditor(i)
             \/ \E v \in Values : SaveEdit(v)
             \/ SaveEditUnchanged \/ CancelEdit \/ HandleUndo \/ HandleRedo \/ Pause
    BY <1>1, <2>7 DEF OpenEditor, SaveEdit, SaveEditUnchanged, CancelEdit,
                      HandleUndo, HandleRedo, Shortcut, Pause
  <2>8. CASE SaveChanges \/ RowSaved \/ SaveFails \/ ApplyRow \/ RefuseRow
    BY <1>1, <2>8 DEF SaveChanges, RowSaved, SaveFails, ApplyRow, RefuseRow
  <2>9. CASE \/ \E s \in Sessions : OpenCase(s) \/ LoadCase(s) \/ OpenFails(s)
             \/ \E s \in Sessions : SessionCreated(s) \/ FetchOpened(s)
             \/ \E k \in DOMAIN reading : NetworkArrives(k)
             \/ \E a \in DOMAIN asked : ReadNetwork(a) \/ NetworkFails(a)
             \/ ResetChanges
    BY <1>1, <2>9, FetchSteps
  <2> QED
    BY <1>4, <2>1, <2>2, <2>3, <2>4, <2>5, <2>6, <2>7, <2>8, <2>9, <2>10, TableCases
       DEF AtTheTable, Apply
<1>5. CASE AssistantSteps
  BY <1>1, <1>5, BesideTheTable
<1>6. CASE UNCHANGED assistantVars
  BY <1>1, <1>6 DEF assistantVars, vars
<1> QED
  BY <1>4, <1>5, <1>6, AssistantCases DEF AssistantSteps

LEMMA ToolTypesStep ==
  ASSUME ChatTypes, CaseTypes, ToolTypes, [AssistantNext]_assistantVars
  PROVE  ToolTypes'
<1>1. CASE UNCHANGED turn
  BY <1>1 DEF ToolTypes
<1>2. ASSUME NEW t \in Turns, NEW n \in TurnState, Becomes(t, n),
             n.call.at = "none" \/ n.call.tool \in Tools
      PROVE  ToolTypes'
  BY <1>2, TurnMoves DEF ToolTypes
<1>3. ASSUME NEW t \in Turns, turn[t].call.at # "none"
      PROVE  turn[t].call.tool \in Tools
  BY <1>3 DEF ToolTypes
<1>4. ASSUME NEW t \in Turns, NEW n, NEW good, NEW opened, CallOver(t, n, good, opened)
      PROVE  ToolTypes'
  BY <1>2, <1>4 DEF CallOver
<1>5. ASSUME NEW t \in Turns, SendMessage(t)
      PROVE  ToolTypes'
  BY <1>2, <1>5, Begins DEF Keeps
<1>6. ASSUME NEW t \in Turns, ReadEvent(t)
      PROVE  ToolTypes'
  BY <1>1, <1>6, EventRead
<1>7. ASSUME NEW t \in Turns, CallTools(t)
      PROVE  ToolTypes'
  BY <1>2, <1>7, CallsTools
<1>8. ASSUME NEW t \in Turns, Answer(t)
      PROVE  ToolTypes'
  BY <1>2, <1>8, AnswersText DEF Keeps
<1>9. ASSUME NEW t \in Turns, CallEnds(t)
      PROVE  ToolTypes'
  BY <1>4, <1>9, Ends
<1>10. ASSUME NEW t \in Turns, Unanswered(t)
       PROVE  ToolTypes'
  <2>1. turn[t].call.tool \in Tools
    BY <1>3, <1>10, GoesUnanswered DEF ChatTypes
  <2> QED
    BY <1>2, <1>4, <1>10, <2>1, GoesUnanswered DEF Keeps
<1>11. ASSUME NEW t \in Turns, ApplyCall(t)
       PROVE  ToolTypes'
  <2>1. turn[t].call.tool \in Tools
    BY <1>3, <1>11 DEF ApplyCall
  <2> QED
    BY <1>2, <1>11, <2>1, Applies DEF Keeps
<1>12. ASSUME NEW t \in Turns, NEW s \in Sessions, OpenForChat(t, s)
       PROVE  ToolTypes'
  <2>1. turn[t].call.tool \in Tools
    BY <1>3, <1>12 DEF OpenForChat
  <2> QED
    BY <1>2, <1>12, <2>1, Opens DEF Keeps
<1>13. CASE StopGeneration \/ FetchDue \/ UNCHANGED agentVars
  BY <1>1, <1>13 DEF StopGeneration, FetchDue, agentVars
<1> QED
  BY <1>5, <1>6, <1>7, <1>8, <1>9, <1>10, <1>11, <1>12, <1>13, AssistantCases
     DEF assistantVars

LEMMA ValueAtCell ==
  ASSUME RowTypes, FetchTypes, EditValues, NEW i \in DOMAIN Rows
  PROVE  i \in Nat /\ Cell(i) \in Values
<1>1. Proper(Rows)
  BY DEF RowTypes, FetchTypes, Rows
<1>2. i \in Nat /\ Rows[i].value \in Values
  BY <1>1, ProperRows
<1> QED
  BY <1>2 DEF Cell, EditValues, ChangeTypes

LEMMA EditTracked ==
  ASSUME RowTypes, FetchTypes, EditValues, StackTypes,
         NEW i \in DOMAIN Rows, NEW v \in Values, Track(i, v)
  PROVE  StackTypes'
<1>1. CASE Merge(i, v)
  BY <1>1, Merged DEF Merge, CanMerge, StackTypes
<1>2. CASE Push([row |-> i, prev |-> Cell(i), new |-> v, fresh |-> TRUE]) /\ redoStack' = <<>>
  <2> DEFINE c == [row |-> i, prev |-> Cell(i), new |-> v, fresh |-> TRUE]
  <2>1. c \in Cmd
    BY ValueAtCell DEF Cmd
  <2>2. undoStack' \in {Append(undoStack, c), Tail(Append(undoStack, c))}
    BY <1>2 DEF Push
  <2> HIDE DEF c
  <2>3. undoStack' \in Seq(Cmd)
    BY <2>1, <2>2, Tracked
  <2>4. redoStack' \in Seq(Cmd)
    BY <1>2, NoChanges
  <2> QED
    BY <2>3, <2>4 DEF StackTypes
<1> QED
  BY <1>1, <1>2 DEF Track

LEMMA TableBesideChat ==
  ASSUME AssistantSteps
  PROVE  UNCHANGED tableVars
<1>1. CASE StopGeneration \/ FetchDue
  BY <1>1 DEF StopGeneration, FetchDue, vars
<1>2. ASSUME NEW t \in Turns, SendMessage(t) \/ CallTools(t) \/ Answer(t) \/ CallEnds(t)
      PROVE  UNCHANGED tableVars
  BY <1>2 DEF SendMessage, CallTools, Answer, CallEnds, vars
<1>3. ASSUME NEW t \in Turns, ReadEvent(t) \/ Unanswered(t) \/ ApplyCall(t)
      PROVE  UNCHANGED tableVars
  BY <1>3 DEF ReadEvent, Unanswered, ApplyCall, tabVars
<1>4. ASSUME NEW t \in Turns, NEW s \in Sessions, OpenForChat(t, s)
      PROVE  UNCHANGED tableVars
  BY <1>4 DEF OpenForChat, tabVars
<1> QED
  BY <1>1, <1>2, <1>3, <1>4 DEF AssistantSteps

LEMMA StackTypesStep ==
  ASSUME RowTypes, EditTypes, FetchTypes, EditValues, StackTypes,
         [AssistantNext]_assistantVars
  PROVE  StackTypes'
<1>1. CASE UNCHANGED <<undoStack, redoStack>>
  BY <1>1 DEF StackTypes
<1>2. ASSUME NEW c \in Cmd
      PROVE  Append(undoStack, c) \in Seq(Cmd) /\ Append(redoStack, c) \in Seq(Cmd)
  BY Appended DEF StackTypes
<1>3. CASE Next
  <2>1. ASSUME NEW v \in Values, SaveEdit(v)
        PROVE  StackTypes'
    BY <2>1, EditTracked DEF SaveEdit
  <2>2. CASE HandleUndo
    <3>1. /\ undoStack # <<>> /\ undoStack' = Front(undoStack)
          /\ redoStack' = Append(redoStack, Last(undoStack))
      BY <2>2 DEF HandleUndo, Undo
    <3>2. Last(undoStack) \in Cmd /\ Front(undoStack) \in Seq(Cmd)
      BY <3>1, LastOff DEF StackTypes
    <3> QED
      BY <1>2, <3>1, <3>2 DEF StackTypes
  <2>3. CASE HandleRedo
    <3>1. /\ redoStack # <<>> /\ redoStack' = Front(redoStack)
          /\ undoStack' = Append(undoStack, Last(redoStack))
      BY <2>3 DEF HandleRedo, Redo
    <3>2. Last(redoStack) \in Cmd /\ Front(redoStack) \in Seq(Cmd)
      BY <3>1, LastOff DEF StackTypes
    <3> QED
      BY <1>2, <3>1, <3>2 DEF StackTypes
  <2>4. CASE Pause
    BY <2>4, Paused DEF Pause, StackTypes
  <2>5. CASE ResetChanges
    BY <2>5, NoChanges DEF ResetChanges, ClearHistory, StackTypes
  <2>6. CASE \/ \E i \in Positions : OpenEditor(i)
             \/ SaveEditUnchanged \/ CancelEdit
             \/ SaveChanges \/ RowSaved \/ SaveFails
    BY <1>1, <2>6 DEF OpenEditor, SaveEditUnchanged, CancelEdit, SaveChanges, RowSaved,
                      SaveFails, tableVars
  <2>7. CASE OpenOrClose \/ Apply
    BY <1>1, <2>7, DialogSteps, ApplySteps DEF SendRequest, tableVars
  <2>8. CASE RequestDone \/ ApplyRow \/ ApplyRequest \/ RefuseRow \/ RefuseRequest
    BY <1>1, <2>8 DEF RequestDone, ApplyRow, ApplyRequest, RefuseRow, RefuseRequest, tableVars
  <2>9. CASE \/ \E s \in Sessions : OpenCase(s) \/ LoadCase(s) \/ OpenFails(s)
             \/ \E s \in Sessions : SessionCreated(s) \/ FetchOpened(s)
             \/ \E k \in DOMAIN reading : NetworkArrives(k)
             \/ \E a \in DOMAIN asked : ReadNetwork(a) \/ NetworkFails(a)
    BY <1>1, <2>9 DEF OpenCase, LoadCase, OpenFails, SessionCreated, FetchOpened,
                      NetworkArrives, ReadNetwork, NetworkFails, tableVars
  <2> QED
    BY <1>3, <2>1, <2>2, <2>3, <2>4, <2>5, <2>6, <2>7, <2>8, <2>9, TableCases DEF AtTheTable
<1>4. CASE AssistantSteps
  BY <1>1, <1>4, TableBesideChat DEF tableVars
<1>5. CASE UNCHANGED assistantVars
  BY <1>1, <1>5 DEF assistantVars, vars, tableVars
<1> QED
  BY <1>3, <1>4, <1>5, AssistantCases DEF AssistantSteps

LEMMA ChangeTypesStep ==
  ASSUME RowTypes, EditTypes, FetchTypes, EditValues, StackTypes,
         [AssistantNext]_assistantVars
  PROVE  ChangeTypes' /\ SaveTypes'
<1>1. ChangeTypes /\ SaveTypes
  BY DEF EditValues
<1>2. CASE UNCHANGED <<changes, save>>
  BY <1>1, <1>2 DEF ChangeTypes, SaveTypes, Saving
<1>3. ASSUME UNCHANGED changes,
             save'.value = save.value, save'.todo = save.todo, save'.emptied = save.emptied,
             save'.at = save.at \/ save.at # "idle"
      PROVE  ChangeTypes' /\ SaveTypes'
  BY <1>1, <1>3 DEF ChangeTypes, SaveTypes, Saving
<1>4. ASSUME NEW i, NEW v \in Values, changes' = Set(i, v), UNCHANGED save
      PROVE  ChangeTypes' /\ SaveTypes'
  <2>1. changes' \in [DOMAIN changes' -> Values] /\ DOMAIN changes \subseteq DOMAIN changes'
    BY <1>4, ChangeSet
  <2> QED
    BY <1>1, <1>4, <2>1 DEF ChangeTypes, SaveTypes, Saving
<1>5. ASSUME NEW of \in Answers, NEW todo, NEW emptied, NextRow(of, todo, emptied),
             todo \subseteq DOMAIN changes \cup emptied
      PROVE  ChangeTypes' /\ SaveTypes'
  <2>1. CASE FinishSave(of)
    BY <2>1, NoChanges DEF FinishSave, ChangeTypes, SaveTypes, Saving, NotSaving
  <2>2. CASE SendRow(of, todo, emptied)
    <3>1. PICK i \in todo, v \in Values \cup {None} :
            /\ save' = [at |-> "sent", of |-> of, todo |-> todo \ {i},
                        emptied |-> emptied \ {i}, id |-> objects[of].rows[i].id,
                        value |-> v, to |-> session]
            /\ UNCHANGED changes
      BY <1>5, <2>2, RowSent
    <3> QED
      BY <1>1, <1>5, <3>1 DEF ChangeTypes, SaveTypes, Saving
  <2> QED
    BY <1>5, <2>1, <2>2 DEF NextRow
<1>6. CASE Next
  <2>1. ASSUME NEW v \in Values, SaveEdit(v)
        PROVE  ChangeTypes' /\ SaveTypes'
    BY <1>4, <2>1 DEF SaveEdit
  <2>2. CASE SaveEditUnchanged
    <3> DEFINE i == editing.row
    <3>1. changes' = Unset(i) /\ changes' \in [DOMAIN changes' -> Values]
          /\ DOMAIN changes' = DOMAIN changes \ {i}
          /\ (i \notin DOMAIN changes => changes' = changes)
      BY <2>2, ChangeUnset DEF SaveEditUnchanged
    <3>2. save' = IF i \in DOMAIN changes /\ i \in save.todo
                  THEN [save EXCEPT !.emptied = @ \cup {i}] ELSE save
      BY <2>2 DEF SaveEditUnchanged
    <3> HIDE DEF i
    <3>3. CASE i \in DOMAIN changes /\ i \in save.todo
      <4>1. save' = [save EXCEPT !.emptied = save.emptied \cup {i}]
        BY <3>2, <3>3
      <4>2. save'.at = save.at /\ save'.value = save.value /\ save'.todo = save.todo
            /\ save'.emptied = save.emptied \cup {i}
        BY <4>1, EditedSave
      <4> QED
        BY <1>1, <3>1, <4>2 DEF ChangeTypes, SaveTypes, Saving
    <3>4. CASE ~(i \in DOMAIN changes /\ i \in save.todo)
      BY <1>1, <3>1, <3>2, <3>4 DEF ChangeTypes, SaveTypes, Saving
    <3> QED
      BY <3>3, <3>4
  <2>3. CASE HandleUndo
    <3>1. undoStack # <<>> /\ Revert(Last(undoStack)) /\ UNCHANGED save
      BY <2>3 DEF HandleUndo, Undo, Shortcut
    <3>2. Last(undoStack).prev \in Values
      <4>1. Last(undoStack) \in Cmd
        BY <3>1, LastOff DEF StackTypes
      <4> QED
        BY <4>1 DEF Cmd
    <3> QED
      BY <1>4, <3>1, <3>2 DEF Revert
  <2>4. CASE HandleRedo
    <3>1. redoStack # <<>> /\ Execute(Last(redoStack)) /\ UNCHANGED save
      BY <2>4 DEF HandleRedo, Redo, Shortcut
    <3>2. Last(redoStack).new \in Values
      <4>1. Last(redoStack) \in Cmd
        BY <3>1, LastOff DEF StackTypes
      <4> QED
        BY <4>1 DEF Cmd
    <3> QED
      BY <1>4, <3>1, <3>2 DEF Execute
  <2>5. CASE ResetChanges
    BY <2>5, NoChanges DEF ResetChanges, ChangeTypes, SaveTypes, Saving
  <2>6. CASE SaveChanges
    BY <1>5, <2>6 DEF SaveChanges, FetchTypes
  <2>7. CASE RowSaved
    <3>1. NextRow(save.of, save.todo, save.emptied) /\ Saving
      BY <2>7 DEF RowSaved, Saving
    <3>2. save.of \in Answers /\ save.todo \subseteq DOMAIN changes \cup save.emptied
      BY <1>1, <3>1 DEF FetchTypes, SaveTypes
    <3> QED
      BY <1>5, <3>1, <3>2
  <2>8. CASE SaveFails
    BY <1>1, <2>8 DEF SaveFails, tableVars, ChangeTypes, SaveTypes, Saving, NotSaving
  <2>9. CASE ApplyRow \/ RefuseRow
    <3>1. UNCHANGED changes /\ save.at # "idle" /\ \E x : save' = [save EXCEPT !.at = x]
      BY <2>9 DEF ApplyRow, RefuseRow, tableVars
    <3>2. save'.value = save.value /\ save'.todo = save.todo /\ save'.emptied = save.emptied
      BY <3>1, EditedSave
    <3> QED
      BY <1>3, <3>1, <3>2
  <2>10. CASE \/ \E i \in Positions : OpenEditor(i)
              \/ OpenOrClose \/ Apply \/ CancelEdit \/ Pause
    BY <1>2, <2>10, DialogSteps, ApplySteps DEF OpenEditor, SendRequest, CancelEdit,
                                                Pause, tableVars
  <2>11. CASE RequestDone \/ ApplyRequest \/ RefuseRequest
    BY <1>2, <2>11 DEF RequestDone, ApplyRequest, RefuseRequest, tableVars
  <2>12. CASE \/ \E s \in Sessions : OpenCase(s) \/ LoadCase(s) \/ OpenFails(s)
              \/ \E s \in Sessions : SessionCreated(s) \/ FetchOpened(s)
              \/ \E k \in DOMAIN reading : NetworkArrives(k)
              \/ \E a \in DOMAIN asked : ReadNetwork(a) \/ NetworkFails(a)
    BY <1>2, <2>12 DEF OpenCase, LoadCase, OpenFails, SessionCreated, FetchOpened,
                       NetworkArrives, ReadNetwork, NetworkFails, tableVars
  <2> QED
    BY <1>6, <2>1, <2>2, <2>3, <2>4, <2>5, <2>6, <2>7, <2>8, <2>9, <2>10, <2>11, <2>12,
       TableCases DEF AtTheTable
<1>7. CASE AssistantSteps
  BY <1>2, <1>7, TableBesideChat, BesideTheTable DEF tableVars
<1>8. CASE UNCHANGED assistantVars
  BY <1>2, <1>8 DEF assistantVars, vars, tableVars
<1> QED
  BY <1>6, <1>7, <1>8, AssistantCases DEF AssistantSteps
-----------------------------------------------------------------------------
(* The history and the values of the rows.                                 *)

Pure == harm = {} /\ friction = {}

\* There is something the user may save, undo or redo.
Engaged == changes # <<>> \/ undoStack # <<>> \/ redoStack # <<>>

\* The values the rows will have when all pending changes are saved.
Here == server[session]
Targets == [i \in DOMAIN Here |-> IF i \in DOMAIN changes THEN changes[i] ELSE Here[i].value]

\* Requests go to the case the table is of, and nobody else edits its rows.
Undisturbed ==
    /\ ~InFlight
    /\ Owner = session /\ SameIds(Rows, Here)

RowsIn(stack, positions) == \A k \in 1..Len(stack) : stack[k].row \in positions
OnRows ==
    /\ DOMAIN changes \subseteq DOMAIN Here
    /\ RowsIn(undoStack, DOMAIN Here) /\ RowsIn(redoStack, DOMAIN Here)

HistoryLeads ==
    /\ LeadsBack(undoStack, "new", "prev", Targets)
    /\ LeadsBack(redoStack, "prev", "new", Targets)

\* A save sends each pending value to its own row, one after the other: the row
\* at j is being sent, and those before it have their values.
SaveSends ==
    /\ DOMAIN changes # {}
    /\ save.emptied = {} /\ save.to = session /\ save.todo \subseteq DOMAIN changes
    /\ objects[save.of].of = session /\ SameIds(objects[save.of].rows, Here)
    /\ \E j \in DOMAIN changes \ save.todo :
          /\ Here[j].id = save.id /\ save.value = changes[j]
          /\ save.at = "applied" => Here[j].value = changes[j]
          /\ \A i \in DOMAIN changes \ save.todo : i # j => Here[i].value = changes[i]

HistoryInv ==
    Pure => /\ Engaged => Undisturbed /\ OnRows /\ HistoryLeads
            /\ Saving => SaveSends

LEMMA HistoryExists ==
  ASSUME StackTypes
  PROVE  undoStack \o redoStack # <<>> <=> undoStack # <<>> \/ redoStack # <<>>
<1>1. undoStack \in Seq(Cmd) /\ redoStack \in Seq(Cmd)
  BY DEF StackTypes
<1>2. undoStack \o redoStack = <<>> => undoStack = <<>> /\ redoStack = <<>>
  BY <1>1, ConcatSimplifications!concIsEmpty
<1>3. <<>> \o <<>> = <<>>
  BY NoChanges, ConcatEmptySeq
<1> QED
  BY <1>2, <1>3

LEMMA SavingEngages == ASSUME SaveSends PROVE Engaged
  BY NoChanges DEF SaveSends, Engaged

\* Steps that change neither the history nor what it is about.
LEMMA QuietHistory ==
  ASSUME HistoryInv, harm \subseteq harm', friction \subseteq friction',
         UNCHANGED <<changes, undoStack, redoStack, save>>,
         Pure' /\ Engaged =>
            /\ Here' = Here /\ UNCHANGED session
            /\ Owner' = Owner /\ SameIds(Rows', Rows)
            /\ InFlight' => InFlight
            /\ Saving => objects'[save.of] = objects[save.of]
  PROVE  HistoryInv'
<1> SUFFICES ASSUME Pure'
             PROVE  /\ Engaged' => Undisturbed' /\ OnRows' /\ HistoryLeads'
                    /\ Saving' => SaveSends'
  BY DEF HistoryInv
<1>1. Pure
  BY DEF Pure
<1>2. (Engaged' <=> Engaged) /\ (Saving' <=> Saving)
  BY DEF Engaged, Saving
<1>3. Saving => Engaged
  BY <1>1, SavingEngages DEF HistoryInv
<1>4. ASSUME Engaged
      PROVE  /\ Undisturbed' /\ OnRows' /\ HistoryLeads'
             /\ Saving' => SaveSends'
  <2>1. Undisturbed /\ OnRows /\ HistoryLeads /\ (Saving => SaveSends)
    BY <1>1, <1>4 DEF HistoryInv
  <2>2. Undisturbed'
    BY <1>4, <2>1 DEF Undisturbed, SameIds
  <2>3. Targets' = Targets
    BY <1>4 DEF Targets
  <2>4. HistoryLeads'
    BY <2>1, <2>3 DEF HistoryLeads
  <2>5. OnRows'
    BY <1>4, <2>1 DEF OnRows
  <2>6. Saving => SaveSends'
    <3>1. Saving => objects'[save'.of] = objects[save.of]
      BY <1>4
    <3> QED
      BY <1>4, <2>1, <3>1 DEF SaveSends
  <2> QED
    BY <1>2, <2>2, <2>4, <2>5, <2>6
<1> QED
  BY <1>2, <1>3, <1>4

\* Steps after which there is no history.
LEMMA NoHistory == ASSUME ~Engaged', ~Saving' PROVE HistoryInv'
  BY DEF HistoryInv

\* Steps under which there is a history only with harm.
LEMMA ApartHistory ==
  ASSUME HistoryInv, EditTypes, StackTypes, harm \subseteq harm', friction \subseteq friction',
         \/ \E act, e, v : SendRequest(act, e, v)
         \/ \E s \in Sessions : SessionCreated(s)
         \/ RequestDone \/ ApplyRequest
  PROVE  HistoryInv'
<1>1. undoStack \o redoStack # <<>> <=> undoStack # <<>> \/ redoStack # <<>>
  BY HistoryExists
<1>2. UNCHANGED <<changes, undoStack, redoStack, save>>
  BY DEF SendRequest, SessionCreated, RequestDone, ApplyRequest, tableVars
<1>3. SUFFICES ASSUME Pure', Engaged PROVE FALSE
  BY <1>2, QuietHistory
<1>4. Undisturbed
  BY <1>3 DEF HistoryInv, Pure
<1>5. UnderEdit
  BY <1>1, <1>3 DEF UnderEdit, Engaged
<1>6. ASSUME NEW act, NEW e, NEW v, SendRequest(act, e, v)
      PROVE  FALSE
  BY <1>3, <1>5, <1>6 DEF SendRequest, Suffers, When, Pure
<1>7. ASSUME NEW s \in Sessions, SessionCreated(s)
      PROVE  FALSE
  BY <1>3, <1>5, <1>7 DEF SessionCreated, SetSession, Suffers, When, Pure
<1>8. CASE RequestDone \/ ApplyRequest
  BY <1>4, <1>8 DEF RequestDone, ApplyRequest, Undisturbed, InFlight
<1> QED
  BY <1>6, <1>7, <1>8

LEMMA ArrivalHistory ==
  ASSUME HistoryInv, RowTypes, FetchTypes, StackTypes, harm \subseteq harm', friction \subseteq friction',
         NEW k \in DOMAIN reading, NetworkArrives(k)
  PROVE  HistoryInv'
<1>1. /\ Show(reading[k]) /\ UNCHANGED <<server, session, request>>
      /\ UNCHANGED <<changes, undoStack, redoStack, save>>
      /\ LET next == objects[reading[k]] IN
           Suffers(When(k > 1 \/ (Owner = session /\ next.of # session), "overtaken")
                   \cup When(Ids(next.rows) # Ids(Rows) /\ UnderEdit, "shifted"))
  BY DEF NetworkArrives, caseVars, sessionVars, tableVars
<1>2. reading[k] \in Answers /\ shown \in Answers /\ (Saving => save.of \in Answers)
  BY InSet DEF FetchTypes
<1>3. /\ objects'[reading[k]] = objects[reading[k]] /\ shown' = reading[k]
      /\ save.of \in Answers => objects'[save.of] = objects[save.of]
  BY <1>1, <1>2, Shown DEF Show
<1>4. ASSUME Pure', Engaged
      PROVE  /\ Owner' = Owner /\ SameIds(Rows', Rows)
  <2>1. Owner = session
    BY <1>4 DEF HistoryInv, Pure, Undisturbed
  <2>2. UnderEdit
    BY <1>4, HistoryExists DEF UnderEdit, Engaged
  <2>3. objects[reading[k]].of = session /\ Ids(objects[reading[k]].rows) = Ids(Rows)
    BY <1>1, <1>4, <2>1, <2>2 DEF Suffers, When, Pure
  <2>4. SameIds(objects[reading[k]].rows, Rows)
    BY <2>3, IdsAgree
  <2> QED
    BY <1>3, <2>1, <2>3, <2>4 DEF Owner, Rows
<1>5. (Here' = Here) /\ (InFlight' <=> InFlight)
  BY <1>1 DEF Here, InFlight
<1> QED
  BY <1>1, <1>2, <1>3, <1>4, <1>5, QuietHistory

LEMMA AsideHistory ==
  ASSUME HistoryInv, CaseTypes, EditTypes, FetchTypes, RowTypes, EditValues, OpenInv,
         harm \subseteq harm', friction \subseteq friction',
         \/ \E i \in Positions : OpenEditor(i)
         \/ OpenOrClose
         \/ CancelEdit \/ SaveEditUnchanged \/ SaveFails \/ RefuseRow \/ RefuseRequest
         \/ \E s \in Sessions : OpenCase(s) \/ LoadCase(s) \/ OpenFails(s) \/ FetchOpened(s)
         \/ \E a \in DOMAIN asked : ReadNetwork(a) \/ NetworkFails(a)
  PROVE  HistoryInv'
<1>1. ASSUME UNCHANGED <<changes, undoStack, redoStack, save, request, session, shown>>,
             Here' = Here, objects'[shown] = objects[shown],
             Saving => objects'[save.of] = objects[save.of]
      PROVE  HistoryInv'
  <2>1. Owner' = Owner /\ SameIds(Rows', Rows) /\ (InFlight' <=> InFlight)
    BY <1>1 DEF Owner, Rows, InFlight, SameIds
  <2> QED
    BY <1>1, <2>1, QuietHistory
<1>2. ASSUME UNCHANGED <<changes, undoStack, redoStack, save, request, caseVars, objects, shown>>
      PROVE  HistoryInv'
  BY <1>1, <1>2 DEF Here, caseVars, sessionVars
<1>3. CASE CancelEdit \/ \E i \in Positions : OpenEditor(i)
  BY <1>2, <1>3 DEF CancelEdit, OpenEditor, fetchVars
<1>4. CASE SaveEditUnchanged
  <2> DEFINE i == editing.row
  <2>1. CASE i \in DOMAIN changes
    <3>1. ~Pure'
      BY <1>4, <2>1 DEF SaveEditUnchanged, Suffers, Pure
    <3> QED
      BY <3>1 DEF HistoryInv
  <2>2. CASE i \notin DOMAIN changes
    <3>1. Unset(i) = changes
      BY <2>2, ChangeUnset
    <3>2. UNCHANGED <<changes, undoStack, redoStack, save, request, caseVars, objects, shown>>
      BY <1>4, <2>2, <3>1 DEF SaveEditUnchanged, fetchVars
    <3> QED
      BY <1>2, <3>2
  <2> QED
    BY <2>1, <2>2
<1>5. CASE SaveFails \/ RefuseRow \/ RefuseRequest
  <2>1. ~Pure'
    BY <1>5 DEF SaveFails, RefuseRow, RefuseRequest, EditTypes, Suffers, Pure
  <2> QED
    BY <2>1 DEF HistoryInv
<1>6. ASSUME NEW s \in Sessions, OpenCase(s) \/ OpenFails(s) \/ FetchOpened(s)
      PROVE  HistoryInv'
  <2>1. UNCHANGED <<server, session, objects, shown, request, save, changes, undoStack, redoStack>>
    BY <1>6 DEF OpenCase, OpenFails, FetchOpened, fetchVars, tableVars
  <2> QED
    BY <1>1, <2>1 DEF Here
<1>7. ASSUME NEW s \in Sessions, LoadCase(s)
      PROVE  HistoryInv'
  <2>1. /\ UNCHANGED <<session, objects, shown, request, save, changes, undoStack, redoStack>>
        /\ opening[s] = "sent" /\ \E t : server' = [server EXCEPT ![s] = t]
    BY <1>7 DEF LoadCase, fetchVars, tableVars
  <2>2. s # session
    BY <2>1 DEF OpenInv
  <2>3. Here' = Here
    BY <2>1, <2>2 DEF Here, CaseTypes
  <2> QED
    BY <1>1, <2>1, <2>3
<1>8. ASSUME NEW a \in DOMAIN asked, ReadNetwork(a)
      PROVE  HistoryInv'
  <2>1. /\ UNCHANGED <<server, session, shown, request, save, changes, undoStack, redoStack>>
        /\ \E o : objects' = [objects EXCEPT ![a] = o]
    BY <1>8 DEF ReadNetwork, caseVars, sessionVars, tableVars
  <2>2. shown # a /\ shown \in Answers /\ (Saving => save.of # a /\ save.of \in Answers)
    BY DEF FetchTypes
  <2>3. \A b \in Answers : b # a => objects'[b] = objects[b]
    BY <2>1 DEF FetchTypes
  <2> QED
    BY <1>1, <2>1, <2>2, <2>3 DEF Here
<1>9. ASSUME NEW a \in DOMAIN asked, NetworkFails(a)
      PROVE  HistoryInv'
  BY <1>2, <1>9 DEF NetworkFails, tableVars
<1>10. CASE OpenOrClose
  <2>1. /\ UNCHANGED <<changes, undoStack, redoStack, save, caseVars, objects, shown>>
        /\ ~InFlight /\ ~InFlight'
    BY <1>10, DialogSteps DEF fetchVars, tableVars, InFlight
  <2>2. Owner' = Owner /\ SameIds(Rows', Rows) /\ Here' = Here
    BY <2>1 DEF Owner, Rows, SameIds, Here, caseVars, sessionVars
  <2> QED
    BY <2>1, <2>2, QuietHistory DEF caseVars, sessionVars
<1> QED
  BY <1>3, <1>4, <1>5, <1>6, <1>7, <1>8, <1>9, <1>10

LEMMA RowsKept ==
  ASSUME NEW q \in Seq(Cmd), NEW D, RowsIn(q, D)
  PROVE  /\ \A c \in Cmd : c.row \in D => RowsIn(Append(q, c), D)
         /\ q # <<>> => /\ RowsIn(Tail(q), D) /\ RowsIn(Front(q), D)
                        /\ Last(q).row \in D
<1>1. ASSUME NEW c \in Cmd, c.row \in D
      PROVE  RowsIn(Append(q, c), D)
  <2>1. /\ Len(Append(q, c)) = Len(q) + 1
        /\ \A i \in 1..Len(q) + 1 : Append(q, c)[i] = IF i <= Len(q) THEN q[i] ELSE c
    BY Appended
  <2>2. Len(q) \in Nat
    BY LenProperties
  <2>3. ASSUME NEW i \in 1..Len(q) + 1
        PROVE  Append(q, c)[i].row \in D
    BY <1>1, <2>1, <2>2, <2>3 DEF RowsIn
  <2> QED
    BY <2>1, <2>3 DEF RowsIn
<1>2. ASSUME q # <<>>
      PROVE  RowsIn(Tail(q), D)
  <2>1. /\ Len(q) \in Nat /\ Len(Tail(q)) = Len(q) - 1
        /\ \A i \in 1..Len(q) - 1 : Tail(q)[i] = q[i + 1]
    BY <1>2, Beheaded
  <2>2. ASSUME NEW i \in 1..Len(q) - 1
        PROVE  Tail(q)[i].row \in D
    <3>1. i + 1 \in 1..Len(q) /\ Tail(q)[i] = q[i + 1]
      BY <2>1
    <3> QED
      BY <3>1 DEF RowsIn
  <2> QED
    BY <2>1, <2>2 DEF RowsIn
<1>3. ASSUME q # <<>>
      PROVE  RowsIn(Front(q), D) /\ Last(q).row \in D
  <2>1. /\ Len(q) \in Nat /\ Len(q) >= 1 /\ Last(q) = q[Len(q)]
        /\ Len(Front(q)) = Len(q) - 1
        /\ \A i \in 1..Len(q) - 1 : Front(q)[i] = q[i]
    BY <1>3, LastOff
  <2>2. Len(q) \in 1..Len(q) /\ 1..Len(q) - 1 \subseteq 1..Len(q)
    BY <2>1
  <2> QED
    BY <2>1, <2>2 DEF RowsIn
<1> QED
  BY <1>1, <1>2, <1>3

LEMMA StackEmpty ==
  /\ \A to, from, values : LeadsBack(<<>>, to, from, values)
  /\ \A D : RowsIn(<<>>, D)
<1>1. 1..Len(<<>>) = {}
  BY NoChanges
<1> QED
  BY <1>1 DEF LeadsBack, RowsIn

\* Without a history nothing is asked of it.
LEMMA AnyHistory ==
  ASSUME HistoryInv, Pure
  PROVE  OnRows /\ HistoryLeads
<1>1. CASE Engaged
  BY <1>1 DEF HistoryInv
<1>2. CASE ~Engaged
  BY <1>2, StackEmpty, NoChanges DEF Engaged, OnRows, HistoryLeads
<1> QED
  BY <1>1, <1>2

\* A value becomes pending at a row.
LEMMA TargetsMove ==
  ASSUME EditValues, NEW i \in DOMAIN Here, NEW v \in Values, changes' = Set(i, v),
         Here' = Here, UNCHANGED session, OnRows
  PROVE  /\ Targets'[i] = v
         /\ \A j \in DOMAIN Here : j # i => Targets'[j] = Targets[j]
         /\ DOMAIN changes' \subseteq DOMAIN Here
         /\ changes' # <<>>
<1>1. /\ DOMAIN changes' = DOMAIN changes \cup {i} /\ changes'[i] = v
      /\ \A j \in DOMAIN changes : j # i => changes'[j] = changes[j]
  BY DEF Set
<1>2. Targets' = [j \in DOMAIN Here |-> IF j \in DOMAIN changes' THEN changes'[j] ELSE Here[j].value]
  BY DEF Targets
<1>3. changes' # <<>>
  BY <1>1, NoChanges
<1> QED
  BY <1>1, <1>2, <1>3 DEF Targets, OnRows

LEMMA MergeLeads ==
  ASSUME StackTypes, NEW i, NEW v \in Values, Merge(i, v), NEW T, NEW U, NEW D,
         U[i] = v, \A j \in D : j # i => U[j] = T[j],
         RowsIn(undoStack, D), LeadsBack(undoStack, "new", "prev", T)
  PROVE  RowsIn(undoStack', D) /\ LeadsBack(undoStack', "new", "prev", U)
<1> PICK p : p = [undoStack EXCEPT ![Len(undoStack)].new = v,
                                   ![Len(undoStack)].fresh = TRUE]
  OBVIOUS
<1>1. /\ undoStack # <<>> /\ undoStack[Len(undoStack)].row = i /\ undoStack' = p
      /\ undoStack \in Seq(Cmd)
  BY DEF Merge, CanMerge, Last, StackTypes
<1>2. /\ p \in Seq(Cmd) /\ Len(p) = Len(undoStack)
      /\ \A k \in 1..Len(undoStack) :
           /\ p[k].row = undoStack[k].row /\ p[k].prev = undoStack[k].prev
           /\ p[k].new = IF k = Len(undoStack) THEN v ELSE undoStack[k].new
  <2>1. undoStack # <<>>
    BY <1>1
  <2>2. p \in Seq(Cmd) /\ Len(p) = Len(undoStack)
    BY <2>1, Merged
  <2>3. \A k \in 1..Len(undoStack) :
           /\ p[k].row = undoStack[k].row /\ p[k].prev = undoStack[k].prev
           /\ p[k].new = IF k = Len(undoStack) THEN v ELSE undoStack[k].new
    BY <2>1, Merged
  <2> QED
    BY <2>2, <2>3
<1> PICK n \in Nat : n = Len(undoStack)
  BY <1>1, LenProperties
<1>3. \A k \in 1..n : /\ p[k]["new"] = p[k].new /\ p[k]["prev"] = p[k].prev
                       /\ undoStack[k]["new"] = undoStack[k].new
                       /\ undoStack[k]["prev"] = undoStack[k].prev
  BY <1>1, <1>2, Fields, ElementOfSeq
<1>4. ASSUME NEW k \in 1..n
      PROVE  \/ p[k]["new"] = undoStack[k]["new"] /\ U[undoStack[k].row] = T[undoStack[k].row]
             \/ k = n /\ p[k]["new"] = U[undoStack[k].row]
             \/ /\ p[k]["new"] = undoStack[k]["new"]
                /\ \E j \in 1..n : j > k /\ undoStack[j].row = undoStack[k].row
  <2>1. CASE k = n
    BY <1>1, <1>2, <1>3, <2>1
  <2>2. CASE k # n
    <3>1. p[k]["new"] = undoStack[k]["new"] /\ n > k /\ n \in 1..n
      BY <1>2, <1>3, <2>2
    <3>2. undoStack[k].row \in D
      BY DEF RowsIn
    <3> QED
      BY <1>1, <3>1, <3>2
  <2> QED
    BY <2>1, <2>2
<1>5. LeadsBack(p, "new", "prev", U)
  <2>1. Touched(undoStack, p, "new", "prev", T, U)
    <3>1. \A k \in 1..n : p[k].row = undoStack[k].row /\ p[k]["prev"] = undoStack[k]["prev"]
      BY <1>2, <1>3
    <3> QED
      BY <1>2, <1>4, <3>1 DEF Touched
  <2> QED
    BY <1>1, <1>2, <2>1, StackTouched
<1> QED
  BY <1>1, <1>2, <1>5 DEF RowsIn

LEMMA EditHistory ==
  ASSUME IInv, RowTypes, EditValues, StackTypes, HistoryInv,
         NEW v \in Values, SaveEdit(v), UNCHANGED agentVars, Strains({}),
         harm \subseteq harm', friction \subseteq friction'
  PROVE  HistoryInv'
<1> SUFFICES ASSUME Pure'
             PROVE  HistoryInv'
  BY DEF HistoryInv
<1> PICK i : i = editing.row
  OBVIOUS
<1>1. /\ i \in DOMAIN Rows /\ Track(i, v) /\ changes' = Set(i, v)
      /\ UNCHANGED <<server, session, objects, shown, save, request>>
      /\ Suffers(When(Saving, "midsave") \cup When(InFlight, "beside")
                 \cup When(Behind, "early") \cup When(Astray, "switched")
                 \cup When(CanMerge(i) /\ redoStack # <<>>, "merged"))
  BY DEF SaveEdit, caseVars, sessionVars, fetchVars
<1>2. Pure
  BY DEF Pure
<1>3. ~Saving /\ ~InFlight /\ ~Behind /\ ~(CanMerge(i) /\ redoStack # <<>>)
  BY <1>1 DEF Suffers, When, Pure
<1>4. /\ EditValues /\ changes' # <<>>
  <2>1. DOMAIN changes' = DOMAIN changes \cup {i}
    BY <1>1, ChangeSet
  <2> QED
    BY <2>1, NoChanges
<1>5. ~Assisting
  <2>1. Assisting' <=> Assisting
    BY DEF agentVars, Assisting, Running
  <2>2. ~Clash'
    BY DEF Strains, When, Pure
  <2> QED
    BY <1>4, <2>1, <2>2 DEF Clash
<1>6. IsCurrent(shown)
  BY <1>2, <1>3, <1>5, RestIsCurrent DEF AtRest, Quiet, Pure, Sound, Free_of
<1>7. Owner = session /\ Rows = Here
  BY <1>6 DEF IsCurrent, Owner, Rows, Here
<1>8. OnRows /\ HistoryLeads
  BY <1>2, AnyHistory
<1>9. Here' = Here /\ UNCHANGED session /\ i \in DOMAIN Here
  BY <1>1, <1>7 DEF Here
<1>10. /\ Targets'[i] = v /\ Targets[i] = Cell(i)
       /\ \A j \in DOMAIN Here : j # i => Targets'[j] = Targets[j]
       /\ DOMAIN changes' \subseteq DOMAIN Here
  BY <1>1, <1>7, <1>8, <1>9, TargetsMove DEF Targets, Cell
<1>11. RowsIn(undoStack, DOMAIN Here) /\ LeadsBack(undoStack, "new", "prev", Targets)
  BY <1>8 DEF OnRows, HistoryLeads
<1>12. RowsIn(undoStack', DOMAIN Here) /\ LeadsBack(undoStack', "new", "prev", Targets')
       /\ redoStack' = <<>>
  <2>1. CASE Merge(i, v)
    <3>1. \A j \in DOMAIN Here : j # i => Targets'[j] = Targets[j]
      BY <1>10
    <3>2. RowsIn(undoStack', DOMAIN Here) /\ LeadsBack(undoStack', "new", "prev", Targets')
      BY <1>10, <1>11, <2>1, <3>1, MergeLeads
    <3> QED
      BY <1>3, <2>1, <3>2 DEF Merge
  <2>2. CASE Push([row |-> i, prev |-> Cell(i), new |-> v, fresh |-> TRUE]) /\ redoStack' = <<>>
    <3> PICK c : c = [row |-> i, prev |-> Cell(i), new |-> v, fresh |-> TRUE]
      OBVIOUS
    <3>1. c \in Cmd /\ c.row = i /\ c["prev"] = Cell(i) /\ c["new"] = v
      <4>1. c \in Cmd /\ c.row = i /\ c.prev = Cell(i) /\ c.new = v
        BY <1>1, ValueAtCell DEF Cmd, IInv, TypesInv
      <4> QED
        BY <4>1, Fields
    <3> PICK p : p = Append(undoStack, c)
      OBVIOUS
    <3>2. p \in Seq(Cmd) /\ p # <<>>
      BY <3>1, Tracked
    <3>3. LeadsBack(p, "new", "prev", Targets')
      <4>1. undoStack \in Seq(Cmd)
        BY DEF StackTypes
      <4>2. \A k \in 1..Len(undoStack) : undoStack[k].row # c.row =>
               Targets'[undoStack[k].row] = Targets[undoStack[k].row]
        BY <1>10, <1>11, <3>1 DEF RowsIn
      <4>3. c["prev"] = Targets[c.row] /\ c["new"] = Targets'[c.row]
        BY <1>10, <3>1
      <4> QED
        BY <1>11, <3>1, <4>1, <4>2, <4>3, StackPushed
    <3>4. RowsIn(p, DOMAIN Here)
      BY <1>9, <1>11, <3>1, RowsKept DEF StackTypes
    <3>5. undoStack' = p \/ undoStack' = Tail(p)
      BY <2>2 DEF Push
    <3>6. LeadsBack(Tail(p), "new", "prev", Targets')
      BY <3>2, <3>3, StackTrimmed
    <3>7. RowsIn(Tail(p), DOMAIN Here)
      BY <3>2, <3>4, RowsKept
    <3> QED
      BY <2>2, <3>3, <3>4, <3>5, <3>6, <3>7
  <2> QED
    BY <1>1, <2>1, <2>2 DEF Track
<1>13. OnRows' /\ HistoryLeads'
  BY <1>9, <1>10, <1>12, StackEmpty DEF OnRows, HistoryLeads
<1>14. Undisturbed'
  BY <1>1, <1>3, <1>7, <1>9 DEF Undisturbed, InFlight, Owner, Rows, SameIds
<1> QED
  BY <1>1, <1>3, <1>13, <1>14 DEF HistoryInv, Saving

\* The row of the last command goes to the value the command leads to, and no other row moves.
Replays(q, from, T, U, D) == /\ U[Last(q).row] = Last(q)[from]
                             /\ \A j \in D : j # Last(q).row => U[j] = T[j]

\* The last command of one stack is taken and put on the other.
LEMMA CommandMoves ==
  ASSUME NEW q \in Seq(Cmd), NEW r \in Seq(Cmd), q # <<>>,
         NEW to, NEW from, NEW T, NEW U, NEW D,
         RowsIn(q, D), RowsIn(r, D), LeadsBack(q, to, from, T), LeadsBack(r, from, to, T),
         Replays(q, from, T, U, D)
  PROVE  /\ RowsIn(Front(q), D) /\ LeadsBack(Front(q), to, from, U)
         /\ RowsIn(Append(r, Last(q)), D) /\ LeadsBack(Append(r, Last(q)), from, to, U)
<1>1. Last(q) \in Cmd /\ Last(q).row \in D /\ RowsIn(Front(q), D)
  BY LastOff, RowsKept
<1>2. RowsIn(Append(r, Last(q)), D)
  BY <1>1, RowsKept
<1>3. \A k \in 1..Len(q) : q[k].row # Last(q).row => U[q[k].row] = T[q[k].row]
  BY DEF RowsIn, Replays
<1>4. LeadsBack(Front(q), to, from, U) /\ Last(q)[to] = T[Last(q).row]
  <2>1. U[Last(q).row] = Last(q)[from]
    BY DEF Replays
  <2> QED
    BY <1>3, <2>1, StackPopped
<1>5. \A k \in 1..Len(r) : r[k].row # Last(q).row => U[r[k].row] = T[r[k].row]
  BY DEF RowsIn, Replays
<1>6. LeadsBack(Append(r, Last(q)), from, to, U)
  BY <1>1, <1>4, <1>5, StackPushed DEF Replays
<1> QED
  BY <1>1, <1>2, <1>4, <1>6

LEMMA UndoHistory ==
  ASSUME EditValues, StackTypes, HistoryInv, HandleUndo \/ HandleRedo,
         harm \subseteq harm', friction \subseteq friction'
  PROVE  HistoryInv'
<1> SUFFICES ASSUME Pure'
             PROVE  HistoryInv'
  BY DEF HistoryInv
<1>1. Shortcut /\ UNCHANGED <<server, session, objects, shown, save, request>>
  BY DEF HandleUndo, HandleRedo, Shortcut, caseVars, sessionVars, fetchVars
<1>2. ~Saving /\ ~InFlight
  BY <1>1 DEF Shortcut, Suffers, When, Pure
<1>3. Undisturbed /\ OnRows /\ HistoryLeads
  <2>1. Engaged
    BY DEF HandleUndo, Undo, HandleRedo, Redo, Engaged
  <2> QED
    BY <2>1 DEF HistoryInv, Pure
<1>4. /\ RowsIn(undoStack, DOMAIN Here) /\ LeadsBack(undoStack, "new", "prev", Targets)
      /\ RowsIn(redoStack, DOMAIN Here) /\ LeadsBack(redoStack, "prev", "new", Targets)
      /\ undoStack \in Seq(Cmd) /\ redoStack \in Seq(Cmd)
  BY <1>3 DEF OnRows, HistoryLeads, StackTypes
<1>5. Here' = Here /\ UNCHANGED session
  BY <1>1 DEF Here
<1>6. DOMAIN changes' \subseteq DOMAIN Here /\ RowsIn(undoStack', DOMAIN Here)
      /\ RowsIn(redoStack', DOMAIN Here) /\ HistoryLeads'
  <2>1. CASE HandleUndo
    <3> PICK c : c = Last(undoStack)
      OBVIOUS
    <3>1. /\ undoStack # <<>> /\ changes' = Set(c.row, c.prev)
          /\ undoStack' = Front(undoStack) /\ redoStack' = Append(redoStack, c)
      BY <2>1 DEF HandleUndo, Undo, Revert
    <3>2. c \in Cmd /\ c.row \in DOMAIN Here
      BY <1>4, <3>1, LastOff, RowsKept
    <3>3. c.prev \in Values /\ c["prev"] = c.prev
      BY <3>2, Fields DEF Cmd
    <3>4. /\ Targets'[c.row] = c["prev"]
          /\ \A j \in DOMAIN Here : j # c.row => Targets'[j] = Targets[j]
          /\ DOMAIN changes' \subseteq DOMAIN Here
      BY <1>3, <1>5, <3>1, <3>2, <3>3, TargetsMove
    <3>5. /\ RowsIn(undoStack', DOMAIN Here) /\ LeadsBack(undoStack', "new", "prev", Targets')
          /\ RowsIn(redoStack', DOMAIN Here) /\ LeadsBack(redoStack', "prev", "new", Targets')
      <4>1. Replays(undoStack, "prev", Targets, Targets', DOMAIN Here)
        BY <3>4 DEF Replays
      <4> PICK T, U : T = Targets /\ U = Targets'
        OBVIOUS
      <4>2. /\ RowsIn(Front(undoStack), DOMAIN Here)
            /\ LeadsBack(Front(undoStack), "new", "prev", Targets')
            /\ RowsIn(Append(redoStack, Last(undoStack)), DOMAIN Here)
            /\ LeadsBack(Append(redoStack, Last(undoStack)), "prev", "new", Targets')
        BY <1>4, <3>1, <4>1, CommandMoves
      <4> QED
        BY <3>1, <4>2
    <3> QED
      BY <3>4, <3>5 DEF HistoryLeads
  <2>2. CASE HandleRedo
    <3> PICK c : c = Last(redoStack)
      OBVIOUS
    <3>1. /\ redoStack # <<>> /\ changes' = Set(c.row, c.new)
          /\ redoStack' = Front(redoStack) /\ undoStack' = Append(undoStack, c)
      BY <2>2 DEF HandleRedo, Redo, Execute
    <3>2. c \in Cmd /\ c.row \in DOMAIN Here
      BY <1>4, <3>1, LastOff, RowsKept
    <3>3. c.new \in Values /\ c["new"] = c.new
      BY <3>2, Fields DEF Cmd
    <3>4. /\ Targets'[c.row] = c["new"]
          /\ \A j \in DOMAIN Here : j # c.row => Targets'[j] = Targets[j]
          /\ DOMAIN changes' \subseteq DOMAIN Here
      BY <1>3, <1>5, <3>1, <3>2, <3>3, TargetsMove
    <3>5. /\ RowsIn(redoStack', DOMAIN Here) /\ LeadsBack(redoStack', "prev", "new", Targets')
          /\ RowsIn(undoStack', DOMAIN Here) /\ LeadsBack(undoStack', "new", "prev", Targets')
      <4>1. Replays(redoStack, "new", Targets, Targets', DOMAIN Here)
        BY <3>4 DEF Replays
      <4> PICK T, U : T = Targets /\ U = Targets'
        OBVIOUS
      <4>2. /\ RowsIn(Front(redoStack), DOMAIN Here)
            /\ LeadsBack(Front(redoStack), "prev", "new", Targets')
            /\ RowsIn(Append(undoStack, Last(redoStack)), DOMAIN Here)
            /\ LeadsBack(Append(undoStack, Last(redoStack)), "new", "prev", Targets')
        BY <1>4, <3>1, <4>1, CommandMoves
      <4> QED
        BY <3>1, <4>2
    <3> QED
      BY <3>4, <3>5 DEF HistoryLeads
  <2> QED
    BY <2>1, <2>2
<1>7. Undisturbed'
  BY <1>1, <1>3, <1>5 DEF Undisturbed, InFlight, Owner, Rows, SameIds
<1> QED
  BY <1>1, <1>2, <1>5, <1>6, <1>7 DEF HistoryInv, OnRows, Saving

LEMMA PauseHistory ==
  ASSUME EditValues, StackTypes, HistoryInv, Pause,
         harm \subseteq harm', friction \subseteq friction'
  PROVE  HistoryInv'
<1> SUFFICES ASSUME Pure'
             PROVE  HistoryInv'
  BY DEF HistoryInv
<1>1. /\ undoStack' = [k \in DOMAIN undoStack |-> [undoStack[k] EXCEPT !.fresh = FALSE]]
      /\ redoStack' = [k \in DOMAIN redoStack |-> [redoStack[k] EXCEPT !.fresh = FALSE]]
      /\ UNCHANGED <<server, session, objects, shown, changes, save, request>>
      /\ undoStack \in Seq(Cmd) /\ redoStack \in Seq(Cmd)
  BY DEF Pause, caseVars, sessionVars, fetchVars, StackTypes
<1>2. ASSUME NEW q \in Seq(Cmd), NEW D, RowsIn(q, D), NEW T,
             NEW p, p = [k \in DOMAIN q |-> [q[k] EXCEPT !.fresh = FALSE]],
             NEW to \in {"new", "prev"}, NEW from \in {"new", "prev"}, LeadsBack(q, to, from, T)
      PROVE  RowsIn(p, D) /\ LeadsBack(p, to, from, T)
  <2>1. p \in Seq(Cmd) /\ Len(p) = Len(q)
    BY <1>2, Paused
  <2>2. \A k \in 1..Len(q) : /\ p[k].row = q[k].row /\ p[k].prev = q[k].prev
                             /\ p[k].new = q[k].new
    BY <1>2, Paused
  <2>3. \A k \in 1..Len(q) : p[k] \in Cmd /\ q[k] \in Cmd
    BY <2>1, ElementOfSeq
  <2>4. \A k \in 1..Len(q) : p[k][to] = q[k][to] /\ p[k][from] = q[k][from]
    BY <2>2, <2>3, Fields
  <2>5. Touched(q, p, to, from, T, T)
    BY <2>1, <2>2, <2>4 DEF Touched
  <2> QED
    BY <1>2, <2>1, <2>2, <2>5, StackTouched DEF RowsIn
<1>3. Undisturbed /\ OnRows /\ HistoryLeads
  <2>1. ASSUME ~Engaged
        PROVE  FALSE
    <3>1. ToSet(undoStack) \cup ToSet(redoStack) = {}
      BY <2>1, NoChanges, InSet DEF Engaged
    <3> QED
      BY <3>1 DEF Pause
  <2> QED
    BY <2>1 DEF HistoryInv, Pure
<1>4. /\ RowsIn(undoStack', DOMAIN Here) /\ LeadsBack(undoStack', "new", "prev", Targets)
      /\ RowsIn(redoStack', DOMAIN Here) /\ LeadsBack(redoStack', "prev", "new", Targets)
  BY <1>1, <1>2, <1>3 DEF OnRows, HistoryLeads
<1>5. Here' = Here /\ Targets' = Targets
  BY <1>1 DEF Here, Targets
<1>6. Undisturbed' /\ OnRows' /\ HistoryLeads'
  BY <1>1, <1>3, <1>4, <1>5 DEF Undisturbed, InFlight, Owner, Rows, SameIds, OnRows, HistoryLeads
<1>7. Saving' => SaveSends'
  <2>1. Saving => SaveSends
    BY DEF HistoryInv, Pure
  <2> QED
    BY <1>1, <1>5, <2>1 DEF Saving, SaveSends
<1> QED
  BY <1>6, <1>7 DEF HistoryInv
-----------------------------------------------------------------------------
(* Resetting and saving.                                                   *)

LEMMA ResetHistory ==
  ASSUME ResetChanges
  PROVE  HistoryInv'
<1>1. changes' = <<>> /\ undoStack' = <<>> /\ redoStack' = <<>> /\ ~Saving /\ UNCHANGED save
  BY DEF ResetChanges, ClearHistory
<1>2. ~Engaged' /\ ~Saving'
  BY <1>1 DEF Engaged, Saving
<1> QED
  BY <1>2, NoHistory

\* A save goes on to its next row.
LEMMA SendHistory ==
  ASSUME RowTypes, EditValues, NEW of \in Answers, shown \in Answers, NEW todo,
         todo \subseteq DOMAIN changes, SendRow(of, todo, {}),
         objects[of].of = session, SameIds(objects[of].rows, Here),
         \A i \in DOMAIN changes \ todo : Here[i].value = changes[i],
         UNCHANGED <<server, session, undoStack, redoStack, request>>,
         Undisturbed, OnRows, HistoryLeads
  PROVE  Undisturbed' /\ OnRows' /\ HistoryLeads' /\ SaveSends'
<1>1. PICK i \in todo, v \in Values \cup {None} :
            /\ v = IF i \in {} THEN None ELSE changes[i]
            /\ save' = [at |-> "sent", of |-> of, todo |-> todo \ {i},
                        emptied |-> {} \ {i}, id |-> objects[of].rows[i].id,
                        value |-> v, to |-> session]
            /\ \A a \in Answers : a # of => objects'[a] = objects[a]
            /\ objects'[of].of = objects[of].of
            /\ SameIds(objects[of].rows, objects'[of].rows)
            /\ UNCHANGED <<shown, changes>>
  <2>1. todo \subseteq DOMAIN changes \cup {}
    OBVIOUS
  <2> QED
    BY <2>1, RowSent
<1>2. /\ save'.at = "sent" /\ save'.of = of /\ save'.todo = todo \ {i} /\ save'.emptied = {}
      /\ save'.id = objects[of].rows[i].id /\ save'.value = changes[i] /\ save'.to = session
  BY <1>1
<1>3. Here' = Here /\ Targets' = Targets /\ i \in DOMAIN Here
  BY <1>1 DEF Here, Targets, OnRows
<1>4. Undisturbed'
  <2>1. Owner' = Owner /\ SameIds(Rows', Here)
    <3>1. CASE shown = of
      BY <1>1, <3>1 DEF Owner, Rows, SameIds
    <3>2. CASE shown # of
      BY <1>1, <3>2 DEF Owner, Rows, SameIds, Undisturbed
    <3> QED
      BY <3>1, <3>2
  <2> QED
    BY <1>3, <2>1 DEF Undisturbed, InFlight
<1>5. OnRows' /\ HistoryLeads'
  BY <1>1, <1>3 DEF OnRows, HistoryLeads
<1>6. SaveSends'
  <2>1. DOMAIN changes' # {} /\ save'.todo \subseteq DOMAIN changes'
    BY <1>1, <1>2
  <2>2. objects'[of].of = session' /\ SameIds(objects'[of].rows, Here')
    BY <1>1, <1>3 DEF SameIds
  <2>3. /\ i \in DOMAIN changes' \ save'.todo
        /\ Here'[i].id = save'.id /\ save'.value = changes'[i]
        /\ save'.at = "applied" => Here'[i].value = changes'[i]
        /\ \A k \in DOMAIN changes' \ save'.todo : k # i => Here'[k].value = changes'[k]
    BY <1>1, <1>2, <1>3 DEF SameIds
  <2> QED
    BY <1>2, <2>1, <2>2, <2>3 DEF SaveSends
<1> QED
  BY <1>4, <1>5, <1>6

LEMMA SaveHistory ==
  ASSUME HistoryInv, RowTypes, EditValues, FetchTypes, SaveChanges,
         harm \subseteq harm', friction \subseteq friction'
  PROVE  HistoryInv'
<1> SUFFICES ASSUME Pure'
             PROVE  HistoryInv'
  BY DEF HistoryInv
<1>1. /\ changes # <<>> /\ NextRow(shown, DOMAIN changes \cap DOMAIN Rows, {})
      /\ UNCHANGED <<server, session, undoStack, redoStack, request>>
  BY DEF SaveChanges, caseVars, sessionVars
<1>2. Undisturbed /\ OnRows /\ HistoryLeads
  BY <1>1 DEF HistoryInv, Pure, Engaged
<1>3. DOMAIN changes \cap DOMAIN Rows = DOMAIN changes
  BY <1>2 DEF Undisturbed, OnRows, SameIds
<1>4. DOMAIN changes # {}
  <2>1. changes \in [DOMAIN changes -> Values]
    BY DEF EditValues, ChangeTypes
  <2> QED
    BY <1>1, <2>1, NoChanges
<1>5. SendRow(shown, DOMAIN changes, {})
  BY <1>1, <1>3, <1>4 DEF NextRow
<1>6. shown \in Answers /\ objects[shown].of = session /\ SameIds(objects[shown].rows, Here)
  BY <1>2 DEF FetchTypes, Undisturbed, Owner, Rows
<1>7. Undisturbed' /\ OnRows' /\ HistoryLeads' /\ SaveSends'
  BY <1>1, <1>2, <1>5, <1>6, SendHistory
<1> QED
  BY <1>7 DEF HistoryInv

LEMMA SavedHistory ==
  ASSUME HistoryInv, RowTypes, EditValues, FetchTypes, RowSaved,
         harm \subseteq harm', friction \subseteq friction'
  PROVE  HistoryInv'
<1> SUFFICES ASSUME Pure'
             PROVE  HistoryInv'
  BY DEF HistoryInv
<1>1. /\ save.at = "applied" /\ NextRow(save.of, save.todo, save.emptied) /\ Saving
      /\ UNCHANGED <<server, session, undoStack, redoStack, request>>
  BY DEF RowSaved, caseVars, sessionVars, Saving
<1>2. SaveSends
  BY <1>1 DEF HistoryInv, Pure
<1>3. Undisturbed /\ OnRows /\ HistoryLeads
  BY <1>2, SavingEngages DEF HistoryInv, Pure
<1>4. /\ save.emptied = {} /\ save.todo \subseteq DOMAIN changes /\ save.of \in Answers
      /\ objects[save.of].of = session /\ SameIds(objects[save.of].rows, Here)
      /\ \A i \in DOMAIN changes \ save.todo : Here[i].value = changes[i]
  BY <1>1, <1>2 DEF SaveSends, FetchTypes
<1>5. CASE SendRow(save.of, save.todo, {})
  <2>1. shown \in Answers
    BY DEF FetchTypes
  <2>2. Undisturbed' /\ OnRows' /\ HistoryLeads' /\ SaveSends'
    BY <1>1, <1>3, <1>4, <1>5, <2>1, SendHistory
  <2> QED
    BY <2>2 DEF HistoryInv
<1>6. CASE save.todo = {} /\ FinishSave(save.of)
  <2>1. changes' = <<>> /\ save' = NotSaving /\ shown' = save.of /\ Show(save.of)
    BY <1>6 DEF FinishSave, Show
  <2>2. objects'[save.of] = objects[save.of]
    BY <1>4, <2>1, Shown
  <2>3. Here' = Here
    BY <1>1 DEF Here
  <2>4. Targets' = Targets
    <3>1. Targets' = [i \in DOMAIN Here |-> Here[i].value]
      BY <2>1, <2>3, NoChanges DEF Targets
    <3>2. \A i \in DOMAIN changes : Here[i].value = changes[i]
      BY <1>4, <1>6
    <3> QED
      BY <3>1, <3>2 DEF Targets
  <2>5. Undisturbed'
    BY <1>1, <1>3, <1>4, <2>1, <2>2, <2>3 DEF Undisturbed, InFlight, Owner, Rows, SameIds
  <2>6. OnRows' /\ HistoryLeads'
    BY <1>1, <1>3, <2>1, <2>3, <2>4, NoChanges DEF OnRows, HistoryLeads
  <2>7. ~Saving'
    BY <2>1 DEF Saving, NotSaving
  <2> QED
    BY <2>5, <2>6, <2>7 DEF HistoryInv
<1> QED
  BY <1>1, <1>4, <1>5, <1>6 DEF NextRow

LEMMA RowHistory ==
  ASSUME HistoryInv, CaseTypes, RowTypes, EditTypes, EditValues, ApplyRow,
         harm \subseteq harm', friction \subseteq friction'
  PROVE  HistoryInv'
<1> SUFFICES ASSUME Pure'
             PROVE  HistoryInv'
  BY DEF HistoryInv
<1>1. /\ save.at = "sent" /\ save' = [save EXCEPT !.at = "applied"]
      /\ Possible(save.to, "modify", save.id)
      /\ Carry(save.to, "modify", save.id, save.value)
      /\ UNCHANGED <<session, objects, shown, changes, undoStack, redoStack, request>>
  BY DEF ApplyRow, sessionVars, fetchVars, tableVars
<1>2. Pure /\ Saving
  BY <1>1 DEF Pure, Saving
<1>3. SaveSends
  BY <1>2 DEF HistoryInv
<1>4. Undisturbed /\ OnRows /\ HistoryLeads
  BY <1>2, <1>3, SavingEngages DEF HistoryInv
<1>5. PICK j \in DOMAIN changes \ save.todo :
         /\ Here[j].id = save.id /\ save.value = changes[j]
         /\ \A i \in DOMAIN changes \ save.todo : i # j => Here[i].value = changes[i]
  BY <1>3 DEF SaveSends
<1>6. save.to = session /\ session \in Sessions /\ changes[j] \in Values /\ changes[j] # None
      /\ j \in DOMAIN Here
  BY <1>3, <1>4, NoneAssumption DEF SaveSends, CaseTypes, EditValues, ChangeTypes, OnRows
<1>7. Proper(Here)
  BY <1>6 DEF RowTypes, Here
<1>8. /\ SameIds(Here, Here')
      /\ \A i \in DOMAIN Here : Here'[i].value = IF i = j THEN changes[j] ELSE Here[i].value
  <2>1. Here' = Edited(Here, "modify", save.id, changes[j])
    <3>1. ValidEdit("modify", save.id, save.value)
      BY <1>5, <1>6 DEF ValidEdit
    <3>2. server'[session] = Edited(server[session], "modify", save.id, save.value)
      BY <1>1, <1>6, <3>1, Carried
    <3> QED
      BY <1>1, <1>5, <3>2 DEF Here
  <2>2. /\ SameIds(Here, Here')
        /\ \A i \in DOMAIN Here : Here'[i].value = IF Here[i].id = save.id /\ changes[j] # None
                                                   THEN changes[j] ELSE Here[i].value
    BY <1>6, <1>7, <2>1, Modified
  <2>3. \A i \in DOMAIN Here : Here[i].id = save.id <=> i = j
    <3>1. \A i, k \in DOMAIN Here : Here[i].id = Here[k].id => i = k
      BY <1>7 DEF Proper
    <3>2. j \in DOMAIN Here /\ Here[j].id = save.id
      BY <1>5, <1>6
    <3> QED
      BY ONLY <3>1, <3>2
  <2> QED
    BY <1>6, <2>2, <2>3
<1>9. DOMAIN Here' = DOMAIN Here
  BY <1>8 DEF SameIds
<1>10. Targets' = Targets
  <2>1. Targets' = [i \in DOMAIN Here |-> IF i \in DOMAIN changes THEN changes[i] ELSE Here'[i].value]
    BY <1>1, <1>9 DEF Targets
  <2>2. \A i \in DOMAIN Here : i \notin DOMAIN changes => Here'[i].value = Here[i].value
    BY <1>5, <1>8
  <2> QED
    BY <2>1, <2>2 DEF Targets
<1>11. Undisturbed'
  BY <1>1, <1>4, <1>8, <1>9 DEF Undisturbed, InFlight, Owner, Rows, SameIds
<1>12. OnRows' /\ HistoryLeads'
  BY <1>1, <1>4, <1>9, <1>10 DEF OnRows, HistoryLeads
<1>13. SaveSends'
  <2>1. /\ save'.of = save.of /\ save'.todo = save.todo /\ save'.emptied = save.emptied
        /\ save'.id = save.id /\ save'.value = save.value /\ save'.to = save.to
    BY <1>1 DEF EditTypes
  <2>2. objects'[save.of].of = session' /\ SameIds(objects'[save.of].rows, Here')
    BY <1>1, <1>3, <1>8, <1>9 DEF SaveSends, SameIds
  <2>3. /\ j \in DOMAIN changes' \ save'.todo
        /\ Here'[j].id = save'.id /\ save'.value = changes'[j]
        /\ Here'[j].value = changes'[j]
        /\ \A i \in DOMAIN changes' \ save'.todo : i # j => Here'[i].value = changes'[i]
    <3>1. Here'[j].id = Here[j].id /\ Here'[j].value = changes[j]
      BY <1>6, <1>8 DEF SameIds
    <3>2. \A i \in DOMAIN changes : i # j => Here'[i].value = Here[i].value
      BY <1>4, <1>8 DEF OnRows
    <3> QED
      BY <1>1, <1>5, <2>1, <3>1, <3>2
  <2>4. /\ DOMAIN changes' # {} /\ save'.emptied = {} /\ save'.to = session'
        /\ save'.todo \subseteq DOMAIN changes'
    BY <1>1, <1>3, <2>1 DEF SaveSends
  <2>5. objects'[save'.of].of = session' /\ SameIds(objects'[save'.of].rows, Here')
    BY <2>1, <2>2
  <2> QED
    BY <2>3, <2>4, <2>5 DEF SaveSends
<1> QED
  BY <1>11, <1>12, <1>13 DEF HistoryInv
-----------------------------------------------------------------------------
(* The history beside the chat.                                            *)

LEMMA ChatHistory ==
  ASSUME HistoryInv, CaseTypes, ChatTypes, EditTypes, StackTypes, OpenInv, AssistantSteps,
         harm \subseteq harm', friction \subseteq friction'
  PROVE  HistoryInv'
<1>1. /\ UNCHANGED <<objects, shown, save, request, changes, undoStack, redoStack, editing>>
      /\ Owner' = Owner /\ SameIds(Rows', Rows) /\ (InFlight' <=> InFlight)
  <2>1. UNCHANGED <<objects, shown, save, request, changes, undoStack, redoStack, editing>>
    BY BesideTheTable, TableBesideChat DEF tableVars
  <2> QED
    BY <2>1 DEF Owner, Rows, InFlight, SameIds
<1>2. SUFFICES ASSUME Pure', Engaged
               PROVE  Here' = Here /\ UNCHANGED session
  BY <1>1, QuietHistory
<1>3. UnderEdit /\ (changes = <<>> => HasHistory)
  BY <1>2, HistoryExists DEF UnderEdit, Engaged, HasHistory
<1>4. CASE UNCHANGED <<server, session>>
  BY <1>4 DEF Here
<1>5. CASE StopGeneration \/ FetchDue
  BY <1>4, <1>5 DEF StopGeneration, FetchDue, vars, caseVars, sessionVars
<1>6. ASSUME NEW t \in Turns, \/ SendMessage(t) \/ CallTools(t) \/ Answer(t)
                              \/ CallEnds(t) \/ Unanswered(t)
      PROVE  UNCHANGED <<server, session>>
  BY <1>6 DEF SendMessage, CallTools, Answer, CallEnds, Unanswered, vars, caseVars, sessionVars
<1>7. ASSUME NEW t \in Turns, ReadEvent(t)
      PROVE  UNCHANGED <<server, session>>
  <2>1. \A s : ~SetSession(s)
    BY <1>2, <1>3 DEF SetSession, Suffers, When, Pure
  <2> QED
    BY <1>7, <2>1 DEF ReadEvent, ToolResults, sessionVars
<1>8. ASSUME NEW t \in Turns, ApplyCall(t)
      PROVE  Here' = Here /\ UNCHANGED session
  <2> DEFINE c == turn[t].call.tool
             s == turn[t].to
             possible == Possible(s, c.act, c.id)
  <2>1. /\ IF possible THEN Carry(s, c.act, c.id, c.value) ELSE UNCHANGED server
        /\ UNCHANGED session
        /\ Strains(When(possible /\ talking # t, "unheard")
                   \cup When(possible /\ s = session /\ HasHistory, "rewritten"))
    BY <1>8 DEF ApplyCall, sessionVars
  <2> HIDE DEF possible
  <2>2. ~Clash' /\ ~(possible /\ s = session /\ HasHistory)
    BY <1>2, <2>1 DEF Strains, When, Pure
  <2>3. Running(t)'
    BY <1>8 DEF ApplyCall, Becomes, ChatTypes, Running
  <2>4. changes = <<>>
    BY <1>1, <2>2, <2>3 DEF Clash, Assisting
  <2>5. ~(possible /\ s = session)
    BY <1>3, <2>2, <2>4
  <2>6. CASE ~possible
    BY <2>1, <2>6 DEF Here
  <2>7. CASE possible /\ s # session
    BY <2>1, <2>7 DEF Carry, CaseTypes, Here
  <2> QED
    BY <2>5, <2>6, <2>7
<1>9. ASSUME NEW t \in Turns, NEW s \in Sessions, OpenForChat(t, s)
      PROVE  Here' = Here /\ UNCHANGED session
  <2>1. /\ \E t1 : server' = [server EXCEPT ![s] = t1]
        /\ UNCHANGED session /\ (opening[s] = "closed" \/ turn[t].call.made = s)
    BY <1>9 DEF OpenForChat
  <2>2. s # session
    BY <2>1 DEF OpenInv
  <2> QED
    BY <2>1, <2>2 DEF CaseTypes, Here
<1> QED
  BY <1>4, <1>5, <1>6, <1>7, <1>8, <1>9 DEF AssistantSteps
-----------------------------------------------------------------------------
(* The history at rest.                                                    *)

HInv == IInv /\ RowTypes /\ EditValues /\ StackTypes /\ HistoryInv

LEMMA InitHistory == AssistantInit => HInv
<1> SUFFICES ASSUME AssistantInit PROVE HInv
  OBVIOUS
<1>1. /\ session \in Sessions /\ asked = <<>> /\ changes = <<>>
      /\ undoStack = <<>> /\ redoStack = <<>> /\ save = NotSaving /\ request = NoRequest
      /\ turn = [t \in Turns |-> Unsent]
  BY DEF AssistantInit, Init
<1>2. PICK c \in Cases :
         /\ server = [s \in Sessions |-> IF s = session THEN c ELSE <<>>]
         /\ objects = [a \in Answers |->
               IF a = shown THEN [of |-> session, rows |-> c] ELSE Nothing]
  BY DEF AssistantInit, Init
<1>3. Proper(c) /\ Proper(<<>>)
  BY CaseRows, NoRows
<1>4. RowTypes
  <2>1. \A s \in Sessions : Proper(server[s])
    BY <1>2, <1>3
  <2>2. [of |-> session, rows |-> c] \in [of : Sessions \cup {None}, rows : Seq(Row)]
    BY <1>1, <1>3, ProperRows
  <2>3. Nothing \in [of : Sessions \cup {None}, rows : Seq(Row)] /\ Nothing.rows = <<>>
    BY EmptySeq DEF Nothing
  <2>4. objects \in [Answers -> [of : Sessions \cup {None}, rows : Seq(Row)]]
    BY <1>2, <2>2, <2>3
  <2>5. \A a \in Answers : Proper(objects[a].rows)
    BY <1>2, <1>3, <2>3
  <2>6. \A a \in DOMAIN asked : asked[a] \in Sessions
    BY <1>1, NoChanges
  <2> QED
    BY <2>1, <2>4, <2>5, <2>6 DEF RowTypes
<1>5. ~Saving /\ request.at = "idle"
  BY <1>1 DEF Saving, NotSaving, NoRequest
<1>6. EditValues
  <2>1. ChangeTypes
    BY <1>1, NoChanges DEF ChangeTypes
  <2>2. ToolTypes
    BY <1>1 DEF ToolTypes, Unsent, NoCall
  <2> QED
    BY <1>5, <2>1, <2>2 DEF EditValues, SaveTypes, RequestTypes, InFlight
<1>7. StackTypes
  BY <1>1, NoChanges DEF StackTypes
<1>8. HistoryInv
  BY <1>1, <1>5 DEF HistoryInv, Engaged
<1> QED
  BY <1>4, <1>6, <1>7, <1>8, InitInv DEF HInv

LEMMA TableHistory ==
  ASSUME HInv, Next, UNCHANGED agentVars, Strains({})
  PROVE  HistoryInv'
<1>1. /\ CaseTypes /\ EditTypes /\ FetchTypes /\ OpenInv /\ RowTypes /\ EditValues
      /\ StackTypes /\ HistoryInv
  BY DEF HInv, IInv, TypesInv
<1>2. harm \subseteq harm' /\ friction \subseteq friction'
  BY <1>1, TableHarm DEF Strains
<1>3. ASSUME NEW v \in Values, SaveEdit(v)
      PROVE  HistoryInv'
  BY <1>1, <1>2, <1>3, EditHistory DEF HInv
<1>4. CASE HandleUndo \/ HandleRedo
  BY <1>1, <1>2, <1>4, UndoHistory
<1>5. CASE Pause
  BY <1>1, <1>2, <1>5, PauseHistory
<1>6. ASSUME \E act, e, v : SendRequest(act, e, v)
      PROVE  HistoryInv'
  BY <1>1, <1>2, <1>6, ApartHistory
<1>7. CASE Apply
  BY <1>6, <1>7, ApplySteps
<1>8. CASE \/ \E s \in Sessions : SessionCreated(s)
           \/ RequestDone \/ ApplyRequest
  BY <1>1, <1>2, <1>8, ApartHistory
<1>9. CASE \/ \E i \in Positions : OpenEditor(i)
           \/ OpenOrClose \/ CancelEdit \/ SaveEditUnchanged \/ SaveFails \/ RefuseRow \/ RefuseRequest
           \/ \E s \in Sessions : OpenCase(s) \/ LoadCase(s) \/ OpenFails(s) \/ FetchOpened(s)
           \/ \E a \in DOMAIN asked : ReadNetwork(a) \/ NetworkFails(a)
  BY <1>1, <1>2, <1>9, AsideHistory
<1>10. CASE \E k \in DOMAIN reading : NetworkArrives(k)
  BY <1>1, <1>2, <1>10, ArrivalHistory
<1>11. CASE ResetChanges
  BY <1>11, ResetHistory
<1>12. CASE SaveChanges
  BY <1>1, <1>2, <1>12, SaveHistory
<1>13. CASE RowSaved
  BY <1>1, <1>2, <1>13, SavedHistory
<1>14. CASE ApplyRow
  BY <1>1, <1>2, <1>14, RowHistory
<1> QED
  BY <1>3, <1>4, <1>5, <1>7, <1>8, <1>9, <1>10, <1>11, <1>12, <1>13, <1>14, TableCases
     DEF AtTheTable

LEMMA StepHistory == HInv /\ [AssistantNext]_assistantVars => HInv'
<1> SUFFICES ASSUME HInv, [AssistantNext]_assistantVars PROVE HInv'
  OBVIOUS
<1>1. /\ IInv /\ CaseTypes /\ EditTypes /\ FetchTypes /\ ChatTypes /\ OpenInv
      /\ RowTypes /\ EditValues /\ StackTypes /\ HistoryInv
  BY DEF HInv, IInv, TypesInv
<1>2. IInv' /\ RowTypes' /\ StackTypes'
  BY <1>1, StepInv, RowTypesStep, StackTypesStep
<1>3. EditValues'
  <2>1. ChangeTypes' /\ SaveTypes'
    BY <1>1, ChangeTypesStep
  <2>2. RequestTypes' /\ ToolTypes'
    BY <1>1, RequestTypesStep, ToolTypesStep DEF EditValues
  <2> QED
    BY <2>1, <2>2 DEF EditValues
<1>4. HistoryInv'
  <2>1. CASE UNCHANGED assistantVars
    <3>1. UNCHANGED <<harm, friction, changes, undoStack, redoStack, save, server, session,
                      objects, shown, request>>
      BY <2>1 DEF assistantVars, vars, caseVars, sessionVars, fetchVars, tableVars
    <3>2. Here' = Here /\ Owner' = Owner /\ SameIds(Rows', Rows) /\ (InFlight' <=> InFlight)
      BY <3>1 DEF Here, Owner, Rows, SameIds, InFlight
    <3> QED
      BY <1>1, <3>1, <3>2, QuietHistory
  <2>2. CASE AssistantSteps
    BY <1>1, <2>2, BesideTheTable, ChatHistory
  <2>3. CASE Next /\ UNCHANGED agentVars /\ Strains({})
    BY <2>3, TableHistory
  <2> QED
    BY <2>1, <2>2, <2>3, AssistantCases DEF AssistantSteps
<1> QED
  BY <1>2, <1>3, <1>4 DEF HInv

LEMMA RestAgrees == HInv => HistoryStartsAtTheTable
<1> SUFFICES ASSUME HInv, AtRest, harm = {}, friction = {}, NEW i \in DOMAIN Rows
             PROVE  HistoryAgrees(i)
  BY DEF HistoryStartsAtTheTable
<1>1. IInv /\ EditValues /\ StackTypes /\ HistoryInv
  BY DEF HInv
<1>2. Rows = Here
  BY <1>1, RestIsCurrent DEF Sound, Free_of, IsCurrent, Rows, Here
<1>3. HistoryLeads
  BY <1>1, AnyHistory DEF Pure
<1>4. Targets[i] = Cell(i)
  BY <1>2 DEF Targets, Cell
<1>5. ASSUME NEW q \in Seq(Cmd), NEW to, NEW from, LeadsBack(q, to, from, Targets),
             NEW k \in DOMAIN q, IsNext(q, i, k)
      PROVE  q[k][to] = Cell(i) /\ q[k] \in Cmd
  <2>1. k \in 1..Len(q) /\ q[k] \in Cmd /\ q[k].row = i
    BY <1>5, InSet, ElementOfSeq DEF IsNext
  <2>2. IsNext(q, q[k].row, k)
    BY <1>5, <2>1
  <2> QED
    BY <1>4, <1>5, <2>1, <2>2 DEF LeadsBack
<1>6. ASSUME NEW k \in DOMAIN undoStack, IsNext(undoStack, i, k)
      PROVE  undoStack[k].new = Cell(i)
  <2>1. undoStack[k]["new"] = Cell(i) /\ undoStack[k] \in Cmd
    BY <1>1, <1>3, <1>5, <1>6 DEF HistoryLeads, StackTypes
  <2> QED
    BY <2>1, Fields
<1>7. ASSUME NEW k \in DOMAIN redoStack, IsNext(redoStack, i, k)
      PROVE  redoStack[k].prev = Cell(i)
  <2>1. redoStack[k]["prev"] = Cell(i) /\ redoStack[k] \in Cmd
    BY <1>1, <1>3, <1>5, <1>7 DEF HistoryLeads, StackTypes
  <2> QED
    BY <2>1, Fields
<1> QED
  BY <1>6, <1>7 DEF HistoryAgrees

\* Undo and redo start from what the table shows, whatever was edited, merged,
\* saved, undone and refetched before, and for a history of any length: the
\* commands of each row lead back, one after the other, from the value the row
\* has once the pending changes are saved.
THEOREM HistoryFollows == AssistantSpec => []HistoryStartsAtTheTable
<1>1. AssistantSpec => []HInv
  BY InitHistory, StepHistory, PTL DEF AssistantSpec
<1> QED
  BY <1>1, RestAgrees, PTL
=============================================================================
