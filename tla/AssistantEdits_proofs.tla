------------------------ MODULE AssistantEdits_proofs ------------------------
(* Theorems about Assistant: what becomes of the values a user gives, and   *)
(* the types.                                                              *)
EXTENDS Assistant_proofs

\* Nothing has happened that NoEditIsForgotten excepts.
Untroubled ==
    /\ Free_of({"midsave", "beside", "shifted", "refused", "unread",
                "overtaken", "switched", "crossed"})
    /\ friction \subseteq {"rewritten"}

\* The assistant works only where the user does not.
ClashInv == Clash => "clash" \in friction

\* Nobody has given a value to an element of a case that is not loaded yet, or
\* that only the call knows which makes it.
New(s) == opening[s] \in {"closed", "sent"} \/ \E t \in Turns : turn[t].call.made = s
FirstInv == \A s \in Sessions : New(s) => \A e \in Elements : wanted[s][e] = FirstValue
TurnInv == \A t \in Turns : turn[t].to # None => ~New(turn[t].to)

\* Pending changes are of the rows on display, which are of this session.
PendInv ==
    /\ changes # <<>> => Owner = session /\ ~InFlight
    /\ \A i \in DOMAIN changes \cap DOMAIN Rows : changes[i] = wanted[session][Rows[i].id]
EditorInv == editing # NoEdit => editing.row \in DOMAIN Rows /\ Rows[editing.row].id = editing.id

\* A save sends what is wanted, and a request asks for it.
SendInv ==
    Saving => /\ changes # <<>> /\ save.emptied = {} /\ save.to = session
              /\ save.todo \subseteq DOMAIN changes \cap DOMAIN Rows
              /\ SameIds(objects[save.of].rows, Rows)
              /\ save.id \in Elements /\ save.value = wanted[session][save.id]
AskInv ==
    /\ request.at = "sent" => /\ request.to \in Sessions
                              /\ request.act # "delete" => request.id \in Elements
                                   /\ request.value = wanted[request.to][request.id]
    /\ request.at = "open" /\ request.act = "modify" => request.id \in Elements

\* The value of the element e is on its way to its row in the case of s.
Unsaved(e) ==
    \/ ~Saving /\ \E i \in DOMAIN changes \cap DOMAIN Rows : Rows[i].id = e
    \/ Saving /\ save.at = "sent" /\ save.id = e
    \/ Saving /\ \E i \in save.todo : Rows[i].id = e
Comes(s, e) ==
    \/ s = session /\ Unsaved(e)
    \/ request.at = "sent" /\ request.to = s /\ request.id = e
Kept(s) == \A i \in DOMAIN server[s] :
    \/ server[s][i].value = wanted[s][server[s][i].id]
    \/ Comes(s, server[s][i].id)

KeptInv ==
    Untroubled => /\ FirstInv /\ PendInv /\ EditorInv /\ SendInv /\ AskInv
                  /\ \A s \in Sessions : Kept(s)

WantedTypes == wanted \in [Sessions -> [Elements -> Values]]
-----------------------------------------------------------------------------
(* Cases nobody has edited.                                                *)

\* What a step makes of a call: it ends, or keeps what it made.
LEMMA StaysNew ==
  ASSUME ChatTypes, NEW t \in Turns, NEW n \in TurnState, Becomes(t, n),
         n.call.made \in {None, turn[t].call.made},
         \A s \in Sessions : opening[s] \notin {"closed", "sent"} =>
            opening'[s] \notin {"closed", "sent"}
  PROVE  \A s \in Sessions : New(s)' => New(s)
<1> SUFFICES ASSUME NEW s \in Sessions, New(s)' PROVE New(s)
  OBVIOUS
<1>1. s # None
  BY NoneAssumption
<1>2. ASSUME NEW u \in Turns, turn'[u].call.made = s
      PROVE  turn[u].call.made = s
  BY <1>1, <1>2, TurnMoves
<1> QED
  BY <1>2 DEF New

LEMMA NewOpens ==
  ASSUME UNCHANGED turn,
         \A s \in Sessions : opening'[s] \in {"closed", "sent"} =>
            opening[s] \in {"closed", "sent"}
  PROVE  \A s \in Sessions : New(s)' => New(s)
  BY DEF New

\* What the user does at the table changes no case.
LEMMA CasesStay ==
  ASSUME AtTheTable
  PROVE  UNCHANGED caseVars
<1>1. CASE \/ \E i \in Positions : OpenEditor(i)
           \/ \E v \in Values : SaveEdit(v)
           \/ SaveEditUnchanged \/ CancelEdit \/ HandleUndo \/ HandleRedo \/ Pause
  BY <1>1 DEF OpenEditor, SaveEdit, SaveEditUnchanged, CancelEdit, HandleUndo, HandleRedo,
              Shortcut, Pause
<1>2. CASE OpenOrClose
  BY <1>2, DialogSteps
<1>3. CASE Apply
  BY <1>3, ApplySteps DEF SendRequest
<1> QED
  BY <1>1, <1>2, <1>3 DEF AtTheTable

LEMMA NewStays ==
  ASSUME ChatTypes, CaseTypes, [AssistantNext]_assistantVars
  PROVE  \A s \in Sessions : New(s)' => New(s)
<1>1. CASE UNCHANGED <<turn, opening>>
  BY <1>1, NewOpens
<1>2. ASSUME NEW s \in Sessions, NEW stage,
             opening' = [opening EXCEPT ![s] = stage], UNCHANGED turn,
             opening[s] \in {"closed", "sent"} \/ stage \notin {"closed", "sent"}
      PROVE  \A x \in Sessions : New(x)' => New(x)
  <2>1. \A x \in Sessions : opening'[x] = IF x = s THEN stage ELSE opening[x]
    BY <1>2 DEF CaseTypes
  <2> QED
    BY <1>2, <2>1, NewOpens
<1>3. CASE Next /\ UNCHANGED agentVars
  <2>1. CASE UNCHANGED opening
    BY <1>1, <1>3, <2>1 DEF agentVars
  <2>2. ASSUME NEW s \in Sessions, \/ OpenCase(s) \/ LoadCase(s) \/ OpenFails(s)
                                   \/ SessionCreated(s) \/ FetchOpened(s)
        PROVE  \A x \in Sessions : New(x)' => New(x)
    <3>1. \E stage : /\ opening' = [opening EXCEPT ![s] = stage]
                     /\ opening[s] \in {"closed", "sent"} \/ stage \notin {"closed", "sent"}
      BY <2>2 DEF OpenCase, LoadCase, OpenFails, SessionCreated, FetchOpened, StageTo
    <3> QED
      BY <1>2, <1>3, <3>1 DEF agentVars
  <2>3. CASE AtTheTable
    <3>1. UNCHANGED opening
      BY <2>3, CasesStay DEF caseVars, sessionVars
    <3> QED
      BY <2>1, <3>1
  <2>4. CASE \/ ResetChanges \/ SaveChanges \/ RowSaved \/ SaveFails
             \/ RequestDone \/ ApplyRow \/ ApplyRequest \/ RefuseRow \/ RefuseRequest
    BY <2>1, <2>4 DEF ResetChanges, SaveChanges, RowSaved, SaveFails, RequestDone, ApplyRow,
                      ApplyRequest, RefuseRow, RefuseRequest, caseVars, sessionVars
  <2>5. CASE \/ \E k \in DOMAIN reading : NetworkArrives(k)
             \/ \E a \in DOMAIN asked : ReadNetwork(a) \/ NetworkFails(a)
    BY <2>1, <2>5 DEF NetworkArrives, ReadNetwork, NetworkFails, caseVars, sessionVars
  <2> QED
    BY <1>3, <2>2, <2>3, <2>4, <2>5, TableCases
<1>4. CASE StopGeneration \/ FetchDue
  BY <1>1, <1>4 DEF StopGeneration, FetchDue, vars, caseVars, sessionVars
<1>5. ASSUME NEW t \in Turns, ReadEvent(t)
      PROVE  \A x \in Sessions : New(x)' => New(x)
  <2>1. UNCHANGED turn
    BY <1>5 DEF ReadEvent
  <2>2. \/ UNCHANGED opening
        \/ opening' = [opening EXCEPT ![Head(stream[t]).opened] = "open"]
    BY <1>5 DEF ReadEvent, ToolResults, StageTo, sessionVars
  <2>3. \A x \in Sessions : opening'[x] \in {opening[x], "open"}
    BY <2>2 DEF CaseTypes
  <2> QED
    BY <2>1, <2>3, NewOpens
<1>6. ASSUME NEW t \in Turns, NEW n \in TurnState, Becomes(t, n), UNCHANGED opening,
             n.call.made \in {None, turn[t].call.made}
      PROVE  \A s \in Sessions : New(s)' => New(s)
  BY <1>6, StaysNew
<1>7. ASSUME NEW t \in Turns, SendMessage(t) \/ CallTools(t) \/ Answer(t)
      PROVE  \A s \in Sessions : New(s)' => New(s)
  <2>1. \E n \in TurnState : Becomes(t, n) /\ n.call.made \in {None, turn[t].call.made}
    <3>1. CASE SendMessage(t)
      BY <3>1, Begins DEF Keeps
    <3>2. CASE CallTools(t)
      BY <3>2, CallsTools
    <3>3. CASE Answer(t)
      BY <3>3, AnswersText DEF Keeps
    <3> QED
      BY <1>7, <3>1, <3>2, <3>3
  <2>2. UNCHANGED opening
    BY <1>7 DEF SendMessage, CallTools, Answer, vars, caseVars, sessionVars
  <2> QED
    BY <1>6, <2>1, <2>2
<1>8. ASSUME NEW t \in Turns, CallEnds(t) \/ Unanswered(t) \/ ApplyCall(t)
      PROVE  \A s \in Sessions : New(s)' => New(s)
  <2>1. \E n \in TurnState : Becomes(t, n) /\ n.call.made \in {None, turn[t].call.made}
    <3>1. CASE CallEnds(t)
      BY <3>1, Ends DEF CallOver
    <3>2. CASE Unanswered(t)
      BY <3>2, GoesUnanswered DEF Keeps, CallOver
    <3>3. CASE ApplyCall(t)
      BY <3>3, Applies DEF Keeps
    <3> QED
      BY <1>8, <3>1, <3>2, <3>3
  <2>2. UNCHANGED opening
    BY <1>8 DEF CallEnds, Unanswered, ApplyCall, vars, caseVars, sessionVars
  <2> QED
    BY <1>6, <2>1, <2>2
<1>9. ASSUME NEW t \in Turns, NEW x \in Sessions, OpenForChat(t, x), NEW s \in Sessions, New(s)'
      PROVE  New(s)
  <2>1. PICK n \in TurnState : Becomes(t, n) /\ n.call.made = x
    BY <1>9, Opens DEF Keeps
  <2>2. /\ opening' = [opening EXCEPT ![x] = "apart"]
        /\ opening[x] = "closed" \/ turn[t].call.made = x
    BY <1>9, Opens
  <2>3. CASE s = x
    BY <2>2, <2>3 DEF New
  <2>4. CASE s # x
    <3>1. opening'[s] = opening[s]
      BY <2>2, <2>4 DEF CaseTypes
    <3>2. \A u \in Turns : turn'[u].call.made = s => turn[u].call.made = s
      BY <2>1, <2>4, TurnMoves
    <3> QED
      BY <1>9, <3>1, <3>2 DEF New
  <2> QED
    BY <2>3, <2>4
<1> QED
  BY <1>1, <1>3, <1>4, <1>5, <1>7, <1>8, <1>9, AssistantCases
     DEF assistantVars, agentVars, vars, caseVars, sessionVars

-----------------------------------------------------------------------------
(* The session of a turn.                                                  *)

LEMMA TurnBecomes ==
  ASSUME ChatTypes, NEW t \in Turns, NEW n, Becomes(t, n)
  PROVE  turn'[t] = n /\ \A u \in Turns : u # t => turn'[u] = turn[u]
  BY DEF ChatTypes, Becomes

LEMMA TurnGoesOn ==
  ASSUME ChatTypes, NEW t \in Turns, NEW good, NEW opened, NextCall(t, good, opened)
  PROVE  /\ turn'[t].to = IF opened = None THEN turn[t].to ELSE opened
         /\ \A u \in Turns : u # t => turn'[u] = turn[u]
<1>1. turn[t] \in TurnState
  BY DEF ChatTypes
<1> DEFINE first == IF turn[t].opened = None THEN opened ELSE turn[t].opened
           so_far == [turn[t] EXCEPT !.good = @ \/ good, !.opened = first,
                                     !.to = IF opened = None THEN @ ELSE opened]
<1>2. /\ so_far.to = IF opened = None THEN turn[t].to ELSE opened
      /\ DOMAIN so_far = {"at", "to", "rounds", "more", "call", "good", "opened"}
  BY <1>1 DEF TurnState
<1>3. \E n : Becomes(t, n) /\ n.to = so_far.to
  <2>1. \/ \E c \in Tools : Becomes(t, [so_far EXCEPT !.more = @ - 1, !.call = Sent(c)])
        \/ Becomes(t, [so_far EXCEPT !.at = "thinking", !.call = NoCall])
    BY DEF NextCall
  <2> HIDE DEF so_far
  <2>2. CASE Becomes(t, [so_far EXCEPT !.at = "thinking", !.call = NoCall])
    <3>1. [so_far EXCEPT !.at = "thinking", !.call = NoCall].to = so_far.to
      BY <1>2
    <3> QED
      BY <2>2, <3>1
  <2>3. ASSUME NEW c \in Tools, Becomes(t, [so_far EXCEPT !.more = @ - 1, !.call = Sent(c)])
        PROVE  \E n : Becomes(t, n) /\ n.to = so_far.to
    <3>1. [so_far EXCEPT !.more = @ - 1, !.call = Sent(c)].to = so_far.to
      BY <1>2
    <3> QED
      BY <2>3, <3>1
  <2> QED
    BY <2>1, <2>2, <2>3
<1> HIDE DEF so_far
<1> QED
  BY <1>2, <1>3, TurnBecomes

\* A turn goes to the session it began in, or to the one it has opened last.
LEMMA TurnsGo ==
  ASSUME ChatTypes, AssistantSteps, NEW t \in Turns
  PROVE  \/ turn'[t].to = turn[t].to
         \/ turn'[t].to = session /\ UNCHANGED opening /\ \E u \in Turns : SendMessage(u)
         \/ turn'[t].to = turn[t].call.made /\ CallEnds(t)
<1>1. CASE UNCHANGED turn
  BY <1>1
<1>2. CASE StopGeneration \/ FetchDue \/ \E u \in Turns : ReadEvent(u)
  BY <1>1, <1>2 DEF StopGeneration, FetchDue, ReadEvent
<1>3. ASSUME NEW u \in Turns, NEW n, Becomes(u, n), n.to = turn[u].to
      PROVE  turn'[t].to = turn[t].to
  BY <1>3, TurnBecomes
<1>4. ASSUME NEW u \in Turns PROVE turn[u] \in TurnState
  BY DEF ChatTypes
<1>5. ASSUME NEW u \in Turns, SendMessage(u)
      PROVE  turn'[t].to \in {turn[t].to, session} /\ UNCHANGED opening
  <2>1. Becomes(u, [turn[u] EXCEPT !.at = "thinking", !.to = session]) /\ UNCHANGED opening
    BY <1>5 DEF SendMessage, vars, caseVars, sessionVars
  <2>2. [turn[u] EXCEPT !.at = "thinking", !.to = session].to = session
    BY <1>4 DEF TurnState
  <2> QED
    BY <2>1, <2>2, TurnBecomes
<1>6. ASSUME NEW u \in Turns, CallTools(u)
      PROVE  turn'[t].to = turn[t].to
  <2>1. PICK n, c : Becomes(u, [turn[u] EXCEPT !.at = "calling", !.more = n, !.call = c,
                                     !.rounds = @ + 1, !.good = FALSE,
                                     !.opened = None])
    BY <1>6 DEF CallTools
  <2>2. [turn[u] EXCEPT !.at = "calling", !.more = n, !.call = c, !.rounds = @ + 1,
                        !.good = FALSE, !.opened = None].to = turn[u].to
    BY <1>4 DEF TurnState
  <2> QED
    BY <1>3, <2>1, <2>2
<1>7. ASSUME NEW u \in Turns, Answer(u)
      PROVE  turn'[t].to = turn[t].to
  <2>1. [turn[u] EXCEPT !.at = "ended"].to = turn[u].to
    BY <1>4 DEF TurnState
  <2> QED
    BY <1>3, <1>7, <2>1 DEF Answer
<1>8. ASSUME NEW u \in Turns, CallEnds(u)
      PROVE  \/ turn'[t].to = turn[t].to
             \/ t = u /\ turn'[t].to = turn[t].call.made
  <2>1. PICK good, opened : NextCall(u, good, opened) /\ opened \in {None, turn[u].call.made}
    BY <1>8 DEF CallEnds
  <2> QED
    BY <2>1, TurnGoesOn
<1>9. ASSUME NEW u \in Turns, Unanswered(u)
      PROVE  turn'[t].to = turn[t].to
  <2>1. \/ Becomes(u, [turn[u] EXCEPT !.call.at = "sent", !.call.tries = @ + 1])
        \/ NextCall(u, FALSE, None)
    BY <1>9 DEF Unanswered
  <2>2. [turn[u] EXCEPT !.call.at = "sent", !.call.tries = @ + 1].to = turn[u].to
    BY <1>4 DEF TurnState
  <2> QED
    BY <1>3, <2>1, <2>2, TurnGoesOn
<1>10. ASSUME NEW u \in Turns, ApplyCall(u)
       PROVE  turn'[t].to = turn[t].to
  <2>1. PICK a : Becomes(u, [turn[u] EXCEPT !.call.at = a])
    BY <1>10 DEF ApplyCall
  <2>2. [turn[u] EXCEPT !.call.at = a].to = turn[u].to
    BY <1>4 DEF TurnState
  <2> QED
    BY <1>3, <2>1, <2>2
<1>11. ASSUME NEW u \in Turns, NEW s \in Sessions, OpenForChat(u, s)
       PROVE  turn'[t].to = turn[t].to
  <2>1. Becomes(u, [turn[u] EXCEPT !.call.at = "done", !.call.made = s])
    BY <1>11 DEF OpenForChat
  <2>2. [turn[u] EXCEPT !.call.at = "done", !.call.made = s].to = turn[u].to
    BY <1>4 DEF TurnState
  <2> QED
    BY <1>3, <2>1, <2>2
<1> QED
  BY <1>2, <1>5, <1>6, <1>7, <1>8, <1>9, <1>10, <1>11 DEF AssistantSteps

LEMMA NotNew ==
  ASSUME CaseTypes, OpenInv
  PROVE  ~New(session)
  BY DEF CaseTypes, OpenInv, New

LEMMA TurnStep ==
  ASSUME ChatTypes, CaseTypes, OpenInv, TurnInv, [AssistantNext]_assistantVars
  PROVE  TurnInv'
<1> SUFFICES ASSUME NEW t \in Turns, NEW s, turn'[t].to = s, s # None
             PROVE  ~New(s)'
  BY DEF TurnInv
<1>1. turn' \in [Turns -> TurnState]
  BY ChatTypesStep DEF ChatTypes
<1>2. s \in Sessions
  BY <1>1 DEF TurnState
<1>3. New(s)' => New(s)
  BY <1>2, NewStays
<1>4. CASE turn'[t].to = turn[t].to
  BY <1>2, <1>3, <1>4 DEF TurnInv
<1>5. CASE turn'[t].to = session
  BY <1>2, <1>3, <1>5, NotNew
<1>6. CASE turn'[t].to = turn[t].call.made /\ CallEnds(t)
  <2>1. s \in Sessions /\ opening[s] = "apart" /\ \A u \in Turns : u # t => turn[u].call.made # s
    BY <1>2, <1>6 DEF OpenInv
  <2>2. PICK n : Becomes(t, n) /\ n.call.made = None /\ UNCHANGED opening
    BY <1>6, Ends DEF CallOver, vars, caseVars, sessionVars
  <2>3. \A u \in Turns : turn'[u].call.made # s
    BY <2>1, <2>2, TurnBecomes, NoneAssumption
  <2> QED
    BY <1>6, <2>1, <2>2, <2>3 DEF New
<1> QED
  <2>1. CASE UNCHANGED turn
    BY <1>4, <2>1
  <2>2. CASE AssistantSteps
    BY <1>4, <1>5, <1>6, <2>2, TurnsGo
  <2> QED
    BY <2>1, <2>2, AssistantCases DEF assistantVars, agentVars, AssistantSteps

LEMMA ClashStep ==
  ASSUME ClashInv, [AssistantNext]_assistantVars
  PROVE  ClashInv'
<1>1. ASSUME NEW kinds, Strains(kinds)
      PROVE  ClashInv'
  BY <1>1 DEF Strains, When, ClashInv
<1>2. CASE UNCHANGED assistantVars
  <2>1. UNCHANGED <<changes, editing, save, request, turn, stream, due, friction>>
    BY <1>2 DEF assistantVars, vars, agentVars, tableVars
  <2>2. Clash' <=> Clash
    BY <2>1 DEF Clash, Saving, InFlight, Assisting, Running
  <2> QED
    BY <2>1, <2>2 DEF ClashInv
<1>3. CASE AssistantSteps
  BY <1>1, <1>3 DEF AssistantSteps, StopGeneration, FetchDue, SendMessage, ReadEvent, CallTools,
                    Answer, CallEnds, Unanswered, ApplyCall, OpenForChat
<1> QED
  BY <1>1, <1>2, <1>3, AssistantCases DEF AssistantSteps

-----------------------------------------------------------------------------
(* The values wanted.                                                      *)

LEMMA WantedSet ==
  ASSUME WantedTypes, NEW s, NEW e, NEW v \in Values, wanted' = [wanted EXCEPT ![s][e] = v]
  PROVE  /\ WantedTypes'
         /\ \A x \in Sessions : x # s => wanted'[x] = wanted[x]
         /\ \A x \in Elements : s \in Sessions => wanted'[s][x] = IF x = e THEN v ELSE wanted[s][x]
  BY DEF WantedTypes

LEMMA ValueIn ==
  ASSUME NEW table, Proper(table), NEW i \in DOMAIN table
  PROVE  ValueAt(table, table[i].id) = table[i].value
<1>1. \A j \in DOMAIN table : table[j].id = table[i].id => j = i
  BY ProperRows DEF Proper
<1>2. ToSet(table) = {table[j] : j \in DOMAIN table}
  BY ProperRows, InSet
<1>3. PICK r : r = CHOOSE c \in ToSet(table) : c.id = table[i].id
  OBVIOUS
<1>4. r \in ToSet(table) /\ r.id = table[i].id
  BY <1>2, <1>3
<1>5. r = table[i]
  BY <1>1, <1>2, <1>4
<1> QED
  BY <1>3, <1>5 DEF ValueAt

LEMMA WantedReset ==
  ASSUME WantedTypes, RowTypes, ResetChanges
  PROVE  /\ WantedTypes'
         /\ \A s \in Sessions : s # Owner => wanted'[s] = wanted[s]
         /\ \A e \in Elements : Owner \in Sessions =>
               wanted'[Owner][e] = IF /\ Has(server[Owner], e)
                                      /\ \E i \in DOMAIN changes \cap DOMAIN Rows : Rows[i].id = e
                                   THEN ValueAt(server[Owner], e) ELSE wanted[Owner][e]
<1> DEFINE there(e) == /\ Has(server[Owner], e)
                       /\ \E i \in DOMAIN changes \cap DOMAIN Rows : Rows[i].id = e
           row == [e \in Elements |-> IF there(e) THEN ValueAt(server[Owner], e) ELSE wanted[Owner][e]]
<1>1. Owner \in Sessions => wanted' = [wanted EXCEPT ![Owner] = row]
  BY DEF ResetChanges, WantedTypes
<1>2. Owner \notin Sessions => wanted' = wanted
  BY DEF ResetChanges, WantedTypes
<1>3. ASSUME Owner \in Sessions, NEW e \in Elements, Has(server[Owner], e)
      PROVE  ValueAt(server[Owner], e) \in Values
  <2>1. Proper(server[Owner])
    BY <1>3 DEF RowTypes
  <2>2. PICK i \in DOMAIN server[Owner] : server[Owner][i].id = e
    BY <1>3, <2>1, ProperRows
  <2> QED
    BY <2>1, <2>2, ValueIn, ProperRows
<1>4. Owner \in Sessions => row \in [Elements -> Values]
  BY <1>3 DEF WantedTypes
<1> HIDE DEF row
<1>5. WantedTypes'
  BY <1>1, <1>2, <1>4 DEF WantedTypes
<1>6. \A s \in Sessions : s # Owner => wanted'[s] = wanted[s]
  BY <1>1, <1>2 DEF WantedTypes
<1>7. Owner \in Sessions => wanted'[Owner] = row
  BY <1>1 DEF WantedTypes
<1> QED
  BY <1>5, <1>6, <1>7 DEF row

LEMMA WantedStep ==
  ASSUME RowTypes, FetchTypes, EditValues, StackTypes, WantedTypes,
         [AssistantNext]_assistantVars
  PROVE  WantedTypes'
<1>1. CASE UNCHANGED wanted
  BY <1>1 DEF WantedTypes
<1>2. ASSUME \E s, e, v : v \in Values /\ wanted' = [wanted EXCEPT ![s][e] = v]
      PROVE  WantedTypes'
  BY <1>2, WantedSet
<1>3. shown \in Answers /\ \A i \in DOMAIN Rows : Rows[i].value \in Values
  BY ProperRows DEF RowTypes, FetchTypes, Rows
<1>4. ASSUME NEW i, NEW v \in Values, Want(i, v)
      PROVE  WantedTypes'
  BY <1>1, <1>2, <1>4 DEF Want
<1>5. ASSUME NEW q \in Seq(Cmd), q # <<>>
      PROVE  Last(q).prev \in Values /\ Last(q).new \in Values
  <2>1. Last(q) \in Cmd
    BY <1>5, LastOff
  <2> QED
    BY <2>1 DEF Cmd
<1>6. CASE AtTheTable
  <2>1. CASE \/ \E i \in Positions : OpenEditor(i)
             \/ OpenOrClose \/ DeleteElement \/ CancelEdit \/ Pause
    BY <1>1, <2>1, DialogSteps DEF OpenEditor, DeleteElement, CancelEdit, Pause
  <2>2. ASSUME NEW v \in Values, SaveEdit(v)
        PROVE  WantedTypes'
    BY <1>2, <2>2 DEF SaveEdit
  <2>3. CASE SaveEditUnchanged
    BY <1>1, <1>2, <1>3, <2>3 DEF SaveEditUnchanged
  <2>4. CASE HandleUndo
    BY <1>4, <1>5, <2>4 DEF HandleUndo, Undo, Revert, StackTypes
  <2>5. CASE HandleRedo
    BY <1>4, <1>5, <2>5 DEF HandleRedo, Redo, Execute, StackTypes
  <2>6. CASE \/ \E v \in Values : ParameterApply(v)
             \/ \E e \in Elements, v \in Values : AddElement(e, v)
    BY <1>2, <2>6 DEF ParameterApply, AddElement
  <2> QED
    BY <1>6, <2>1, <2>2, <2>3, <2>4, <2>5, <2>6 DEF AtTheTable, Apply
<1>7. CASE ResetChanges
  BY <1>7, WantedReset
<1>8. CASE \/ SaveChanges \/ RowSaved \/ SaveFails
           \/ RequestDone \/ ApplyRow \/ ApplyRequest \/ RefuseRow \/ RefuseRequest
           \/ \E s \in Sessions : OpenCase(s) \/ LoadCase(s) \/ OpenFails(s)
           \/ \E s \in Sessions : SessionCreated(s) \/ FetchOpened(s)
           \/ \E k \in DOMAIN reading : NetworkArrives(k)
           \/ \E a \in DOMAIN asked : ReadNetwork(a) \/ NetworkFails(a)
  BY <1>1, <1>8 DEF SaveChanges, RowSaved, SaveFails, RequestDone, ApplyRow, ApplyRequest,
                    RefuseRow, RefuseRequest, OpenCase, LoadCase, OpenFails, SessionCreated,
                    FetchOpened, NetworkArrives, ReadNetwork, NetworkFails
<1>9. CASE UNCHANGED vars \/ StopGeneration \/ FetchDue
           \/ \E t \in Turns : \/ SendMessage(t) \/ ReadEvent(t) \/ CallTools(t) \/ Answer(t)
                               \/ CallEnds(t) \/ Unanswered(t)
                               \/ \E s \in Sessions : OpenForChat(t, s)
  BY <1>1, <1>9 DEF StopGeneration, FetchDue, SendMessage, ReadEvent, CallTools, Answer, CallEnds,
                    Unanswered, OpenForChat, vars
<1>10. ASSUME NEW t \in Turns, ApplyCall(t)
       PROVE  WantedTypes'
  <2> DEFINE c == turn[t].call.tool
  <2>1. /\ turn[t].call.at = "sent"
        /\ UNCHANGED wanted \/ (c.value # None /\ wanted' = [wanted EXCEPT ![turn[t].to][c.id] = c.value])
    BY <1>10 DEF ApplyCall
  <2>2. c \in Tools
    BY <2>1 DEF EditValues, ToolTypes
  <2>3. c.value \in Values \cup {None}
    BY <2>2 DEF Tools, Call
  <2> QED
    BY <1>1, <1>2, <2>1, <2>3
<1> QED
  BY <1>6, <1>7, <1>8, <1>9, <1>10, AssistantCases, TableCases DEF assistantVars

-----------------------------------------------------------------------------
(* Steps that give no element a value.                                     *)

LEMMA UntroubledBefore ==
  ASSUME harm \subseteq harm', friction \subseteq friction', Untroubled'
  PROVE  Untroubled
  BY DEF Untroubled, Free_of

LEMMA UnsavedMeans ==
  ASSUME SendInv, NEW e, Unsaved(e)
  PROVE  changes # <<>>
<1>1. Saving => changes # <<>>
  BY DEF SendInv
<1>2. \A i : i \in DOMAIN changes => changes # <<>>
  BY NoChanges
<1> QED
  BY <1>1, <1>2 DEF Unsaved

\* The case of s is as it was, or as it has been wanted from the start.
Untouched(s) ==
    \/ server'[s] = server[s]
    \/ \A i \in DOMAIN server'[s] : server'[s][i].value = wanted[s][server'[s][i].id]

\* The changes and the save are of the same rows still.
SameRows ==
    /\ changes # <<>> \/ Saving => UNCHANGED session
    /\ changes # <<>> => Owner' = Owner /\ SameIds(Rows, Rows')
    /\ Saving => objects'[save.of] = objects[save.of]

SameRequest ==
    \/ UNCHANGED request
    \/ /\ request.at # "sent" /\ request'.at # "sent" /\ (InFlight' => InFlight)
       /\ request'.at = "open" /\ request'.act = "modify" => request'.id \in Elements

LEMMA QuietKept ==
  ASSUME KeptInv, harm \subseteq harm', friction \subseteq friction',
         UNCHANGED <<wanted, save, changes>>,
         \A s \in Sessions : New(s)' => New(s),
         Untroubled' => /\ EditorInv' /\ SameRows /\ SameRequest
                        /\ \A s \in Sessions : Untouched(s)
  PROVE  KeptInv'
<1> SUFFICES ASSUME Untroubled'
             PROVE  /\ FirstInv' /\ PendInv' /\ EditorInv' /\ SendInv' /\ AskInv'
                    /\ \A s \in Sessions : Kept(s)'
  BY DEF KeptInv
<1>1. /\ FirstInv /\ PendInv /\ EditorInv /\ SendInv /\ AskInv
      /\ \A s \in Sessions : Kept(s)
  BY UntroubledBefore DEF KeptInv
<1>2. /\ EditorInv' /\ SameRows /\ SameRequest
      /\ \A s \in Sessions : Untouched(s)
  OBVIOUS
<1>3. Saving => changes # <<>>
  BY <1>1 DEF SendInv
<1>4. Saving' <=> Saving
  BY DEF Saving
<1>5. \A i : i \in DOMAIN changes => changes # <<>>
  BY NoChanges
<1>6. FirstInv'
  BY <1>1 DEF FirstInv
<1>7. InFlight' => InFlight
  BY <1>2 DEF SameRequest, InFlight
<1>8. PendInv'
  <2>1. changes # <<>> => Owner' = session' /\ ~InFlight'
    BY <1>1, <1>2, <1>7 DEF PendInv, SameRows
  <2>2. ASSUME NEW i \in DOMAIN changes \cap DOMAIN Rows'
        PROVE  changes[i] = wanted[session'][Rows'[i].id]
    <3>1. UNCHANGED session /\ SameIds(Rows, Rows')
      BY <1>2, <1>5, <2>2 DEF SameRows
    <3>2. i \in DOMAIN changes \cap DOMAIN Rows /\ Rows'[i].id = Rows[i].id
      BY <2>2, <3>1 DEF SameIds
    <3> QED
      BY <1>1, <3>1, <3>2 DEF PendInv
  <2> QED
    BY <2>1, <2>2 DEF PendInv
<1>9. SendInv'
  <2> SUFFICES ASSUME Saving PROVE SendInv'
    BY <1>4 DEF SendInv
  <2>1. /\ changes # <<>> /\ UNCHANGED session /\ SameIds(Rows, Rows')
        /\ objects'[save.of] = objects[save.of]
    BY <1>2, <1>3 DEF SameRows
  <2>2. /\ save.emptied = {} /\ save.to = session
        /\ save.todo \subseteq DOMAIN changes \cap DOMAIN Rows
        /\ SameIds(objects[save.of].rows, Rows)
        /\ save.id \in Elements /\ save.value = wanted[session][save.id]
    BY <1>1 DEF SendInv
  <2>3. DOMAIN Rows' = DOMAIN Rows /\ SameIds(objects[save.of].rows, Rows')
    BY <2>1, <2>2 DEF SameIds
  <2> QED
    BY <2>1, <2>2, <2>3 DEF SendInv
<1>10. AskInv'
  BY <1>1, <1>2 DEF AskInv, SameRequest
<1>11. ASSUME NEW s \in Sessions, NEW e, Comes(s, e)
       PROVE  Comes(s, e)'
  <2>1. CASE s = session /\ Unsaved(e)
    <3>1. changes # <<>>
      BY <1>1, <2>1, UnsavedMeans
    <3>2. UNCHANGED session /\ SameIds(Rows, Rows')
      BY <1>2, <3>1 DEF SameRows
    <3>3. DOMAIN Rows' = DOMAIN Rows /\ \A i \in DOMAIN Rows : Rows'[i].id = Rows[i].id
      BY <3>2 DEF SameIds
    <3>4. save.todo \subseteq DOMAIN Rows \/ ~Saving
      BY <1>1 DEF SendInv
    <3>5. Unsaved(e)'
      BY <1>4, <2>1, <3>3, <3>4 DEF Unsaved
    <3> QED
      BY <2>1, <3>2, <3>5 DEF Comes
  <2>2. CASE request.at = "sent" /\ request.to = s /\ request.id = e
    BY <1>2, <2>2 DEF SameRequest, Comes
  <2> QED
    BY <1>11, <2>1, <2>2 DEF Comes
<1>12. ASSUME NEW s \in Sessions
       PROVE  Kept(s)'
  <2>1. CASE server'[s] = server[s]
    BY <1>1, <1>11, <2>1 DEF Kept
  <2>2. CASE \A i \in DOMAIN server'[s] : server'[s][i].value = wanted[s][server'[s][i].id]
    BY <2>2 DEF Kept
  <2> QED
    BY <1>2, <2>1, <2>2 DEF Untouched
<1> QED
  BY <1>2, <1>6, <1>8, <1>9, <1>10, <1>12


\* The row of an element on display is its only one.
LEMMA RowOf ==
  ASSUME RowTypes, FetchTypes, NEW i \in DOMAIN Rows
  PROVE  /\ Rows[i].id \in Elements /\ Rows[i].value \in Values
         /\ \A j \in DOMAIN Rows : Rows[j].id = Rows[i].id => j = i
<1>1. Proper(Rows)
  BY DEF RowTypes, FetchTypes, Rows
<1> QED
  BY <1>1, ProperRows DEF Proper

\* As FirstInv has it, a case that has just been made is as it is wanted.
LEMMA MadeAsWanted ==
  ASSUME FirstInv, CaseTypes, NEW s \in Sessions, New(s), NEW c \in Cases,
         server' = [server EXCEPT ![s] = c]
  PROVE  \A x \in Sessions : Untouched(x)
<1> SUFFICES ASSUME NEW x \in Sessions PROVE Untouched(x)
  OBVIOUS
<1>1. server'[x] = IF x = s THEN c ELSE server[x]
  BY DEF CaseTypes
<1>2. \A i \in DOMAIN c : c[i].value = FirstValue /\ c[i].id \in Elements
  BY CaseRows, ProperRows
<1>3. \A e \in Elements : wanted[s][e] = FirstValue
  BY DEF FirstInv
<1> QED
  BY <1>1, <1>2, <1>3 DEF Untouched

LEMMA AsideKept ==
  ASSUME KeptInv, CaseTypes, EditTypes, FetchTypes, RowTypes, StackTypes,
         harm \subseteq harm', friction \subseteq friction',
         \A s \in Sessions : New(s)' => New(s),
         \/ \E i \in Positions : OpenEditor(i)
         \/ OpenOrClose
         \/ CancelEdit \/ Pause \/ SaveFails \/ RefuseRow \/ RefuseRequest \/ RequestDone
         \/ \E s \in Sessions : OpenCase(s) \/ LoadCase(s) \/ OpenFails(s)
         \/ \E s \in Sessions : SessionCreated(s) \/ FetchOpened(s)
         \/ \E a \in DOMAIN asked : ReadNetwork(a) \/ NetworkFails(a)
  PROVE  KeptInv'
<1> SUFFICES ASSUME Untroubled'
             PROVE  KeptInv'
  BY DEF KeptInv
<1>1. FirstInv /\ EditorInv
  BY UntroubledBefore DEF KeptInv
<1>2. ASSUME UNCHANGED <<wanted, save, changes, shown>>, objects'[shown] = objects[shown],
             changes # <<>> \/ Saving => UNCHANGED session,
             Saving => objects'[save.of] = objects[save.of],
             EditorInv', SameRequest,
             \A s \in Sessions : Untouched(s)
      PROVE  KeptInv'
  <2>1. Owner' = Owner /\ SameIds(Rows, Rows')
    BY <1>2 DEF Owner, Rows, SameIds
  <2>2. SameRows
    BY <1>2, <2>1 DEF SameRows
  <2> QED
    BY <1>2, <2>2, QuietKept
<1>3. ASSUME UNCHANGED <<shown, editing>>, objects'[shown] = objects[shown]
      PROVE  EditorInv'
  BY <1>1, <1>3 DEF EditorInv, Rows
<1>4. ASSUME UNCHANGED <<wanted, save, changes, server, session, objects, shown>>,
             EditorInv', SameRequest
      PROVE  KeptInv'
  <2>1. \A s \in Sessions : Untouched(s)
    BY <1>4 DEF Untouched
  <2> QED
    BY <1>2, <1>4, <2>1
<1>5. ASSUME NEW i \in Positions, OpenEditor(i)
      PROVE  KeptInv'
  <2>1. /\ i \in DOMAIN Rows /\ editing' = [row |-> i, id |-> Rows[i].id]
        /\ UNCHANGED <<wanted, save, request, changes, server, session, objects, shown>>
    BY <1>5 DEF OpenEditor, caseVars, sessionVars, fetchVars
  <2>2. EditorInv'
    BY <2>1 DEF EditorInv, Rows
  <2> QED
    BY <1>4, <2>1, <2>2 DEF SameRequest
<1>6. CASE CancelEdit
  <2>1. /\ editing' = NoEdit
        /\ UNCHANGED <<wanted, save, request, changes, server, session, objects, shown>>
    BY <1>6 DEF CancelEdit, caseVars, sessionVars, fetchVars
  <2> QED
    BY <1>4, <2>1 DEF SameRequest, EditorInv
<1>7. CASE Pause
  BY <1>3, <1>4, <1>7 DEF Pause, SameRequest, caseVars, sessionVars, fetchVars
<1>8. CASE SaveFails \/ RefuseRow \/ RefuseRequest
  <2>1. "refused" \in harm'
    BY <1>8 DEF SaveFails, RefuseRow, RefuseRequest, EditTypes, Suffers
  <2> QED
    BY <2>1 DEF Untroubled, Free_of
<1>9. CASE RequestDone
  <2>1. /\ request.at \in {"applied", "refused"} /\ request' = NoRequest
        /\ UNCHANGED <<wanted, save, changes, editing, server, session, objects, shown>>
    BY <1>9 DEF RequestDone, caseVars, sessionVars, tableVars
  <2>2. SameRequest
    BY <2>1 DEF SameRequest, NoRequest, InFlight
  <2> QED
    BY <1>3, <1>4, <2>1, <2>2
<1>10. ASSUME NEW s \in Sessions, OpenCase(s) \/ OpenFails(s) \/ FetchOpened(s)
       PROVE  KeptInv'
  <2>1. UNCHANGED <<wanted, save, request, changes, editing, server, session, objects, shown>>
    BY <1>10 DEF OpenCase, OpenFails, FetchOpened, fetchVars, tableVars
  <2> QED
    BY <1>3, <1>4, <2>1 DEF SameRequest
<1>11. ASSUME NEW s \in Sessions, LoadCase(s)
       PROVE  KeptInv'
  <2>1. /\ opening[s] = "sent" /\ \E t \in Cases : server' = [server EXCEPT ![s] = t]
        /\ UNCHANGED <<wanted, save, request, changes, editing, session, objects, shown>>
    BY <1>11 DEF LoadCase, fetchVars, tableVars
  <2>2. \A x \in Sessions : Untouched(x)
    BY <1>1, <2>1, MadeAsWanted DEF New
  <2> QED
    BY <1>2, <1>3, <2>1, <2>2 DEF SameRequest
<1>12. ASSUME NEW s \in Sessions, SessionCreated(s)
       PROVE  KeptInv'
  <2>1. /\ SetSession(s)
        /\ UNCHANGED <<wanted, save, request, changes, editing, server, objects, shown>>
    BY <1>12 DEF SessionCreated, fetchVars, tableVars
  <2>2. changes = <<>> /\ ~Saving
    BY <2>1 DEF SetSession, Suffers, When, Untroubled, Free_of
  <2>3. \A x \in Sessions : Untouched(x)
    BY <2>1 DEF Untouched
  <2> QED
    BY <1>2, <1>3, <2>1, <2>2, <2>3 DEF SameRequest
<1>13. ASSUME NEW a \in DOMAIN asked, ReadNetwork(a)
       PROVE  KeptInv'
  <2>1. /\ UNCHANGED <<wanted, save, request, changes, editing, server, session, shown>>
        /\ \E o : objects' = [objects EXCEPT ![a] = o]
    BY <1>13 DEF ReadNetwork, caseVars, sessionVars, tableVars
  <2>2. shown # a /\ shown \in Answers /\ (Saving => save.of # a /\ save.of \in Answers)
    BY DEF FetchTypes
  <2>3. \A b \in Answers : b # a => objects'[b] = objects[b]
    BY <2>1 DEF FetchTypes
  <2>4. \A x \in Sessions : Untouched(x)
    BY <2>1 DEF Untouched
  <2>5. objects'[shown] = objects[shown] /\ (Saving => objects'[save.of] = objects[save.of])
    BY <2>2, <2>3
  <2> QED
    BY <1>2, <1>3, <2>1, <2>4, <2>5 DEF SameRequest
<1>14. ASSUME NEW a \in DOMAIN asked, NetworkFails(a)
       PROVE  KeptInv'
  BY <1>3, <1>4, <1>14 DEF NetworkFails, SameRequest, caseVars, sessionVars, tableVars
<1>15. CASE OpenOrClose
  <2>1. /\ UNCHANGED <<wanted, save, changes, editing, server, session, objects, shown>>
        /\ request.at # "sent" /\ request'.at # "sent" /\ ~InFlight'
    BY <1>15, DialogSteps DEF caseVars, sessionVars, fetchVars, tableVars, InFlight
  <2>2. request'.at = "open" /\ request'.act = "modify" => request'.id \in Elements
    BY <1>15, DialogSteps, RowOf
  <2>3. SameRequest
    BY <2>1, <2>2 DEF SameRequest
  <2> QED
    BY <1>3, <1>4, <2>1, <2>3
<1> QED
  BY <1>5, <1>6, <1>7, <1>8, <1>9, <1>10, <1>11, <1>12, <1>13, <1>14, <1>15

LEMMA ArrivalKept ==
  ASSUME KeptInv, RowTypes, FetchTypes, harm \subseteq harm', friction \subseteq friction',
         \A s \in Sessions : New(s)' => New(s),
         NEW k \in DOMAIN reading, NetworkArrives(k)
  PROVE  KeptInv'
<1> SUFFICES ASSUME Untroubled'
             PROVE  KeptInv'
  BY DEF KeptInv
<1>1. /\ Show(reading[k])
      /\ UNCHANGED <<wanted, save, request, changes, editing, server, session>>
      /\ LET next == objects[reading[k]] IN
           Suffers(When(k > 1 \/ (Owner = session /\ next.of # session), "overtaken")
                   \cup When(Ids(next.rows) # Ids(Rows) /\ UnderEdit, "shifted"))
  BY DEF NetworkArrives, caseVars, sessionVars, tableVars
<1>2. reading[k] \in Answers /\ (Saving => save.of \in Answers)
  BY InSet DEF FetchTypes
<1>3. /\ objects'[reading[k]] = objects[reading[k]] /\ shown' = reading[k]
      /\ save.of \in Answers => objects'[save.of] = objects[save.of]
  BY <1>1, <1>2, Shown DEF Show
<1>4. FirstInv /\ PendInv /\ EditorInv
  BY UntroubledBefore DEF KeptInv
<1>5. ASSUME UnderEdit
      PROVE  SameIds(Rows, Rows')
  <2>1. Ids(Rows) = Ids(objects[reading[k]].rows)
    BY <1>1, <1>5 DEF Suffers, When, Untroubled, Free_of
  <2> QED
    BY <1>3, <2>1, IdsAgree DEF Rows
<1>6. EditorInv'
  <2>1. editing # NoEdit => SameIds(Rows, Rows')
    BY <1>5 DEF UnderEdit
  <2> QED
    BY <1>1, <1>4, <2>1 DEF EditorInv, SameIds
<1>7. ASSUME changes # <<>>
      PROVE  Owner' = Owner
  <2>1. Owner = session
    BY <1>4, <1>7 DEF PendInv
  <2>2. objects[reading[k]].of = session
    BY <1>1, <2>1 DEF Suffers, When, Untroubled, Free_of
  <2> QED
    BY <1>3, <2>1, <2>2 DEF Owner
<1>8. SameRows
  BY <1>1, <1>2, <1>3, <1>5, <1>7 DEF SameRows, UnderEdit
<1>9. SameRequest /\ \A s \in Sessions : Untouched(s)
  BY <1>1 DEF SameRequest, Untouched
<1> QED
  BY <1>1, <1>6, <1>8, <1>9, QuietKept

-----------------------------------------------------------------------------
(* Steps that give elements values at the table.                           *)

\* An edit beside the chat and beside requests: what it does to the elements of
\* the rows on display is what it is to do.
LEMMA TableKept ==
  ASSUME KeptInv, CaseTypes, OpenInv, RowTypes, WantedTypes',
         harm \subseteq harm', friction \subseteq friction',
         \A s \in Sessions : New(s)' => New(s),
         UNCHANGED <<server, session, objects, shown, request>>, save'.at = save.at,
         editing' = NoEdit,
         Untroubled' =>
            /\ ~Saving /\ ~InFlight /\ Owner = session
            /\ \A s \in Sessions : s # session => wanted'[s] = wanted[s]
            /\ \A i \in DOMAIN changes' \cap DOMAIN Rows : changes'[i] = wanted'[session][Rows[i].id]
            /\ \A i \in DOMAIN server[session] : LET r == server[session][i] IN
                  \/ r.value = wanted'[session][r.id]
                  \/ \E j \in DOMAIN changes' \cap DOMAIN Rows : Rows[j].id = r.id
                  \/ /\ wanted'[session][r.id] = wanted[session][r.id]
                     /\ \A j \in DOMAIN changes \cap DOMAIN Rows : Rows[j].id # r.id
  PROVE  KeptInv'
<1> SUFFICES ASSUME Untroubled'
             PROVE  /\ FirstInv' /\ PendInv' /\ EditorInv' /\ SendInv' /\ AskInv'
                    /\ \A s \in Sessions : Kept(s)'
  BY DEF KeptInv
<1>1. FirstInv /\ AskInv /\ \A s \in Sessions : Kept(s)
  BY UntroubledBefore DEF KeptInv
<1>2. /\ ~Saving' /\ ~InFlight' /\ Owner' = session /\ Rows' = Rows
      /\ request.at # "sent" /\ request'.at # "sent" /\ ~Saving
  BY DEF Saving, InFlight, Owner, Rows
<1>3. FirstInv'
  <2>1. ~New(session)
    BY NotNew
  <2>2. ASSUME NEW s \in Sessions, New(s)', NEW e \in Elements
        PROVE  wanted'[s][e] = FirstValue
    <3>1. New(s) /\ s # session
      BY <2>1, <2>2
    <3> QED
      BY <1>1, <3>1 DEF FirstInv
  <2> QED
    BY <2>2 DEF FirstInv
<1>4. PendInv' /\ EditorInv' /\ SendInv' /\ AskInv'
  BY <1>1, <1>2 DEF PendInv, EditorInv, SendInv, AskInv
<1>5. ASSUME NEW s \in Sessions
      PROVE  Kept(s)'
  <2>1. CASE s # session
    <3>1. \A e : ~Comes(s, e)
      BY <1>2, <2>1 DEF Comes
    <3> QED
      BY <1>1, <2>1, <3>1 DEF Kept
  <2>2. CASE s = session
    <3> SUFFICES ASSUME NEW i \in DOMAIN server[session]
                 PROVE  LET r == server[session][i] IN
                        r.value = wanted'[session][r.id] \/ Comes(session, r.id)'
      BY <2>2 DEF Kept
    <3>1. PICK r : r = server[session][i]
      OBVIOUS
    <3>2. CASE r.value = wanted'[session][r.id]
      BY <3>1, <3>2
    <3>3. CASE \E j \in DOMAIN changes' \cap DOMAIN Rows : Rows[j].id = r.id
      <4>1. Unsaved(r.id)'
        BY <1>2, <3>3 DEF Unsaved
      <4> QED
        BY <3>1, <4>1 DEF Comes
    <3>4. CASE /\ wanted'[session][r.id] = wanted[session][r.id]
               /\ \A j \in DOMAIN changes \cap DOMAIN Rows : Rows[j].id # r.id
      <4>1. ~Comes(session, r.id)
        BY <1>2, <3>4 DEF Comes, Unsaved
      <4>2. session \in Sessions
        BY DEF CaseTypes
      <4> QED
        BY <1>1, <3>1, <3>4, <4>1, <4>2 DEF Kept
    <3> QED
      BY <3>1, <3>2, <3>3, <3>4
  <2> QED
    BY <2>1, <2>2
<1> QED
  BY <1>3, <1>4, <1>5

\* An edit, an undo or a redo.
LEMMA ChangeKept ==
  ASSUME KeptInv, CaseTypes, OpenInv, RowTypes, FetchTypes, EditValues, WantedTypes,
         harm \subseteq harm', friction \subseteq friction',
         \A s \in Sessions : New(s)' => New(s),
         UNCHANGED <<server, session, objects, shown, save, request>>, editing' = NoEdit,
         NEW i, NEW v \in Values, changes' = Set(i, v), Want(i, v),
         Untroubled' => ~Saving /\ ~InFlight /\ Owner = session
  PROVE  KeptInv'
<1>1. WantedTypes'
  BY WantedSet DEF Want, WantedTypes
<1>2. session \in Sessions /\ Proper(server[session])
  BY DEF CaseTypes, RowTypes
<1>3. ASSUME Untroubled'
      PROVE  /\ ~Saving /\ ~InFlight /\ Owner = session
             /\ \A s \in Sessions : s # session => wanted'[s] = wanted[s]
             /\ \A j \in DOMAIN changes' \cap DOMAIN Rows : changes'[j] = wanted'[session][Rows[j].id]
             /\ \A k \in DOMAIN server[session] : LET r == server[session][k] IN
                  \/ r.value = wanted'[session][r.id]
                  \/ \E j \in DOMAIN changes' \cap DOMAIN Rows : Rows[j].id = r.id
                  \/ /\ wanted'[session][r.id] = wanted[session][r.id]
                     /\ \A j \in DOMAIN changes \cap DOMAIN Rows : Rows[j].id # r.id
  <2>1. ~Saving /\ ~InFlight /\ Owner = session
    BY <1>3
  <2>2. PendInv
    BY <1>3, UntroubledBefore DEF KeptInv
  <2>3. \A s \in Sessions : s # session => wanted'[s] = wanted[s]
    BY <2>1, WantedSet DEF Want
  <2>4. \A e \in Elements : wanted'[session][e] =
           IF i \in DOMAIN Rows /\ Rows[i].id = e THEN v ELSE wanted[session][e]
    BY <1>2, <2>1, WantedSet DEF Want
  <2>5. /\ DOMAIN changes' = DOMAIN changes \cup {i} /\ changes'[i] = v
        /\ \A j \in DOMAIN changes : j # i => changes'[j] = changes[j]
    BY DEF Set
  <2>6. ASSUME NEW j \in DOMAIN changes' \cap DOMAIN Rows
        PROVE  changes'[j] = wanted'[session][Rows[j].id]
    <3>1. Rows[j].id \in Elements
      BY RowOf
    <3>2. CASE j = i
      BY <2>4, <2>5, <3>1, <3>2
    <3>3. CASE j # i
      <4>1. j \in DOMAIN changes \cap DOMAIN Rows
        BY <2>5, <3>3
      <4>2. ~(i \in DOMAIN Rows /\ Rows[i].id = Rows[j].id)
        BY <3>3, RowOf
      <4> QED
        BY <2>2, <2>4, <2>5, <3>1, <3>3, <4>1, <4>2 DEF PendInv
    <3> QED
      BY <3>2, <3>3
  <2>7. ASSUME NEW k \in DOMAIN server[session], NEW r, r = server[session][k]
        PROVE  \/ \E j \in DOMAIN changes' \cap DOMAIN Rows : Rows[j].id = r.id
               \/ /\ wanted'[session][r.id] = wanted[session][r.id]
                  /\ \A j \in DOMAIN changes \cap DOMAIN Rows : Rows[j].id # r.id
    <3>1. r.id \in Elements
      BY <1>2, <2>7, ProperRows
    <3> QED
      BY <2>4, <2>5, <3>1
  <2> QED
    BY <2>1, <2>3, <2>6, <2>7
<1> QED
  BY <1>1, <1>3, TableKept


LEMMA EditKept ==
  ASSUME KeptInv, CaseTypes, OpenInv, RowTypes, FetchTypes, EditValues, StackTypes, WantedTypes,
         harm \subseteq harm', friction \subseteq friction',
         \A s \in Sessions : New(s)' => New(s),
         \/ \E v \in Values : SaveEdit(v)
         \/ HandleUndo \/ HandleRedo
  PROVE  KeptInv'
<1> SUFFICES ASSUME Untroubled'
             PROVE  KeptInv'
  BY DEF KeptInv
<1>1. EditorInv
  BY UntroubledBefore DEF KeptInv
<1>2. ASSUME NEW v \in Values, SaveEdit(v)
      PROVE  KeptInv'
  <2> DEFINE i == editing.row
  <2>1. /\ i \in DOMAIN Rows /\ Rows[i].id = editing.id
        /\ changes' = Set(i, v) /\ editing' = NoEdit
        /\ wanted' = [wanted EXCEPT ![Owner][editing.id] = v]
        /\ UNCHANGED <<server, session, objects, shown, save, request>>
    BY <1>1, <1>2 DEF SaveEdit, EditorInv, caseVars, sessionVars, fetchVars
  <2>2. Want(i, v)
    BY <2>1 DEF Want
  <2>3. ~Saving /\ ~InFlight /\ Owner = session
    BY <1>2 DEF SaveEdit, Suffers, When, Untroubled, Free_of, Astray
  <2> HIDE DEF i
  <2> QED
    BY <2>1, <2>2, <2>3, ChangeKept
<1>3. CASE HandleUndo \/ HandleRedo
  <2>1. /\ editing' = NoEdit
        /\ UNCHANGED <<server, session, objects, shown, save, request>>
    BY <1>3 DEF HandleUndo, HandleRedo, Shortcut, caseVars, sessionVars, fetchVars
  <2>2. ~Saving /\ ~InFlight /\ Owner = session
    BY <1>3 DEF HandleUndo, HandleRedo, Shortcut, Suffers, When, Untroubled, Free_of, Astray
  <2>3. \E c \in Cmd : \/ changes' = Set(c.row, c.prev) /\ Want(c.row, c.prev)
                       \/ changes' = Set(c.row, c.new) /\ Want(c.row, c.new)
    <3>1. CASE HandleUndo
      <4>1. undoStack # <<>> /\ Revert(Last(undoStack))
        BY <3>1 DEF HandleUndo, Undo
      <4>2. Last(undoStack) \in Cmd
        BY <4>1, LastOff DEF StackTypes
      <4> QED
        BY <4>1, <4>2 DEF Revert
    <3>2. CASE HandleRedo
      <4>1. redoStack # <<>> /\ Execute(Last(redoStack))
        BY <3>2 DEF HandleRedo, Redo
      <4>2. Last(redoStack) \in Cmd
        BY <4>1, LastOff DEF StackTypes
      <4> QED
        BY <4>1, <4>2 DEF Execute
    <3> QED
      BY <1>3, <3>1, <3>2
  <2>4. \E i, v : v \in Values /\ changes' = Set(i, v) /\ Want(i, v)
    BY <2>3 DEF Cmd
  <2> QED
    BY <2>1, <2>2, <2>4, ChangeKept
<1> QED
  BY <1>2, <1>3

\* An edit that takes a pending value back is of rows that are current.
LEMMA TakenBackKept ==
  ASSUME KeptInv, ClashInv, IInv, RowTypes, EditValues, WantedTypes,
         harm \subseteq harm', friction \subseteq friction',
         \A s \in Sessions : New(s)' => New(s), SaveEditUnchanged
  PROVE  KeptInv'
<1> SUFFICES ASSUME Untroubled'
             PROVE  KeptInv'
  BY DEF KeptInv
<1> DEFINE i == editing.row
<1>1. /\ CaseTypes /\ OpenInv /\ EditTypes /\ FetchTypes
  BY DEF IInv, TypesInv
<1>2. /\ i \in DOMAIN Rows /\ editing # NoEdit /\ editing' = NoEdit
      /\ changes' = Unset(i)
      /\ UNCHANGED <<server, session, objects, shown, request>>
  BY DEF SaveEditUnchanged, caseVars, sessionVars, fetchVars
<1>3. Untroubled /\ PendInv /\ EditorInv
  BY UntroubledBefore DEF KeptInv
<1>4. CASE i \notin DOMAIN changes
  <2>1. UNCHANGED <<changes, save, wanted>>
    BY <1>4, ChangeUnset DEF SaveEditUnchanged
  <2>2. SameRows
    BY <1>2 DEF SameRows, Owner, Rows, SameIds
  <2>3. EditorInv' /\ SameRequest /\ \A s \in Sessions : Untouched(s)
    BY <1>2 DEF EditorInv, SameRequest, Untouched
  <2> QED
    BY <2>1, <2>2, <2>3, QuietKept
<1>5. CASE i \in DOMAIN changes
  <2>1. /\ wanted' = [wanted EXCEPT ![Owner][editing.id] = Rows[i].value]
        /\ Suffers({"typed back"} \cup When(Saving, "midsave") \cup When(Behind, "beside"))
        /\ save' = save \/ \E x : save' = [save EXCEPT !.emptied = x]
    BY <1>5 DEF SaveEditUnchanged
  <2>2. ~Saving /\ ~Behind /\ ~InFlight
    BY <2>1 DEF Suffers, When, Untroubled, Free_of, Behind
  <2>3. save'.at = save.at
    BY <1>1, <2>1, EditedSave
  <2>4. changes # <<>> /\ Owner = session
    BY <1>3, <1>5, NoChanges DEF PendInv
  <2>5. AtRest /\ Sound
    <3>1. ~Clash
      BY <1>3 DEF ClashInv, Untroubled
    <3> QED
      BY <1>3, <2>2, <2>4, <3>1 DEF AtRest, Quiet, Clash, Sound, Untroubled, Free_of
  <2>6. Rows = server[session]
    BY <2>5, RestIsCurrent DEF IsCurrent, Rows
  <2>7. Rows[i].id = editing.id /\ Rows[i].id \in Elements /\ Rows[i].value \in Values
    BY <1>1, <1>2, <1>3, RowOf DEF EditorInv
  <2>8. /\ WantedTypes'
        /\ \A s \in Sessions : s # session => wanted'[s] = wanted[s]
        /\ \A e \in Elements : wanted'[session][e] =
              IF e = Rows[i].id THEN Rows[i].value ELSE wanted[session][e]
    <3>1. session \in Sessions
      BY <1>1 DEF CaseTypes
    <3>2. wanted' = [wanted EXCEPT ![session][Rows[i].id] = Rows[i].value]
      BY <2>1, <2>4, <2>7
    <3>3. PICK o, x, v : o = session /\ x = Rows[i].id /\ v = Rows[i].value
      OBVIOUS
    <3>4. o \in Sessions /\ x \in Elements /\ v \in Values /\ wanted' = [wanted EXCEPT ![o][x] = v]
      BY <2>7, <3>1, <3>2, <3>3
    <3>5. /\ WantedTypes'
          /\ \A s \in Sessions : s # o => wanted'[s] = wanted[s]
          /\ \A y \in Elements : wanted'[o][y] = IF y = x THEN v ELSE wanted[o][y]
      BY <3>4 DEF WantedTypes
    <3> QED
      BY <3>3, <3>5
  <2>9. /\ DOMAIN changes' = DOMAIN changes \ {i}
        /\ \A j \in DOMAIN changes' : changes'[j] = changes[j]
    BY <1>2 DEF Unset
  <2>10. \A j \in DOMAIN Rows : /\ Rows[j].id \in Elements
                                /\ Rows[j].id = Rows[i].id => j = i
    BY <1>1, <1>2, RowOf
  <2> HIDE DEF i
  <2>11. \A j \in DOMAIN changes' \cap DOMAIN Rows : changes'[j] = wanted'[session][Rows[j].id]
    BY <1>3, <2>8, <2>9, <2>10 DEF PendInv
  <2>12. ASSUME NEW k \in DOMAIN server[session], NEW r, r = server[session][k]
         PROVE  \/ r.value = wanted'[session][r.id]
                \/ \E j \in DOMAIN changes' \cap DOMAIN Rows : Rows[j].id = r.id
                \/ /\ wanted'[session][r.id] = wanted[session][r.id]
                   /\ \A j \in DOMAIN changes \cap DOMAIN Rows : Rows[j].id # r.id
    <3>1. k \in DOMAIN Rows /\ r = Rows[k]
      BY <2>6, <2>12
    <3>2. CASE k = i
      BY <2>7, <2>8, <3>1, <3>2
    <3>3. CASE k # i
      BY <2>8, <2>9, <2>10, <3>1, <3>3
    <3> QED
      BY <3>2, <3>3
  <2> QED
    BY <1>1, <1>2, <2>2, <2>3, <2>4, <2>8, <2>11, <2>12, TableKept
<1> QED
  BY <1>4, <1>5

LEMMA ResetKept ==
  ASSUME KeptInv, CaseTypes, OpenInv, RowTypes, WantedTypes,
         harm \subseteq harm', friction \subseteq friction',
         \A s \in Sessions : New(s)' => New(s), ResetChanges
  PROVE  KeptInv'
<1> SUFFICES ASSUME Untroubled'
             PROVE  KeptInv'
  BY DEF KeptInv
<1>1. /\ changes # <<>> /\ ~Saving /\ editing = NoEdit /\ changes' = <<>>
      /\ UNCHANGED <<server, session, objects, shown, save, editing, request>>
      /\ Suffers(When(InFlight, "beside"))
  BY DEF ResetChanges, caseVars, sessionVars
<1>2. ~InFlight
  BY <1>1 DEF Suffers, When, Untroubled, Free_of
<1>3. PendInv
  BY UntroubledBefore DEF KeptInv
<1>4. Owner = session /\ session \in Sessions
  BY <1>1, <1>3 DEF PendInv, CaseTypes
<1>5. /\ WantedTypes'
      /\ \A s \in Sessions : s # session => wanted'[s] = wanted[s]
      /\ \A e \in Elements :
            wanted'[session][e] = IF /\ Has(server[session], e)
                                     /\ \E i \in DOMAIN changes \cap DOMAIN Rows : Rows[i].id = e
                                  THEN ValueAt(server[session], e) ELSE wanted[session][e]
  BY <1>4, WantedReset
<1>6. \A i \in DOMAIN changes' : FALSE
  BY <1>1, NoChanges
<1>7. Proper(server[session])
  BY <1>4 DEF RowTypes
<1>8. ASSUME NEW k \in DOMAIN server[session], NEW r, r = server[session][k]
      PROVE  \/ r.value = wanted'[session][r.id]
             \/ /\ wanted'[session][r.id] = wanted[session][r.id]
                /\ \A j \in DOMAIN changes \cap DOMAIN Rows : Rows[j].id # r.id
  <2>1. r.id \in Elements /\ Has(server[session], r.id) /\ ValueAt(server[session], r.id) = r.value
    BY <1>7, <1>8, ProperRows, ValueIn
  <2> QED
    BY <1>5, <2>1
<1>9. \A i \in DOMAIN changes' \cap DOMAIN Rows : changes'[i] = wanted'[session][Rows[i].id]
  BY <1>6
<1> QED
  BY <1>1, <1>2, <1>4, <1>5, <1>8, <1>9, TableKept


\* A request is about nothing that is under edit.
LEMMA AskKept ==
  ASSUME KeptInv, CaseTypes, OpenInv, RowTypes, FetchTypes, WantedTypes,
         harm \subseteq harm', friction \subseteq friction',
         \A s \in Sessions : New(s)' => New(s),
         NEW act, NEW e, NEW v, SendRequest(act, e, v),
         \/ act = "delete" /\ UNCHANGED wanted
         \/ /\ e \in Elements /\ v \in Values
            /\ wanted' = [wanted EXCEPT ![request.to][e] = v]
  PROVE  KeptInv'
<1> SUFFICES ASSUME Untroubled'
             PROVE  /\ FirstInv' /\ PendInv' /\ EditorInv' /\ SendInv' /\ AskInv'
                    /\ \A s \in Sessions : Kept(s)'
  BY DEF KeptInv
<1>1. FirstInv /\ \A s \in Sessions : Kept(s)
  BY UntroubledBefore DEF KeptInv
<1>2. /\ ~InFlight /\ ~Saving /\ changes = <<>> /\ editing = NoEdit
      /\ request.to = session /\ session \in Sessions
  BY DEF SendRequest, Suffers, When, Untroubled, Free_of, UnderEdit, InFlight, CaseTypes
<1>3. /\ request' = [act |-> act, id |-> e, value |-> v, to |-> session, at |-> "sent",
                     of |-> None, row |-> 0]
      /\ UNCHANGED <<server, session, objects, shown, save, changes, editing>>
  BY DEF SendRequest, caseVars, sessionVars, fetchVars, tableVars
<1>4. /\ request'.act = act /\ request'.id = e /\ request'.value = v
      /\ request'.to = session /\ request'.at = "sent"
  BY <1>3
<1>5. /\ \A s \in Sessions : s # session => wanted'[s] = wanted[s]
      /\ \A x \in Elements : x # e => wanted'[session][x] = wanted[session][x]
      /\ act # "delete" => e \in Elements /\ wanted'[session][e] = v
  <2>1. CASE act = "delete" /\ UNCHANGED wanted
    BY <2>1
  <2>2. CASE /\ e \in Elements /\ v \in Values
             /\ wanted' = [wanted EXCEPT ![request.to][e] = v]
    <3>1. PICK o : o = session
      OBVIOUS
    <3>2. o \in Sessions /\ wanted' = [wanted EXCEPT ![o][e] = v]
      BY <1>2, <2>2, <3>1
    <3>3. /\ \A s \in Sessions : s # o => wanted'[s] = wanted[s]
          /\ \A x \in Elements : wanted'[o][x] = IF x = e THEN v ELSE wanted[o][x]
      BY <2>2, <3>2 DEF WantedTypes
    <3> QED
      BY <3>1, <3>3
  <2> QED
    BY <2>1, <2>2
<1>6. FirstInv'
  <2>1. ~New(session)
    BY NotNew
  <2>2. ASSUME NEW s \in Sessions, New(s)', NEW x \in Elements
        PROVE  wanted'[s][x] = FirstValue
    <3>1. New(s) /\ s # session
      BY <2>1, <2>2
    <3> QED
      BY <1>1, <1>5, <3>1 DEF FirstInv
  <2> QED
    BY <2>2 DEF FirstInv
<1>7. PendInv' /\ EditorInv' /\ SendInv'
  <2>1. changes' = <<>> /\ ~Saving' /\ \A i \in DOMAIN changes' : FALSE
    BY <1>2, <1>3, NoChanges DEF Saving
  <2> QED
    BY <1>2, <1>3, <2>1 DEF PendInv, EditorInv, SendInv
<1>8. AskInv'
  BY <1>2, <1>3, <1>4, <1>5 DEF AskInv
<1>9. ASSUME NEW s \in Sessions, NEW i \in DOMAIN server[s], NEW r, r = server[s][i]
      PROVE  r.value = wanted'[s][r.id] \/ Comes(s, r.id)'
  <2>1. ~Unsaved(r.id) /\ ~Comes(s, r.id)
    BY <1>2, NoChanges DEF Unsaved, Comes, InFlight
  <2>2. r.value = wanted[s][r.id]
    BY <1>1, <1>9, <2>1 DEF Kept
  <2>3. r.id \in Elements
    BY <1>9, ProperRows DEF RowTypes
  <2>4. CASE s = session /\ r.id = e
    BY <1>4, <2>4 DEF Comes
  <2>5. CASE ~(s = session /\ r.id = e)
    BY <1>5, <2>2, <2>3, <2>5
  <2> QED
    BY <2>4, <2>5
<1>10. ASSUME NEW s \in Sessions
       PROVE  Kept(s)'
  BY <1>3, <1>9 DEF Kept
<1> QED
  BY <1>6, <1>7, <1>8, <1>10

LEMMA RequestKept ==
  ASSUME KeptInv, CaseTypes, OpenInv, RowTypes, FetchTypes, WantedTypes,
         harm \subseteq harm', friction \subseteq friction',
         \A s \in Sessions : New(s)' => New(s),
         Apply
  PROVE  KeptInv'
<1>1. CASE DeleteElement
  BY <1>1, AskKept DEF DeleteElement
<1>2. ASSUME NEW v \in Values, ParameterApply(v)
      PROVE  KeptInv'
  <2>1. /\ SendRequest("modify", request.id, v)
        /\ wanted' = [wanted EXCEPT ![request.to][request.id] = v]
    BY <1>2 DEF ParameterApply
  <2>2. request.at = "open" /\ request.act = "modify"
    BY <2>1 DEF SendRequest
  <2>3. Untroubled' => request.id \in Elements
    BY <2>2, UntroubledBefore DEF KeptInv, AskInv
  <2>4. ~Untroubled' => KeptInv'
    BY DEF KeptInv
  <2> QED
    BY <2>1, <2>3, <2>4, AskKept
<1>3. ASSUME NEW e \in Elements, NEW v \in Values, AddElement(e, v)
      PROVE  KeptInv'
  BY <1>3, AskKept DEF AddElement
<1> QED
  BY <1>1, <1>2, <1>3 DEF Apply

-----------------------------------------------------------------------------
(* A save.                                                                 *)

LEMMA SendKept ==
  ASSUME RowTypes, FetchTypes, EditValues, FirstInv, PendInv, EditorInv, AskInv, changes # <<>>,
         \A s \in Sessions : Kept(s), \A s \in Sessions : New(s)' => New(s),
         NEW of \in Answers, NEW todo,
         todo \subseteq DOMAIN changes \cap DOMAIN Rows, SendRow(of, todo, {}),
         SameIds(objects[of].rows, Rows),
         \A e : Unsaved(e) => \E i \in todo : Rows[i].id = e,
         UNCHANGED <<server, session, wanted, editing, request>>, ~InFlight
  PROVE  /\ FirstInv' /\ PendInv' /\ EditorInv' /\ SendInv' /\ AskInv'
         /\ \A s \in Sessions : Kept(s)'
<1>1. PICK i \in todo, v \in Values \cup {None} :
            /\ v = IF i \in {} THEN None ELSE changes[i]
            /\ save' = [at |-> "sent", of |-> of, todo |-> todo \ {i},
                        emptied |-> {} \ {i}, id |-> objects[of].rows[i].id,
                        value |-> v, to |-> session]
            /\ \A a \in Answers : a # of => objects'[a] = objects[a]
            /\ objects'[of].of = objects[of].of
            /\ SameIds(objects[of].rows, objects'[of].rows)
            /\ UNCHANGED <<shown, changes>>
  <2>1. todo \subseteq DOMAIN changes \cup {}
    OBVIOUS
  <2> QED
    BY <2>1, RowSent
<1>2. /\ save'.at = "sent" /\ save'.of = of /\ save'.todo = todo \ {i} /\ save'.emptied = {}
      /\ save'.id = Rows[i].id /\ save'.value = changes[i] /\ save'.to = session /\ Saving'
  BY <1>1 DEF SameIds, Saving
<1>3. Owner' = Owner /\ SameIds(Rows, Rows') /\ SameIds(objects'[of].rows, Rows')
  <2>1. shown \in Answers
    BY DEF FetchTypes
  <2>2. CASE shown = of
    BY <1>1, <2>2 DEF Owner, Rows, SameIds
  <2>3. CASE shown # of
    BY <1>1, <2>1, <2>3 DEF Owner, Rows, SameIds
  <2> QED
    BY <2>2, <2>3
<1>4. DOMAIN Rows' = DOMAIN Rows /\ \A k \in DOMAIN Rows : Rows'[k].id = Rows[k].id
  BY <1>3 DEF SameIds
<1>5. FirstInv' /\ AskInv'
  BY DEF FirstInv, AskInv
<1>6. EditorInv' /\ PendInv'
  BY <1>1, <1>3, <1>4 DEF EditorInv, PendInv, InFlight
<1>7. SendInv'
  <2>1. Rows[i].id \in Elements /\ changes[i] = wanted[session][Rows[i].id]
    BY RowOf DEF PendInv
  <2> QED
    BY <1>1, <1>2, <1>3, <1>4, <2>1 DEF SendInv
<1>8. ASSUME NEW e, Unsaved(e)
      PROVE  Unsaved(e)'
  BY <1>2, <1>4, <1>8 DEF Unsaved
<1>9. ASSUME NEW s \in Sessions
      PROVE  Kept(s)'
  <2>1. \A e : Comes(s, e) => Comes(s, e)'
    BY <1>8 DEF Comes
  <2> QED
    BY <2>1 DEF Kept
<1> QED
  BY <1>5, <1>6, <1>7, <1>9

\* The end of a save drops no change that was not sent.
LEMMA FinishKept ==
  ASSUME FirstInv, PendInv, EditorInv, AskInv, changes # <<>>,
         \A s \in Sessions : Kept(s), \A s \in Sessions : New(s)' => New(s),
         NEW of, FinishSave(of), objects'[of] = objects[of], SameIds(objects[of].rows, Rows),
         \A e : ~Unsaved(e),
         UNCHANGED <<server, session, wanted, editing, request>>
  PROVE  /\ FirstInv' /\ PendInv' /\ EditorInv' /\ SendInv' /\ AskInv'
         /\ \A s \in Sessions : Kept(s)'
<1>1. /\ ~Saving' /\ changes' = <<>> /\ shown' = of /\ \A i \in DOMAIN changes' : FALSE
  BY NoChanges DEF FinishSave, Show, Saving, NotSaving
<1>2. ~InFlight
  BY DEF PendInv
<1>3. FirstInv' /\ AskInv' /\ SendInv'
  BY <1>1 DEF FirstInv, AskInv, SendInv
<1>4. PendInv' /\ EditorInv'
  BY <1>1 DEF PendInv, EditorInv, Rows, SameIds
<1>5. ASSUME NEW s \in Sessions
      PROVE  Kept(s)'
  <2>1. \A e : ~Comes(s, e)
    BY <1>2 DEF Comes, InFlight
  <2> QED
    BY <2>1 DEF Kept
<1> QED
  BY <1>3, <1>4, <1>5

LEMMA SaveKept ==
  ASSUME KeptInv, RowTypes, FetchTypes, EditValues,
         harm \subseteq harm', friction \subseteq friction',
         \A s \in Sessions : New(s)' => New(s), SaveChanges \/ RowSaved
  PROVE  KeptInv'
<1> SUFFICES ASSUME Untroubled'
             PROVE  /\ FirstInv' /\ PendInv' /\ EditorInv' /\ SendInv' /\ AskInv'
                    /\ \A s \in Sessions : Kept(s)'
  BY DEF KeptInv
<1>1. /\ FirstInv /\ PendInv /\ EditorInv /\ SendInv /\ AskInv
      /\ \A s \in Sessions : Kept(s)
  BY UntroubledBefore DEF KeptInv
<1>2. UNCHANGED <<server, session, wanted, editing, request>>
  BY DEF SaveChanges, RowSaved, caseVars, sessionVars
<1>3. PICK of, todo : /\ of = (IF Saving THEN save.of ELSE shown)
                      /\ todo = (IF Saving THEN save.todo ELSE DOMAIN changes \cap DOMAIN Rows)
  OBVIOUS
<1>4. /\ changes # <<>> /\ NextRow(of, todo, {}) /\ ~InFlight
      /\ todo \subseteq DOMAIN changes \cap DOMAIN Rows /\ of \in Answers
      /\ SameIds(objects[of].rows, Rows)
      /\ \A e : Unsaved(e) => \E i \in todo : Rows[i].id = e
      /\ of \in {shown, save.of}
  <2>1. CASE SaveChanges
    <3>1. /\ ~Saving /\ changes # <<>>
          /\ NextRow(shown, DOMAIN changes \cap DOMAIN Rows, {})
      BY <2>1 DEF SaveChanges
    <3>2. SameIds(Rows, Rows) /\ shown \in Answers /\ ~InFlight
      BY <1>1, <3>1 DEF SameIds, FetchTypes, PendInv
    <3>3. \A e : Unsaved(e) => \E i \in DOMAIN changes \cap DOMAIN Rows : Rows[i].id = e
      BY <3>1 DEF Unsaved
    <3> QED
      BY <1>3, <3>1, <3>2, <3>3 DEF Rows
  <2>2. CASE RowSaved
    <3>1. Saving /\ save.at = "applied" /\ NextRow(save.of, save.todo, save.emptied)
      BY <2>2 DEF RowSaved, Saving
    <3>2. /\ changes # <<>> /\ save.emptied = {} /\ ~InFlight
          /\ save.todo \subseteq DOMAIN changes \cap DOMAIN Rows
          /\ SameIds(objects[save.of].rows, Rows) /\ save.of \in Answers
      BY <1>1, <3>1 DEF SendInv, PendInv, FetchTypes
    <3>3. \A e : Unsaved(e) => \E i \in save.todo : Rows[i].id = e
      BY <3>1 DEF Unsaved
    <3> QED
      BY <1>3, <3>1, <3>2, <3>3
  <2> QED
    BY <2>1, <2>2
<1>5. CASE SendRow(of, todo, {})
  BY <1>1, <1>2, <1>4, <1>5, SendKept
<1>6. CASE todo = {} /\ FinishSave(of)
  <2>1. objects'[of] = objects[of]
    BY <1>4, <1>6, Shown DEF FinishSave
  <2>2. \A e : ~Unsaved(e)
    BY <1>4, <1>6
  <2> QED
    BY <1>1, <1>2, <1>4, <1>6, <2>1, <2>2, FinishKept
<1> QED
  BY <1>4, <1>5, <1>6 DEF NextRow

-----------------------------------------------------------------------------
(* Edits that are carried out.                                             *)

\* A carried out edit brings the value that is wanted.
LEMMA EditBrings ==
  ASSUME NEW t, Proper(t), NEW act, NEW e, NEW v, NEW w, NEW X,
         ValidEdit(act, e, v), Has(t, e) <=> act # "add", act # "delete" => v = w[e] /\ v # None,
         \A i \in DOMAIN t : t[i].id # e => t[i].value = w[t[i].id] \/ t[i].id \in X
  PROVE  LET u == Edited(t, act, e, v) IN
         \A i \in DOMAIN u : u[i].value = w[u[i].id] \/ u[i].id \in X
<1> DEFINE u == Edited(t, act, e, v)
<1> SUFFICES ASSUME NEW i \in DOMAIN u
             PROVE  u[i].value = w[u[i].id] \/ u[i].id \in X
  OBVIOUS
<1>1. CASE act = "modify"
  <2>1. v \in Values \cup {None}
    BY <1>1 DEF ValidEdit
  <2> HIDE DEF u
  <2>2. /\ SameIds(t, u)
        /\ \A k \in DOMAIN t : u[k].value = IF t[k].id = e /\ v # None THEN v ELSE t[k].value
    BY <1>1, <2>1, Modified DEF u
  <2>3. i \in DOMAIN t /\ u[i].id = t[i].id
    BY <2>2 DEF SameIds
  <2> QED
    BY <1>1, <2>2, <2>3
<1>2. CASE act = "add"
  <2>1. e \in Elements /\ v \in Values /\ ~Has(t, e)
    BY <1>2 DEF ValidEdit
  <2> HIDE DEF u
  <2>2. \/ i \in DOMAIN t /\ u[i] = t[i]
        \/ u[i] = [id |-> e, value |-> v]
    BY <1>2, <2>1, Added DEF u
  <2>3. \A k \in DOMAIN t : t[k].id # e
    BY <2>1, ProperRows
  <2> QED
    BY <1>2, <2>2, <2>3
<1>3. CASE act = "delete"
  <2>1. Has(t, e)
    BY <1>3
  <2> HIDE DEF u
  <2>2. \E j \in DOMAIN t : u[i] = t[j] /\ t[j].id # e
    BY <1>3, <2>1, Deleted DEF u
  <2> QED
    BY <2>2
<1> QED
  BY <1>1, <1>2, <1>3 DEF ValidEdit

LEMMA RowKept ==
  ASSUME KeptInv, CaseTypes, EditTypes, RowTypes, EditValues, WantedTypes,
         harm \subseteq harm', friction \subseteq friction',
         \A s \in Sessions : New(s)' => New(s), ApplyRow
  PROVE  KeptInv'
<1> SUFFICES ASSUME Untroubled'
             PROVE  /\ FirstInv' /\ PendInv' /\ EditorInv' /\ SendInv' /\ AskInv'
                    /\ \A s \in Sessions : Kept(s)'
  BY DEF KeptInv
<1>1. /\ FirstInv /\ PendInv /\ EditorInv /\ SendInv /\ AskInv
      /\ \A s \in Sessions : Kept(s)
  BY UntroubledBefore DEF KeptInv
<1>2. /\ save.at = "sent" /\ save' = [save EXCEPT !.at = "applied"] /\ Saving
      /\ Possible(save.to, "modify", save.id)
      /\ Carry(save.to, "modify", save.id, save.value)
      /\ UNCHANGED <<session, objects, shown, changes, editing, request, wanted>>
  BY DEF ApplyRow, Saving, sessionVars, fetchVars, tableVars
<1>3. /\ save'.at = "applied" /\ save'.of = save.of /\ save'.todo = save.todo
      /\ save'.emptied = save.emptied /\ save'.id = save.id /\ save'.value = save.value
      /\ save'.to = save.to /\ Saving'
  BY <1>2 DEF EditTypes, Saving
<1>4. /\ save.to = session /\ save.id \in Elements /\ save.value = wanted[session][save.id]
      /\ session \in Sessions
  BY <1>1, <1>2 DEF SendInv, CaseTypes
<1>5. save.value \in Values /\ save.value # None
  BY <1>4, NoneAssumption DEF WantedTypes
<1>6. /\ \A s \in Sessions : s # session => server'[s] = server[s]
      /\ server'[session] = Edited(server[session], "modify", save.id, save.value)
  BY <1>2, <1>4, <1>5, Carried DEF ValidEdit
<1>7. FirstInv' /\ AskInv' /\ EditorInv'
  BY <1>1, <1>2 DEF FirstInv, AskInv, EditorInv, Rows
<1>8. PendInv' /\ SendInv'
  BY <1>1, <1>2, <1>3 DEF PendInv, SendInv, InFlight, Owner, Rows
<1>9. ASSUME NEW s, NEW e, Comes(s, e), s # session \/ e # save.id
      PROVE  Comes(s, e)'
  BY <1>2, <1>3, <1>9 DEF Comes, Unsaved, Rows, Saving
<1>10. ASSUME NEW s \in Sessions, s # session
       PROVE  Kept(s)'
  BY <1>1, <1>2, <1>6, <1>9, <1>10 DEF Kept
<1>11. ASSUME NEW s \in Sessions, s = session
       PROVE  Kept(s)'
  <2> DEFINE X == {e \in Elements : Comes(s, e)'}
  <2>1. PICK x, t, w : x = save.id /\ t = server[s] /\ w = wanted[s]
    OBVIOUS
  <2>2. Proper(t) /\ Has(t, x)
    BY <1>2, <1>4, <1>11, <2>1 DEF RowTypes, Possible
  <2>3. \A i \in DOMAIN t : t[i].id # x => t[i].value = w[t[i].id] \/ t[i].id \in X
    <3> SUFFICES ASSUME NEW i \in DOMAIN t, t[i].id # x, t[i].value # w[t[i].id]
                 PROVE  t[i].id \in X
      OBVIOUS
    <3>1. t[i].id \in Elements
      BY <2>2, ProperRows
    <3>2. Comes(s, t[i].id)
      BY <1>1, <2>1 DEF Kept
    <3> QED
      BY <1>9, <2>1, <3>1, <3>2
  <2>4. PICK v : v = save.value /\ v = w[x] /\ v # None /\ ValidEdit("modify", x, v)
    BY <1>4, <1>5, <1>11, <2>1 DEF ValidEdit
  <2> HIDE DEF X
  <2>5. PICK u : u = Edited(t, "modify", x, v)
    OBVIOUS
  <2>6. \A i \in DOMAIN u : u[i].value = w[u[i].id] \/ u[i].id \in X
    BY <2>2, <2>3, <2>4, <2>5, EditBrings
  <2>7. server'[s] = u
    BY <1>6, <1>11, <2>1, <2>4, <2>5
  <2> QED
    BY <1>2, <2>1, <2>6, <2>7 DEF Kept, X
<1> QED
  BY <1>7, <1>8, <1>10, <1>11


LEMMA AppliedKept ==
  ASSUME KeptInv, CaseTypes, EditTypes, RowTypes, EditValues, WantedTypes,
         harm \subseteq harm', friction \subseteq friction',
         \A s \in Sessions : New(s)' => New(s), ApplyRequest
  PROVE  KeptInv'
<1> SUFFICES ASSUME Untroubled'
             PROVE  /\ FirstInv' /\ PendInv' /\ EditorInv' /\ SendInv' /\ AskInv'
                    /\ \A s \in Sessions : Kept(s)'
  BY DEF KeptInv
<1>1. /\ FirstInv /\ PendInv /\ EditorInv /\ SendInv /\ AskInv
      /\ \A s \in Sessions : Kept(s)
  BY UntroubledBefore DEF KeptInv
<1>2. /\ request.at = "sent" /\ request' = [request EXCEPT !.at = "applied"]
      /\ Possible(request.to, request.act, request.id)
      /\ Carry(request.to, request.act, request.id, request.value)
      /\ UNCHANGED <<session, objects, shown, changes, editing, save, wanted>>
  BY DEF ApplyRequest, sessionVars, fetchVars, tableVars
<1>3. changes = <<>> /\ ~Saving /\ \A e : ~Unsaved(e)
  <2>1. changes = <<>>
    BY <1>1, <1>2 DEF PendInv, InFlight
  <2> QED
    BY <1>1, <2>1, UnsavedMeans DEF SendInv
<1>4. request'.at = "applied"
  BY <1>2 DEF EditTypes
<1>5. FirstInv' /\ AskInv' /\ EditorInv' /\ SendInv'
  BY <1>1, <1>2, <1>3, <1>4 DEF FirstInv, AskInv, EditorInv, SendInv, Saving, Rows
<1>6. PendInv'
  BY <1>2, <1>3, NoChanges DEF PendInv
<1>7. PICK to, act, e, v : /\ to = request.to /\ act = request.act
                           /\ e = request.id /\ v = request.value
  OBVIOUS
<1>8. /\ to \in Sessions /\ ValidEdit(act, e, v)
      /\ act # "delete" => e \in Elements /\ v = wanted[to][e] /\ v # None
  <2>1. ValidEdit(act, e, v)
    BY <1>2, <1>7 DEF EditValues, RequestTypes, InFlight
  <2>2. to \in Sessions /\ (act # "delete" => e \in Elements /\ v = wanted[to][e])
    BY <1>1, <1>2, <1>7 DEF AskInv
  <2> QED
    BY <2>1, <2>2, NoneAssumption DEF WantedTypes
<1>9. /\ \A s \in Sessions : s # to => server'[s] = server[s]
      /\ server'[to] = Edited(server[to], act, e, v)
  BY <1>2, <1>7, <1>8, Carried
<1>10. ASSUME NEW s \in Sessions, NEW i \in DOMAIN server[s], s # to \/ server[s][i].id # e
       PROVE  server[s][i].value = wanted[s][server[s][i].id]
  BY <1>1, <1>3, <1>7, <1>10 DEF Kept, Comes
<1>11. ASSUME NEW s \in Sessions, s # to
       PROVE  Kept(s)'
  BY <1>2, <1>9, <1>10, <1>11 DEF Kept
<1>12. Kept(to)'
  <2>1. PICK t, w : t = server[to] /\ w = wanted[to]
    OBVIOUS
  <2>2. Proper(t) /\ (Has(t, e) <=> act # "add")
    BY <1>2, <1>7, <1>8, <2>1 DEF RowTypes, Possible
  <2>3. PICK u, X : u = Edited(t, act, e, v) /\ X = {}
    OBVIOUS
  <2>4. \A i \in DOMAIN t : t[i].id # e => t[i].value = w[t[i].id] \/ t[i].id \in X
    BY <1>8, <1>10, <2>1
  <2>5. act # "delete" => v = w[e] /\ v # None
    BY <1>8, <2>1
  <2>6. \A i \in DOMAIN u : u[i].value = w[u[i].id] \/ u[i].id \in X
    BY <1>8, <2>2, <2>3, <2>4, <2>5, EditBrings
  <2>7. server'[to] = u
    BY <1>9, <2>1, <2>3
  <2> QED
    BY <1>2, <2>1, <2>3, <2>6, <2>7 DEF Kept
<1> QED
  BY <1>5, <1>6, <1>11, <1>12
-----------------------------------------------------------------------------
(* Edits of the chat.                                                      *)

\* A tool edits a case that is loaded, and only while the user edits nothing.
LEMMA ToolKept ==
  ASSUME KeptInv, ClashInv', TurnInv, CaseTypes, ChatTypes, RowTypes, EditValues, WantedTypes,
         WantedTypes', harm \subseteq harm', friction \subseteq friction',
         \A s \in Sessions : New(s)' => New(s), NEW t \in Turns, ApplyCall(t)
  PROVE  KeptInv'
<1> SUFFICES ASSUME Untroubled'
             PROVE  KeptInv'
  BY DEF KeptInv
<1>1. PICK s, c : s = turn[t].to /\ c = turn[t].call.tool
  OBVIOUS
<1>2. /\ turn[t].call.at = "sent" /\ c.act # "open"
      /\ UNCHANGED <<session, objects, shown, changes, editing, save, request>>
      /\ IF Possible(s, c.act, c.id) THEN Carry(s, c.act, c.id, c.value) ELSE UNCHANGED server
      /\ wanted' = IF Possible(s, c.act, c.id) /\ c.value # None
                   THEN [wanted EXCEPT ![s][c.id] = c.value] ELSE wanted
  BY <1>1 DEF ApplyCall, sessionVars, tabVars, fetchVars, tableVars
<1>3. /\ FirstInv /\ PendInv /\ EditorInv /\ SendInv /\ AskInv
      /\ \A x \in Sessions : Kept(x)
  BY UntroubledBefore DEF KeptInv
<1>4. changes = <<>> /\ editing = NoEdit /\ ~Saving /\ ~InFlight
  <2>1. ~Clash'
    BY DEF ClashInv, Untroubled
  <2>2. Running(t)'
    <3>1. PICK n : Becomes(t, n) /\ n.at = "calling"
      BY Applies DEF Keeps
    <3> QED
      BY <3>1, TurnBecomes DEF Running
  <2>3. Assisting'
    BY <2>2 DEF Assisting
  <2> QED
    BY <1>2, <2>1, <2>3 DEF Clash, Saving, InFlight
<1>5. \A x \in Sessions : \A e : ~Comes(x, e)
  BY <1>4, NoChanges DEF Comes, Unsaved, InFlight
<1>6. CASE UNCHANGED <<server, wanted>>
  <2>1. EditorInv' /\ SameRequest /\ SameRows /\ \A x \in Sessions : Untouched(x)
    BY <1>2, <1>4, <1>6 DEF EditorInv, SameRequest, SameRows, Untouched
  <2> QED
    BY <1>2, <1>6, <2>1, QuietKept
<1>7. CASE Possible(s, c.act, c.id) /\ s \notin Sessions
  <2>1. UNCHANGED server
    BY <1>2, <1>7 DEF Carry, CaseTypes
  <2>2. UNCHANGED wanted
    BY <1>2, <1>7 DEF WantedTypes
  <2> QED
    BY <1>6, <2>1, <2>2
<1>8. CASE Possible(s, c.act, c.id) /\ s \in Sessions
  <2>1. /\ c \in Tools /\ ValidEdit(c.act, c.id, c.value)
        /\ c.act # "delete" => c.id \in Elements /\ c.value \in Values
        /\ c.act = "delete" => c.value = None
    <3>1. c \in Tools
      BY <1>1, <1>2 DEF EditValues, ToolTypes
    <3> QED
      BY <1>2, <3>1, NoneAssumption DEF Tools, Call, ValidEdit
  <2>2. PICK act, e, v : act = c.act /\ e = c.id /\ v = c.value
    OBVIOUS
  <2>3. /\ \A x \in Sessions : x # s => server'[x] = server[x]
        /\ server'[s] = Edited(server[s], act, e, v)
    BY <1>2, <1>8, <2>1, <2>2, Carried
  <2>4. /\ \A x \in Sessions : x # s => wanted'[x] = wanted[x]
        /\ \A y \in Elements : y # e => wanted'[s][y] = wanted[s][y]
        /\ act # "delete" => wanted'[s][e] = v /\ v # None
    <3>1. CASE act = "delete"
      BY <1>2, <2>1, <2>2, <3>1
    <3>2. CASE act # "delete"
      <4>1. /\ e \in Elements /\ v \in Values /\ v # None
            /\ wanted' = [wanted EXCEPT ![s][e] = v]
        BY <1>2, <1>8, <2>1, <2>2, <3>2, NoneAssumption
      <4> QED
        BY <1>8, <4>1 DEF WantedTypes
    <3> QED
      BY <3>1, <3>2
  <2>5. FirstInv'
    <3>1. ~New(s)
      BY <1>1, <1>8, NoneAssumption DEF TurnInv
    <3>2. ASSUME NEW x \in Sessions, New(x)', NEW y \in Elements
          PROVE  wanted'[x][y] = FirstValue
      BY <1>3, <2>4, <3>1, <3>2 DEF FirstInv
    <3> QED
      BY <3>2 DEF FirstInv
  <2>6. PendInv' /\ EditorInv' /\ SendInv' /\ AskInv'
    BY <1>2, <1>3, <1>4, NoChanges DEF PendInv, EditorInv, SendInv, AskInv, Saving, InFlight
  <2>7. \A x \in Sessions : x # s => Kept(x)'
    BY <1>3, <1>5, <2>3, <2>4 DEF Kept
  <2>8. Kept(s)'
    <3>1. PICK r, w : r = server[s] /\ w = wanted'[s]
      OBVIOUS
    <3>2. Proper(r) /\ (Has(r, e) <=> act # "add")
      BY <1>8, <2>2, <3>1 DEF RowTypes, Possible
    <3>3. PICK u, X : u = Edited(r, act, e, v) /\ X = {}
      OBVIOUS
    <3>4. ASSUME NEW i \in DOMAIN r, r[i].id # e
          PROVE  r[i].value = w[r[i].id]
      <4>1. r[i].id \in Elements
        BY <3>2, ProperRows
      <4>2. r[i].value = wanted[s][r[i].id]
        BY <1>3, <1>5, <1>8, <3>1 DEF Kept
      <4> QED
        BY <2>4, <3>1, <3>4, <4>1, <4>2
    <3>5. \A i \in DOMAIN r : r[i].id # e => r[i].value = w[r[i].id] \/ r[i].id \in X
      BY <3>4
    <3>6. ValidEdit(act, e, v) /\ (act # "delete" => v = w[e] /\ v # None)
      BY <2>1, <2>2, <2>4, <3>1
    <3>7. \A i \in DOMAIN u : u[i].value = w[u[i].id] \/ u[i].id \in X
      BY <3>2, <3>3, <3>5, <3>6, EditBrings
    <3>8. server'[s] = u
      BY <2>3, <3>1, <3>3
    <3> QED
      BY <3>1, <3>3, <3>7, <3>8 DEF Kept
  <2> QED
    BY <2>5, <2>6, <2>7, <2>8 DEF KeptInv
<1> QED
  BY <1>2, <1>6, <1>7, <1>8

LEMMA ChatKept ==
  ASSUME KeptInv, ClashInv', TurnInv, CaseTypes, ChatTypes, RowTypes, EditValues, WantedTypes,
         WantedTypes', harm \subseteq harm', friction \subseteq friction',
         \A s \in Sessions : New(s)' => New(s), AssistantSteps
  PROVE  KeptInv'
<1> SUFFICES ASSUME Untroubled'
             PROVE  KeptInv'
  BY DEF KeptInv
<1>1. FirstInv /\ EditorInv
  BY UntroubledBefore DEF KeptInv
<1>2. UNCHANGED <<objects, shown, save, request, changes, editing>>
  BY BesideTheTable, TableBesideChat DEF tableVars
<1>3. /\ EditorInv' /\ SameRequest /\ Owner' = Owner /\ SameIds(Rows, Rows')
  BY <1>1, <1>2 DEF EditorInv, SameRequest, Owner, Rows, SameIds
<1>4. ASSUME UNCHANGED wanted, UNCHANGED session \/ (changes = <<>> /\ ~Saving),
             \A x \in Sessions : Untouched(x)
      PROVE  KeptInv'
  <2>1. SameRows
    BY <1>2, <1>3, <1>4 DEF SameRows
  <2> QED
    BY <1>2, <1>3, <1>4, <2>1, QuietKept
<1>5. CASE UNCHANGED <<wanted, session, server>>
  BY <1>4, <1>5 DEF Untouched
<1>6. CASE StopGeneration \/ FetchDue
  BY <1>5, <1>6 DEF StopGeneration, FetchDue, vars, caseVars, sessionVars
<1>7. ASSUME NEW t \in Turns, \/ SendMessage(t) \/ CallTools(t) \/ Answer(t)
                              \/ CallEnds(t) \/ Unanswered(t)
      PROVE  KeptInv'
  BY <1>5, <1>7 DEF SendMessage, CallTools, Answer, CallEnds, Unanswered, vars, caseVars, sessionVars
<1>8. ASSUME NEW t \in Turns, ReadEvent(t)
      PROVE  KeptInv'
  <2>1. UNCHANGED <<server, wanted>> /\ (UNCHANGED session \/ \E s : SetSession(s))
    BY <1>8 DEF ReadEvent, ToolResults, sessionVars
  <2>2. ASSUME NEW s, SetSession(s)
        PROVE  changes = <<>> /\ ~Saving
    BY <2>2 DEF SetSession, Suffers, When, Untroubled, Free_of
  <2> QED
    BY <1>4, <2>1, <2>2 DEF Untouched
<1>9. ASSUME NEW t \in Turns, ApplyCall(t)
      PROVE  KeptInv'
  BY <1>9, ToolKept
<1>10. ASSUME NEW t \in Turns, NEW s \in Sessions, OpenForChat(t, s)
       PROVE  KeptInv'
  <2>1. /\ \E c \in Cases : server' = [server EXCEPT ![s] = c]
        /\ UNCHANGED <<session, wanted>> /\ New(s)
    BY <1>10 DEF OpenForChat, New
  <2>2. \A x \in Sessions : Untouched(x)
    BY <1>1, <2>1, MadeAsWanted
  <2> QED
    BY <1>4, <2>1, <2>2
<1> QED
  BY <1>6, <1>7, <1>8, <1>9, <1>10 DEF AssistantSteps

-----------------------------------------------------------------------------
(* The edits at rest.                                                      *)

EInv == HInv /\ WantedTypes /\ ClashInv /\ TurnInv /\ KeptInv

LEMMA InitKept == AssistantInit => EInv
<1> SUFFICES ASSUME AssistantInit PROVE EInv
  OBVIOUS
<1>1. /\ session \in Sessions /\ changes = <<>> /\ editing = NoEdit
      /\ save = NotSaving /\ request = NoRequest
      /\ wanted = [s \in Sessions |-> [e \in Elements |-> FirstValue]]
      /\ turn = [t \in Turns |-> Unsent]
  BY DEF AssistantInit, Init
<1>2. \A t \in Turns : turn[t].to = None
  BY <1>1 DEF Unsent
<1>3. ~Saving /\ ~InFlight /\ request.at = "idle" /\ \A i \in DOMAIN changes : FALSE
  BY <1>1, NoChanges DEF Saving, InFlight, NotSaving, NoRequest
<1>4. \A s \in Sessions, e \in Elements : wanted[s][e] = FirstValue
  BY <1>1
<1>5. ClashInv
  <2>1. ~Clash
    BY <1>1, <1>3 DEF Clash
  <2> QED
    BY <2>1 DEF ClashInv
<1>6. \A s \in Sessions : Kept(s)
  <2>1. PICK c \in Cases : server = [s \in Sessions |-> IF s = session THEN c ELSE <<>>]
    BY DEF AssistantInit, Init
  <2>2. \A i \in DOMAIN c : c[i].value = FirstValue /\ c[i].id \in Elements
    BY CaseRows, ProperRows
  <2>3. \A i \in DOMAIN <<>> : FALSE
    BY NoChanges
  <2> QED
    BY <1>4, <2>1, <2>2, <2>3 DEF Kept
<1>7. KeptInv
  BY <1>1, <1>3, <1>4, <1>6 DEF KeptInv, FirstInv, PendInv, EditorInv, SendInv, AskInv
<1>8. WantedTypes
  BY <1>1, FirstValueAssumption DEF WantedTypes
<1>9. TurnInv
  BY <1>2 DEF TurnInv
<1> QED
  BY <1>5, <1>7, <1>8, <1>9, InitHistory DEF EInv

LEMMA NextKept ==
  ASSUME EInv, Next, UNCHANGED agentVars, Strains({}), \A s \in Sessions : New(s)' => New(s)
  PROVE  KeptInv'
<1>1. /\ IInv /\ CaseTypes /\ EditTypes /\ FetchTypes /\ OpenInv /\ RowTypes /\ EditValues
      /\ StackTypes /\ WantedTypes /\ ClashInv /\ KeptInv
  BY DEF EInv, HInv, IInv, TypesInv
<1>2. harm \subseteq harm' /\ friction \subseteq friction'
  BY <1>1, TableHarm DEF Strains
<1>3. CASE \/ \E v \in Values : SaveEdit(v)
           \/ HandleUndo \/ HandleRedo
  BY <1>1, <1>2, <1>3, EditKept
<1>4. CASE SaveEditUnchanged
  BY <1>1, <1>2, <1>4, TakenBackKept
<1>5. CASE Apply
  BY <1>1, <1>2, <1>5, RequestKept
<1>6. CASE \/ \E i \in Positions : OpenEditor(i)
           \/ OpenOrClose \/ CancelEdit \/ Pause \/ SaveFails \/ RefuseRow \/ RefuseRequest \/ RequestDone
           \/ \E s \in Sessions : OpenCase(s) \/ LoadCase(s) \/ OpenFails(s)
           \/ \E s \in Sessions : SessionCreated(s) \/ FetchOpened(s)
           \/ \E a \in DOMAIN asked : ReadNetwork(a) \/ NetworkFails(a)
  BY <1>1, <1>2, <1>6, AsideKept
<1>7. CASE \E k \in DOMAIN reading : NetworkArrives(k)
  BY <1>1, <1>2, <1>7, ArrivalKept
<1>8. CASE ResetChanges
  BY <1>1, <1>2, <1>8, ResetKept
<1>9. CASE SaveChanges \/ RowSaved
  BY <1>1, <1>2, <1>9, SaveKept
<1>10. CASE ApplyRow
  BY <1>1, <1>2, <1>10, RowKept
<1>11. CASE ApplyRequest
  BY <1>1, <1>2, <1>11, AppliedKept
<1> QED
  BY <1>3, <1>4, <1>5, <1>6, <1>7, <1>8, <1>9, <1>10, <1>11, TableCases DEF AtTheTable

LEMMA StepKept == EInv /\ [AssistantNext]_assistantVars => EInv'
<1> SUFFICES ASSUME EInv, [AssistantNext]_assistantVars PROVE EInv'
  OBVIOUS
<1>1. /\ HInv /\ CaseTypes /\ EditTypes /\ FetchTypes /\ ChatTypes /\ OpenInv
      /\ RowTypes /\ EditValues /\ StackTypes
      /\ WantedTypes /\ ClashInv /\ TurnInv /\ KeptInv
  BY DEF EInv, HInv, IInv, TypesInv
<1>2. HInv' /\ WantedTypes' /\ ClashInv' /\ TurnInv'
  BY <1>1, StepHistory, WantedStep, ClashStep, TurnStep
<1>3. \A s \in Sessions : New(s)' => New(s)
  BY <1>1, NewStays
<1>4. KeptInv'
  <2>1. CASE UNCHANGED assistantVars
    <3>1. UNCHANGED <<harm, friction, changes, editing, save, server, session, wanted, objects,
                      shown, request>>
      BY <2>1 DEF assistantVars, vars, caseVars, sessionVars, fetchVars, tableVars
    <3>2. SameRows /\ SameRequest /\ \A s \in Sessions : Untouched(s)
      BY <3>1 DEF SameRows, SameRequest, Untouched, Owner, Rows, SameIds
    <3>3. Untroubled' => EditorInv'
      BY <1>1, <3>1 DEF KeptInv, EditorInv, Rows, Untroubled, Free_of
    <3>4. UNCHANGED <<wanted, save, changes>> /\ harm \subseteq harm' /\ friction \subseteq friction'
      BY <3>1
    <3> QED
      BY <1>1, <1>3, <3>2, <3>3, <3>4, QuietKept
  <2>2. CASE AssistantSteps
    BY <1>1, <1>2, <1>3, <2>2, BesideTheTable, ChatKept
  <2>3. CASE Next /\ UNCHANGED agentVars /\ Strains({})
    BY <1>3, <2>3, NextKept
  <2> QED
    BY <2>1, <2>2, <2>3, AssistantCases DEF AssistantSteps
<1> QED
  BY <1>2, <1>4 DEF EInv

LEMMA RestKeeps == EInv => NoEditIsForgotten
<1> SUFFICES ASSUME KeptInv, AtRest, Untroubled
             PROVE  EditsAreKept
  BY DEF EInv, NoEditIsForgotten, Untroubled
<1>1. PendInv /\ \A s \in Sessions : Kept(s)
  BY DEF KeptInv
<1>2. ~Saving /\ request.at # "sent"
  BY DEF AtRest, Quiet, Behind, InFlight
<1>3. ASSUME NEW s \in Sessions, NEW r \in ToSet(server[s])
      PROVE  \/ r.value = wanted[s][r.id]
             \/ s = session /\ \E i \in DOMAIN changes \cap DOMAIN Rows :
                   Rows[i].id = r.id /\ changes[i] = wanted[s][r.id]
  <2>1. PICK i \in DOMAIN server[s] : r = server[s][i]
    BY <1>3 DEF ToSet
  <2>2. r.value = wanted[s][r.id] \/ Comes(s, r.id)
    BY <1>1, <2>1 DEF Kept
  <2>3. Comes(s, r.id) => s = session /\ \E j \in DOMAIN changes \cap DOMAIN Rows : Rows[j].id = r.id
    BY <1>2 DEF Comes, Unsaved
  <2> QED
    BY <1>1, <2>2, <2>3 DEF PendInv
<1> QED
  BY <1>3 DEF EditsAreKept

\* No edit is forgotten between the pending changes, the save that sends them
\* row by row, the requests beside the table, the tools of the chat and the
\* cases at the server: for any cases, answers in flight, turns and retries, at
\* rest the value last given to each element is pending at its row or is in
\* the case it was given in.
THEOREM EditsStay == AssistantSpec => []NoEditIsForgotten
<1>1. AssistantSpec => []EInv
  BY InitKept, StepKept, PTL DEF AssistantSpec
<1> QED
  BY <1>1, RestKeeps, PTL
-----------------------------------------------------------------------------
(* The types: what keeps every state well formed.                           *)

\* An edit goes to a case that is there, and one that is not there has no rows.
SentInv ==
    /\ save.to # None => save.to \in Sessions /\ ~New(save.to)
    /\ request.to # None => /\ request.to \in Sessions
                            /\ request.at # "open" => ~New(request.to)
    /\ \A s \in Sessions : opening[s] \in {"closed", "sent"} => server[s] = <<>>

\* The answers held, asked for and being read are different ones.
AnswerInv ==
    /\ \A i, j \in 1..Len(reading) : reading[i] = reading[j] => i = j
    /\ \A i \in 1..Len(reading) : reading[i] # shown /\ (Saving => reading[i] # save.of)
    /\ patient \subseteq DOMAIN asked

\* Undo and redo move commands; only an edit makes one.
SizeInv ==
    /\ DOMAIN changes \subseteq Positions
    /\ RowsIn(undoStack, Positions) /\ RowsIn(redoStack, Positions)
    /\ editing = NoEdit \/ editing \in [row : Positions, id : Elements]
    /\ edits \in 0..MaxEdits
    /\ Len(undoStack) + Len(redoStack) <= MaxHistory
    /\ Len(undoStack) + Len(redoStack) <= edits

SendTypes ==
    /\ (save.at = "idle") <=> (save = NotSaving)
    /\ save.emptied \subseteq save.todo
    /\ request.act \in {"none", "add", "modify", "delete"}
    /\ harm \subseteq Harms
    /\ friction \subseteq {"unheard", "unanswered", "clash", "rewritten"}

\* What CallTools and NextCall make of a turn.
TurnOK(r) ==
    /\ (r.at = "unsent") <=> (r = Unsent)
    /\ IF r.at = "calling" THEN r.call.tool \in Tools ELSE r.call = NoCall /\ r.more = 0
    /\ r.rounds <= MaxRounds /\ r.call.tries <= Retries /\ r.more <= MaxCalls

\* The tab reads one turn, and one that has ended until its last event.
ReadInv ==
    /\ \A t \in Turns : TurnOK(turn[t])
    /\ talking \in Turns \cup {None}
    /\ \A t \in Turns : talking # t => stream[t] = <<>>
    /\ \A t \in Turns : talking = t /\ turn[t].at = "ended" =>
          stream[t] # <<>> /\ stream[t][Len(stream[t])].last

\* A round is told of once: each refetch due, each event on its way and a round
\* in progress is of another round that has begun.
Begun == {p \in Turns \X (1..MaxRounds) : p[2] <= turn[p[1]].rounds}
Awaited(t) == Len(stream[t]) + (IF turn[t].at = "calling" THEN 1 ELSE 0)
              - (IF turn[t].at = "ended" THEN 1 ELSE 0)
Owed == due + (IF talking = None THEN 0 ELSE Awaited(talking))
DueInv == Owed <= Cardinality(Begun)

TypeInv == SentInv /\ AnswerInv /\ SizeInv /\ SendTypes /\ ReadInv /\ DueInv
-----------------------------------------------------------------------------
(* The answers.                                                            *)

LEMMA AnswersStay ==
  ASSUME AnswerInv, UNCHANGED <<shown, reading>>, patient' \subseteq DOMAIN asked',
         Saving' => Saving /\ save'.of = save.of
  PROVE  AnswerInv'
  BY DEF AnswerInv

\* What reads, drops or awaits an answer, and leaves the save alone.
LEMMA AnswersMove ==
  ASSUME FetchTypes, AnswerInv,
         \/ \E k \in DOMAIN reading : NetworkArrives(k)
         \/ \E a \in DOMAIN asked : ReadNetwork(a) \/ NetworkFails(a)
  PROVE  AnswerInv'
<1>1. /\ reading \in Seq(Answers) /\ Len(reading) \in Nat /\ DOMAIN reading = 1..Len(reading)
      /\ ToSet(reading) = {reading[i] : i \in 1..Len(reading)}
  BY InSet DEF FetchTypes
<1>2. /\ \A i, j \in 1..Len(reading) : reading[i] = reading[j] => i = j
      /\ \A i \in 1..Len(reading) : reading[i] # shown /\ (Saving => reading[i] # save.of)
      /\ patient \subseteq DOMAIN asked
  BY DEF AnswerInv
<1>3. ASSUME NEW k \in 1..Len(reading), NetworkArrives(k)
      PROVE  AnswerInv'
  <2>1. /\ shown' = reading[k] /\ reading' = RemoveAt(reading, k)
        /\ UNCHANGED <<asked, patient, save>>
    BY <1>3 DEF NetworkArrives, Show
  <2>2. /\ Len(reading') = Len(reading) - 1
        /\ \A i \in 1..Len(reading) - 1 :
              reading'[i] = IF i < k THEN reading[i] ELSE reading[i + 1]
    BY <1>1, <2>1, Removed
  <2>3. ASSUME NEW i \in 1..Len(reading')
        PROVE  \E j \in 1..Len(reading) : j # k /\ reading'[i] = reading[j]
                  /\ j = IF i < k THEN i ELSE i + 1
    BY <1>1, <2>2
  <2>4. ASSUME NEW i \in 1..Len(reading')
        PROVE  reading'[i] # shown' /\ (Saving' => reading'[i] # save'.of)
    <3>1. PICK j \in 1..Len(reading) : j # k /\ reading'[i] = reading[j]
      BY <2>3
    <3>2. reading[j] # reading[k] /\ (Saving => reading[j] # save.of)
      BY <1>2, <3>1
    <3>3. (Saving' <=> Saving) /\ save' = save /\ shown' = reading[k]
      BY <2>1 DEF Saving
    <3> QED
      BY <3>1, <3>2, <3>3
  <2>5. ASSUME NEW i \in 1..Len(reading'), NEW j \in 1..Len(reading'), reading'[i] = reading'[j]
        PROVE  i = j
    <3>1. PICK x \in 1..Len(reading) : reading'[i] = reading[x] /\ x = IF i < k THEN i ELSE i + 1
      BY <2>3
    <3>2. PICK y \in 1..Len(reading) : reading'[j] = reading[y] /\ y = IF j < k THEN j ELSE j + 1
      BY <2>3
    <3>3. x = y
      BY <1>2, <2>5, <3>1, <3>2
    <3> QED
      BY <3>1, <3>2, <3>3
  <2> QED
    BY <1>2, <2>1, <2>4, <2>5 DEF AnswerInv
<1>4. ASSUME NEW a \in DOMAIN asked, ReadNetwork(a)
      PROVE  AnswerInv'
  <2>1. /\ reading' = Append(reading, a) /\ UNCHANGED <<shown, save>>
        /\ DOMAIN asked' = DOMAIN asked \ {a} /\ patient' = patient \ {a}
    BY <1>4 DEF ReadNetwork, Answered
  <2>2. a \in Answers /\ a # shown /\ a \notin ToSet(reading) /\ (Saving => save.of # a)
    BY DEF FetchTypes
  <2>3. /\ Len(reading') = Len(reading) + 1
        /\ \A i \in 1..Len(reading) + 1 :
              reading'[i] = IF i <= Len(reading) THEN reading[i] ELSE a
    BY <1>1, <2>1, <2>2, Appended
  <2>4. ASSUME NEW i \in 1..Len(reading')
        PROVE  \/ i \in 1..Len(reading) /\ reading'[i] = reading[i]
               \/ i = Len(reading) + 1 /\ reading'[i] = a
    BY <1>1, <2>3
  <2>5. \A i \in 1..Len(reading) : reading[i] # a
    BY <1>1, <2>2
  <2>6. ASSUME NEW i \in 1..Len(reading'), NEW j \in 1..Len(reading'), reading'[i] = reading'[j]
        PROVE  i = j
    BY <1>2, <2>4, <2>5, <2>6
  <2>7. ASSUME NEW i \in 1..Len(reading')
        PROVE  reading'[i] # shown' /\ (Saving' => reading'[i] # save'.of)
    BY <1>2, <2>1, <2>2, <2>4 DEF Saving
  <2> QED
    BY <1>2, <2>1, <2>6, <2>7 DEF AnswerInv
<1>5. ASSUME NEW a \in DOMAIN asked, NetworkFails(a)
      PROVE  AnswerInv'
  <2>1. UNCHANGED <<shown, reading, save>>
    BY <1>5 DEF NetworkFails
  <2>2. patient' \subseteq DOMAIN asked'
    BY <1>2, <1>5 DEF NetworkFails, Answered, Request
  <2> QED
    BY <2>1, <2>2, AnswersStay DEF Saving
<1> QED
  BY <1>1, <1>3, <1>4, <1>5

LEMMA AnswerStep ==
  ASSUME EditTypes, FetchTypes, AnswerInv, [AssistantNext]_assistantVars
  PROVE  AnswerInv'
<1>1. patient \subseteq DOMAIN asked
  BY DEF AnswerInv
<1>2. ASSUME NEW a \in Answers, Request(a)
      PROVE  DOMAIN asked' = DOMAIN asked \cup {a}
  BY <1>2, Asking
<1>3. (\E a \in Answers : Request(a)) /\ UNCHANGED patient => patient' \subseteq DOMAIN asked'
  BY <1>1, <1>2
<1>4. CASE UNCHANGED assistantVars
  BY <1>1, <1>4, AnswersStay DEF assistantVars, vars, fetchVars, Saving
<1>5. CASE AssistantSteps
  <2>1. UNCHANGED <<shown, reading, save>> /\ (FetchDue \/ UNCHANGED asked)
    BY <1>5, BesideTheTable
  <2>2. patient' = patient
    BY <1>5 DEF AssistantSteps, StopGeneration, FetchDue, Ask, SendMessage, ReadEvent, CallTools,
                Answer, CallEnds, Unanswered, ApplyCall, OpenForChat, vars, tabVars, fetchVars
  <2>3. FetchDue => \E a \in Answers : Request(a)
    BY DEF FetchDue, Ask
  <2> QED
    BY <1>1, <1>3, <2>1, <2>2, <2>3, AnswersStay DEF Saving
<1>6. CASE Next
  <2>1. CASE AtTheTable
    <3>1. UNCHANGED fetchVars /\ save'.at = save.at /\ save'.of = save.of
      BY <2>1, TableSteps
    <3> QED
      BY <1>1, <3>1, AnswersStay DEF fetchVars, Saving
  <2>2. CASE \/ \E s \in Sessions : OpenCase(s) \/ LoadCase(s) \/ OpenFails(s) \/ SessionCreated(s)
             \/ ApplyRequest \/ RefuseRequest
    <3>1. UNCHANGED <<fetchVars, save>>
      BY <2>2 DEF OpenCase, LoadCase, OpenFails, SessionCreated, ApplyRequest, RefuseRequest
    <3> QED
      BY <1>1, <3>1, AnswersStay DEF fetchVars, Saving
  <2>3. ASSUME NEW s \in Sessions, FetchOpened(s)
        PROVE  AnswerInv'
    <3>1. PICK a \in Answers : Request(a) /\ patient' = patient \cup {a}
      BY <2>3 DEF FetchOpened
    <3>2. UNCHANGED <<shown, reading, save>>
      BY <2>3 DEF FetchOpened
    <3> QED
      BY <1>1, <1>2, <3>1, <3>2, AnswersStay DEF Saving
  <2>4. CASE ResetChanges
    BY <1>3, <2>4, AnswersStay DEF ResetChanges, Ask, Saving
  <2>5. CASE RequestDone
    <3>1. UNCHANGED <<shown, reading, save, patient>>
      BY <2>5 DEF RequestDone, Ask
    <3>2. UNCHANGED asked \/ \E a \in Answers : Request(a)
      BY <2>5 DEF RequestDone, Ask
    <3> QED
      BY <1>1, <1>3, <3>1, <3>2, AnswersStay DEF Saving
  <2>6. ASSUME NEW of, NEW todo, NEW emptied, NextRow(of, todo, emptied),
               of = shown \/ (Saving /\ of = save.of),
               UNCHANGED reading, patient' \subseteq DOMAIN asked'
        PROVE  AnswerInv'
    <3>1. \A i \in 1..Len(reading) : reading[i] # of /\ reading[i] # shown
      BY <2>6 DEF AnswerInv
    <3>2. CASE save'.at = "sent" /\ save'.of = of /\ UNCHANGED shown
      BY <2>6, <3>1, <3>2 DEF AnswerInv
    <3>3. CASE save'.at = "idle" /\ Show(of)
      BY <2>6, <3>1, <3>3 DEF AnswerInv, Show, Saving
    <3> QED
      BY <2>6, <3>2, <3>3, SaveGoesOn
  <2>7. CASE SaveChanges
    <3>1. /\ NextRow(shown, DOMAIN changes \cap DOMAIN Rows, {})
          /\ UNCHANGED <<asked, reading, patient>>
      BY <2>7 DEF SaveChanges
    <3> QED
      BY <1>1, <2>6, <3>1
  <2>8. CASE RowSaved
    <3>1. /\ NextRow(save.of, save.todo, save.emptied) /\ UNCHANGED <<reading, patient>>
          /\ Saving /\ \E a \in Answers : Request(a)
      BY <2>8 DEF RowSaved, Saving, Ask
    <3> QED
      BY <1>3, <2>6, <3>1
  <2>9. CASE SaveFails
    BY <1>1, <2>9, AnswersStay DEF SaveFails, NotSaving, Saving, fetchVars
  <2>10. CASE ApplyRow \/ RefuseRow
    <3>1. UNCHANGED fetchVars /\ Saving /\ \E x : save' = [save EXCEPT !.at = x]
      BY <2>10 DEF ApplyRow, RefuseRow, Saving
    <3>2. save'.of = save.of
      BY <3>1, EditedSave
    <3> QED
      BY <1>1, <3>1, <3>2, AnswersStay DEF fetchVars
  <2>11. CASE \/ \E k \in DOMAIN reading : NetworkArrives(k)
              \/ \E a \in DOMAIN asked : ReadNetwork(a) \/ NetworkFails(a)
    BY <2>11, AnswersMove
  <2> QED
    BY <1>6, <2>1, <2>2, <2>3, <2>4, <2>5, <2>7, <2>8, <2>9, <2>10, <2>11, TableCases
<1> QED
  BY <1>4, <1>5, <1>6, AssistantCases DEF AssistantSteps
-----------------------------------------------------------------------------
(* Pending changes and the history.                                        *)

EditorAt == editing = NoEdit \/ editing \in [row : Positions, id : Elements]

LEMMA SizesStay ==
  ASSUME SizeInv, UNCHANGED <<undoStack, redoStack, edits>>,
         DOMAIN changes' \subseteq Positions, EditorAt'
  PROVE  SizeInv'
  BY DEF SizeInv, EditorAt

\* trackEdit adds at most one command, to a history that is not too long.
LEMMA TrackedSize ==
  ASSUME RowTypes, FetchTypes, EditValues, StackTypes, SizeInv,
         NEW i \in Positions \cap DOMAIN Rows, NEW v \in Values, Track(i, v)
  PROVE  /\ RowsIn(undoStack', Positions) /\ RowsIn(redoStack', Positions)
         /\ Len(undoStack') + Len(redoStack') <= MaxHistory
         /\ Len(undoStack') + Len(redoStack') <= edits + 1
<1>1. /\ undoStack \in Seq(Cmd) /\ redoStack \in Seq(Cmd)
      /\ Len(undoStack) \in Nat /\ Len(redoStack) \in Nat
      /\ RowsIn(undoStack, Positions) /\ RowsIn(redoStack, Positions)
      /\ Len(undoStack) + Len(redoStack) <= MaxHistory
      /\ Len(undoStack) + Len(redoStack) <= edits
      /\ edits \in Nat /\ MaxHistory \in Nat
  BY BoundsAssumption DEF StackTypes, SizeInv
<1>2. CASE Merge(i, v)
  <2>1. /\ undoStack # <<>> /\ UNCHANGED redoStack
        /\ undoStack' = [undoStack EXCEPT ![Len(undoStack)].new = v,
                                          ![Len(undoStack)].fresh = TRUE]
    BY <1>2 DEF Merge, CanMerge
  <2>2. /\ Len(undoStack') = Len(undoStack)
        /\ \A k \in 1..Len(undoStack) : undoStack'[k].row = undoStack[k].row
    BY <2>1, Merged
  <2>3. RowsIn(undoStack', Positions)
    BY <1>1, <2>2 DEF RowsIn
  <2> QED
    BY <1>1, <2>1, <2>2, <2>3
<1>3. ASSUME Push([row |-> i, prev |-> Cell(i), new |-> v, fresh |-> TRUE]), redoStack' = <<>>
      PROVE  /\ RowsIn(undoStack', Positions) /\ RowsIn(redoStack', Positions)
             /\ Len(undoStack') + Len(redoStack') <= MaxHistory
             /\ Len(undoStack') + Len(redoStack') <= edits + 1
  <2> DEFINE c == [row |-> i, prev |-> Cell(i), new |-> v, fresh |-> TRUE]
             q == Append(undoStack, c)
  <2>1. c \in Cmd /\ c.row \in Positions
    BY ValueAtCell DEF Cmd
  <2>2. /\ q \in Seq(Cmd) /\ Len(q) = Len(undoStack) + 1 /\ RowsIn(q, Positions) /\ q # <<>>
    BY <1>1, <2>1, Appended, RowsKept, Tracked
  <2>3. undoStack' = IF Len(q) > MaxHistory THEN Tail(q) ELSE q
    BY <1>3 DEF Push
  <2> HIDE DEF q
  <2>4. Len(Tail(q)) = Len(q) - 1 /\ RowsIn(Tail(q), Positions)
    BY <2>2, Beheaded, RowsKept
  <2>5. Len(redoStack') = 0 /\ RowsIn(redoStack', Positions)
    BY <1>3, StackEmpty, NoChanges
  <2>6. RowsIn(undoStack', Positions)
    BY <2>2, <2>3, <2>4
  <2>7. CASE Len(q) > MaxHistory
    <3>1. Len(undoStack') = Len(undoStack)
      BY <1>1, <2>2, <2>3, <2>4, <2>7
    <3> QED
      BY <1>1, <2>5, <2>6, <3>1
  <2>8. CASE ~(Len(q) > MaxHistory)
    <3>1. undoStack' = q
      BY <2>3, <2>8
    <3> QED
      BY <1>1, <2>2, <2>5, <2>6, <2>8, <3>1
  <2> QED
    BY <2>7, <2>8
<1> QED
  BY <1>2, <1>3 DEF Track

\* Undo and redo move a command across, to a row there is.
LEMMA MovedSize ==
  ASSUME NEW q \in Seq(Cmd), NEW r \in Seq(Cmd), q # <<>>,
         RowsIn(q, Positions), RowsIn(r, Positions)
  PROVE  /\ RowsIn(Front(q), Positions) /\ RowsIn(Append(r, Last(q)), Positions)
         /\ Last(q).row \in Positions /\ Last(q).prev \in Values /\ Last(q).new \in Values
         /\ Len(Front(q)) + Len(Append(r, Last(q))) = Len(q) + Len(r)
<1>1. /\ Len(q) \in Nat /\ Last(q) \in Cmd /\ Front(q) \in Seq(Cmd)
      /\ Len(Front(q)) = Len(q) - 1
  BY LastOff
<1>2. Last(q).row \in Positions /\ RowsIn(Front(q), Positions)
  BY RowsKept
<1>3. RowsIn(Append(r, Last(q)), Positions)
  BY <1>1, <1>2, RowsKept
<1>4. Len(Append(r, Last(q))) = Len(r) + 1 /\ Len(r) \in Nat
  BY <1>1, Appended
<1>5. Last(q).prev \in Values /\ Last(q).new \in Values
  BY <1>1 DEF Cmd
<1> QED
  BY <1>1, <1>2, <1>3, <1>4, <1>5

LEMMA SizeStep ==
  ASSUME RowTypes, EditTypes, FetchTypes, EditValues, StackTypes, SizeInv,
         [AssistantNext]_assistantVars
  PROVE  SizeInv'
<1>1. DOMAIN changes \subseteq Positions /\ EditorAt
  BY DEF SizeInv, EditorAt
<1>2. /\ undoStack \in Seq(Cmd) /\ redoStack \in Seq(Cmd)
      /\ Len(undoStack) \in Nat /\ Len(redoStack) \in Nat
      /\ RowsIn(undoStack, Positions) /\ RowsIn(redoStack, Positions)
      /\ Len(undoStack) + Len(redoStack) <= MaxHistory
      /\ Len(undoStack) + Len(redoStack) <= edits
      /\ edits \in 0..MaxEdits /\ MaxHistory \in Nat /\ MaxEdits \in Nat
  BY BoundsAssumption DEF StackTypes, SizeInv
<1>3. ASSUME UNCHANGED <<undoStack, redoStack, edits, changes>>, EditorAt'
      PROVE  SizeInv'
  BY <1>1, <1>3, SizesStay
<1>4. ASSUME UNCHANGED <<undoStack, redoStack, edits, changes, editing>>
      PROVE  SizeInv'
  BY <1>1, <1>3, <1>4 DEF EditorAt
<1>5. CASE UNCHANGED assistantVars
  BY <1>4, <1>5 DEF assistantVars, vars, tableVars, counters
<1>6. CASE AssistantSteps
  <2>1. edits' = edits
    BY <1>6 DEF AssistantSteps, StopGeneration, FetchDue, SendMessage, ReadEvent, CallTools,
                Answer, CallEnds, Unanswered, ApplyCall, OpenForChat, vars, tabVars, counters
  <2> QED
    BY <1>4, <1>6, <2>1, TableBesideChat DEF tableVars
<1>7. CASE Next
  <2>1. ASSUME NEW i \in Positions, OpenEditor(i)
        PROVE  SizeInv'
    <3>1. /\ UNCHANGED <<undoStack, redoStack, edits, changes>>
          /\ editing' = [row |-> i, id |-> Rows[i].id] /\ i \in DOMAIN Rows
      BY <2>1 DEF OpenEditor, counters
    <3>2. Rows[i].id \in Elements
      BY <3>1, RowOf
    <3>3. EditorAt'
      BY <3>1, <3>2 DEF EditorAt
    <3> QED
      BY <1>3, <3>1, <3>3
  <2>2. CASE CancelEdit
    <3>1. UNCHANGED <<undoStack, redoStack, edits, changes>> /\ EditorAt'
      BY <2>2 DEF CancelEdit, counters, EditorAt
    <3> QED
      BY <1>3, <3>1
  <2>3. ASSUME NEW v \in Values, SaveEdit(v)
        PROVE  SizeInv'
    <3> DEFINE i == editing.row
    <3>1. /\ editing # NoEdit /\ i \in DOMAIN Rows /\ edits < MaxEdits /\ Track(i, v)
          /\ changes' = Set(i, v) /\ editing' = NoEdit /\ edits' = edits + 1
      BY <2>3 DEF SaveEdit
    <3>2. i \in Positions
      BY <1>1, <3>1 DEF EditorAt
    <3> HIDE DEF i
    <3>3. DOMAIN changes' \subseteq Positions
      BY <1>1, <3>1, <3>2 DEF Set
    <3>4. /\ RowsIn(undoStack', Positions) /\ RowsIn(redoStack', Positions)
          /\ Len(undoStack') + Len(redoStack') <= MaxHistory
          /\ Len(undoStack') + Len(redoStack') <= edits + 1
      BY <2>3, <3>1, <3>2, TrackedSize
    <3>5. edits' \in 0..MaxEdits
      BY <1>2, <3>1
    <3> QED
      BY <3>1, <3>3, <3>4, <3>5 DEF SizeInv
  <2>4. CASE SaveEditUnchanged
    <3>1. /\ UNCHANGED <<undoStack, redoStack, edits>>
          /\ changes' = Unset(editing.row) /\ editing' = NoEdit
      BY <2>4 DEF SaveEditUnchanged, counters
    <3>2. DOMAIN changes' \subseteq Positions
      BY <1>1, <3>1, ChangeUnset
    <3> QED
      BY <3>1, <3>2, SizesStay DEF EditorAt
  <2>5. CASE HandleUndo
    <3>1. /\ undoStack # <<>> /\ changes' = Set(Last(undoStack).row, Last(undoStack).prev)
          /\ undoStack' = Front(undoStack) /\ redoStack' = Append(redoStack, Last(undoStack))
          /\ UNCHANGED <<edits, editing>>
      BY <2>5 DEF HandleUndo, Undo, Shortcut, Revert, counters
    <3>2. /\ RowsIn(undoStack', Positions) /\ RowsIn(redoStack', Positions)
          /\ Last(undoStack).row \in Positions /\ Last(undoStack).prev \in Values
          /\ Len(undoStack') + Len(redoStack') = Len(undoStack) + Len(redoStack)
      BY <1>2, <3>1, MovedSize
    <3>3. DOMAIN changes' \subseteq Positions
      BY <1>1, <3>1, <3>2 DEF Set
    <3> QED
      BY <1>1, <1>2, <3>1, <3>2, <3>3 DEF SizeInv, EditorAt
  <2>6. CASE HandleRedo
    <3>1. /\ redoStack # <<>> /\ changes' = Set(Last(redoStack).row, Last(redoStack).new)
          /\ redoStack' = Front(redoStack) /\ undoStack' = Append(undoStack, Last(redoStack))
          /\ UNCHANGED <<edits, editing>>
      BY <2>6 DEF HandleRedo, Redo, Shortcut, Execute, counters
    <3>2. /\ RowsIn(undoStack', Positions) /\ RowsIn(redoStack', Positions)
          /\ Last(redoStack).row \in Positions /\ Last(redoStack).new \in Values
          /\ Len(redoStack') + Len(undoStack') = Len(redoStack) + Len(undoStack)
      BY <1>2, <3>1, MovedSize
    <3>3. DOMAIN changes' \subseteq Positions
      BY <1>1, <3>1, <3>2 DEF Set
    <3>4. Len(undoStack') \in Nat /\ Len(redoStack') \in Nat
      BY StackTypesStep, LenProperties DEF StackTypes
    <3> QED
      BY <1>1, <1>2, <3>1, <3>2, <3>3, <3>4 DEF SizeInv, EditorAt
  <2>7. CASE Pause
    <3>1. /\ undoStack' = [k \in DOMAIN undoStack |-> [undoStack[k] EXCEPT !.fresh = FALSE]]
          /\ redoStack' = [k \in DOMAIN redoStack |-> [redoStack[k] EXCEPT !.fresh = FALSE]]
          /\ UNCHANGED <<changes, editing, edits>>
      BY <2>7 DEF Pause, counters
    <3>2. /\ Len(undoStack') = Len(undoStack)
          /\ \A k \in 1..Len(undoStack) : undoStack'[k].row = undoStack[k].row
      BY <1>2, <3>1, Paused
    <3>4. /\ Len(redoStack') = Len(redoStack)
          /\ \A k \in 1..Len(redoStack) : redoStack'[k].row = redoStack[k].row
      BY <1>2, <3>1, Paused
    <3>3. RowsIn(undoStack', Positions) /\ RowsIn(redoStack', Positions)
      BY <1>2, <3>2, <3>4 DEF RowsIn
    <3> QED
      BY <1>1, <1>2, <3>1, <3>2, <3>3, <3>4 DEF SizeInv, EditorAt
  <2>8. CASE ResetChanges
    <3>1. /\ changes' = <<>> /\ undoStack' = <<>> /\ redoStack' = <<>>
          /\ UNCHANGED <<editing, edits>>
      BY <2>8 DEF ResetChanges, ClearHistory
    <3> QED
      BY <1>1, <1>2, <3>1, NoChanges, StackEmpty DEF SizeInv, EditorAt
  <2>9. CASE SaveChanges \/ RowSaved
    <3>1. /\ UNCHANGED <<undoStack, redoStack, edits, editing>>
          /\ \E of, todo, emptied : NextRow(of, todo, emptied)
      BY <2>9 DEF SaveChanges, RowSaved, counters
    <3>2. changes' = changes \/ changes' = <<>>
      BY <3>1 DEF NextRow, FinishSave, SendRow
    <3>3. DOMAIN changes' \subseteq Positions
      BY <1>1, <3>2, NoChanges
    <3> QED
      BY <1>1, <3>1, <3>3, SizesStay DEF EditorAt
  <2>10. CASE OpenOrClose \/ Apply
    BY <1>4, <2>10, DialogSteps, ApplySteps DEF SendRequest, tableVars, counters
  <2>11. CASE SaveFails \/ RequestDone \/ ApplyRow \/ ApplyRequest \/ RefuseRow \/ RefuseRequest
    BY <1>4, <2>11 DEF SaveFails, RequestDone, ApplyRow, ApplyRequest, RefuseRow, RefuseRequest,
                       tableVars, counters
  <2>12. CASE \/ \E s \in Sessions : OpenCase(s) \/ LoadCase(s) \/ OpenFails(s)
              \/ \E s \in Sessions : SessionCreated(s) \/ FetchOpened(s)
              \/ \E k \in DOMAIN reading : NetworkArrives(k)
              \/ \E a \in DOMAIN asked : ReadNetwork(a) \/ NetworkFails(a)
    BY <1>4, <2>12 DEF OpenCase, LoadCase, OpenFails, SessionCreated, FetchOpened,
                       NetworkArrives, ReadNetwork, NetworkFails, tableVars, counters
  <2> QED
    BY <1>7, <2>1, <2>2, <2>3, <2>4, <2>5, <2>6, <2>7, <2>8, <2>9, <2>10, <2>11, <2>12,
       TableCases DEF AtTheTable
<1> QED
  BY <1>5, <1>6, <1>7, AssistantCases DEF AssistantSteps
-----------------------------------------------------------------------------
(* Where edits are sent, and what a save and a request are.                *)

Unloaded(s) == opening[s] \in {"closed", "sent"}

\* A case that is not loaded was not before, and stays without rows.
LEMMA StaysUnloaded ==
  ASSUME CaseTypes, ChatTypes, OpenInv, TurnInv, SentInv, [AssistantNext]_assistantVars,
         NEW x \in Sessions, Unloaded(x)'
  PROVE  Unloaded(x) /\ server'[x] = server[x]
<1>1. /\ opening \in [Sessions -> Stages] /\ server = [s \in Sessions |-> server[s]]
      /\ None \notin Sessions
  BY NoneAssumption DEF CaseTypes
<1>2. CASE UNCHANGED <<opening, server>>
  BY <1>2 DEF Unloaded
<1>3. ASSUME NEW s, NEW act, NEW e, NEW v, Carry(s, act, e, v), UNCHANGED opening,
             s \in Sessions => ~New(s)
      PROVE  Unloaded(x) /\ server'[x] = server[x]
  <2>1. Unloaded(x) /\ x # s
    BY <1>3 DEF Unloaded, New
  <2> QED
    BY <1>1, <1>3, <2>1 DEF Carry
<1>4. CASE UNCHANGED assistantVars
  BY <1>2, <1>4 DEF assistantVars, vars, caseVars, sessionVars
<1>5. CASE Next
  <2>1. CASE \/ ResetChanges \/ SaveChanges \/ RowSaved \/ SaveFails
             \/ RequestDone \/ RefuseRow \/ RefuseRequest
             \/ \E k \in DOMAIN reading : NetworkArrives(k)
             \/ \E a \in DOMAIN asked : ReadNetwork(a) \/ NetworkFails(a)
    BY <1>2, <2>1 DEF ResetChanges, SaveChanges, RowSaved, SaveFails, RequestDone, RefuseRow,
       RefuseRequest, NetworkArrives, ReadNetwork, NetworkFails, caseVars, sessionVars
  <2>2. CASE ApplyRow
    <3>1. Carry(save.to, "modify", save.id, save.value) /\ UNCHANGED opening
      BY <2>2 DEF ApplyRow, sessionVars
    <3> QED
      BY <1>1, <1>3, <3>1 DEF SentInv
  <2>3. CASE ApplyRequest
    <3>1. /\ Carry(request.to, request.act, request.id, request.value)
          /\ UNCHANGED opening /\ request.at # "open"
      BY <2>3 DEF ApplyRequest, sessionVars
    <3> QED
      BY <1>1, <1>3, <3>1 DEF SentInv
  <2>4. ASSUME NEW s \in Sessions, OpenCase(s) \/ OpenFails(s) \/ SessionCreated(s) \/ FetchOpened(s)
        PROVE  Unloaded(x) /\ server'[x] = server[x]
    BY <1>1, <2>4 DEF OpenCase, OpenFails, SessionCreated, FetchOpened, StageTo, Unloaded, caseVars
  <2>5. ASSUME NEW s \in Sessions, LoadCase(s)
        PROVE  Unloaded(x) /\ server'[x] = server[x]
    BY <1>1, <2>5 DEF LoadCase, StageTo, Unloaded
  <2>6. CASE AtTheTable
    BY <1>2, <2>6, CasesStay DEF caseVars, sessionVars
  <2> QED
    BY <1>5, <2>1, <2>2, <2>3, <2>4, <2>5, <2>6, TableCases
<1>6. CASE AssistantSteps
  <2>1. CASE \/ StopGeneration \/ FetchDue
             \/ \E t \in Turns : SendMessage(t) \/ CallTools(t) \/ Answer(t) \/ CallEnds(t)
                                 \/ Unanswered(t)
    BY <1>2, <2>1 DEF StopGeneration, FetchDue, SendMessage, CallTools, Answer, CallEnds,
                      Unanswered, vars, caseVars, sessionVars
  <2>2. ASSUME NEW t \in Turns, ReadEvent(t)
        PROVE  Unloaded(x) /\ server'[x] = server[x]
    <3>1. UNCHANGED server
      BY <2>2 DEF ReadEvent
    <3>2. UNCHANGED opening \/ \E s : opening' = [opening EXCEPT ![s] = "open"]
      BY <2>2 DEF ReadEvent, ToolResults, StageTo, sessionVars
    <3> QED
      BY <1>1, <3>1, <3>2 DEF Unloaded
  <2>3. ASSUME NEW t \in Turns, ApplyCall(t)
        PROVE  Unloaded(x) /\ server'[x] = server[x]
    <3>1. /\ UNCHANGED opening
          /\ \/ UNCHANGED server
             \/ \E act, e, v : Carry(turn[t].to, act, e, v)
      BY <2>3 DEF ApplyCall, sessionVars
    <3>2. turn[t].to \in Sessions => ~New(turn[t].to)
      BY <1>1 DEF TurnInv
    <3> QED
      BY <1>2, <1>3, <3>1, <3>2
  <2>4. ASSUME NEW t \in Turns, NEW s \in Sessions, OpenForChat(t, s)
        PROVE  Unloaded(x) /\ server'[x] = server[x]
    <3>1. /\ opening' = [opening EXCEPT ![s] = "apart"]
          /\ \E cases : server' = [server EXCEPT ![s] = cases]
      BY <2>4 DEF OpenForChat, StageTo
    <3> QED
      BY <1>1, <3>1 DEF Unloaded
  <2> QED
    BY <1>6, <2>1, <2>2, <2>3, <2>4 DEF AssistantSteps
<1> QED
  BY <1>4, <1>5, <1>6, AssistantCases DEF AssistantSteps

\* Edits are sent to the session there is.
LEMMA SendsHere ==
  ASSUME EditTypes, [AssistantNext]_assistantVars
  PROVE  /\ save'.to \in {save.to, session, None}
         /\ \/ request'.to \in {session, None}
            \/ request'.at = "open" /\ request'.to = Owner
            \/ request'.to = request.to /\ (request'.at = "open" <=> request.at = "open")
<1>1. NotSaving.to = None /\ NoRequest.to = None
  BY DEF NotSaving, NoRequest
<1>2. CASE UNCHANGED <<save, request>>
  BY <1>2
<1>3. CASE UNCHANGED assistantVars
  BY <1>2, <1>3 DEF assistantVars, vars
<1>4. CASE AssistantSteps
  BY <1>2, <1>4, BesideTheTable
<1>5. CASE Next
  <2>1. CASE \/ \E i \in Positions : OpenEditor(i)
             \/ \E v \in Values : SaveEdit(v)
             \/ CancelEdit \/ HandleUndo \/ HandleRedo \/ Pause
    BY <1>2, <2>1 DEF OpenEditor, SaveEdit, CancelEdit, HandleUndo, HandleRedo, Shortcut, Pause
  <2>2. CASE \/ \E s \in Sessions : OpenCase(s) \/ LoadCase(s) \/ OpenFails(s)
             \/ \E s \in Sessions : SessionCreated(s) \/ FetchOpened(s)
             \/ \E k \in DOMAIN reading : NetworkArrives(k)
             \/ \E a \in DOMAIN asked : ReadNetwork(a) \/ NetworkFails(a)
             \/ ResetChanges
    BY <1>2, <2>2, FetchSteps
  <2>3. CASE Apply
    BY <2>3, ApplySteps DEF SendRequest
  <2>9. CASE OpenOrClose
    BY <2>9, DialogSteps
  <2>4. CASE SaveEditUnchanged
    <3>1. UNCHANGED request /\ (UNCHANGED save \/ \E y : save' = [save EXCEPT !.emptied = y])
      BY <2>4 DEF SaveEditUnchanged
    <3>2. save'.to = save.to
      BY <3>1 DEF EditTypes
    <3> QED
      BY <3>1, <3>2
  <2>5. CASE SaveChanges \/ RowSaved
    <3>1. UNCHANGED request /\ \E of, todo, emptied : NextRow(of, todo, emptied)
      BY <2>5 DEF SaveChanges, RowSaved
    <3>2. save'.to \in {session, None}
      BY <1>1, <3>1 DEF NextRow, SendRow, FinishSave
    <3> QED
      BY <3>1, <3>2
  <2>6. CASE SaveFails \/ RequestDone
    BY <1>1, <2>6 DEF SaveFails, RequestDone
  <2>7. CASE ApplyRow \/ RefuseRow
    <3>1. UNCHANGED request /\ \E y : save' = [save EXCEPT !.at = y]
      BY <2>7 DEF ApplyRow, RefuseRow
    <3> QED
      BY <3>1, EditedSave
  <2>8. CASE ApplyRequest \/ RefuseRequest
    <3>1. UNCHANGED save /\ \E y : request' = [request EXCEPT !.at = y]
      BY <2>8 DEF ApplyRequest, RefuseRequest
    <3>2. request'.to = request.to /\ request.at # "open" /\ request'.at # "open"
      BY <2>8, <3>1, EditedSave DEF ApplyRequest, RefuseRequest
    <3> QED
      BY <3>1, <3>2
  <2> QED
    BY <1>5, <2>1, <2>2, <2>3, <2>4, <2>5, <2>6, <2>7, <2>8, <2>9, TableCases DEF AtTheTable
<1> QED
  BY <1>3, <1>4, <1>5, AssistantCases DEF AssistantSteps

LEMMA SentStep ==
  ASSUME CaseTypes, ChatTypes, EditTypes, FetchTypes, RowTypes, OpenInv, TurnInv, SentInv,
         [AssistantNext]_assistantVars
  PROVE  SentInv'
<1>1. /\ session \in Sessions /\ ~New(session) /\ \A s \in Sessions : New(s)' => New(s)
  BY NotNew, NewStays DEF CaseTypes
<1>2. ASSUME NEW to, to # None,
             to \in {save.to, session} \/ (to = request.to /\ request.at # "open")
      PROVE  to \in Sessions /\ ~New(to)'
  BY <1>1, <1>2 DEF SentInv
<1>3. save'.to # None => save'.to \in Sessions /\ ~New(save.to)'
  BY <1>2, SendsHere
<1>4. request'.to # None => /\ request'.to \in Sessions
                            /\ request'.at # "open" => ~New(request.to)'
  <2>1. Owner \in Sessions \cup {None}
    BY DEF Owner, FetchTypes, RowTypes
  <2>2. request.to # None => request.to \in Sessions
    BY DEF SentInv
  <2> QED
    BY <1>1, <1>2, <2>1, <2>2, SendsHere
<1>5. \A s \in Sessions : Unloaded(s)' => server'[s] = <<>>
  BY StaysUnloaded DEF SentInv, Unloaded
<1> QED
  BY <1>3, <1>4, <1>5 DEF SentInv, Unloaded, New

LEMMA SendStep ==
  ASSUME EditTypes, SendTypes, [AssistantNext]_assistantVars
  PROVE  SendTypes'
<1> DEFINE Save(s) == (s.at = "idle" <=> s = NotSaving) /\ s.emptied \subseteq s.todo
           Acts == {"none", "add", "modify", "delete"}
           Strain == {"unheard", "unanswered", "clash", "rewritten"}
<1>1. /\ Save(save) /\ request.act \in Acts /\ harm \subseteq Harms /\ friction \subseteq Strain
  BY DEF SendTypes
<1>2. SendTypes' <=> /\ Save(save') /\ request'.act \in Acts
                     /\ harm' \subseteq Harms /\ friction' \subseteq Strain
  BY DEF SendTypes
<1>3. NotSaving.at = "idle" /\ NotSaving.emptied = {} /\ NotSaving.todo = {} /\ NoRequest.act = "none"
  BY DEF NotSaving, NoRequest
<1> HIDE DEF Strain
<1>4. Save(NotSaving)
  BY <1>3
<1>5. ASSUME Saving, NEW x \in {"applied", "refused"}, save' = [save EXCEPT !.at = x]
      PROVE  Save(save')
  <2>1. save'.at = x /\ save'.todo = save.todo /\ save'.emptied = save.emptied
    BY <1>5, EditedSave
  <2> QED
    BY <1>1, <1>3, <2>1
<1>6. CASE UNCHANGED assistantVars
  BY <1>1, <1>2, <1>6 DEF assistantVars, vars
<1>7. ASSUME [AssistantNext]_assistantVars
      PROVE  friction' \subseteq Strain
  <2>1. \A kinds, c : When(c, kinds) \subseteq {kinds}
    BY DEF When
  <2>2. \A kinds : kinds \subseteq Strain /\ Strains(kinds) => friction' \subseteq Strain
    BY <1>1, <2>1 DEF Strains, Strain
  <2>3. CASE UNCHANGED assistantVars
    BY <1>1, <2>3 DEF assistantVars
  <2>4. CASE Strains({})
    BY <2>2, <2>4
  <2>5. CASE \E c : Strains(When(c, "unheard"))
    BY <2>1, <2>2, <2>5 DEF Strain
  <2>6. CASE \E c : Strains(When(c, "unanswered"))
    BY <2>1, <2>2, <2>6 DEF Strain
  <2>7. CASE \E c, d : Strains(When(c, "unheard") \cup When(d, "rewritten"))
    <3>1. PICK c, d : Strains(When(c, "unheard") \cup When(d, "rewritten"))
      BY <2>7
    <3>2. When(c, "unheard") \cup When(d, "rewritten") \subseteq Strain
      BY <2>1 DEF Strain
    <3> QED
      BY <2>2, <3>1, <3>2
  <2>8. \/ UNCHANGED assistantVars \/ Strains({})
        \/ \E c : Strains(When(c, "unheard")) \/ Strains(When(c, "unanswered"))
        \/ \E c, d : Strains(When(c, "unheard") \cup When(d, "rewritten"))
    <3>1. StopGeneration => \E c : Strains(When(c, "unheard"))
      BY DEF StopGeneration
    <3>2. \A t \in Turns : Unanswered(t) => \E c : Strains(When(c, "unanswered"))
      BY DEF Unanswered
    <3>3. \A t \in Turns : ApplyCall(t) =>
             \E c, d : Strains(When(c, "unheard") \cup When(d, "rewritten"))
      BY DEF ApplyCall
    <3>4. /\ FetchDue => Strains({})
          /\ \A t \in Turns : SendMessage(t) \/ ReadEvent(t) \/ CallTools(t) \/ Answer(t)
                              \/ CallEnds(t) => Strains({})
          /\ \A t \in Turns, s \in Sessions : OpenForChat(t, s) => Strains({})
      BY DEF FetchDue, SendMessage, ReadEvent, CallTools, Answer, CallEnds, OpenForChat
    <3> QED
      BY <1>7, <3>1, <3>2, <3>3, <3>4, AssistantCases
  <2> QED
    BY <2>3, <2>4, <2>5, <2>6, <2>7, <2>8
<1>8. ASSUME Save(save'), request'.act \in Acts, harm' \subseteq Harms
      PROVE  SendTypes'
  BY <1>2, <1>7, <1>8
<1>9. CASE AssistantSteps
  <2>1. UNCHANGED <<save, request>>
    BY <1>9, BesideTheTable
  <2>2. harm' \subseteq Harms
    BY <1>1, <1>9 DEF AssistantSteps, StopGeneration, FetchDue, SendMessage, ReadEvent,
       ToolResults, SetSession, Suffers, When, Harms, CallTools, Answer, CallEnds, Unanswered,
       ApplyCall, OpenForChat, vars
  <2> QED
    BY <1>1, <1>8, <2>1, <2>2
<1>10. CASE Next
  <2>1. harm' \subseteq Harms
    <3>1. CASE \/ \E i \in Positions : OpenEditor(i)
               \/ CancelEdit \/ Pause \/ RowSaved \/ SaveFails \/ RequestDone
               \/ ApplyRow \/ ApplyRequest
               \/ \E s \in Sessions : OpenCase(s) \/ LoadCase(s) \/ FetchOpened(s)
               \/ \E a \in DOMAIN asked : ReadNetwork(a)
      BY <1>1, <3>1 DEF OpenEditor, CancelEdit, Pause, RowSaved, SaveFails, RequestDone, ApplyRow,
         ApplyRequest, OpenCase, LoadCase, FetchOpened, ReadNetwork
    <3>2. CASE Apply
      BY <1>1, <3>2, ApplySteps DEF SendRequest, Suffers, When, Harms
    <3>7. CASE OpenOrClose
      BY <1>1, <3>7, DialogSteps
    <3>3. ASSUME NEW v \in Values, SaveEdit(v)
          PROVE  harm' \subseteq Harms
      BY <1>1, <3>3 DEF SaveEdit, Suffers, When, Harms
    <3>4. CASE SaveEditUnchanged \/ HandleUndo \/ HandleRedo
      BY <1>1, <3>4 DEF SaveEditUnchanged, HandleUndo, HandleRedo, Shortcut, Suffers, When, Harms
    <3>5. CASE ResetChanges \/ SaveChanges \/ RefuseRow \/ RefuseRequest
      BY <1>1, <3>5 DEF ResetChanges, SaveChanges, RefuseRow, RefuseRequest, Suffers, When, Harms
    <3>6. CASE \/ \E k \in DOMAIN reading : NetworkArrives(k)
               \/ \E a \in DOMAIN asked : NetworkFails(a)
               \/ \E s \in Sessions : SessionCreated(s) \/ OpenFails(s)
      BY <1>1, <3>6 DEF NetworkArrives, NetworkFails, SessionCreated, SetSession, OpenFails,
         Suffers, When, Harms
    <3> QED
      BY <1>10, <3>1, <3>2, <3>3, <3>4, <3>5, <3>6, <3>7, TableCases DEF AtTheTable
  <2>2. ASSUME UNCHANGED <<save, request>>
        PROVE  SendTypes'
    BY <1>1, <1>8, <2>1, <2>2
  <2>3. CASE \/ \E i \in Positions : OpenEditor(i)
             \/ \E v \in Values : SaveEdit(v)
             \/ CancelEdit \/ HandleUndo \/ HandleRedo \/ Pause
    BY <2>2, <2>3 DEF OpenEditor, SaveEdit, CancelEdit, HandleUndo, HandleRedo, Shortcut, Pause
  <2>4. CASE \/ \E s \in Sessions : OpenCase(s) \/ LoadCase(s) \/ OpenFails(s)
             \/ \E s \in Sessions : SessionCreated(s) \/ FetchOpened(s)
             \/ \E k \in DOMAIN reading : NetworkArrives(k)
             \/ \E a \in DOMAIN asked : ReadNetwork(a) \/ NetworkFails(a)
             \/ ResetChanges
    BY <2>2, <2>4, FetchSteps
  <2>5. CASE OpenOrClose \/ Apply
    <3>1. Apply => \E act \in Acts : \E e, v : SendRequest(act, e, v)
      BY ApplySteps
    <3>2. request'.act \in Acts /\ UNCHANGED save
      BY <2>5, <3>1, DialogSteps DEF SendRequest
    <3> QED
      BY <1>1, <1>8, <2>1, <3>2
  <2>6. CASE SaveEditUnchanged
    <3>1. /\ UNCHANGED request
          /\ \/ UNCHANGED save
             \/ editing.row \in save.todo
                /\ save' = [save EXCEPT !.emptied = save.emptied \cup {editing.row}]
      BY <2>6 DEF SaveEditUnchanged
    <3>2. ASSUME NEW i \in save.todo, save' = [save EXCEPT !.emptied = save.emptied \cup {i}]
          PROVE  Save(save')
      <4>1. save'.at = save.at /\ save'.todo = save.todo /\ save'.emptied = save.emptied \cup {i}
        BY <3>2, EditedSave
      <4>2. save.at # "idle"
        BY <1>1, <1>3
      <4> QED
        BY <1>1, <1>3, <4>1, <4>2
    <3> QED
      BY <1>1, <1>8, <2>1, <2>2, <3>1, <3>2
  <2>7. ASSUME NEW of, NEW todo, NEW emptied \in SUBSET todo, NextRow(of, todo, emptied),
               UNCHANGED request
        PROVE  SendTypes'
    <3>1. CASE FinishSave(of)
      BY <1>1, <1>4, <1>8, <2>1, <2>7, <3>1 DEF FinishSave
    <3>2. CASE SendRow(of, todo, emptied)
      <4>1. PICK i \in todo : save'.at = "sent" /\ save'.todo = todo \ {i}
                              /\ save'.emptied = emptied \ {i}
        BY <3>2 DEF SendRow
      <4>2. Save(save')
        BY <1>3, <4>1
      <4> QED
        BY <1>1, <1>8, <2>1, <2>7, <4>2
    <3> QED
      BY <2>7, <3>1, <3>2 DEF NextRow
  <2>8. CASE SaveChanges
    BY <2>7, <2>8 DEF SaveChanges
  <2>9. CASE RowSaved
    BY <1>1, <2>7, <2>9 DEF RowSaved
  <2>10. CASE SaveFails
    BY <1>1, <1>4, <1>8, <2>1, <2>10 DEF SaveFails
  <2>11. CASE RequestDone
    BY <1>1, <1>3, <1>8, <2>1, <2>11 DEF RequestDone
  <2>12. CASE ApplyRow \/ RefuseRow
    <3>1. /\ UNCHANGED request /\ Saving
          /\ \E x \in {"applied", "refused"} : save' = [save EXCEPT !.at = x]
      BY <2>12 DEF ApplyRow, RefuseRow, Saving
    <3> QED
      BY <1>1, <1>5, <1>8, <2>1, <3>1
  <2>13. CASE ApplyRequest \/ RefuseRequest
    <3>1. UNCHANGED save /\ \E y : request' = [request EXCEPT !.at = y]
      BY <2>13 DEF ApplyRequest, RefuseRequest
    <3>2. request'.act = request.act
      BY <3>1 DEF EditTypes
    <3> QED
      BY <1>1, <1>8, <2>1, <3>1, <3>2
  <2> QED
    BY <1>10, <2>3, <2>4, <2>5, <2>6, <2>8, <2>9, <2>10, <2>11, <2>12, <2>13,
       TableCases DEF AtTheTable
<1> QED
  BY <1>6, <1>9, <1>10, AssistantCases DEF AssistantSteps
-----------------------------------------------------------------------------
(* The turns.                                                              *)

\* t goes on as given, and no other turn moves.
Moves(t, at, rounds) ==
    /\ turn'[t].at = at /\ turn'[t].rounds = rounds /\ TurnOK(turn'[t])
    /\ \A u \in Turns : u # t => turn'[u] = turn[u]

LEMMA MovesTo ==
  ASSUME ChatTypes, NEW t \in Turns, NEW n, Becomes(t, n),
         n.at \in {"thinking", "calling", "ended"},
         IF n.at = "calling" THEN n.call.tool \in Tools ELSE n.call = NoCall /\ n.more = 0,
         n.rounds <= MaxRounds, n.call.tries <= Retries, n.more <= MaxCalls
  PROVE  Moves(t, n.at, n.rounds)
<1>1. turn'[t] = n /\ \A u \in Turns : u # t => turn'[u] = turn[u]
  BY TurnBecomes
<1>2. n # Unsent
  BY DEF Unsent
<1>3. TurnOK(n)
  BY <1>2 DEF TurnOK
<1> QED
  BY <1>1, <1>3 DEF Moves

LEMMA TurnFacts ==
  ASSUME ChatTypes, NEW t \in Turns, TurnOK(turn[t])
  PROVE  /\ turn[t] \in TurnState /\ turn[t].call \in CallState
         /\ turn[t].rounds \in 0..MaxRounds /\ turn[t].more \in 0..MaxCalls
         /\ turn[t].call.tries \in 0..Retries
         /\ turn[t].at # "calling" => turn[t].call = NoCall /\ turn[t].more = 0
         /\ turn[t].at = "calling" => turn[t].call.tool \in Tools
         /\ turn[t].call.at # "none" <=> turn[t].at = "calling"
         /\ NoCall.tries = 0 /\ 0 <= Retries /\ 0 <= MaxCalls
         /\ \A c \in Tools : Sent(c).tries = 0 /\ Sent(c).tool = c
<1>1. turn[t] \in TurnState /\ turn[t].call \in CallState
  BY DEF ChatTypes, TurnState
<1>2. turn[t].rounds \in Nat /\ turn[t].more \in Nat /\ turn[t].call.tries \in Nat
  BY <1>1 DEF TurnState, CallState
<1> QED
  BY <1>1, <1>2, RoundsAssumption, RetriesAssumption, CallsAssumption
     DEF TurnOK, ChatTypes, NoCall, Sent

LEMMA SendMoves ==
  ASSUME ChatTypes, NEW t \in Turns, TurnOK(turn[t]), SendMessage(t)
  PROVE  Moves(t, "thinking", turn[t].rounds)
<1> DEFINE n == [turn[t] EXCEPT !.at = "thinking", !.to = session]
<1>1. Becomes(t, n) /\ turn[t].at = "unsent"
  BY DEF SendMessage
<1>2. /\ n.at = "thinking" /\ n.call = turn[t].call /\ n.more = turn[t].more
      /\ n.rounds = turn[t].rounds
  BY TurnFacts DEF TurnState
<1> HIDE DEF n
<1> QED
  BY <1>1, <1>2, TurnFacts, MovesTo

LEMMA CallMoves ==
  ASSUME ChatTypes, NEW t \in Turns, TurnOK(turn[t]), CallTools(t)
  PROVE  Moves(t, "calling", turn[t].rounds + 1) /\ turn[t].rounds + 1 <= MaxRounds
<1>1. PICK k \in 1..(MaxCalls - turn[t].rounds), c \in Tools :
         Becomes(t, [turn[t] EXCEPT !.at = "calling", !.more = k - 1, !.call = Sent(c),
                                    !.rounds = @ + 1, !.good = FALSE, !.opened = None])
  BY DEF CallTools
<1> DEFINE n == [turn[t] EXCEPT !.at = "calling", !.more = k - 1, !.call = Sent(c),
                                !.rounds = @ + 1, !.good = FALSE, !.opened = None]
<1>2. turn[t].rounds < MaxRounds
  BY DEF CallTools
<1>3. turn[t].rounds \in 0..MaxRounds /\ turn[t] \in TurnState
      /\ Sent(c).tries = 0 /\ Sent(c).tool = c /\ 0 <= Retries
  BY TurnFacts
<1>4. n.at = "calling" /\ n.call = Sent(c) /\ n.more = k - 1 /\ n.rounds = turn[t].rounds + 1
  BY <1>3 DEF TurnState
<1>5. k - 1 <= MaxCalls /\ turn[t].rounds + 1 <= MaxRounds
  BY <1>2, <1>3, CallsAssumption, RoundsAssumption
<1>6. Becomes(t, n)
  BY <1>1
<1> HIDE DEF n
<1> QED
  BY <1>3, <1>4, <1>5, <1>6, MovesTo

LEMMA AnswerMoves ==
  ASSUME ChatTypes, NEW t \in Turns, TurnOK(turn[t]), Answer(t)
  PROVE  Moves(t, "ended", turn[t].rounds)
<1> DEFINE n == [turn[t] EXCEPT !.at = "ended"]
<1>1. Becomes(t, n) /\ turn[t].at = "thinking"
  BY DEF Answer
<1>2. /\ n.at = "ended" /\ n.call = turn[t].call /\ n.more = turn[t].more
      /\ n.rounds = turn[t].rounds
  BY TurnFacts DEF TurnState
<1> HIDE DEF n
<1> QED
  BY <1>1, <1>2, TurnFacts, MovesTo

LEMMA NextMoves ==
  ASSUME ChatTypes, NEW t \in Turns, TurnOK(turn[t]), turn[t].at = "calling",
         NEW good, NEW opened, NextCall(t, good, opened)
  PROVE  \E at \in {"calling", "thinking"} : Moves(t, at, turn[t].rounds)
<1> DEFINE first == IF turn[t].opened = None THEN opened ELSE turn[t].opened
           so_far == [turn[t] EXCEPT !.good = @ \/ good, !.opened = first,
                                     !.to = IF opened = None THEN @ ELSE opened]
<1>1. /\ so_far.more = turn[t].more /\ so_far.rounds = turn[t].rounds
      /\ so_far.at = "calling"
      /\ DOMAIN so_far = {"at", "to", "rounds", "more", "call", "good", "opened"}
  BY TurnFacts DEF TurnState
<1>2. \/ /\ turn[t].more > 0
         /\ \E c \in Tools : Becomes(t, [so_far EXCEPT !.more = @ - 1, !.call = Sent(c)])
      \/ /\ turn[t].more = 0
         /\ Becomes(t, [so_far EXCEPT !.at = "thinking", !.call = NoCall])
  BY DEF NextCall
<1> HIDE DEF so_far
<1>3. ASSUME NEW c \in Tools, Becomes(t, [so_far EXCEPT !.more = @ - 1, !.call = Sent(c)])
      PROVE  Moves(t, "calling", turn[t].rounds)
  <2> DEFINE n == [so_far EXCEPT !.more = @ - 1, !.call = Sent(c)]
  <2>1. n.at = "calling" /\ n.call = Sent(c) /\ n.more = turn[t].more - 1
        /\ n.rounds = turn[t].rounds
    BY <1>1
  <2>2. Becomes(t, n)
    BY <1>3
  <2>3. turn[t].more - 1 <= MaxCalls
    BY TurnFacts, CallsAssumption
  <2> HIDE DEF n
  <2> QED
    BY <2>1, <2>2, <2>3, TurnFacts, MovesTo
<1>4. ASSUME turn[t].more = 0, Becomes(t, [so_far EXCEPT !.at = "thinking", !.call = NoCall])
      PROVE  Moves(t, "thinking", turn[t].rounds)
  <2> DEFINE n == [so_far EXCEPT !.at = "thinking", !.call = NoCall]
  <2>1. n.at = "thinking" /\ n.call = NoCall /\ n.more = 0 /\ n.rounds = turn[t].rounds
    BY <1>1, <1>4
  <2>2. Becomes(t, n)
    BY <1>4
  <2> HIDE DEF n
  <2> QED
    BY <2>1, <2>2, TurnFacts, MovesTo
<1> QED
  BY <1>2, <1>3, <1>4

\* An attempt of the call in progress.
LEMMA AttemptMoves ==
  ASSUME ChatTypes, NEW t \in Turns, TurnOK(turn[t]), turn[t].at = "calling",
         NEW c, Becomes(t, [turn[t] EXCEPT !.call = c]),
         c.tool = turn[t].call.tool, c.tries <= Retries
  PROVE  Moves(t, "calling", turn[t].rounds)
<1> DEFINE n == [turn[t] EXCEPT !.call = c]
<1>1. /\ n.at = "calling" /\ n.call = c /\ n.more = turn[t].more
      /\ n.rounds = turn[t].rounds
  BY TurnFacts DEF TurnState
<1>2. Becomes(t, n)
  OBVIOUS
<1> HIDE DEF n
<1> QED
  BY <1>1, <1>2, TurnFacts, MovesTo

LEMMA CallGoesOn ==
  ASSUME ChatTypes, NEW t \in Turns, TurnOK(turn[t]),
         ApplyCall(t) \/ \E s \in Sessions : OpenForChat(t, s)
  PROVE  turn[t].at = "calling" /\ Moves(t, "calling", turn[t].rounds)
<1>1. turn[t] \in TurnState /\ turn[t].call \in CallState /\ turn[t].call.tries <= Retries
  BY TurnFacts
<1>2. turn[t].at = "calling"
  BY TurnFacts DEF ApplyCall, OpenForChat
<1>3. CASE ApplyCall(t)
  <2>1. PICK a : Becomes(t, [turn[t] EXCEPT !.call.at = a])
    BY <1>3 DEF ApplyCall
  <2> DEFINE c == [turn[t].call EXCEPT !.at = a]
  <2>2. c.tool = turn[t].call.tool /\ c.tries = turn[t].call.tries
    BY <1>1 DEF CallState
  <2>3. [turn[t] EXCEPT !.call.at = a] = [turn[t] EXCEPT !.call = c]
    OBVIOUS
  <2>4. Becomes(t, [turn[t] EXCEPT !.call = c])
    BY <2>1, <2>3
  <2> HIDE DEF c
  <2> QED
    BY <1>1, <1>2, <2>2, <2>4, AttemptMoves
<1>4. ASSUME NEW s \in Sessions, OpenForChat(t, s)
      PROVE  Moves(t, "calling", turn[t].rounds)
  <2> DEFINE c == [turn[t].call EXCEPT !.at = "done", !.made = s]
  <2>1. Becomes(t, [turn[t] EXCEPT !.call.at = "done", !.call.made = s])
    BY <1>4 DEF OpenForChat
  <2>2. c.tool = turn[t].call.tool /\ c.tries = turn[t].call.tries
    BY <1>1 DEF CallState
  <2>3. [turn[t] EXCEPT !.call.at = "done", !.call.made = s] = [turn[t] EXCEPT !.call = c]
    BY <1>1 DEF TurnState, CallState
  <2>4. Becomes(t, [turn[t] EXCEPT !.call = c])
    BY <2>1, <2>3
  <2> HIDE DEF c
  <2> QED
    BY <1>1, <1>2, <2>2, <2>4, AttemptMoves
<1> QED
  BY <1>2, <1>3, <1>4

\* An attempt without an answer is repeated, as long as it may be.
LEMMA RetryMoves ==
  ASSUME ChatTypes, NEW t \in Turns, TurnOK(turn[t]), turn[t].at = "calling",
         turn[t].call.tries < Retries,
         Becomes(t, [turn[t] EXCEPT !.call.at = "sent", !.call.tries = @ + 1])
  PROVE  Moves(t, "calling", turn[t].rounds)
<1>1. /\ turn[t] \in TurnState /\ turn[t].call \in CallState
      /\ turn[t].call.tries + 1 <= Retries
  BY TurnFacts, RetriesAssumption
<1> DEFINE c == [turn[t].call EXCEPT !.at = "sent", !.tries = @ + 1]
<1>2. c.tool = turn[t].call.tool /\ c.tries = turn[t].call.tries + 1
  BY <1>1 DEF CallState
<1>3. [turn[t] EXCEPT !.call.at = "sent", !.call.tries = @ + 1] = [turn[t] EXCEPT !.call = c]
  BY <1>1 DEF TurnState, CallState
<1>4. Becomes(t, [turn[t] EXCEPT !.call = c])
  BY <1>3
<1> HIDE DEF c
<1> QED
  BY <1>1, <1>2, <1>4, AttemptMoves

\* What the agent-server does with a turn: a round begins, goes on, is told of,
\* or the turn ends.
Works(t) ==
    /\ UNCHANGED <<talking, due>>
    /\ \/ /\ turn[t].at = "thinking" /\ turn[t].rounds + 1 <= MaxRounds
          /\ Moves(t, "calling", turn[t].rounds + 1) /\ UNCHANGED stream
       \/ /\ turn[t].at = "calling"
          /\ Moves(t, "calling", turn[t].rounds) /\ UNCHANGED stream
       \/ /\ turn[t].at = "calling"
          /\ Moves(t, "thinking", turn[t].rounds) /\ \E e \in Event : Emit(t, e)
       \/ /\ turn[t].at = "thinking"
          /\ Moves(t, "ended", turn[t].rounds) /\ Emit(t, End)

LEMMA NextWorks ==
  ASSUME ChatTypes, NEW t \in Turns, TurnOK(turn[t]), turn[t].at = "calling",
         UNCHANGED <<talking, due>>, NEW good \in BOOLEAN, NEW opened \in Sessions \cup {None},
         NextCall(t, good, opened)
  PROVE  Works(t)
<1>1. turn[t].call.at # "none"
  BY DEF ChatTypes
<1>2. PICK n : CallOver(t, n, good, opened)
  BY <1>1, NextTurn
<1>3. turn'[t] = n /\ n \in TurnState
  BY <1>2, TurnBecomes DEF CallOver
<1>4. PICK at \in {"calling", "thinking"} : Moves(t, at, turn[t].rounds)
  BY NextMoves
<1>5. n.at = at
  BY <1>3, <1>4 DEF Moves
<1>6. [last |-> FALSE, good |-> n.good, opened |-> n.opened] \in Event
  BY <1>3, EventTypes
<1>7. at = "calling" => UNCHANGED stream
  BY <1>2, <1>5 DEF CallOver
<1>8. at = "thinking" => \E e \in Event : Emit(t, e)
  BY <1>2, <1>5, <1>6 DEF CallOver
<1> QED
  BY <1>4, <1>7, <1>8 DEF Works

LEMMA AgentWorks ==
  ASSUME ChatTypes, NEW t \in Turns, TurnOK(turn[t]),
         \/ CallTools(t) \/ Answer(t) \/ CallEnds(t) \/ Unanswered(t)
         \/ ApplyCall(t) \/ \E s \in Sessions : OpenForChat(t, s)
  PROVE  Works(t)
<1>1. CASE CallTools(t)
  <2>1. turn[t].at = "thinking" /\ UNCHANGED <<stream, talking, due>>
    BY <1>1 DEF CallTools
  <2> QED
    BY <1>1, <2>1, CallMoves DEF Works
<1>2. CASE Answer(t)
  <2>1. turn[t].at = "thinking" /\ UNCHANGED <<talking, due>> /\ Emit(t, End)
    BY <1>2 DEF Answer
  <2> QED
    BY <1>2, <2>1, AnswerMoves DEF Works
<1>3. CASE CallEnds(t)
  <2>1. turn[t].at = "calling" /\ UNCHANGED <<talking, due>>
    BY <1>3, TurnFacts DEF CallEnds
  <2>2. turn[t].call.made \in Sessions \cup {None}
    BY TurnFacts DEF CallState
  <2>3. \E good \in BOOLEAN, opened \in Sessions \cup {None} : NextCall(t, good, opened)
    BY <1>3, <2>2 DEF CallEnds
  <2> QED
    BY <2>1, <2>3, NextWorks
<1>4. CASE Unanswered(t)
  <2>1. turn[t].at = "calling" /\ UNCHANGED <<talking, due>>
    BY <1>4, TurnFacts DEF Unanswered
  <2>2. CASE /\ turn[t].call.tries < Retries /\ UNCHANGED stream
             /\ Becomes(t, [turn[t] EXCEPT !.call.at = "sent", !.call.tries = @ + 1])
    <3>1. Moves(t, "calling", turn[t].rounds)
      BY <2>1, <2>2, RetryMoves
    <3> QED
      BY <2>1, <2>2, <3>1 DEF Works
  <2>3. CASE NextCall(t, FALSE, None)
    BY <2>1, <2>3, NextWorks
  <2> QED
    BY <1>4, <2>2, <2>3 DEF Unanswered
<1>5. CASE ApplyCall(t) \/ \E s \in Sessions : OpenForChat(t, s)
  <2>1. UNCHANGED <<stream, talking, due>>
    BY <1>5 DEF ApplyCall, OpenForChat
  <2> QED
    BY <1>5, <2>1, CallGoesOn DEF Works
<1> QED
  BY <1>1, <1>2, <1>3, <1>4, <1>5

LEMMA ReadStep ==
  ASSUME ChatTypes, StreamInv, ReadInv, [AssistantNext]_assistantVars
  PROVE  ReadInv'
<1>1. /\ \A t \in Turns : TurnOK(turn[t])
      /\ talking \in Turns \cup {None}
      /\ \A t \in Turns : talking # t => stream[t] = <<>>
      /\ \A t \in Turns : talking = t /\ turn[t].at = "ended" =>
            stream[t] # <<>> /\ stream[t][Len(stream[t])].last
      /\ None \notin Turns /\ stream \in [Turns -> Seq(Event)]
  BY TurnsAssumption DEF ReadInv, ChatTypes
<1>2. CASE UNCHANGED agentVars
  BY <1>2 DEF agentVars, ReadInv
<1>3. CASE UNCHANGED assistantVars
  BY <1>2, <1>3 DEF assistantVars
<1>4. CASE StopGeneration
  <2>1. /\ stream' = [stream EXCEPT ![talking] = <<>>] /\ talking' = None /\ UNCHANGED turn
    BY <1>4 DEF StopGeneration
  <2>2. \A t \in Turns : stream'[t] = <<>>
    BY <1>1, <2>1
  <2> QED
    BY <1>1, <2>1, <2>2 DEF ReadInv
<1>5. CASE FetchDue
  BY <1>5 DEF FetchDue, ReadInv
<1>6. ASSUME NEW t \in Turns, SendMessage(t)
      PROVE  ReadInv'
  <2>1. talking = None /\ talking' = t /\ UNCHANGED stream
    BY <1>6 DEF SendMessage
  <2>2. Moves(t, "thinking", turn[t].rounds)
    BY <1>1, <1>6, SendMoves
  <2>3. \A u \in Turns : TurnOK(turn'[u])
    BY <1>1, <2>2 DEF Moves
  <2> QED
    BY <1>1, <2>1, <2>2, <2>3 DEF ReadInv, Moves
<1>7. ASSUME NEW t \in Turns, ReadEvent(t)
      PROVE  ReadInv'
  <2>1. /\ \A u \in Turns : u # t => stream'[u] = stream[u]
        /\ stream[t] # <<>> /\ stream'[t] = Tail(stream[t])
        /\ Head(stream[t]) = stream[t][1]
        /\ talking = t /\ UNCHANGED turn
    BY <1>7, EventRead
  <2>2. /\ Len(stream[t]) \in Nat /\ Len(stream[t]) >= 1
        /\ Len(Tail(stream[t])) = Len(stream[t]) - 1
        /\ \A i \in 1..Len(stream[t]) - 1 : Tail(stream[t])[i] = stream[t][i + 1]
        /\ Tail(stream[t]) \in Seq(Event)
    BY <1>1, <2>1, Beheaded
  <2>3. CASE Head(stream[t]).last
    <3>1. talking' = None
      BY <1>7, <2>3 DEF ReadEvent
    <3>2. 1 \in 1..Len(stream[t]) /\ stream[t][1].last
      BY <2>1, <2>2, <2>3
    <3>3. Len(stream[t]) = 1
      BY <3>2 DEF StreamInv
    <3>4. Len(Tail(stream[t])) = 0
      BY <2>2, <3>3
    <3>5. Tail(stream[t]) = <<>>
      BY <2>2, <3>4, EmptySeq
    <3> QED
      BY <1>1, <2>1, <3>1, <3>5 DEF ReadInv
  <2>4. CASE ~Head(stream[t]).last
    <3>1. talking' = t
      BY <1>7, <2>1, <2>4 DEF ReadEvent, ToolResults
    <3>2. ASSUME turn[t].at = "ended"
          PROVE  stream'[t] # <<>> /\ stream'[t][Len(stream'[t])].last
      <4>1. stream[t][Len(stream[t])].last
        BY <1>1, <2>1, <3>2
      <4>2. Len(stream[t]) > 1
        BY <2>1, <2>2, <2>4, <4>1
      <4>3. Len(stream'[t]) >= 1 /\ stream'[t][Len(stream'[t])] = stream[t][Len(stream[t])]
        BY <2>1, <2>2, <4>2
      <4>4. stream'[t] # <<>>
        BY <4>3, NoChanges
      <4> QED
        BY <4>1, <4>3, <4>4
    <3> QED
      BY <1>1, <2>1, <3>1, <3>2 DEF ReadInv
  <2> QED
    BY <2>3, <2>4
<1>8. ASSUME NEW t \in Turns, Works(t)
      PROVE  ReadInv'
  <2>1. UNCHANGED talking
    BY <1>8 DEF Works
  <2>2. PICK at, r : Moves(t, at, r)
    BY <1>8 DEF Works
  <2>3. /\ turn'[t].at = at /\ \A u \in Turns : TurnOK(turn'[u])
        /\ \A u \in Turns : u # t => turn'[u] = turn[u]
    BY <1>1, <2>2 DEF Moves
  <2>4. CASE UNCHANGED stream /\ turn'[t].at # "ended"
    BY <1>1, <2>1, <2>3, <2>4 DEF ReadInv
  <2>5. ASSUME NEW e \in Event, Emit(t, e), turn'[t].at = "ended" => e.last
        PROVE  ReadInv'
    <3>1. /\ \A u \in Turns : u # t => stream'[u] = stream[u]
          /\ IF talking = t THEN stream'[t] = Append(stream[t], e) ELSE stream'[t] = stream[t]
      BY <2>5, Emits
    <3>2. /\ Len(Append(stream[t], e)) = Len(stream[t]) + 1 /\ Len(stream[t]) \in Nat
          /\ Append(stream[t], e)[Len(stream[t]) + 1] = e
          /\ Append(stream[t], e) # <<>>
      <4>1. stream[t] \in Seq(Event) /\ Len(stream[t]) \in Nat
        BY <1>1, LenProperties
      <4>2. /\ Len(Append(stream[t], e)) = Len(stream[t]) + 1
            /\ Append(stream[t], e)[Len(stream[t]) + 1] = e
        BY <4>1, Appended
      <4> QED
        BY <4>1, <4>2, NoChanges
    <3>3. ASSUME talking = t, turn'[t].at = "ended"
          PROVE  stream'[t] # <<>> /\ stream'[t][Len(stream'[t])].last
      BY <2>5, <3>1, <3>2, <3>3
    <3> QED
      BY <1>1, <2>1, <2>3, <3>1, <3>3 DEF ReadInv
  <2>6. End \in Event /\ End.last
    BY EventTypes
  <2> QED
    BY <1>8, <2>4, <2>5, <2>6 DEF Works, Moves
<1>9. CASE Next /\ UNCHANGED agentVars /\ Strains({})
  BY <1>2, <1>9
<1> QED
  BY <1>1, <1>3, <1>4, <1>5, <1>6, <1>7, <1>8, <1>9, AgentWorks, AssistantCases
-----------------------------------------------------------------------------
(* The refetches due.                                                      *)

LEMMA RoundsFinite ==
  ASSUME ChatTypes
  PROVE  /\ IsFiniteSet(Begun) /\ Cardinality(Begun) \in Nat
         /\ Cardinality(Begun) <= MaxRounds * Cardinality(Turns)
<1>1. IsFiniteSet(Turns) /\ MaxRounds \in Nat
  BY TurnsAssumption, RoundsAssumption
<1>2. IsFiniteSet(1..MaxRounds) /\ Cardinality(1..MaxRounds) = MaxRounds
  BY <1>1, FS_Interval
<1>3. /\ IsFiniteSet(Turns \X (1..MaxRounds))
      /\ Cardinality(Turns \X (1..MaxRounds)) = Cardinality(Turns) * Cardinality(1..MaxRounds)
  BY <1>1, <1>2, FS_Product
<1>4. Begun \subseteq Turns \X (1..MaxRounds)
  BY DEF Begun
<1>5. IsFiniteSet(Begun) /\ Cardinality(Begun) <= Cardinality(Turns \X (1..MaxRounds))
  BY <1>3, <1>4, FS_Subset
<1>6. Cardinality(Begun) \in Nat /\ Cardinality(Turns) \in Nat
  BY <1>1, <1>5, FS_CardinalityType
<1>7. Cardinality(Turns) * MaxRounds = MaxRounds * Cardinality(Turns)
  BY <1>1, <1>6
<1> QED
  BY <1>2, <1>3, <1>5, <1>6, <1>7

LEMMA RoundBegins ==
  ASSUME ChatTypes, NEW t \in Turns, turn[t].rounds + 1 <= MaxRounds,
         Moves(t, "calling", turn[t].rounds + 1)
  PROVE  Cardinality(Begun') = Cardinality(Begun) + 1
<1> DEFINE r == turn[t].rounds
<1>1. r \in Nat /\ turn'[t].rounds = r + 1 /\ \A u \in Turns : u # t => turn'[u] = turn[u]
  BY DEF ChatTypes, TurnState, Moves
<1>2. \A u \in Turns : turn[u].rounds \in Nat
  BY DEF ChatTypes, TurnState
<1>3. r + 1 \in 1..MaxRounds
  BY <1>1, RoundsAssumption
<1> HIDE DEF r
<1>4. <<t, r + 1>> \notin Begun
  BY <1>1 DEF Begun, r
<1>5. Begun' = Begun \cup {<<t, r + 1>>}
  <2>1. ASSUME NEW u \in Turns, NEW k \in 1..MaxRounds
        PROVE  k <= turn'[u].rounds <=> k <= turn[u].rounds \/ (u = t /\ k = r + 1)
    BY <1>1, <1>2 DEF r
  <2>2. \A p : p \in Begun' <=> p \in Turns \X (1..MaxRounds) /\ p[2] <= turn'[p[1]].rounds
    BY DEF Begun
  <2>3. \A p : p \in Begun <=> p \in Turns \X (1..MaxRounds) /\ p[2] <= turn[p[1]].rounds
    BY DEF Begun
  <2>4. ASSUME NEW p \in Turns \X (1..MaxRounds)
        PROVE  p \in Begun' <=> p \in Begun \cup {<<t, r + 1>>}
    <3>1. PICK u \in Turns, k \in 1..MaxRounds : p = <<u, k>>
      OBVIOUS
    <3> QED
      BY <2>1, <2>2, <2>3, <3>1
  <2>5. <<t, r + 1>> \in Turns \X (1..MaxRounds)
    BY <1>3
  <2> QED
    BY <2>2, <2>3, <2>4, <2>5
<1> QED
  BY <1>4, <1>5, RoundsFinite, FS_AddElement

LEMMA DueStays ==
  ASSUME DueInv, Owed' <= Owed, Owed' \in Int, Owed \in Int, ChatTypes,
         \A u \in Turns : turn'[u].rounds = turn[u].rounds
  PROVE  DueInv'
<1>1. Begun' = Begun
  BY DEF Begun
<1>2. Cardinality(Begun) \in Nat
  BY RoundsFinite
<1> QED
  BY <1>1, <1>2 DEF DueInv

LEMMA OwedSum ==
  ASSUME ChatTypes, talking \in Turns \cup {None}
  PROVE  /\ Owed \in Int
         /\ talking = None => Owed = due
         /\ \A t \in Turns : talking = t => Owed = due + Awaited(t) /\ Awaited(t) \in Int
<1>1. ASSUME NEW t \in Turns
      PROVE  Awaited(t) \in Int
  <2>1. Len(stream[t]) \in Nat
    BY LenProperties DEF ChatTypes
  <2> QED
    BY <2>1 DEF Awaited
<1>2. due \in Nat /\ None \notin Turns
  BY TurnsAssumption DEF ChatTypes
<1> QED
  BY <1>1, <1>2 DEF Owed

\* A turn that has ended is read until its last event.
LEMMA AwaitedSign ==
  ASSUME ChatTypes, NEW t \in Turns, turn[t].at = "ended" => stream[t] # <<>>
  PROVE  Awaited(t) >= 0
<1>1. stream[t] \in Seq(Event)
  BY DEF ChatTypes
<1>2. Len(stream[t]) \in Nat /\ (turn[t].at = "ended" => Len(stream[t]) >= 1)
  BY <1>1, EmptySeq, LenProperties
<1>3. Awaited(t) = Len(stream[t]) + (IF turn[t].at = "calling" THEN 1 ELSE 0)
                   - (IF turn[t].at = "ended" THEN 1 ELSE 0)
  BY DEF Awaited
<1> DEFINE n == Len(stream[t])
           a == IF turn[t].at = "calling" THEN 1 ELSE 0
           b == IF turn[t].at = "ended" THEN 1 ELSE 0
<1>4. n \in Nat /\ a \in {0, 1} /\ b \in {0, 1} /\ b <= n
  BY <1>2
<1>5. Awaited(t) = n + a - b
  BY <1>3
<1> HIDE DEF n, a, b
<1> QED
  BY <1>4, <1>5

\* What a step leaves of the refetches owed, when it begins no round.
LEMMA DueKept ==
  ASSUME ChatTypes, DueInv, ChatTypes', talking \in Turns \cup {None},
         talking' \in Turns \cup {None}, \A u \in Turns : turn'[u].rounds = turn[u].rounds,
         Owed' <= Owed
  PROVE  DueInv'
<1>1. Owed \in Int
  BY OwedSum
<1>2. Owed' \in Int
  <2>1. ASSUME NEW t \in Turns
        PROVE  Awaited(t)' \in Int
    <3>1. stream'[t] \in Seq(Event)
      BY DEF ChatTypes
    <3>2. Len(stream'[t]) \in Nat
      BY <3>1, LenProperties
    <3> QED
      BY <3>2 DEF Awaited
  <2>2. due' \in Nat
    BY DEF ChatTypes
  <2> QED
    BY <2>1, <2>2, TurnsAssumption DEF Owed
<1> QED
  BY <1>1, <1>2, DueStays

LEMMA DueStep ==
  ASSUME ChatTypes, ReadInv, DueInv, ChatTypes', ReadInv',
         [AssistantNext]_assistantVars
  PROVE  DueInv'
<1>1. /\ talking \in Turns \cup {None} /\ talking' \in Turns \cup {None} /\ None \notin Turns
      /\ \A t \in Turns : TurnOK(turn[t])
      /\ \A t \in Turns : talking # t => stream[t] = <<>>
      /\ \A t \in Turns : talking = t /\ turn[t].at = "ended" => stream[t] # <<>>
      /\ due \in Nat
  BY TurnsAssumption DEF ReadInv, ChatTypes
<1>2. ASSUME NEW t \in Turns
      PROVE  /\ Len(stream[t]) \in Nat /\ Awaited(t) \in Int
             /\ stream[t] = <<>> <=> Len(stream[t]) = 0
  <2>1. stream[t] \in Seq(Event)
    BY DEF ChatTypes
  <2>2. Len(stream[t]) \in Nat
    BY <2>1, LenProperties
  <2> QED
    BY <2>1, <2>2, EmptySeq DEF Awaited
<1>3. ASSUME NEW t \in Turns, turn[t].at = "ended" => stream[t] # <<>>
      PROVE  Awaited(t) >= 0
  BY <1>3, AwaitedSign
<1>4. CASE UNCHANGED agentVars
  <2>1. UNCHANGED <<turn, stream, talking, due>>
    BY <1>4 DEF agentVars
  <2> QED
    BY <2>1 DEF DueInv, Owed, Awaited, Begun
<1>5. CASE UNCHANGED assistantVars
  BY <1>4, <1>5 DEF assistantVars
<1>6. CASE StopGeneration
  <2>1. UNCHANGED <<turn, due>> /\ talking' = None /\ talking \in Turns
    BY <1>1, <1>6 DEF StopGeneration
  <2>2. Awaited(talking) >= 0
    BY <1>1, <2>1, <1>3
  <2>3. Owed' = due /\ Owed = due + Awaited(talking)
    BY <1>1, <2>1 DEF Owed
  <2>4. Owed' <= Owed
    BY <1>1, <1>2, <2>1, <2>2, <2>3
  <2> QED
    BY <1>1, <2>1, <2>4, DueKept
<1>7. CASE FetchDue
  <2>1. UNCHANGED <<turn, stream, talking>> /\ due' = due - 1
    BY <1>7 DEF FetchDue
  <2>2. \A t \in Turns : Awaited(t)' = Awaited(t)
    BY <2>1 DEF Awaited
  <2>3. Owed' = Owed - 1 /\ Owed \in Int
    BY <1>1, <1>2, <2>1, <2>2 DEF Owed
  <2> QED
    BY <1>1, <2>1, <2>3, DueKept
<1>8. ASSUME NEW t \in Turns, SendMessage(t)
      PROVE  DueInv'
  <2>1. talking = None /\ talking' = t /\ UNCHANGED <<stream, due>>
    BY <1>8 DEF SendMessage
  <2>2. Moves(t, "thinking", turn[t].rounds)
    BY <1>1, <1>8, SendMoves
  <2>3. turn'[t].at = "thinking" /\ \A u \in Turns : turn'[u].rounds = turn[u].rounds
    BY <2>2 DEF Moves
  <2>4. stream'[t] = <<>> /\ Len(stream'[t]) = 0
    BY <1>1, <1>2, <2>1
  <2>5. Awaited(t)' = 0
    BY <2>3, <2>4 DEF Awaited
  <2>6. Owed' = due /\ Owed = due
    BY <1>1, <2>1, <2>5 DEF Owed
  <2> QED
    BY <1>1, <2>3, <2>6, DueKept
<1>9. ASSUME NEW t \in Turns, ReadEvent(t)
      PROVE  DueInv'
  <2>1. /\ stream[t] # <<>> /\ stream'[t] = Tail(stream[t])
        /\ talking = t /\ UNCHANGED turn
    BY <1>9, EventRead
  <2>2. Len(stream'[t]) = Len(stream[t]) - 1
    BY <2>1, Beheaded DEF ChatTypes
  <2>3. Awaited(t)' = Awaited(t) - 1
    <3>1. Len(stream[t]) \in Nat /\ turn' = turn
      BY <1>2, <2>1
    <3> QED
      BY <2>2, <3>1 DEF Awaited
  <2>4. Owed = due + Awaited(t)
    BY <1>1, <2>1 DEF Owed
  <2>5. CASE Head(stream[t]).last
    <3>1. talking' = None /\ due' = due
      BY <1>9, <2>5 DEF ReadEvent
    <3>2. Awaited(t) >= 0
      BY <2>1, <1>3
    <3>3. Owed' = due
      BY <1>1, <3>1 DEF Owed
    <3>4. Owed' <= Owed
      BY <1>1, <1>2, <2>4, <3>2, <3>3
    <3> QED
      BY <1>1, <2>1, <3>4, DueKept
  <2>6. CASE ~Head(stream[t]).last
    <3>1. talking' = t /\ (due' = due \/ due' = due + 1)
      BY <1>1, <1>9, <2>1, <2>6 DEF ReadEvent, ToolResults
    <3>2. Owed' = due' + Awaited(t)'
      BY <1>1, <3>1 DEF Owed
    <3>3. Owed' <= Owed
      BY <1>1, <1>2, <2>3, <2>4, <3>1, <3>2
    <3> QED
      BY <1>1, <2>1, <3>3, DueKept
  <2> QED
    BY <2>5, <2>6
<1>10. ASSUME NEW t \in Turns, Works(t)
      PROVE  DueInv'
  <2>1. UNCHANGED <<talking, due>>
    BY <1>10 DEF Works
  <2>2. ASSUME NEW u \in Turns, u # t
        PROVE  Awaited(u)' = Awaited(u)
    <3>1. turn'[u] = turn[u]
      BY <1>10, <2>2 DEF Works, Moves
    <3>2. stream'[u] = stream[u]
      BY <1>10, <2>2, Emits, EventTypes DEF Works
    <3> QED
      BY <3>1, <3>2 DEF Awaited
  <2>3. ASSUME talking # t
        PROVE  Owed' = Owed
    BY <1>1, <2>1, <2>2, <2>3 DEF Owed
  <2>4. ASSUME talking = t
        PROVE  Owed' = Owed + Awaited(t)' - Awaited(t)
    <3>1. Owed = due + Awaited(t) /\ Owed' = due + Awaited(t)'
      BY <1>1, <2>1, <2>4 DEF Owed
    <3>2. stream'[t] \in Seq(Event)
      BY DEF ChatTypes
    <3>3. Len(stream'[t]) \in Nat
      BY <3>2, LenProperties
    <3>4. Awaited(t)' \in Int
      BY <3>3 DEF Awaited
    <3> QED
      BY <1>1, <1>2, <3>1, <3>4
  <2>5. ASSUME NEW e \in Event, Emit(t, e), talking = t
        PROVE  Len(stream'[t]) = Len(stream[t]) + 1
    BY <2>5, Emits, Appended DEF ChatTypes
  <2>6. Owed \in Int
    BY <1>1, OwedSum
  <2>7. CASE /\ turn[t].at = "thinking" /\ turn[t].rounds + 1 <= MaxRounds
             /\ Moves(t, "calling", turn[t].rounds + 1) /\ UNCHANGED stream
    <3>1. Awaited(t)' = Awaited(t) + 1
      BY <1>2, <2>7 DEF Awaited, Moves
    <3>2. Owed' = Owed \/ Owed' = Owed + 1
      BY <1>2, <2>3, <2>4, <2>6, <3>1
    <3>3. Cardinality(Begun') = Cardinality(Begun) + 1 /\ Cardinality(Begun) \in Nat
      BY <2>7, RoundBegins, RoundsFinite
    <3> QED
      BY <2>6, <3>2, <3>3 DEF DueInv
  <2>8. CASE /\ turn[t].at = "calling"
             /\ Moves(t, "calling", turn[t].rounds) /\ UNCHANGED stream
    <3>1. Awaited(t)' = Awaited(t) /\ \A u \in Turns : turn'[u].rounds = turn[u].rounds
      BY <2>8 DEF Awaited, Moves
    <3>2. Owed' = Owed
      BY <1>2, <2>3, <2>4, <2>6, <3>1
    <3> QED
      BY <1>1, <2>6, <3>1, <3>2, DueKept
  <2>9. CASE /\ turn[t].at = "calling"
             /\ Moves(t, "thinking", turn[t].rounds) /\ \E e \in Event : Emit(t, e)
    <3>1. turn'[t].at = "thinking" /\ \A u \in Turns : turn'[u].rounds = turn[u].rounds
      BY <2>9 DEF Moves
    <3>2. talking = t => Awaited(t)' = Awaited(t)
      BY <1>2, <2>5, <2>9, <3>1 DEF Awaited
    <3>3. Owed' = Owed
      BY <1>2, <2>3, <2>4, <2>6, <3>2
    <3> QED
      BY <1>1, <2>6, <3>1, <3>3, DueKept
  <2>10. CASE /\ turn[t].at = "thinking"
              /\ Moves(t, "ended", turn[t].rounds) /\ Emit(t, End)
    <3>1. turn'[t].at = "ended" /\ \A u \in Turns : turn'[u].rounds = turn[u].rounds
      BY <2>10 DEF Moves
    <3>2. talking = t => Awaited(t)' = Awaited(t)
      BY <1>2, <2>5, <2>10, <3>1, EventTypes DEF Awaited
    <3>3. Owed' = Owed
      BY <1>2, <2>3, <2>4, <2>6, <3>2
    <3> QED
      BY <1>1, <2>6, <3>1, <3>3, DueKept
  <2> QED
    BY <1>10, <2>7, <2>8, <2>9, <2>10 DEF Works
<1>11. CASE Next /\ UNCHANGED agentVars /\ Strains({})
  BY <1>4, <1>11
<1> QED
  BY <1>1, <1>5, <1>6, <1>7, <1>8, <1>9, <1>10, <1>11, AgentWorks, AssistantCases
-----------------------------------------------------------------------------
(* The types of every state.                                               *)

LEMMA InitTypes == AssistantInit => TypeInv
<1> SUFFICES ASSUME AssistantInit PROVE TypeInv
  OBVIOUS
<1>1. /\ session \in Sessions /\ changes = <<>> /\ editing = NoEdit
      /\ undoStack = <<>> /\ redoStack = <<>> /\ edits = 0
      /\ asked = <<>> /\ reading = <<>> /\ patient = {} /\ harm = {}
      /\ save = NotSaving /\ request = NoRequest
      /\ opening = [s \in Sessions |-> IF s = session THEN "open" ELSE "closed"]
      /\ turn = [t \in Turns |-> Unsent] /\ stream = [t \in Turns |-> <<>>]
      /\ talking = None /\ due = 0 /\ friction = {}
  BY DEF AssistantInit, Init
<1>2. Len(<<>>) = 0 /\ DOMAIN <<>> = {}
  BY NoChanges
<1>3. SentInv
  <2>1. save.to = None /\ request.to = None
    BY <1>1 DEF NotSaving, NoRequest
  <2>2. PICK c : server = [s \in Sessions |-> IF s = session THEN c ELSE <<>>]
    BY DEF AssistantInit, Init
  <2> QED
    BY <1>1, <2>1, <2>2 DEF SentInv
<1>4. AnswerInv
  BY <1>1, <1>2 DEF AnswerInv
<1>5. SizeInv
  BY <1>1, <1>2, BoundsAssumption DEF SizeInv, RowsIn
<1>6. SendTypes
  BY <1>1 DEF SendTypes, NotSaving, NoRequest
<1>7. ReadInv
  <2>1. TurnOK(Unsent) /\ Unsent.at = "unsent"
    BY RoundsAssumption, RetriesAssumption, CallsAssumption DEF TurnOK, Unsent, NoCall
  <2> QED
    BY <1>1, <2>1 DEF ReadInv
<1>8. DueInv
  <2>1. Cardinality(Begun) \in Nat
    BY InitHistory, RoundsFinite DEF HInv, IInv, TypesInv
  <2>2. Owed = 0
    BY <1>1 DEF Owed
  <2> QED
    BY <2>1, <2>2 DEF DueInv
<1> QED
  BY <1>3, <1>4, <1>5, <1>6, <1>7, <1>8 DEF TypeInv

TInv == EInv /\ TypeInv

LEMMA StepTypes == TInv /\ [AssistantNext]_assistantVars => TInv'
<1> SUFFICES ASSUME TInv, [AssistantNext]_assistantVars PROVE TInv'
  OBVIOUS
<1>1. EInv /\ EInv'
  BY StepKept DEF TInv
<1>2. /\ CaseTypes /\ EditTypes /\ FetchTypes /\ ChatTypes /\ StreamInv /\ OpenInv
      /\ RowTypes /\ EditValues /\ StackTypes /\ TurnInv
      /\ SentInv /\ AnswerInv /\ SizeInv /\ SendTypes /\ ReadInv /\ DueInv
  BY DEF TInv, TypeInv, EInv, HInv, IInv, TypesInv
<1>3. ChatTypes'
  BY <1>1 DEF EInv, HInv, IInv, TypesInv
<1>4. SentInv'
  BY <1>2, SentStep
<1>5. AnswerInv'
  BY <1>2, AnswerStep
<1>6. SizeInv'
  BY <1>2, SizeStep
<1>7. SendTypes'
  BY <1>2, SendStep
<1>8. ReadInv'
  BY <1>2, ReadStep
<1>9. DueInv'
  BY <1>2, <1>3, <1>8, DueStep
<1> QED
  BY <1>1, <1>4, <1>5, <1>6, <1>7, <1>8, <1>9 DEF TInv, TypeInv

LEMMA TableTyped == TInv => TypeOK
<1> SUFFICES ASSUME TInv PROVE TypeOK
  OBVIOUS
<1>1. /\ CaseTypes /\ EditTypes /\ FetchTypes /\ OpenInv
      /\ RowTypes /\ EditValues /\ StackTypes /\ WantedTypes
      /\ SentInv /\ AnswerInv /\ SizeInv /\ SendTypes
  BY DEF TInv, TypeInv, EInv, HInv, IInv, TypesInv
<1>2. /\ server \in [Sessions -> Tables]
      /\ objects \in [Answers -> [of : Sessions \cup {None}, rows : Tables]]
  BY <1>1 DEF CaseTypes, RowTypes, Proper, Tables
<1>3. /\ reading \in Seq(Answers) /\ IsInjective(reading)
      /\ shown \notin DOMAIN asked \cup ToSet(reading)
      /\ DOMAIN asked \cap ToSet(reading) = {}
  <2>1. reading \in Seq(Answers) /\ shown \notin DOMAIN asked
        /\ ToSet(reading) \cap DOMAIN asked = {}
    BY <1>1 DEF FetchTypes
  <2>2. DOMAIN reading = 1..Len(reading) /\ ToSet(reading) = {reading[i] : i \in 1..Len(reading)}
    BY <2>1, InSet
  <2>3. /\ \A i, j \in 1..Len(reading) : reading[i] = reading[j] => i = j
        /\ \A i \in 1..Len(reading) : reading[i] # shown
    BY <1>1 DEF AnswerInv
  <2> QED
    BY <2>1, <2>2, <2>3 DEF IsInjective
<1>4. /\ Len(undoStack) <= MaxHistory
      /\ Len(undoStack) + Len(redoStack) <= MaxEdits
      /\ ToSet(undoStack) \cup ToSet(redoStack) \subseteq Command
  <2>1. /\ undoStack \in Seq(Cmd) /\ redoStack \in Seq(Cmd)
        /\ RowsIn(undoStack, Positions) /\ RowsIn(redoStack, Positions)
        /\ edits \in 0..MaxEdits /\ Len(undoStack) + Len(redoStack) <= MaxHistory
        /\ Len(undoStack) + Len(redoStack) <= edits
    BY <1>1 DEF StackTypes, SizeInv
  <2>2. Len(undoStack) \in Nat /\ Len(redoStack) \in Nat
    BY <2>1, LenProperties
  <2>3. ASSUME NEW q \in Seq(Cmd), RowsIn(q, Positions)
        PROVE  ToSet(q) \subseteq Command
    <3>1. ToSet(q) = {q[i] : i \in 1..Len(q)} /\ \A i \in 1..Len(q) : q[i] \in Cmd
      BY InSet, ElementOfSeq
    <3>2. \A i \in 1..Len(q) : q[i].row \in Positions
      BY <2>3 DEF RowsIn
    <3>3. \A i \in 1..Len(q) : q[i] \in Command
      BY <3>1, <3>2 DEF Cmd, Command
    <3> QED
      BY <3>1, <3>3
  <2> QED
    BY <2>1, <2>2, <2>3, BoundsAssumption
<1>5. /\ DOMAIN changes \subseteq Positions
      /\ \A i \in DOMAIN changes : changes[i] \in Values
      /\ editing = NoEdit \/ editing \in [row : Positions, id : Elements]
  BY <1>1 DEF SizeInv, EditValues, ChangeTypes
<1>6. /\ save.at \in {"idle", "sent", "applied", "refused"}
      /\ (save.at = "idle") <=> (save = NotSaving)
      /\ save.emptied \subseteq save.todo
      /\ request.act \in {"none", "add", "modify", "delete"}
      /\ request.at \in {"idle", "open", "sent", "applied", "refused"}
      /\ save.to \in Sessions \cup {None} /\ request.to \in Sessions \cup {None}
      /\ harm \subseteq Harms
  BY <1>1 DEF EditTypes, SendTypes, SentInv
<1>7. /\ session \in Sessions /\ opening \in [Sessions -> Stages]
      /\ \A s \in Sessions : opening[s] \in {"closed", "sent"} => server[s] = <<>>
      /\ opening[session] \in {"created", "open"}
  BY <1>1 DEF CaseTypes, SentInv, OpenInv
<1>8. /\ shown \in Answers /\ DOMAIN asked \subseteq Answers
      /\ \A a \in DOMAIN asked : asked[a] \in Sessions
      /\ patient \subseteq DOMAIN asked
      /\ wanted \in [Sessions -> [Elements -> Values]]
  BY <1>1 DEF FetchTypes, RowTypes, AnswerInv, WantedTypes
<1> QED
  BY <1>2, <1>3, <1>4, <1>5, <1>6, <1>7, <1>8 DEF TypeOK

LEMMA AllTyped == TInv => AssistantTypeOK
<1> SUFFICES ASSUME TInv PROVE AssistantTypeOK
  OBVIOUS
<1>1. TypeOK /\ ChatTypes /\ ReadInv /\ DueInv /\ SendTypes
  BY TableTyped DEF TInv, TypeInv, EInv, HInv, IInv, TypesInv
<1>2. ASSUME NEW t \in Turns
      PROVE  /\ turn[t].at \in {"unsent", "thinking", "calling", "ended"}
             /\ (turn[t].at = "unsent") <=> (turn[t] = Unsent)
             /\ IF turn[t].at = "calling"
                THEN turn[t].call.tool \in Tools
                ELSE turn[t].call = NoCall /\ turn[t].more = 0
             /\ turn[t].rounds \in 0..MaxRounds
             /\ turn[t].call.tries \in 0..Retries
             /\ turn[t].more \in 0..MaxCalls
             /\ turn[t].to \in Sessions \cup {None}
             /\ ToSet(stream[t]) \subseteq Event
             /\ stream[t] # <<>> => talking = t
  <2>1. TurnOK(turn[t]) /\ (talking # t => stream[t] = <<>>)
    BY <1>1 DEF ReadInv
  <2>2. /\ turn[t] \in TurnState /\ turn[t].rounds \in 0..MaxRounds
        /\ turn[t].more \in 0..MaxCalls /\ turn[t].call.tries \in 0..Retries
    BY <1>1, <2>1, TurnFacts
  <2>3. ToSet(stream[t]) \subseteq Event
    BY <1>1, InSet DEF ChatTypes
  <2> QED
    BY <2>1, <2>2, <2>3 DEF TurnOK, TurnState
<1>3. talking # None => turn[talking].at # "ended" \/ stream[talking] # <<>>
  BY <1>1 DEF ReadInv
<1>4. due \in 0..(MaxRounds * Cardinality(Turns))
  <2>1. /\ talking \in Turns \cup {None} /\ None \notin Turns /\ due \in Nat
        /\ \A t \in Turns : talking = t /\ turn[t].at = "ended" => stream[t] # <<>>
    BY <1>1, TurnsAssumption DEF ReadInv, ChatTypes
  <2>2. Owed >= due /\ Owed \in Int
    BY <1>1, <2>1, OwedSum, AwaitedSign
  <2>3. /\ Cardinality(Begun) \in Nat
        /\ Cardinality(Begun) <= MaxRounds * Cardinality(Turns)
    BY <1>1, RoundsFinite
  <2>4. Cardinality(Turns) \in Nat /\ MaxRounds \in Nat
    BY TurnsAssumption, RoundsAssumption, FS_CardinalityType
  <2>5. MaxRounds * Cardinality(Turns) \in Nat
    BY <2>4
  <2>6. Owed <= Cardinality(Begun)
    BY <1>1 DEF DueInv
  <2> HIDE DEF Owed
  <2> QED
    BY <2>1, <2>2, <2>3, <2>5, <2>6
<1> QED
  BY <1>1, <1>2, <1>3, <1>4 DEF AssistantTypeOK, SendTypes

\* Every state of the table, the chat and the turns is well formed, whatever the
\* cases and however many turns, rounds, retries and edits: no edit is in flight
\* to a case that is not there, the answers held, asked for and being read are
\* different ones, only the turn the tab reads has events on their way, the tab
\* waits for a turn that has ended only until its last event, and no more
\* refetches are due than the rounds of the turns can ask for.
THEOREM AssistantTypes == AssistantSpec => []AssistantTypeOK
<1>1. AssistantInit => TInv
  BY InitKept, InitTypes DEF TInv
<1>2. AssistantSpec => []TInv
  BY <1>1, StepTypes, PTL DEF AssistantSpec
<1> QED
  BY <1>2, AllTyped, PTL
=============================================================================
