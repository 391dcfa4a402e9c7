----------------------------- MODULE Assistant -----------------------------
(***************************************************************************)
(* The chat beside the network table: useAIChat.ts and client.ts in the    *)
(* tab, the agent-server's chat controller with its loop of model answers  *)
(* and tool calls (BrainEngine.ts does the same when it is enabled), the   *)
(* tools of toolExecutor.ts with the retries of apiClient.ts, and what     *)
(* handleToolResults (usePowerFlowSDK.ts) does with the results.           *)
(*                                                                         *)
(* A turn is one chat request.  The tools that matter to the table change  *)
(* an element or open a case; the model may call any of them.  Tools that  *)
(* only read, the text of the answers and the knowledge base are left out. *)
(***************************************************************************)
EXTENDS NetworkTable

CONSTANTS
    Turns,      \* chat requests
    MaxRounds,  \* maxRounds, MAX_TOOL_ROUNDS
    Retries,    \* DEFAULT_RETRIES
    MaxCalls    \* bound: tool calls of the first round; every later one has fewer

ASSUME RetriesAssumption == Retries \in Nat
ASSUME CallsAssumption == MaxCalls \in Nat
ASSUME TurnsAssumption == None \notin Turns /\ IsFiniteSet(Turns)
ASSUME RoundsAssumption == MaxRounds \in Nat

VARIABLES
    turn,     \* the turns at the agent-server
    stream,   \* the events of each turn that are on their way to the tab
    talking,  \* the turn whose stream the tab reads
    due,      \* refetches that wait for the delay of handleToolResults
    friction  \* history: what has happened that a property excepts

agentVars == <<turn, stream, talking, due>>
tabVars == <<fetchVars, tableVars, save, request, counters>>
assistantVars == <<vars, agentVars, friction>>

Call == [act : {"add", "modify", "delete", "open"}, id : Elements \cup {None},
         value : Values \cup {None}]

\* What a turn calls: an edit of an element, or a case to open.
Tools == {c \in Call :
            /\ (c.id = None) <=> (c.act = "open")
            /\ (c.value = None) <=> (c.act \in {"delete", "open"})}

\* The call in progress: how its current attempt stands, the attempts that
\* failed, and the session it made.
NoCall == [at |-> "none", tool |-> None, tries |-> 0, made |-> None]
Sent(c) == [NoCall EXCEPT !.at = "sent", !.tool = c]

\* Of the calls that follow in the round only the number is kept, and each is
\* chosen when it is sent: the model chose before, but nobody has seen it.
Unsent == [at |-> "unsent", to |-> None, rounds |-> 0, more |-> 0,
           call |-> NoCall, good |-> FALSE, opened |-> None]

\* An event with results, as far as the tab acts on it: whether an edit
\* succeeded, and the first session that was opened.  A last event ends the turn.
Event == [last : BOOLEAN, good : BOOLEAN, opened : Sessions \cup {None}]
End == [last |-> TRUE, good |-> FALSE, opened |-> None]

AssistantTypeOK ==
    /\ TypeOK
    /\ \A t \in Turns :
          /\ turn[t].at \in {"unsent", "thinking", "calling", "ended"}
          /\ (turn[t].at = "unsent") <=> (turn[t] = Unsent)
          /\ IF turn[t].at = "calling"
             THEN turn[t].call.tool \in Tools
             ELSE turn[t].call = NoCall /\ turn[t].more = 0
          /\ turn[t].rounds \in 0..MaxRounds
          /\ turn[t].call.tries \in 0..Retries
          /\ turn[t].more \in 0..MaxCalls
          /\ turn[t].to \in Sessions \cup {None}
          /\ ToSet(stream[t]) \subseteq Event
          /\ stream[t] # <<>> => talking = t
    /\ talking # None => turn[talking].at # "ended" \/ stream[talking] # <<>>
    /\ due \in 0..(MaxRounds * Cardinality(Turns))
    /\ friction \subseteq {"unheard", "unanswered", "clash", "rewritten"}

Running(t) == turn[t].at \in {"thinking", "calling"}

\* The assistant is at work, or the tab has not yet asked for what it changed.
Assisting ==
    \/ \E t \in Turns : Running(t) \/ stream[t] # <<>>
    \/ due > 0

AssistantInit ==
    /\ Init
    /\ turn = [t \in Turns |-> Unsent]
    /\ stream = [t \in Turns |-> <<>>]
    /\ talking = None
    /\ due = 0
    /\ friction = {}

\* The user and the assistant edit at the same time.
Clash == (changes # <<>> \/ editing # NoEdit \/ Saving \/ InFlight) /\ Assisting

\* The commands to undo or redo are about values an edit of a tool may replace.
HasHistory == undoStack \o redoStack # <<>>

\* The last conjunct of a step: what the properties except of it.
Strains(kinds) == friction' = friction \cup kinds \cup When(Clash', "clash")

\* The turn's new state.
Becomes(t, record) == turn' = [turn EXCEPT ![t] = record]
-----------------------------------------------------------------------------
(* The tab.                                                                *)

\* sendMessageStream, which is not called while a turn is being read.  The
\* request names the SDK's session.
SendMessage(t) ==
    /\ talking = None
    /\ turn[t].at = "unsent"
    /\ talking' = t
    /\ Becomes(t, [turn[t] EXCEPT !.at = "thinking", !.to = session])
    /\ UNCHANGED <<vars, stream, due>>
    /\ Strains({})

\* Edits the tab has not been told of.
Unheard(t) ==
    \/ \E event \in ToSet(stream[t]) : event.good
    \/ /\ turn[t].at = "calling"
       /\ turn[t].good \/ (turn[t].call.at = "done" /\ turn[t].call.tool.act # "open")

\* stopGeneration, or the connection breaks: the tab reads no more, and the
\* turn goes on without it.
StopGeneration ==
    /\ talking # None
    /\ stream' = [stream EXCEPT ![talking] = <<>>]
    /\ talking' = None
    /\ UNCHANGED <<vars, turn, due>>
    /\ Strains(When(Unheard(talking), "unheard"))

\* Mutant: an opened case is set, but what edits have changed is not fetched.
ToolResults_NoRefetch(event) ==
    /\ due' = due + (IF event.opened # None THEN 1 ELSE 0)
    /\ IF event.opened = None
       THEN UNCHANGED <<sessionVars, harm>>
       ELSE StageTo(event.opened, "open") /\ SetSession(event.opened)
    /\ UNCHANGED talking

\* The tool_results event of a round: handleToolResults sets the session that
\* was opened, and fetches the network after a delay.
ToolResults(event) ==
    /\ due' = due + (IF event.good \/ event.opened # None THEN 1 ELSE 0)
    /\ IF event.opened = None
       THEN UNCHANGED <<sessionVars, harm>>
       ELSE StageTo(event.opened, "open") /\ SetSession(event.opened)
    /\ UNCHANGED talking

\* The next event is read.  The last one, complete or error, lets the user
\* send another message.
ReadEvent(t) ==
    /\ talking = t
    /\ stream[t] # <<>>
    /\ stream' = [stream EXCEPT ![t] = Tail(@)]
    /\ IF Head(stream[t]).last
       THEN talking' = None /\ UNCHANGED <<due, sessionVars, harm>>
       ELSE ToolResults(Head(stream[t]))
    /\ UNCHANGED <<server, objects, tabVars, wanted, turn>>
    /\ Strains({})

\* getNetwork after the delay, of the session there is then.
FetchDue ==
    /\ due > 0
    /\ Ask
    /\ due' = due - 1
    /\ UNCHANGED <<caseVars, objects, shown, reading, tableVars, save, request,
                   counters, wanted, harm, turn, stream, talking>>
    /\ Strains({})
-----------------------------------------------------------------------------
(* The agent-server.                                                       *)

\* An event is written to a connection that may be gone.
Emit(t, event) ==
    stream' = IF talking = t THEN [stream EXCEPT ![t] = Append(@, event)] ELSE stream

\* The model answers with tool calls, as long as there are rounds left.
CallTools(t) ==
    /\ turn[t].at = "thinking"
    /\ turn[t].rounds < MaxRounds
    /\ \E n \in 1..(MaxCalls - turn[t].rounds), c \in Tools :
          Becomes(t, [turn[t] EXCEPT !.at = "calling", !.more = n - 1, !.call = Sent(c),
                                     !.rounds = @ + 1, !.good = FALSE,
                                     !.opened = None])
    /\ UNCHANGED <<vars, stream, talking, due>>
    /\ Strains({})

\* The model answers with text, or fails; after the last round it has to.
Answer(t) ==
    /\ turn[t].at = "thinking"
    /\ Emit(t, End)
    /\ Becomes(t, [turn[t] EXCEPT !.at = "ended"])
    /\ UNCHANGED <<vars, talking, due>>
    /\ Strains({})

\* executeToolCalls runs one call after the other; after the last one the results of the
\* round are sent and added to the messages of the model.  The turn goes on in
\* the session opened last, and the tab finds the one opened first.
NextCall(t, good, opened) ==
    LET first == IF turn[t].opened = None THEN opened ELSE turn[t].opened
        so_far == [turn[t] EXCEPT !.good = @ \/ good, !.opened = first,
                                  !.to = IF opened = None THEN @ ELSE opened]
    IN  \/ /\ turn[t].more > 0
           /\ \E c \in Tools :
                 Becomes(t, [so_far EXCEPT !.more = @ - 1, !.call = Sent(c)])
           /\ UNCHANGED stream
        \/ /\ turn[t].more = 0
           /\ Becomes(t, [so_far EXCEPT !.at = "thinking", !.call = NoCall])
           /\ Emit(t, [last |-> FALSE, good |-> so_far.good, opened |-> first])

\* A tool has the api-server's answer.
CallEnds(t) ==
    /\ turn[t].call.at \in {"done", "refused"}
    /\ LET done == turn[t].call.at = "done"
           opens == turn[t].call.tool.act = "open"
       IN  NextCall(t, done /\ ~opens, IF done /\ opens THEN turn[t].call.made ELSE None)
    /\ UNCHANGED <<vars, talking, due>>
    /\ Strains({})

\* No answer, or one of a failing server: makeRequestWithRetry sends the
\* request again, whatever it has done already, until it gives up.
Unanswered(t) ==
    /\ turn[t].call.at \in {"sent", "done", "refused"}
    /\ Fault
    /\ IF turn[t].call.tries < Retries
       THEN /\ Becomes(t, [turn[t] EXCEPT !.call.at = "sent", !.call.tries = @ + 1])
            /\ UNCHANGED stream
       ELSE NextCall(t, FALSE, None)
    /\ UNCHANGED <<caseVars, objects, fetchVars, tableVars, save, request,
                   edits, saves, requests, wanted, harm, talking, due>>
    /\ Strains(When(turn[t].call.at = "done" /\ turn[t].call.tool.act # "open",
                    "unanswered"))
-----------------------------------------------------------------------------
(* The api-server.                                                         *)

\* An element tool: the element is changed, or the request is refused.
ApplyCall(t) ==
    LET c == turn[t].call.tool
        s == turn[t].to
        possible == Possible(s, c.act, c.id)
    IN  /\ turn[t].call.at = "sent"
        /\ c.act # "open"
        /\ IF possible THEN Carry(s, c.act, c.id, c.value) ELSE UNCHANGED server
        /\ wanted' = IF possible /\ c.value # None
                     THEN [wanted EXCEPT ![s][c.id] = c.value] ELSE wanted
        /\ Becomes(t, [turn[t] EXCEPT !.call.at = IF possible THEN "done" ELSE "refused"])
        /\ UNCHANGED <<sessionVars, objects, tabVars, harm, stream, talking, due>>
        /\ Strains(When(possible /\ talking # t, "unheard")
                   \cup When(possible /\ s = session /\ HasHistory, "rewritten"))

\* createSessionFromFile: a session the tab does not know yet.  One made by an
\* attempt whose answer was lost is left to expire.
OpenForChat(t, s) ==
    /\ turn[t].call.at = "sent"
    /\ turn[t].call.tool.act = "open"
    /\ opening[s] = "closed" \/ turn[t].call.made = s
    /\ StageTo(s, "apart")
    /\ \E cases \in Cases : server' = [server EXCEPT ![s] = cases]
    /\ Becomes(t, [turn[t] EXCEPT !.call.at = "done", !.call.made = s])
    /\ UNCHANGED <<session, objects, tabVars, wanted, harm, stream, talking, due>>
    /\ Strains({})
-----------------------------------------------------------------------------
ChatTab == StopGeneration \/ FetchDue
           \/ \E t \in Turns : SendMessage(t) \/ ReadEvent(t)

Agent == \E t \in Turns :
            \/ CallTools(t) \/ Answer(t) \/ CallEnds(t) \/ Unanswered(t)
            \/ ApplyCall(t) \/ \E s \in Sessions : OpenForChat(t, s)

Table == Next /\ UNCHANGED agentVars /\ Strains({})

AssistantNext == Table \/ ChatTab \/ Agent

AssistantSpec == AssistantInit /\ [][AssistantNext]_assistantVars
-----------------------------------------------------------------------------
(* Properties.                                                             *)

AtRest == Quiet /\ ~Assisting

\* When nothing is on its way, the rows under the pending changes are those of
\* the case that requests go to (handleEditComplete, updateCachedNetwork,
\* handleSessionCreated, handleToolResults): no edit is entered into one case
\* and sent to another, and no edit of a tool stays unseen.  Excepted are an
\* edit that was refused after its row was changed, a refetch that failed or
\* never took place, an answer that overtook an earlier one, a save that was
\* running when another case was opened, an edit of a turn the tab has stopped
\* reading, and one that was carried out without an answer.
RowsAreTheServers ==
    /\ AtRest
    /\ Free_of({"refused", "unread", "overtaken", "crossed"})
    /\ friction \subseteq {"clash", "rewritten"}
    => RowsAgree

\* The value the user last gave an element, by an edit, an undo, a redo or a
\* reset, or the assistant by a tool, is pending at its row or is in the case
\* it was given in: no edit is forgotten between the pending changes and the
\* server, and none reaches another element or another case.  Excepted are
\* edits beside a running save, whose end drops all pending changes, edits of
\* both at the same time, rows that moved under their changes, changes that
\* were pending and dialogs that were open when another case was opened; and
\* edits of the assistant the table does not show.
NoEditIsForgotten ==
    /\ AtRest
    /\ Free_of({"midsave", "beside", "shifted", "refused", "unread",
                "overtaken", "switched", "crossed"})
    /\ friction \subseteq {"rewritten"}
    => EditsAreKept

\* Undo and redo start from what the table shows, also after a save, whose end
\* keeps the history.  Excepted are values typed back to the row's own, which
\* leave no command; a redo stack kept by a merge; a history whose rows another
\* case or a tool has changed since; and the cases above.
HistoryStartsAtTheTable ==
    /\ AtRest
    /\ harm = {} /\ friction = {}
    => \A i \in DOMAIN Rows : HistoryAgrees(i)
=============================================================================
