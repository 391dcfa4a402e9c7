---------------------------- MODULE WorkingFile ----------------------------
(***************************************************************************)
(* The working file of one session and the handlers that rewrite it:       *)
(* EditElement and CalculatePowerFlow (handlers/api.go, services/editor.go, *)
(* services/solver.go), SaveCase and SaveCaseAs (services/session.go).     *)
(*                                                                         *)
(* None of them holds a lock while it works.  Each reads the session's     *)
(* file names when it needs them, lets the solver work on the file it      *)
(* finds, and rewrites the file by truncating it first.  A step of the     *)
(* model is one call on the file system or one visit to the session.       *)
(*                                                                         *)
(* The content of a file is the set of edits it holds, or Torn when it was *)
(* truncated and not completely written.  The operating point a solve      *)
(* folds into the file is left out: the fold keeps the edits it read.      *)
(***************************************************************************)
EXTENDS FiniteSets, Naturals

CONSTANTS
    Requests,    \* calls of the four handlers for this session
    Names,       \* case file names
    FirstName,   \* the name the case was loaded under
    Files,       \* bound: files (inodes) that exist at one time
    NoFile       \* a name without a file, a request without an open file

ASSUME FirstNameAssumption == FirstName \in Names
ASSUME NoFileAssumption == NoFile \notin Files
ASSUME TornAssumption == "torn" \notin Requests

\* The content of a file that was truncated and not completely written.
Torn == {"torn"}

Dirs == {"session", "model"}
Kinds == {"edit", "solve", "save", "saveAs"}
Rewriting == {"edit", "solve", "saveAs"}

VARIABLES
    live,      \* the session is in the map and its directory exists
    current,   \* name in FilePath
    original,  \* name in OriginalFilePath
    dir,       \* the file under each name of both directories
    content,   \* what each file holds
    results,   \* the solve whose output is in results.json, if any
    recorded,  \* the solve the session's method and convergence are of
    kind,      \* what a request asks for, "none" before it arrives
    place,     \* what it does next
    name,      \* the case name it works with
    seen,      \* the edits it read from the file
    source,    \* the file it copies from
    target,    \* the file it writes
    existed,   \* saves-as that found a case under their name (fileExists)
    met,       \* history: the requests a request overlapped with
    broken     \* history: requests that failed while writing a file

vars == <<live, current, original, dir, content, results, recorded, kind,
          place, name, seen, source, target, existed, met, broken>>

sessionVars == <<live, current, original>>
fileVars == <<dir, content>>
solveVars == <<results, recorded>>
localVars == <<name, seen, source, target, existed>>
historyVars == <<met, broken>>

Over == {"ok", "error"}
Places == {"idle", "read", "openWrite", "write", "saveResults", "record",
           "foldRead", "copy", "rename", "update"} \cup Over

TypeOK ==
    /\ live \in BOOLEAN
    /\ {current, original} \subseteq Names
    /\ dir \in [Dirs \X Names -> Files \cup {NoFile}]
    /\ content \in [Files -> (SUBSET Requests) \cup {Torn}]
    /\ results \cup recorded \cup existed \cup broken \subseteq Requests
    /\ kind \in [Requests -> Kinds \cup {"none"}]
    /\ place \in [Requests -> Places]
    /\ name \in [Requests -> Names]
    /\ seen \in [Requests -> SUBSET Requests]
    /\ source \in [Requests -> Files \cup {NoFile}]
    /\ target \in [Requests -> Files \cup {NoFile}]
    /\ met \in [Requests -> SUBSET Requests]

Session(n) == <<"session", n>>
Model(n) == <<"model", n>>

Exists(path) == dir[path] # NoFile
Whole(path) == Exists(path) /\ content[dir[path]] # Torn

\* No name and no open file refers to f.
Free(f) ==
    /\ \A path \in DOMAIN dir : dir[path] # f
    /\ \A r \in Requests : f \notin {source[r], target[r]}

\* LoadCase has copied the user's case into the session's directory; the user
\* may have other cases.
Init ==
    /\ live = TRUE
    /\ current = FirstName
    /\ original = FirstName
    /\ dir \in [Dirs \X Names -> Files \cup {NoFile}]
    /\ \A p, q \in DOMAIN dir : Exists(p) /\ dir[p] = dir[q] => p = q
    /\ \A n \in Names : Exists(Session(n)) <=> n = FirstName
    /\ Exists(Model(FirstName))
    /\ content = [f \in Files |-> {}]
    /\ results = {}
    /\ recorded = {}
    /\ kind = [r \in Requests |-> "none"]
    /\ place = [r \in Requests |-> "idle"]
    /\ name = [r \in Requests |-> FirstName]
    /\ seen = [r \in Requests |-> {}]
    /\ source = [r \in Requests |-> NoFile]
    /\ target = [r \in Requests |-> NoFile]
    /\ existed = {}
    /\ met = [r \in Requests |-> {}]
    /\ broken = {}

InFlight == {r \in Requests : place[r] \notin Over \cup {"idle"}}

\* The handler finds the session.
Arrive(r, k, to) ==
    /\ live
    /\ place[r] = "idle"
    /\ place' = [place EXCEPT ![r] = to]
    /\ kind' = [kind EXCEPT ![r] = k]
    /\ met' = [s \in Requests |-> CASE s = r -> InFlight
                                    [] s \in InFlight -> met[s] \cup {r}
                                    [] OTHER -> met[s]]
    /\ UNCHANGED <<sessionVars, solveVars, broken>>

Goto(r, from, to) ==
    /\ place[r] = from
    /\ place' = [place EXCEPT ![r] = to]
    /\ UNCHANGED <<kind, met>>

\* Opening a path for writing truncates the file there, or creates one.
Truncate(r, path) ==
    \E f \in Files :
        /\ f = dir[path] \/ (~Exists(path) /\ Free(f))
        /\ dir' = [dir EXCEPT ![path] = f]
        /\ content' = [content EXCEPT ![f] = Torn]
        /\ target' = [target EXCEPT ![r] = f]

\* The content is written to the open file.  When another request has written
\* the same file since it was truncated, the two may be mixed.
Fill(r, edits) ==
    \E c \in {edits, Torn} :
        /\ content[target[r]] \in {Torn, edits} => c = edits
        /\ content' = [content EXCEPT ![target[r]] = c]

Close(r) ==
    /\ target' = [target EXCEPT ![r] = NoFile]
    /\ source' = [source EXCEPT ![r] = NoFile]
-----------------------------------------------------------------------------
(* EditElement and CalculatePowerFlow: the solver reads the working file.  *)

\* Both handlers take the file name at the start and hand it to the solver.
Start(r, k) ==
    /\ k \in {"edit", "solve"}
    /\ Arrive(r, k, "read")
    /\ name' = [name EXCEPT ![r] = current]
    /\ UNCHANGED <<fileVars, seen, source, target, existed>>

\* Mutant: the solver takes whatever is in the file.
SolverReads_Unchecked(r) ==
    /\ Goto(r, "read", IF kind[r] = "edit" THEN "openWrite" ELSE "saveResults")
    /\ Exists(Session(name[r]))
    /\ seen' = [seen EXCEPT ![r] = content[dir[Session(name[r])]]]
    /\ UNCHANGED <<sessionVars, fileVars, solveVars, name, source, target,
                   existed, broken>>

SolverReads(r) ==
    /\ Goto(r, "read", IF kind[r] = "edit" THEN "openWrite" ELSE "saveResults")
    /\ Whole(Session(name[r]))
    /\ seen' = [seen EXCEPT ![r] = content[dir[Session(name[r])]]]
    /\ UNCHANGED <<sessionVars, fileVars, solveVars, name, source, target,
                   existed, broken>>

\* The file is missing or unreadable, the edit does not apply, or the solver
\* does not end in time.
SolverFails(r) ==
    /\ Goto(r, "read", "error")
    /\ UNCHANGED <<sessionVars, fileVars, solveVars, localVars, broken>>

\* The edit goes to the file FilePath names now; the fold of a solve goes to
\* the file it was read from.
WritePath(r) == Session(IF kind[r] = "edit" THEN current ELSE name[r])

OpenWrite(r) ==
    /\ Goto(r, "openWrite", "write")
    /\ live
    /\ Truncate(r, WritePath(r))
    /\ UNCHANGED <<sessionVars, solveVars, name, seen, source, existed, broken>>

\* A failure to fold is only logged.
AfterFailure(r) == IF kind[r] = "edit" THEN "error" ELSE "ok"

\* The directory has gone with the session.
OpenWriteFails(r) ==
    /\ Goto(r, "openWrite", AfterFailure(r))
    /\ ~live
    /\ UNCHANGED <<sessionVars, fileVars, solveVars, localVars, broken>>

Write(r) ==
    /\ Goto(r, "write", "ok")
    /\ Fill(r, IF kind[r] = "edit" THEN seen[r] \cup {r} ELSE seen[r])
    /\ Close(r)
    /\ UNCHANGED <<sessionVars, dir, solveVars, name, seen, existed, broken>>

\* The disk is full.
WriteFails(r) ==
    /\ Goto(r, "write", AfterFailure(r))
    /\ content' = [content EXCEPT ![target[r]] = Torn]
    /\ Close(r)
    /\ broken' = broken \cup {r}
    /\ UNCHANGED <<sessionVars, dir, solveVars, name, seen, existed>>
-----------------------------------------------------------------------------
(* CalculatePowerFlow after the solver has ended.                          *)

SaveRawResults(r) ==
    /\ Goto(r, "saveResults", "record")
    /\ live
    /\ results' = {r}
    /\ UNCHANGED <<sessionVars, fileVars, recorded, localVars, broken>>

\* Mutant: the handler goes on without results.
SaveRawResultsFails_Ignored(r) ==
    /\ Goto(r, "saveResults", "record")
    /\ UNCHANGED <<sessionVars, fileVars, solveVars, localVars, broken>>

\* The session has gone, or the disk is full; then the file is left truncated.
SaveRawResultsFails(r) ==
    /\ Goto(r, "saveResults", "error")
    /\ \/ UNCHANGED <<results, broken>>
       \/ live /\ results' = {} /\ broken' = broken \cup {r}
    /\ UNCHANGED <<sessionVars, fileVars, recorded, localVars>>

\* The session is looked up again.  A solve that did not converge is over, a
\* DC solve folds nothing.
UpdateSessionResults(r) ==
    /\ \E to \in {"foldRead", "ok", "error"} : Goto(r, "record", to)
    /\ recorded' = IF live THEN {r} ELSE recorded
    /\ UNCHANGED <<sessionVars, fileVars, results, localVars, broken>>

\* Mutant: the solution is folded into the user's version of the case.
UpdateControlState_OfOriginal(r) ==
    /\ Goto(r, "foldRead", "openWrite")
    /\ Whole(Model(original))
    /\ name' = [name EXCEPT ![r] = current]
    /\ seen' = [seen EXCEPT ![r] = content[dir[Model(original)]]]
    /\ UNCHANGED <<sessionVars, fileVars, solveVars, source, target, existed,
                   broken>>

\* It reads the file again, under the name FilePath has by then.
UpdateControlState(r) ==
    /\ Goto(r, "foldRead", "openWrite")
    /\ Whole(Session(current))
    /\ name' = [name EXCEPT ![r] = current]
    /\ seen' = [seen EXCEPT ![r] = content[dir[Session(current)]]]
    /\ UNCHANGED <<sessionVars, fileVars, solveVars, source, target, existed,
                   broken>>

UpdateControlStateFails(r) ==
    /\ Goto(r, "foldRead", "ok")
    /\ ~Whole(Session(current))
    /\ UNCHANGED <<sessionVars, fileVars, solveVars, localVars, broken>>
-----------------------------------------------------------------------------
(* SaveCase and SaveCaseAs: copyFile opens both files and copies.          *)

\* Mutant: the case is copied from the user's previous version of it.
OpenCopy_OfOriginal(r, n) ==
    /\ Exists(Session(current))
    /\ source' = [source EXCEPT ![r] = dir[Model(original)]]
    /\ Truncate(r, Model(n))
    /\ name' = [name EXCEPT ![r] = n]
    /\ existed' = IF Exists(Model(n)) THEN existed \cup {r} ELSE existed
    /\ UNCHANGED seen

OpenCopy(r, n) ==
    /\ Exists(Session(current))
    /\ source' = [source EXCEPT ![r] = dir[Session(current)]]
    /\ Truncate(r, Model(n))
    /\ name' = [name EXCEPT ![r] = n]
    /\ existed' = IF Exists(Model(n)) THEN existed \cup {r} ELSE existed
    /\ UNCHANGED seen

SaveCase(r) == Arrive(r, "save", "copy") /\ OpenCopy(r, original)

SaveCaseAs(r, n) == Arrive(r, "saveAs", "copy") /\ OpenCopy(r, n)

\* What is in the working file is copied, whatever that is.
Copy(r) ==
    /\ Goto(r, "copy", IF kind[r] = "save" THEN "ok" ELSE "rename")
    /\ Fill(r, content[source[r]])
    /\ Close(r)
    /\ UNCHANGED <<sessionVars, dir, solveVars, name, seen, existed, broken>>

CopyFails(r) ==
    /\ Goto(r, "copy", "error")
    /\ content' = [content EXCEPT ![target[r]] = Torn]
    /\ Close(r)
    /\ broken' = broken \cup {r}
    /\ UNCHANGED <<sessionVars, dir, solveVars, name, seen, existed>>

Rename(r) ==
    /\ Goto(r, "rename", "update")
    /\ Exists(Session(current))
    /\ dir' = [dir EXCEPT ![Session(current)] = NoFile,
                          ![Session(name[r])] = dir[Session(current)]]
    /\ UNCHANGED <<sessionVars, content, solveVars, localVars, broken>>

\* The copy under the new name is removed again.
RenameFails(r) ==
    /\ Goto(r, "rename", "error")
    /\ ~Exists(Session(current))
    /\ dir' = [dir EXCEPT ![Model(name[r])] = NoFile]
    /\ UNCHANGED <<sessionVars, content, solveVars, localVars, broken>>

\* Mutant: only the original name is replaced.
Update_OriginalOnly(r) ==
    /\ Goto(r, "update", "ok")
    /\ original' = name[r]
    /\ UNCHANGED <<live, current, fileVars, solveVars, localVars, broken>>

Update(r) ==
    /\ Goto(r, "update", "ok")
    /\ current' = name[r]
    /\ original' = name[r]
    /\ UNCHANGED <<live, fileVars, solveVars, localVars, broken>>
-----------------------------------------------------------------------------
\* The session is evicted or expires: its directory goes, files that are open
\* stay with those who opened them.
RemoveSession ==
    /\ live
    /\ live' = FALSE
    /\ dir' = [path \in DOMAIN dir |-> IF path[1] = "session" THEN NoFile
                                                              ELSE dir[path]]
    /\ UNCHANGED <<current, original, content, solveVars, kind, place,
                   localVars, historyVars>>

Edit(r) ==
    \/ SolverReads(r) \/ SolverFails(r) \/ OpenWrite(r) \/ OpenWriteFails(r)
    \/ Write(r) \/ WriteFails(r)

Solve(r) ==
    \/ SaveRawResults(r) \/ SaveRawResultsFails(r) \/ UpdateSessionResults(r)
    \/ UpdateControlState(r) \/ UpdateControlStateFails(r)

Save(r) == Copy(r) \/ CopyFails(r) \/ Rename(r) \/ RenameFails(r) \/ Update(r)

Next ==
    \/ \E r \in Requests :
          \/ \E k \in Kinds : Start(r, k)
          \/ SaveCase(r)
          \/ \E n \in Names : SaveCaseAs(r, n)
          \/ Edit(r) \/ Solve(r) \/ Save(r)
    \/ RemoveSession

Spec == Init /\ [][Next]_vars
-----------------------------------------------------------------------------
(* Properties.                                                             *)

\* Requests that rewrite or rename the working file.
Rewriters == {r \in Requests : kind[r] \in Rewriting}

\* Edits the client was told to have succeeded.
Acknowledged == {r \in Requests : kind[r] = "edit" /\ place[r] = "ok"}

\* Two requests that rewrite the working file overlapped.
Collision == \E r, s \in Rewriters : s \in met[r]

\* The working file is at rest: no request has truncated it.
AtRest == \A r \in Requests : target[r] # dir[Session(current)]

\* While the session lives, an acknowledged edit can leave its working file
\* only if the edit overlapped another rewriting request; and the file is
\* unreadable only after such an overlap or a failed write (EditElement,
\* UpdateControlState and SaveCaseAs rewrite it without a lock).
NoLossWithoutOverlap ==
    live /\ Exists(Session(current)) /\ AtRest =>
        IF Whole(Session(current))
        THEN \A e \in Acknowledged : \/ e \in content[dir[Session(current)]]
                                     \/ met[e] \cap Rewriters # {}
        ELSE broken # {} \/ Collision

\* FilePath names a file whenever no save-as is between its rename and its
\* update of the session, unless two saves-as overlapped (SaveCaseAs).
FilePathExists ==
    live /\ ~Exists(Session(current)) =>
        \/ \E r \in Requests : place[r] = "update"
        \/ \E r, s \in Requests : kind[r] = "saveAs" /\ kind[s] = "saveAs" /\ s \in met[r]

\* The results on disk and the method and convergence the session records are
\* of the same solve, but for the moment between the two, for solves that
\* overlapped, and after results that could not be written (SaveRawResults,
\* UpdateSessionResults).
ResultsOfOneSolve ==
    live /\ results # recorded =>
        \/ \E r \in results : \/ place[r] = "record"
                              \/ \E s \in met[r] : kind[s] = "solve"
        \/ results = {} /\ \E s \in broken : kind[s] = "solve"

\* A save that is reported as done has put every edit acknowledged so far into
\* the user's case, unless a rewriting request overlapped or a write failed.
SaveIsComplete ==
    [][\A r \in Requests :
          /\ place[r] = "copy" /\ place'[r] \in {"ok", "rename"}
          /\ Exists(Model(name[r])) /\ dir[Model(name[r])] = target[r]
          /\ met[r] \cap Rewriters = {} /\ ~Collision /\ broken = {}
          => Acknowledged \subseteq content'[target[r]]]_vars

\* "If rename fails, try to clean up the new user file we created"
\* (session.go:1253): a save-as that fails to rename does not remove a case
\* that it did not create.
CleansUpOnlyItsOwn ==
    [][\A r \in existed : place[r] = "rename" /\ place'[r] = "error"
          => dir'[Model(name[r])] = dir[Model(name[r])]]_vars
=============================================================================
