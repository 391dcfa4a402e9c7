---------------------------- MODULE SessionStore ----------------------------
(***************************************************************************)
(* SessionService (services/session.go, services/study_files.go): the map  *)
(* of sessions, the per-user index in creation order, and the directories  *)
(* a session owns on disk.                                                 *)
(*                                                                         *)
(* The maps are only touched under the service's mutex; files are created  *)
(* outside it.  A request is therefore a sequence of steps, and between    *)
(* two of them its session may be evicted by another one of the same user, *)
(* expire, or be cleaned up.  The expiry loop holds the mutex for many     *)
(* steps (expired is what it still has to remove), and the requests in     *)
(* flight keep writing files meanwhile.                                    *)
(*                                                                         *)
(* Left out: the content and the names of the files (WorkingFile.tla) and  *)
(* the session's status.                                                   *)
(***************************************************************************)
EXTENDS Integers, FiniteSets, SequencesExt

CONSTANTS
    Users,
    Sessions,     \* the ids types.NewUserSession will draw; none is drawn twice
    Requests,     \* requests in flight at the same time
    MaxSessions,  \* storage.max_sessions_per_user
    NoUser,       \* the id is not drawn yet
    NoSession     \* the request slot is free

\* A limit of zero would make the eviction loop index an empty slice.
ASSUME MaxSessionsAssumption == MaxSessions \in Nat \ {0}
ASSUME NoUserAssumption == NoUser \notin Users
ASSUME NoSessionAssumption == NoSession \notin Sessions

\* What a session can own on disk, by the directory it goes away with:
\* sessions/<user>/<id> and power-flow/<user>/<id>.  The working file is the
\* "model" under the name in FilePath, "renamed" under another name.
Workspace == {"dir", "model", "renamed", "studyDir", "study", "runs"}
PowerFlow == {"resultsDir", "results"}

VARIABLES
    sessions,     \* ids in the map
    byUser,       \* the index: the ids of each user
    owner,        \* UserID of the drawn ids
    created,      \* the drawn ids in the order of their creation
    filePath,     \* sessions of the map whose FilePath is set
    resultsPath,  \* sessions of the map whose ResultsPath is set
    slots,        \* sessions of the map with a SubPath, MonPath or ConPath
    mixed,        \* history: sessions of the map whose saves-as overlapped
    stale,        \* sessions of the map with an UpdatedAt before the cutoff
    expired,      \* sessions the running expiry loop still has to remove
    disk,         \* what exists on disk for each session
    target,       \* the session a request works on
    at,           \* what the request does next
    tidy          \* sessions that were removed with all they own recorded

vars == <<sessions, byUser, owner, created, filePath, resultsPath, slots,
          mixed, stale, expired, disk, target, at, tidy>>

indexVars == <<sessions, byUser, owner, created>>
fieldVars == <<filePath, resultsPath, slots, mixed, stale>>
lockedVars == <<indexVars, fieldVars, expired, tidy>>
requestVars == <<target, at>>

Steps == {"idle", "makeDir", "copyModel", "setFileInfo", "makeStudyDir",
          "copyStudy", "setSlot", "makeRuns", "makeResults", "writeResults",
          "setResults", "rename", "setPath"}

TypeOK ==
    /\ sessions \subseteq Sessions
    /\ byUser \in [Users -> Seq(Sessions)]
    /\ owner \in [Sessions -> Users \cup {NoUser}]
    /\ created \in Seq(Sessions)
    /\ filePath \cup resultsPath \cup slots \cup mixed \cup stale \subseteq sessions
    /\ expired \subseteq sessions
    /\ disk \in [Sessions -> SUBSET (Workspace \cup PowerFlow)]
    /\ target \in [Requests -> Sessions \cup {NoSession}]
    /\ at \in [Requests -> Steps]
    /\ tidy \subseteq Sessions

Init ==
    /\ sessions = {}
    /\ byUser = [u \in Users |-> <<>>]
    /\ owner = [s \in Sessions |-> NoUser]
    /\ created = <<>>
    /\ filePath = {}
    /\ resultsPath = {}
    /\ slots = {}
    /\ mixed = {}
    /\ stale = {}
    /\ expired = {}
    /\ disk = [s \in Sessions |-> {}]
    /\ target = [r \in Requests |-> NoSession]
    /\ at = [r \in Requests |-> "idle"]
    /\ tidy = {}

\* The expiry loop keeps the mutex until it has removed the last session.
Unlocked == expired = {}

\* Some request in flight works on s.
Busy(s) == \E r \in Requests : target[r] = s

Start(r, s, step) ==
    /\ at[r] = "idle"
    /\ at' = [at EXCEPT ![r] = step]
    /\ target' = [target EXCEPT ![r] = s]

Goto(r, from, to) ==
    /\ at[r] = from
    /\ at' = [at EXCEPT ![r] = to]
    /\ UNCHANGED target

Return(r, from) ==
    /\ at[r] = from
    /\ at' = [at EXCEPT ![r] = "idle"]
    /\ target' = [target EXCEPT ![r] = NoSession]

Has(r, thing) == thing \in disk[target[r]]

Put(r, things) == disk' = [disk EXCEPT ![target[r]] = @ \cup things]
-----------------------------------------------------------------------------
(* Removal.                                                                *)

\* Mutant: the results are taken to live inside the session directory.
Leftover_WorkspaceOnly(s) ==
    IF s \in filePath THEN disk[s] \ Workspace ELSE disk[s]

\* What is left on disk after removing s: the directory of FilePath and the
\* directory of ResultsPath go, each only when the field is set.
Leftover(s) ==
    LET kept == IF s \in filePath THEN disk[s] \ Workspace ELSE disk[s]
    IN  IF s \in resultsPath THEN kept \ PowerFlow ELSE kept

\* No request is about to write for s, and all its directories are recorded.
Settled(s) ==
    /\ ~Busy(s)
    /\ s \in filePath
    /\ disk[s] \cap PowerFlow # {} => s \in resultsPath

\* The sessions in gone lose their files, and their fields with the object.
Discard(gone) ==
    /\ disk' = [s \in Sessions |-> IF s \in gone THEN Leftover(s) ELSE disk[s]]
    /\ tidy' = tidy \cup {s \in gone : Settled(s)}
    /\ filePath' = filePath \ gone
    /\ resultsPath' = resultsPath \ gone
    /\ slots' = slots \ gone
    /\ mixed' = mixed \ gone
    /\ stale' = stale \ gone

\* Mutant: room is made only once the limit is exceeded.
Excess_Late(q) == IF Len(q) > MaxSessions THEN Len(q) - MaxSessions ELSE 0

\* How many sessions CreateSession evicts from the front of the list.
Excess(q) == IF Len(q) >= MaxSessions THEN Len(q) - MaxSessions + 1 ELSE 0

\* Mutant: the newest sessions go.
Evicted_Newest(q) == {q[i] : i \in Len(q) - Excess(q) + 1 .. Len(q)}

Evicted(q) == {q[i] : i \in 1 .. Excess(q)}

\* Mutant: the mutex is not taken.
Register_Unlocked(u, s) ==
    LET gone == Evicted(byUser[u]) \cap sessions
    IN  /\ owner[s] = NoUser
        /\ owner' = [owner EXCEPT ![s] = u]
        /\ created' = Append(created, s)
        /\ byUser' = [byUser EXCEPT ![u] =
                        Append(SubSeq(@, Excess(@) + 1, Len(@)), s)]
        /\ sessions' = (sessions \ gone) \cup {s}
        /\ Discard(gone)
        /\ UNCHANGED expired

\* CreateSession, under the mutex: evict the oldest sessions, add the new one.
Register(u, s) ==
    LET gone == Evicted(byUser[u]) \cap sessions
    IN  /\ Unlocked
        /\ owner[s] = NoUser
        /\ owner' = [owner EXCEPT ![s] = u]
        /\ created' = Append(created, s)
        /\ byUser' = [byUser EXCEPT ![u] =
                        Append(SubSeq(@, Excess(@) + 1, Len(@)), s)]
        /\ sessions' = (sessions \ gone) \cup {s}
        /\ Discard(gone)
        /\ UNCHANGED expired

CreateSession(u, s) == Register(u, s) /\ UNCHANGED requestVars

\* CleanupExpiredSessions collects the stale sessions ...
CleanupBegin ==
    /\ Unlocked
    /\ expired' = stale \cap sessions
    /\ UNCHANGED <<indexVars, fieldVars, disk, requestVars, tidy>>

\* The list without its first s, the rest in the same order.
Without(q, s) ==
    IF \E i \in DOMAIN q : q[i] = s
    THEN RemoveAt(q, CHOOSE i \in DOMAIN q :
                        q[i] = s /\ \A j \in 1 .. i - 1 : q[j] # s)
    ELSE q

\* ... and removes them one after the other, in the order of a map.
CleanupOne(s) ==
    /\ s \in expired
    /\ expired' = expired \ {s}
    /\ byUser' = [byUser EXCEPT ![owner[s]] = Without(@, s)]
    /\ sessions' = sessions \ {s}
    /\ Discard({s})
    /\ UNCHANGED <<owner, created, requestVars>>

CleanupUserSessions(u) ==
    /\ Unlocked
    /\ byUser' = [byUser EXCEPT ![u] = <<>>]
    /\ sessions' = sessions \ ToSet(byUser[u])
    /\ Discard(ToSet(byUser[u]) \cap sessions)
    /\ UNCHANGED <<owner, created, expired, requestVars>>

\* The process restarts: the maps are gone, the directories stay.
Restart ==
    /\ sessions' = {}
    /\ byUser' = [u \in Users |-> <<>>]
    /\ filePath' = {} /\ resultsPath' = {} /\ slots' = {} /\ mixed' = {}
    /\ stale' = {} /\ expired' = {}
    /\ target' = [r \in Requests |-> NoSession]
    /\ at' = [r \in Requests |-> "idle"]
    /\ UNCHANGED <<owner, created, disk, tidy>>

\* A session on which no request works gets older than the cutoff.
Age(s) ==
    /\ s \in sessions
    /\ ~Busy(s)
    /\ stale' = stale \cup {s}
    /\ UNCHANGED <<indexVars, filePath, resultsPath, slots, mixed, expired, disk,
                   requestVars, tidy>>
-----------------------------------------------------------------------------
(* LoadCase.                                                               *)

LoadCase(r, u, s) ==
    /\ Register(u, s)
    /\ Start(r, s, "makeDir")

MakeDir(r) ==
    /\ Goto(r, "makeDir", "copyModel")
    /\ Put(r, {"dir"})
    /\ UNCHANGED lockedVars

CopyModel(r) ==
    /\ Goto(r, "copyModel", "setFileInfo")
    /\ Has(r, "dir")
    /\ Put(r, {"model"})
    /\ UNCHANGED lockedVars

\* The sanitiser rejects the file, or its directory is gone.
CopyModelFails(r) ==
    /\ Return(r, "copyModel")
    /\ UNCHANGED <<lockedVars, disk>>

\* SetSessionFileInfo reports an error when the session is gone.  The fields
\* set after it are already set or belong to WorkingFile.
SetSessionFileInfo(r) ==
    /\ Unlocked
    /\ Return(r, "setFileInfo")
    /\ LET loaded == {target[r]} \cap sessions
       IN  /\ filePath' = filePath \cup loaded
           /\ stale' = stale \ loaded
    /\ UNCHANGED <<indexVars, resultsPath, slots, mixed, expired, disk, tidy>>
-----------------------------------------------------------------------------
(* LoadStudyFileIntoSession.                                               *)

LoadStudyFile(r, s) ==
    /\ Unlocked
    /\ s \in sessions
    /\ Start(r, s, "makeStudyDir")
    /\ UNCHANGED <<lockedVars, disk>>

MakeStudyDir(r) ==
    /\ Goto(r, "makeStudyDir", "copyStudy")
    /\ Put(r, {"dir", "studyDir"})
    /\ UNCHANGED lockedVars

CopyStudy(r) ==
    /\ Goto(r, "copyStudy", "setSlot")
    /\ Has(r, "studyDir")
    /\ Put(r, {"study"})
    /\ UNCHANGED lockedVars

\* Mutant: the slot is set although the copy failed.
CopyStudyFails_Ignored(r) ==
    /\ Goto(r, "copyStudy", "setSlot")
    /\ UNCHANGED <<lockedVars, disk>>

CopyStudyFails(r) ==
    /\ Return(r, "copyStudy")
    /\ UNCHANGED <<lockedVars, disk>>

\* The slot is set on the object found at the start; nobody sees it when the
\* session has left the map.
SetSlot(r) ==
    /\ Unlocked
    /\ Return(r, "setSlot")
    /\ slots' = slots \cup ({target[r]} \cap sessions)
    /\ stale' = stale \ {target[r]}
    /\ UNCHANGED <<indexVars, filePath, resultsPath, mixed, expired, disk, tidy>>
-----------------------------------------------------------------------------
(* AllocateRunPaths, called by every solver and analysis run.              *)

AllocateRunPaths(r, s) ==
    /\ Unlocked
    /\ s \in sessions \cap filePath
    /\ Start(r, s, "makeRuns")
    /\ UNCHANGED <<lockedVars, disk>>

\* MkdirAll creates the session's directory again when it is gone.
MakeRuns(r) ==
    /\ Return(r, "makeRuns")
    /\ Put(r, {"dir", "runs"})
    /\ UNCHANGED lockedVars
-----------------------------------------------------------------------------
(* SaveRawResults and UpdateSessionResults, at the end of a power flow.    *)

SaveRawResults(r, s) ==
    /\ Unlocked
    /\ s \in sessions \cap filePath
    /\ Start(r, s, "makeResults")
    /\ UNCHANGED <<lockedVars, disk>>

MakeResults(r) ==
    /\ Goto(r, "makeResults", "writeResults")
    /\ Put(r, {"resultsDir"})
    /\ UNCHANGED lockedVars

WriteResults(r) ==
    /\ Goto(r, "writeResults", "setResults")
    /\ Has(r, "resultsDir")
    /\ Put(r, {"results"})
    /\ UNCHANGED lockedVars

WriteResultsFails(r) ==
    /\ Return(r, "writeResults")
    /\ UNCHANGED <<lockedVars, disk>>

\* Mutant: the session found before the run is put back into the map.
UpdateSessionResults_PutBack(r) ==
    /\ Unlocked
    /\ Return(r, "setResults")
    /\ sessions' = sessions \cup {target[r]}
    /\ resultsPath' = resultsPath \cup {target[r]}
    /\ stale' = stale \ {target[r]}
    /\ UNCHANGED <<byUser, owner, created, filePath, slots, mixed, expired, disk,
                   tidy>>

\* The caller ignores the error reported for a session that is gone.
UpdateSessionResults(r) ==
    /\ Unlocked
    /\ Return(r, "setResults")
    /\ LET solved == {target[r]} \cap sessions
       IN  /\ resultsPath' = resultsPath \cup solved
           /\ stale' = stale \ solved
    /\ UNCHANGED <<indexVars, filePath, slots, mixed, expired, disk, tidy>>
-----------------------------------------------------------------------------
(* SaveCaseAs: the working file gets a new name outside the mutex, and      *)
(* FilePath gets it under the mutex afterwards.                            *)

\* Saves-as in flight for s.
Saving(s) == {r \in Requests : target[r] = s /\ at[r] \in {"rename", "setPath"}}

SaveCaseAs(r, s) ==
    /\ Unlocked
    /\ s \in sessions \cap filePath
    /\ Start(r, s, "rename")
    /\ mixed' = IF Saving(s) = {} THEN mixed ELSE mixed \cup {s}
    /\ UNCHANGED <<indexVars, filePath, resultsPath, slots, stale, expired, disk,
                   tidy>>

Rename(r) ==
    /\ Goto(r, "rename", "setPath")
    /\ Has(r, "model")
    /\ disk' = [disk EXCEPT ![target[r]] = (@ \ {"model"}) \cup {"renamed"}]
    /\ UNCHANGED lockedVars

\* The copy to the user's cases failed, or the rename did.
RenameFails(r) ==
    /\ Return(r, "rename")
    /\ UNCHANGED <<lockedVars, disk>>

\* FilePath becomes the new name.  The last of several saves-as that
\* overlapped may set a name under which another of them has meanwhile moved
\* the file away.
SetPath(r) ==
    /\ Unlocked
    /\ Return(r, "setPath")
    /\ \/ /\ Has(r, "renamed")
          /\ disk' = [disk EXCEPT ![target[r]] = (@ \ {"renamed"}) \cup {"model"}]
       \/ /\ Has(r, "renamed") => target[r] \in mixed
          /\ UNCHANGED disk
    /\ UNCHANGED lockedVars
-----------------------------------------------------------------------------
LoadCaseSteps(r) ==
    MakeDir(r) \/ CopyModel(r) \/ CopyModelFails(r) \/ SetSessionFileInfo(r)

StudySteps(r) ==
    MakeStudyDir(r) \/ CopyStudy(r) \/ CopyStudyFails(r) \/ SetSlot(r)

RunSteps(r) ==
    \/ MakeRuns(r) \/ MakeResults(r) \/ WriteResults(r)
    \/ WriteResultsFails(r) \/ UpdateSessionResults(r)

SaveAsSteps(r) == Rename(r) \/ RenameFails(r) \/ SetPath(r)

Accept(r, s) ==
    \/ LoadStudyFile(r, s) \/ AllocateRunPaths(r, s) \/ SaveRawResults(r, s)
    \/ SaveCaseAs(r, s)

Next ==
    \/ \E u \in Users, s \in Sessions :
          CreateSession(u, s) \/ \E r \in Requests : LoadCase(r, u, s)
    \/ \E r \in Requests :
          \/ LoadCaseSteps(r) \/ StudySteps(r) \/ RunSteps(r) \/ SaveAsSteps(r)
          \/ \E s \in Sessions : Accept(r, s)
    \/ \E s \in Sessions : Age(s) \/ CleanupOne(s)
    \/ CleanupBegin \/ Restart
    \/ \E u \in Users : CleanupUserSessions(u)

Spec == Init /\ [][Next]_vars
-----------------------------------------------------------------------------
(* Properties.                                                             *)

\* The map and the per-user index agree: each user's list names the user's
\* sessions, each once, also between two steps of the expiry loop (CreateSession,
\* CleanupExpiredSessions, CleanupUserSessions; GetUserSessions reads both).
IndexAgrees ==
    \A u \in Users :
        /\ ToSet(byUser[u]) = {s \in sessions : owner[s] = u}
        /\ \A i, j \in DOMAIN byUser[u] : byUser[u][i] = byUser[u][j] => i = j

\* No user has more sessions than configured, whatever CreateSession races with.
WithinLimit == \A u \in Users : Len(byUser[u]) <= MaxSessions

\* A session in the map names no results (GetResultsFromFile) and no study
\* file that is gone, although they are created and removed outside the mutex.
\* Its FilePath names no file only between the rename of a save-as and its
\* update of the session, when the file is there under the new name, or after
\* saves-as that overlapped (SaveCaseAs, session.go:1252).
PathsExist ==
    \A s \in sessions :
        /\ s \in filePath =>
              \/ "model" \in disk[s]
              \/ "renamed" \in disk[s] /\ \E r \in Saving(s) : at[r] = "setPath"
              \/ s \in mixed
        /\ s \in resultsPath => "results" \in disk[s]
        /\ s \in slots => "study" \in disk[s]

Older(s, t) == \E i, j \in DOMAIN created : i < j /\ created[i] = s /\ created[j] = t

\* When a new session makes others of its user go, those are older than every
\* one that stays ("FIFO - First In First Out", session.go:147), also after
\* the expiry loop took sessions out of the middle of the list.
OldestEvicted ==
    [][created' # created =>
         \A s \in sessions \ sessions', t \in sessions \cap sessions' :
             owner[s] = owner[t] => Older(s, t)]_vars

\* A session removed while its directories are recorded and no request works
\* on it leaves nothing on disk, and nothing brings its files back.
SettledRemovalIsClean == \A s \in tidy : disk[s] = {}

\* Evicting a session is to "Clean up session files and directories"
\* (session.go:155), at least when no request works on it any more.
EvictionCleansUp ==
    [][created' # created =>
         \A s \in sessions \ sessions' : ~Busy(s) => disk'[s] = {}]_vars
=============================================================================
