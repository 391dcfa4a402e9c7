--------------------------- MODULE IndexMetadata ---------------------------
(***************************************************************************)
(* The index metadata of one user's knowledge base: the copy in memory and *)
(* the file index.json (repositories/indexMetadata.repository.ts of the    *)
(* agent-server), which the api-server rewrites too when it removes a file *)
(* (services/files.go).                                                    *)
(*                                                                         *)
(* An update (updateFileHash, updateFileStatus, updateLastIndexed or       *)
(* removeFile) changes the copy in memory and writes all of it to          *)
(* index.json.tmp, which it renames.  writeLocks holds the promise of the  *)
(* update under way; an update that finds one waits for it, once.  A step  *)
(* of the model is what the event loop runs between two awaits, or one     *)
(* call on the file system.                                                *)
(*                                                                         *)
(* Metadata is the set of the updates it reflects.                         *)
(***************************************************************************)
EXTENDS Naturals

CONSTANTS
    Updates,     \* calls that update the metadata
    Readers,     \* calls that only read it: getFileHash, getMetadata
    Nothing,     \* no promise, no object, no file
    MaxRewrites, \* bound: rewrites by the api-server
    MaxRestarts  \* bound: restarts of the agent-server

ASSUME ReadersAssumption == Updates \cap Readers = {}
ASSUME NothingAssumption == Nothing \notin Updates \cup Readers
ASSUME MaxRewritesAssumption == MaxRewrites \in Nat
ASSUME MaxRestartsAssumption == MaxRestarts \in Nat

Callers == Updates \cup Readers

VARIABLES
    pc,        \* what each call does next, or how it ended
    waitsFor,  \* the update whose promise a waiting update awaits
    lock,      \* writeLocks: the update whose promise is in the map
    cache,     \* inMemoryCache: the object in it, named after its loader
    heap,      \* what each object holds
    got,       \* what a load read from index.json
    held,      \* the object an update saves (metadata in saveToDisk)
    text,      \* what it made of the object (JSON.stringify)
    fd,        \* the file it has open, named after the update that made it
    temp,      \* the file called index.json.tmp
    index,     \* the file called index.json
    content,   \* what each file holds
    api,       \* the api-server's rewrite: its state, data and open file
    rewrites, restarts, \* bounded counters
    alone,     \* history: running updates nothing has overlapped with
    upset      \* history: what may have harmed index.json or the cache

loadVars == <<cache, heap, got>>
saveVars == <<held, text, fd>>
diskVars == <<temp, index, content>>
apiVars == <<api, rewrites>>
vars == <<pc, waitsFor, lock, loadVars, saveVars, diskVars, apiVars, restarts,
          alone, upset>>

\* Updates past the lock: inside the function that made their promise.
InsideLock == {"reading", "loading", "saving", "opening", "writing", "renaming"}
Running == {u \in Updates : pc[u] \in InsideLock}
Ended == {"done", "failed", "lost"}

\* A document, and the two ways in which a file is none.
Whole(s) == [form |-> "whole", has |-> s]
Empty == [form |-> "empty", has |-> {}]
Torn == [form |-> "torn", has |-> {}]
Contents == {Empty, Torn} \cup {Whole(s) : s \in SUBSET Updates}

\* A file after s was written from its start: over older data the end of
\* that data stays when it is longer.
Written(old, s) == IF old = Empty THEN {Whole(s)} ELSE {Whole(s), Torn}

-----------------------------------------------------------------------------
Init ==
    /\ pc = [c \in Callers |-> "new"]
    /\ waitsFor = [u \in Updates |-> Nothing]
    /\ lock = Nothing
    /\ cache = Nothing
    /\ heap = [c \in Callers |-> {}]
    /\ got = [c \in Callers |-> Empty]
    /\ held = [u \in Updates |-> Nothing]
    /\ text = [u \in Updates |-> {}]
    /\ fd = [u \in Updates |-> Nothing]
    /\ temp = Nothing
    /\ index = Nothing
    /\ content = [u \in Updates |-> Empty]
    /\ api = [at |-> "idle", has |-> {}, fd |-> Nothing]
    /\ rewrites = 0
    /\ restarts = 0
    /\ alone = {}
    /\ upset = {}

\* An update that has ended leaves its locals behind.
Forget(u) ==
    /\ waitsFor' = [w \in Updates |->
                      IF waitsFor[w] = u THEN Nothing ELSE waitsFor[w]]
    /\ text' = [text EXCEPT ![u] = {}]
    /\ fd' = [fd EXCEPT ![u] = Nothing]

Several(us) == \E u, v \in us : u # v

\* History: after a step, the updates in run are running; those in candidates
\* ran alone before it or start with it.
StillAlone(run, candidates) ==
    IF \E u \in run : run = {u} THEN candidates \cap run ELSE {}

\* An update of the copy in memory, and the start of saveToDisk, for the
\* updates in us: they change the object and wait for mkdir.
Change(us, object) ==
    /\ heap' = [heap EXCEPT ![object] = @ \cup us]
    /\ held' = [u \in Updates |-> IF u \in us THEN object ELSE held[u]]

-----------------------------------------------------------------------------
(* An update is called.                                                    *)

\* It finds the promise of another update and awaits it.
Wait(u) ==
    /\ pc[u] = "new"
    /\ lock # Nothing
    /\ pc' = [pc EXCEPT ![u] = "waiting"]
    /\ waitsFor' = [waitsFor EXCEPT ![u] = lock]
    /\ UNCHANGED <<lock, loadVars, saveVars, diskVars, apiVars, restarts,
                   alone, upset>>

\* It finds none and puts its own there.
Begin(u) ==
    /\ pc[u] = "new"
    /\ lock = Nothing
    /\ lock' = u
    /\ alone' = StillAlone(Running \cup {u}, alone \cup {u})
    /\ \/ /\ cache = Nothing
          /\ pc' = [pc EXCEPT ![u] = "reading"]
          /\ UNCHANGED <<heap, held>>
       \/ /\ cache # Nothing
          /\ pc' = [pc EXCEPT ![u] = "saving"]
          /\ Change({u}, cache)
    /\ UNCHANGED <<waitsFor, cache, got, text, fd, diskVars, apiVars,
                   restarts, upset>>

\* A reader that finds the cache empty loads it, without looking at the lock.
BeginRead(r) ==
    /\ pc[r] = "new"
    /\ cache = Nothing
    /\ pc' = [pc EXCEPT ![r] = "reading"]
    /\ UNCHANGED <<waitsFor, lock, loadVars, saveVars, diskVars, apiVars,
                   restarts, alone, upset>>

(* An update ends: its promise leaves the map, whichever promise is there, *)
(* and all that await it go on before anything else runs.                  *)

Waiters(u) == {w \in Updates : pc[w] = "waiting" /\ waitsFor[w] = u}

\* Mutant: the updates that go on leave the map without a promise.
Succeed_WithoutLock(u) ==
    LET ws == Waiters(u) IN
    /\ pc' = [c \in Callers |->
                 IF c = u THEN "done" ELSE IF c \in ws THEN "saving" ELSE pc[c]]
    /\ lock' = Nothing
    /\ Change(ws, cache)
    /\ Forget(u)
    /\ alone' = StillAlone((Running \ {u}) \cup ws, alone \cup ws)
    /\ upset' = (IF u \in alone THEN upset \cap {"stale"} ELSE upset)
                    \cup (IF Several(ws) THEN {"crowd"} ELSE {})
    /\ UNCHANGED <<cache, got>>

\* All of them start, without another look at the lock; the promise of the
\* last one stays in the map.
Succeed(u) ==
    LET ws == Waiters(u) IN
    /\ pc' = [c \in Callers |->
                 IF c = u THEN "done" ELSE IF c \in ws THEN "saving" ELSE pc[c]]
    /\ \/ ws = {} /\ lock' = Nothing
       \/ \E w \in ws : lock' = w
    /\ Change(ws, cache)
    /\ Forget(u)
    /\ alone' = StillAlone((Running \ {u}) \cup ws, alone \cup ws)
    /\ upset' = (IF u \in alone THEN upset \cap {"stale"} ELSE upset)
                    \cup (IF Several(ws) THEN {"crowd"} ELSE {})
    /\ UNCHANGED <<cache, got>>

\* Mutant: the promise is never settled when the update fails.
Fail_Silently(u) ==
    /\ pc' = [pc EXCEPT ![u] = "failed"]
    /\ lock' = Nothing
    /\ Forget(u)
    /\ alone' = alone \ {u}
    /\ UNCHANGED <<loadVars, held, upset>>

\* Its promise is rejected, and so are the updates that await it.
Fail(u) ==
    /\ pc' = [c \in Callers |->
                 IF c \in {u} \cup Waiters(u) THEN "failed" ELSE pc[c]]
    /\ lock' = Nothing
    /\ Forget(u)
    /\ alone' = alone \ {u}
    /\ UNCHANGED <<loadVars, held, upset>>

-----------------------------------------------------------------------------
(* loadFromDisk, in an update or a reader.                                 *)

ReadIndex(c) ==
    /\ pc[c] = "reading"
    /\ pc' = [pc EXCEPT ![c] = "loading"]
    /\ got' = [got EXCEPT ![c] =
                  IF index = Nothing THEN Whole({}) ELSE content[index]]
    /\ UNCHANGED <<waitsFor, lock, cache, heap, saveVars, diskVars, apiVars,
                   restarts, alone, upset>>

\* Mutant: a reader goes on to save what it loaded.
Load_AndSave(c) ==
    /\ pc[c] = "loading"
    /\ got[c].form = "whole"
    /\ cache' = c
    /\ got' = [got EXCEPT ![c] = Empty]
    /\ pc' = [pc EXCEPT ![c] = "saving"]
    /\ heap' = [heap EXCEPT ![c] = got[c].has \cup ({c} \cap Updates)]
    /\ held' = [held EXCEPT ![c] = c]
    /\ UNCHANGED <<waitsFor, lock, text, fd, diskVars, apiVars, restarts, alone,
                   upset>>

\* The object replaces the cache, also one that was filled in the meantime.
Load(c) ==
    /\ pc[c] = "loading"
    /\ got[c].form = "whole"
    /\ cache' = c
    /\ got' = [got EXCEPT ![c] = Empty]
    /\ \/ /\ c \in Readers
          /\ pc' = [pc EXCEPT ![c] = "new"]
          /\ heap' = [heap EXCEPT ![c] = got[c].has]
          /\ UNCHANGED held
       \/ /\ c \in Updates
          /\ pc' = [pc EXCEPT ![c] = "saving"]
          /\ heap' = [heap EXCEPT ![c] = got[c].has \cup {c}]
          /\ held' = [held EXCEPT ![c] = c]
    /\ upset' = IF cache = Nothing /\ upset = {} THEN upset
                ELSE upset \cup {"stale"}
    /\ UNCHANGED <<waitsFor, lock, text, fd, diskVars, apiVars, restarts, alone>>

\* index.json is not a document: the cache stays empty.
LoadFails(c) ==
    /\ pc[c] = "loading"
    /\ got[c].form # "whole"
    /\ \/ c \in Updates /\ Fail(c)
       \/ /\ c \in Readers
          /\ pc' = [pc EXCEPT ![c] = "new"]
          /\ UNCHANGED <<waitsFor, lock, loadVars, saveVars, alone, upset>>
    /\ UNCHANGED <<diskVars, apiVars, restarts>>

-----------------------------------------------------------------------------
(* saveToDisk.                                                             *)

\* The directory exists: the object becomes text.
Stringify(u) ==
    /\ pc[u] = "saving"
    /\ pc' = [pc EXCEPT ![u] = "opening"]
    /\ text' = [text EXCEPT ![u] = heap[held[u]]]
    /\ UNCHANGED <<waitsFor, lock, loadVars, held, fd, diskVars, apiVars,
                   restarts, alone, upset>>

\* Mutant: the update writes into index.json itself.
Open_InPlace(u) ==
    /\ pc[u] = "opening"
    /\ pc' = [pc EXCEPT ![u] = "writing"]
    /\ LET file == IF index = Nothing THEN u ELSE index IN
       /\ temp' = file
       /\ fd' = [fd EXCEPT ![u] = file]
       /\ content' = [content EXCEPT ![file] = Empty]
    /\ UNCHANGED <<waitsFor, lock, loadVars, held, text, index, apiVars,
                   restarts, alone, upset>>

\* Mutant: a file that is there is not truncated.
Open_Keeping(u) ==
    /\ pc[u] = "opening"
    /\ pc' = [pc EXCEPT ![u] = "writing"]
    /\ temp' = IF temp = Nothing THEN u ELSE temp
    /\ fd' = [fd EXCEPT ![u] = IF temp = Nothing THEN u ELSE temp]
    /\ UNCHANGED <<waitsFor, lock, loadVars, held, text, index, content,
                   apiVars, restarts, alone, upset>>

\* writeFile opens index.json.tmp, which truncates the one that is there.
Open(u) ==
    /\ pc[u] = "opening"
    /\ pc' = [pc EXCEPT ![u] = "writing"]
    /\ LET file == IF temp = Nothing THEN u ELSE temp IN
       /\ temp' = file
       /\ fd' = [fd EXCEPT ![u] = file]
       /\ content' = [content EXCEPT ![file] = Empty]
    /\ UNCHANGED <<waitsFor, lock, loadVars, held, text, index, apiVars,
                   restarts, alone, upset>>

Write(u) ==
    /\ pc[u] = "writing"
    /\ pc' = [pc EXCEPT ![u] = "renaming"]
    /\ \E new \in Written(content[fd[u]], text[u]) :
          content' = [content EXCEPT ![fd[u]] = new]
    /\ UNCHANGED <<waitsFor, lock, loadVars, saveVars, temp, index, apiVars,
                   restarts, alone, upset>>

\* The disk is full.
WriteFails(u) ==
    /\ pc[u] = "writing"
    /\ content' = [content EXCEPT ![fd[u]] = Torn]
    /\ Fail(u)
    /\ UNCHANGED <<temp, index, apiVars, restarts>>

Rename(u) ==
    /\ pc[u] = "renaming"
    /\ temp # Nothing
    /\ index' = temp
    /\ temp' = Nothing
    /\ Succeed(u)
    /\ UNCHANGED <<content, apiVars, restarts>>

\* Another update has renamed the file away (ENOENT).
RenameFails(u) ==
    /\ pc[u] = "renaming"
    /\ temp = Nothing
    /\ Fail(u)
    /\ UNCHANGED <<diskVars, apiVars, restarts>>

-----------------------------------------------------------------------------
(* removeFileFromIndexMetadata of the api-server: the entry it removes is  *)
(* one the agent-server removes as well, so only the age of the data it    *)
(* writes back matters.                                                    *)

ApiRead ==
    /\ api.at = "idle"
    /\ rewrites < MaxRewrites
    /\ index # Nothing
    /\ content[index].form = "whole"
    /\ api' = [at |-> "read", has |-> content[index].has, fd |-> Nothing]
    /\ rewrites' = rewrites + 1
    /\ UNCHANGED <<pc, waitsFor, lock, loadVars, saveVars, diskVars, restarts,
                   alone, upset>>

ApiTruncate ==
    /\ api.at = "read"
    /\ api' = [api EXCEPT !.at = "open", !.fd = index]
    /\ content' = [content EXCEPT ![index] = Empty]
    /\ alone' = {}
    /\ upset' = upset \cup {"api"}
    /\ UNCHANGED <<pc, waitsFor, lock, loadVars, saveVars, temp, index,
                   rewrites, restarts>>

ApiWrite ==
    /\ api.at = "open"
    /\ api' = [at |-> "idle", has |-> {}, fd |-> Nothing]
    /\ \E new \in Written(content[api.fd], api.has) :
          content' = [content EXCEPT ![api.fd] = new]
    /\ alone' = {}
    /\ upset' = upset \cup {"api"}
    /\ UNCHANGED <<pc, waitsFor, lock, loadVars, saveVars, temp, index,
                   rewrites, restarts>>

\* The agent-server stops at any point and starts again.
Restart ==
    /\ restarts < MaxRestarts
    /\ restarts' = restarts + 1
    /\ pc' = [c \in Callers |->
                 IF c \in Readers THEN "new"
                 ELSE IF pc[c] \in InsideLock \cup {"waiting"} THEN "lost"
                 ELSE pc[c]]
    /\ lock' = Nothing
    /\ cache' = Nothing
    /\ heap' = [c \in Callers |-> {}]
    /\ got' = [c \in Callers |-> Empty]
    /\ waitsFor' = [u \in Updates |-> Nothing]
    /\ held' = [u \in Updates |-> Nothing]
    /\ text' = [u \in Updates |-> {}]
    /\ fd' = [u \in Updates |-> Nothing]
    /\ alone' = {}
    /\ UNCHANGED <<diskVars, apiVars, upset>>

-----------------------------------------------------------------------------
Progress(u) ==
    \/ ReadIndex(u)
    \/ Load(u)
    \/ LoadFails(u)
    \/ Stringify(u)
    \/ Open(u)
    \/ Write(u)
    \/ WriteFails(u)
    \/ Rename(u)
    \/ RenameFails(u)

Next ==
    \/ \E u \in Updates : Wait(u) \/ Begin(u) \/ Progress(u)
    \/ \E r \in Readers : BeginRead(r) \/ ReadIndex(r) \/ Load(r) \/ LoadFails(r)
    \/ ApiRead
    \/ ApiTruncate
    \/ ApiWrite
    \/ Restart

Spec == Init /\ [][Next]_vars

-----------------------------------------------------------------------------
(* Properties                                                              *)

CallTypes ==
    /\ pc \in [Callers -> InsideLock \cup Ended \cup {"new", "waiting"}]
    /\ \A r \in Readers : pc[r] \in {"new", "reading", "loading"}
    /\ waitsFor \in [Updates -> Updates \cup {Nothing}]
    /\ lock \in Updates \cup {Nothing}

MemoryTypes ==
    /\ cache \in Callers \cup {Nothing}
    /\ heap \in [Callers -> SUBSET Updates]
    /\ got \in [Callers -> Contents]
    /\ held \in [Updates -> Callers \cup {Nothing}]

FileTypes ==
    /\ text \in [Updates -> SUBSET Updates]
    /\ fd \in [Updates -> Updates \cup {Nothing}]
    /\ temp \in Updates \cup {Nothing}
    /\ index \in Updates \cup {Nothing}
    /\ content \in [Updates -> Contents]
    /\ api \in [at : {"idle", "read", "open"}, has : SUBSET Updates,
                fd : Updates \cup {Nothing}]

CounterTypes ==
    /\ rewrites \in 0 .. MaxRewrites
    /\ restarts \in 0 .. MaxRestarts

HistoryTypes ==
    /\ alone \subseteq Updates
    /\ upset \subseteq {"crowd", "api", "stale"}

\* Everything has its type, and calls are where their code can be.
TypeOK == CallTypes /\ MemoryTypes /\ FileTypes /\ CounterTypes /\ HistoryTypes

\* The write lock keeps updates apart unless, since the last update that ran
\* by itself, two of them were waiting for the same third one: both go on
\* when it ends, because neither looks at the lock again.
OneUpdateAtATime == Several(Running) => "crowd" \in upset

\* An update whose promise was fulfilled is in index.json, and stays there
\* through failed updates and at every point at which the service may stop.
\* The exceptions: updates that ran into each other, a rewrite by the
\* api-server (both until an update runs by itself), and a cache that was
\* loaded from a file one of these had harmed, or over a newer cache.
ReportedIsSaved ==
    upset = {} =>
        \A u \in Updates : pc[u] = "done" =>
            /\ index # Nothing
            /\ content[index].form = "whole"
            /\ u \in content[index].has

\* Whatever ran into each other before, an update that succeeds and met
\* neither another one nor the api-server leaves in index.json all that the
\* object it saved reflects.
LoneUpdateRepairs ==
    [][\A u \in alone : pc[u] = "renaming" /\ pc'[u] = "done" =>
          /\ content[index'].form = "whole"
          /\ {v \in Updates : v \in heap[held[u]] /\ pc[v] \in Ended}
                \subseteq content[index'].has]_vars

\* An update waits for one that is under way, never for a promise nobody is
\* going to settle, also when locks are deleted that belong to others.
WaitsForRunning ==
    \A u \in Updates : pc[u] = "waiting" => waitsFor[u] \in Running

\* "Write to temporary file first, then rename (atomic operation)"
\* (indexMetadata.repository.ts:113): index.json is a document at all times.
IndexIsWhole == index # Nothing => content[index].form = "whole"
=============================================================================
