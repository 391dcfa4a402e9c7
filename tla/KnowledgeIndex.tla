--------------------------- MODULE KnowledgeIndex ---------------------------
(***************************************************************************)
(* One document of a user's knowledge base from the directory it is        *)
(* uploaded to into the index (agent-server, features/knowledge-base):     *)
(* the file watcher with its debounce timers (services/fileWatcher), the   *)
(* indexing and deletion of the document (services/indexing), and its file *)
(* of chunks (repositories/vectorStore), which the api-server's removal of *)
(* the document deletes too (services/session.go, services/files.go).      *)
(*                                                                         *)
(* The agent-server runs on one event loop.  A call is a timer, an         *)
(* indexing, a deletion or the start of a watcher; a step of the model is  *)
(* what a call runs between two awaits.  An update of the metadata takes   *)
(* effect or fails: its lock and its file are the business of              *)
(* IndexMetadata.  What status and hash say is what the service has in     *)
(* memory, once it has loaded index.json.                                  *)
(***************************************************************************)
EXTENDS Naturals, Sequences, FiniteSets

CONSTANTS
    Versions,    \* contents of the document
    Calls,       \* bound: timers and calls that are under way at a time
    None,        \* no document, no version, no call
    Parts,       \* number of chunks of a version
    MaxStarts,   \* bound: starts of a watcher at the same time
    MaxChanges,  \* bound: uploads, modifications and removals
    MaxFaults,   \* bound: failures of the disk or the embedding service
    MaxRestarts  \* bound: restarts of the agent-server

ASSUME NoneAssumption == None \notin Versions \cup Calls
ASSUME PartsAssumption == Parts \in Nat \ {0}
ASSUME BoundsAssumption ==
    /\ MaxStarts \in Nat /\ MaxChanges \in Nat
    /\ MaxFaults \in Nat /\ MaxRestarts \in Nat

VARIABLES
    file,     \* the document in the user's directory
    events,   \* what the watchers have seen and the service not yet handled
    watchers, \* how many of them watch the directory
    tracked,  \* fileHashes: the version the watcher takes for indexed
    filling,  \* the start that fills it, if it is not done
    debounce, \* debounceTimers: the call that a new event cancels
    at,       \* what each call does next
    kind,     \* what started it
    seen,     \* the version its indexing has read
    marked,   \* the version its timer has read
    part,     \* how many chunks it has appended
    status,   \* indexingStatus of the document in the metadata
    hash,     \* its hash there: the version that counts as indexed
    saved,    \* does index.json have what the metadata in memory says?
    chunks,   \* the lines of its chunk file
    cleaning, \* what the api-server does next for a document it removed
    changes, faults, restarts, \* bounded counters
    harm      \* history: what may have kept the index from following the file

callVars == <<at, kind, seen, marked, part>>
metaVars == <<status, hash, saved>>
watchVars == <<watchers, tracked, filling>>
bounds == <<changes, faults, restarts>>
vars == <<file, events, watchVars, debounce, callVars, metaVars, chunks,
          cleaning, bounds, harm>>

\* Calls inside indexDocument, and those that change what is stored.
Indexing == {"reading", "checking", "marking", "clearing", "embedding",
             "appending", "hashing", "finishing", "stamping", "failing"}
Working == Indexing \ {"reading", "checking"}
Deleting == {"unlinking", "dropping"}
Places == {"free", "armed", "waiting", "comparing", "tracking", "scanning",
           "sampling", "opening"} \cup Indexing \cup Deleting
Kinds == {"none", "add", "change", "start", "delete"}

Busy == {c \in Calls : at[c] \in Indexing \cup Deleting}
Armed == {c \in Calls : at[c] = "armed"}
Starting == {c \in Calls : kind[c] = "start"}
\* Nothing need have loaded index.json yet.
Unloaded == /\ watchers = 0
            /\ \A c \in Calls : at[c] \in {"free", "scanning", "sampling"}
Settled == /\ watchers > 0
           /\ events = <<>>
           /\ \A c \in Calls : at[c] = "free"

\* The chunk file of version v when it is complete.
Chunk(v, i) == [of |-> v, no |-> i]
Whole(v) == [i \in 1..Parts |-> Chunk(v, i)]

-----------------------------------------------------------------------------
Init ==
    /\ file = None /\ events = <<>>
    /\ watchers = 0 /\ tracked = None /\ filling = None /\ debounce = None
    /\ at = [c \in Calls |-> "free"]
    /\ kind = [c \in Calls |-> "none"]
    /\ seen = [c \in Calls |-> None]
    /\ marked = [c \in Calls |-> None]
    /\ part = [c \in Calls |-> 0]
    /\ status = "none" /\ hash = None /\ saved = TRUE
    /\ chunks = <<>> /\ cleaning = "none"
    /\ changes = 0 /\ faults = 0 /\ restarts = 0
    /\ harm = {}

\* Call c goes on to place p.
Goto(c, p) == at' = [at EXCEPT ![c] = p]

\* Call c is over and forgets its locals.
Forget(c) ==
    /\ kind' = [kind EXCEPT ![c] = "none"]
    /\ seen' = [seen EXCEPT ![c] = None]
    /\ marked' = [marked EXCEPT ![c] = None]
    /\ part' = [part EXCEPT ![c] = 0]

\* It returns.  The finally of a timer removes the entry of the document
\* from debounceTimers, whichever timer that is.
Return(c) ==
    /\ Goto(c, "free")
    /\ Forget(c)
    /\ debounce' = IF kind[c] \in {"add", "change"} THEN None ELSE debounce

\* A failure of the disk or of the embedding service.
Fault ==
    /\ faults < MaxFaults
    /\ faults' = faults + 1
    /\ UNCHANGED <<changes, restarts>>

\* History: call c is about to work on the document; others may be at it.
Overlap(c) == IF Busy \ {c} = {} THEN {} ELSE {"overlap"}

-----------------------------------------------------------------------------
(* The user's directory.  Every watcher tells of a change it is there for. *)

Observe(event) ==
    /\ changes < MaxChanges
    /\ changes' = changes + 1
    /\ events' = events \o [w \in 1..watchers |-> event]
    /\ harm' = IF watchers = 0 THEN harm \cup {"unwatched"} ELSE harm
    /\ UNCHANGED <<watchVars, debounce, callVars, metaVars, chunks, faults,
                   restarts>>

\* The user uploads the document or replaces it.
Upload(v) ==
    /\ file = None
    /\ file' = v
    /\ UNCHANGED cleaning
    /\ Observe("add")

Modify(v) ==
    /\ file \notin {None, v}
    /\ file' = v
    /\ UNCHANGED cleaning
    /\ Observe("change")

\* DeleteUserFile: it is removed.  Bound: one removal is under way at a time.
Remove ==
    /\ file # None /\ cleaning = "none"
    /\ file' = None
    /\ cleaning' = "chunks"
    /\ Observe("unlink")

\* The api-server goes on with the index, whoever is at the document by then
\* and even if it has been uploaded again.
Cleans(p, q) ==
    /\ cleaning = p
    /\ cleaning' = q
    /\ harm' = IF file = None THEN harm ELSE harm \cup {"late clean"}
    /\ UNCHANGED <<file, events, watchVars, debounce, callVars, bounds>>

\* deleteChunkFile.
CleanChunks ==
    /\ Cleans("chunks", "index")
    /\ chunks' = <<>>
    /\ UNCHANGED metaVars

\* removeFileFromIndexMetadata rewrites index.json without the document.  The
\* service keeps what it has in memory, if it has loaded it.
CleanIndex ==
    /\ Cleans("index", "none")
    /\ \/ /\ saved' = (status = "none" /\ hash = None)
          /\ UNCHANGED <<status, hash>>
       \/ /\ Unloaded
          /\ status' = "none" /\ hash' = None /\ saved' = TRUE
    /\ UNCHANGED chunks

\* One of the two fails, which the removal only logs.
CleaningFails ==
    /\ cleaning # "none"
    /\ Fault
    /\ cleaning' = "none"
    /\ UNCHANGED <<file, events, watchVars, debounce, callVars, metaVars, chunks,
                   harm>>

-----------------------------------------------------------------------------
(* Starting to watch, for a user's registration or a new directory.        *)

\* watchUserDirectory finds no watcher yet, though one may be on its way.
Start(c) ==
    /\ at[c] = "free"
    /\ watchers = 0
    /\ Cardinality(Starting) < MaxStarts
    /\ Goto(c, "scanning")
    /\ kind' = [kind EXCEPT ![c] = "start"]
    /\ tracked' = None /\ filling' = c   \* a new map, that it alone fills
    /\ UNCHANGED <<file, events, watchers, debounce, seen, marked, part,
                   metaVars, chunks, cleaning, bounds, harm>>

\* Call c, which started a watcher, is done with fileHashes.
Filled(c) ==
    /\ filling' = IF filling = c THEN None ELSE filling
    /\ UNCHANGED <<file, events, watchers, debounce, kind, seen, marked, part,
                   metaVars, chunks, cleaning>>

\* initializeFileHashes lists the directory and loads the metadata.
Scan(c) ==
    /\ at[c] = "scanning"
    /\ \/ /\ file # None /\ Goto(c, "sampling")
          /\ UNCHANGED <<file, events, watchVars, debounce, kind, seen, marked,
                         part, metaVars, chunks, cleaning>>
       \/ file = None /\ Goto(c, "opening") /\ Filled(c) /\ UNCHANGED tracked
    /\ UNCHANGED <<bounds, harm>>

\* It takes the document for indexed as it is now, and indexes it anew only
\* if that has failed before.  The map it fills is the one it started with,
\* which a later start has replaced.
Sample(c) ==
    /\ at[c] = "sampling"
    /\ tracked' = IF file # None /\ filling = c THEN file ELSE tracked
    /\ Filled(c)
    /\ \/ /\ file # None /\ status = "error"
          /\ Goto(c, "reading")
          /\ harm' = harm \cup Overlap(c)
       \/ /\ file = None \/ status # "error"
          /\ Goto(c, "opening")
          /\ UNCHANGED harm
    /\ UNCHANGED bounds

\* Listing, loading or hashing fails: the watcher is opened all the same.
ScanFails(c) ==
    /\ at[c] \in {"scanning", "sampling"}
    /\ Fault
    /\ Goto(c, "opening")
    /\ Filled(c)
    /\ UNCHANGED <<tracked, harm>>

\* The watcher is there.
Watch(c) ==
    /\ at[c] = "opening"
    /\ watchers' = watchers + 1
    /\ Return(c)
    /\ UNCHANGED <<file, events, tracked, filling, metaVars, chunks, cleaning,
                   bounds, harm>>

-----------------------------------------------------------------------------
(* The events of the watchers.                                             *)

NextEvent(event) ==
    /\ events # <<>>
    /\ Head(events) = event
    /\ events' = Tail(events)

\* Mutant: while the document has a timer no new one is set.
SetTimer_Once(c, event) ==
    IF debounce # None
    THEN UNCHANGED <<at, kind, debounce>>
    ELSE /\ Goto(c, "armed")
         /\ kind' = [kind EXCEPT ![c] = event]
         /\ debounce' = c

\* handleFileChange for a document that is there: the timer that is set is
\* cleared, a new one is set and takes its place.
SetTimer(c, event) ==
    /\ at' = [d \in Calls |-> CASE d = c -> "armed"
                                [] d = debounce /\ at[d] = "armed" -> "free"
                                [] OTHER -> at[d]]
    /\ kind' = [d \in Calls |-> CASE d = c -> event
                                  [] d = debounce /\ at[d] = "armed" -> "none"
                                  [] OTHER -> kind[d]]
    /\ debounce' = c

HandleChange(c, event) ==
    /\ at[c] = "free"
    /\ NextEvent(event)
    /\ \/ file # None /\ SetTimer(c, event)
       \/ /\ file = None /\ event = "add"   \* maybe still uploading
          /\ Goto(c, "waiting")
          /\ UNCHANGED <<kind, debounce>>
       \/ /\ file = None /\ event = "change"
          /\ UNCHANGED <<at, kind, debounce>>
    /\ UNCHANGED <<file, watchVars, seen, marked, part, metaVars, chunks,
                   cleaning, bounds, harm>>

\* Two seconds later the document is looked for again.
LookAgain(c) ==
    /\ at[c] = "waiting"
    /\ \/ file # None /\ SetTimer(c, "add")
       \/ file = None /\ Goto(c, "free") /\ UNCHANGED <<kind, debounce>>
    /\ UNCHANGED <<file, events, watchVars, seen, marked, part, metaVars,
                   chunks, cleaning, bounds, harm>>

\* handleFileDeleted: a timer that is set stays.
HandleDelete(c) ==
    /\ at[c] = "free"
    /\ NextEvent("unlink")
    /\ Goto(c, "unlinking")
    /\ kind' = [kind EXCEPT ![c] = "delete"]
    /\ harm' = harm \cup Overlap(c)
                    \cup (IF Armed = {} THEN {} ELSE {"late timer"})
    /\ UNCHANGED <<file, watchVars, debounce, seen, marked, part, metaVars,
                   chunks, cleaning, bounds>>

-----------------------------------------------------------------------------
(* A timer.                                                                *)

\* A new document is indexed in any case; of a changed one the file is
\* hashed first.
Fire(c) ==
    /\ at[c] = "armed"
    /\ \/ kind[c] = "add" /\ Goto(c, "reading") /\ harm' = harm \cup Overlap(c)
       \/ kind[c] = "change" /\ Goto(c, "comparing") /\ UNCHANGED harm
    /\ UNCHANGED <<file, events, watchVars, debounce, kind, seen, marked, part,
                   metaVars, chunks, cleaning, bounds>>

\* Nothing happens if the document is gone or is the version it tracks.
Compare(c) ==
    /\ at[c] = "comparing"
    /\ \/ /\ file \in {None, tracked}
          /\ Return(c)
          /\ harm' = IF file \in {None, hash} /\ Busy = {} THEN harm
                     ELSE harm \cup {"masked"}
       \/ /\ file \notin {None, tracked}
          /\ marked' = [marked EXCEPT ![c] = file]
          /\ Goto(c, "reading")
          /\ harm' = harm \cup Overlap(c)
          /\ UNCHANGED <<kind, seen, part, debounce>>
    /\ UNCHANGED <<file, events, watchVars, metaVars, chunks, cleaning, bounds>>

\* Hashing the file fails, which the timer ignores.
CompareFails(c) ==
    /\ at[c] = "comparing"
    /\ Fault
    /\ harm' = harm \cup {"failed"}
    /\ Return(c)
    /\ UNCHANGED <<file, events, watchVars, metaVars, chunks, cleaning>>

\* After the indexing of a new document the file is hashed again; after that
\* of a changed one the hash of before is taken.
Track(c) ==
    /\ at[c] = "tracking"
    /\ LET v == IF kind[c] = "add" THEN file ELSE marked[c]
       IN  tracked' = IF v = None THEN tracked ELSE v
    /\ Return(c)
    /\ UNCHANGED <<file, events, watchers, filling, metaVars, chunks, cleaning,
                   bounds, harm>>

-----------------------------------------------------------------------------
(* indexDocument.                                                          *)

\* Where its caller goes on when it returns, and when it throws.
Returns(c) ==
    IF kind[c] = "start"
    THEN /\ Goto(c, "opening")
         /\ seen' = [seen EXCEPT ![c] = None]
         /\ part' = [part EXCEPT ![c] = 0]
         /\ UNCHANGED <<kind, marked, debounce>>
    ELSE Goto(c, "tracking") /\ UNCHANGED <<kind, seen, marked, part, debounce>>

Throws(c) == IF kind[c] = "start" THEN Returns(c) ELSE Return(c)

\* An await of call c at place p that can fail does: its catch is next.
Fails(c, p) ==
    /\ at[c] = p
    /\ Fault
    /\ Goto(c, "failing")
    /\ harm' = harm \cup {"failed"}
    /\ UNCHANGED <<file, events, watchVars, debounce, kind, seen, marked, part,
                   metaVars, chunks, cleaning>>

\* processDocument.
Read(c) ==
    /\ at[c] = "reading"
    /\ \/ file = None /\ Goto(c, "failing") /\ UNCHANGED seen
       \/ /\ file # None
          /\ seen' = [seen EXCEPT ![c] = file]
          /\ Goto(c, "checking")
    /\ UNCHANGED <<file, events, watchVars, debounce, kind, marked, part,
                   metaVars, chunks, cleaning, bounds,
                   harm>>

\* A version whose hash the metadata has is skipped.
Check(c) ==
    /\ at[c] = "checking"
    /\ \/ hash = seen[c] /\ Returns(c)
       \/ /\ hash # seen[c]
          /\ Goto(c, "marking")
          /\ UNCHANGED <<kind, seen, marked, part, debounce>>
    /\ UNCHANGED <<file, events, watchVars, metaVars, chunks, cleaning, bounds,
                   harm>>

\* What the steps below have in common: call c goes from p to q.
Step(c, p, q) ==
    /\ at[c] = p
    /\ Goto(c, q)
    /\ UNCHANGED <<file, events, watchVars, debounce, kind, seen, marked,
                   cleaning, bounds, harm>>

Mark(c) ==
    /\ Step(c, "marking", "clearing")
    /\ status' = "pending" /\ saved' = TRUE
    /\ UNCHANGED <<hash, chunks, part>>

\* Mutant: the chunks there are stay.
Clear_Keeping(c) ==
    /\ Step(c, "clearing", "embedding")
    /\ UNCHANGED <<metaVars, chunks, part>>

\* deleteChunksByFile: the hash stays that of the chunks there were.
Clear(c) ==
    /\ Step(c, "clearing", "embedding")
    /\ chunks' = <<>>
    /\ UNCHANGED <<metaVars, part>>

\* The next chunk is sent to the embedding service, and again if need be.
Embed(c) ==
    /\ Step(c, "embedding", "appending")
    /\ UNCHANGED <<metaVars, chunks, part>>

\* Mutant: the loop runs once too often.
AfterPart_OneMore(n) == IF n <= Parts THEN "embedding" ELSE "hashing"

\* It is appended, and the loop goes on to the chunk after it.
AfterPart(n) == IF n < Parts THEN "embedding" ELSE "hashing"

AppendChunk(c) ==
    /\ Step(c, "appending", AfterPart(part[c] + 1))
    /\ part' = [part EXCEPT ![c] = @ + 1]
    /\ chunks' = Append(chunks, Chunk(seen[c], part[c] + 1))
    /\ UNCHANGED metaVars

RecordHash(c) ==
    /\ Step(c, "hashing", "finishing")
    /\ hash' = seen[c] /\ saved' = TRUE
    /\ UNCHANGED <<status, chunks, part>>

Finish(c) ==
    /\ Step(c, "finishing", "stamping")
    /\ status' = "indexed" /\ saved' = TRUE
    /\ UNCHANGED <<hash, chunks, part>>

\* updateLastIndexed, whose failure is one of the indexing.
Stamp(c) ==
    /\ at[c] = "stamping"
    /\ Returns(c)
    /\ saved' = TRUE
    /\ UNCHANGED <<file, events, watchVars, status, hash, chunks, cleaning,
                   bounds, harm>>

\* Mutant: the catch only throws on.
RecordError_Never(c) ==
    /\ at[c] = "failing"
    /\ Throws(c)
    /\ UNCHANGED <<file, events, watchVars, metaVars, chunks, cleaning, bounds,
                   harm>>

\* The catch records the failure; if that fails too nobody learns of it.
RecordError(c) ==
    /\ at[c] = "failing"
    /\ Throws(c)
    /\ \/ status' = "error" /\ saved' = TRUE /\ UNCHANGED <<bounds, harm>>
       \/ /\ Fault /\ harm' = harm \cup {"failed", "unrecorded"}
          /\ UNCHANGED <<status, saved>>
    /\ UNCHANGED <<file, events, watchVars, hash, chunks, cleaning>>

-----------------------------------------------------------------------------
(* deleteDocument.                                                         *)

Unlink(c) ==
    /\ Step(c, "unlinking", "dropping")
    /\ chunks' = <<>>
    /\ UNCHANGED <<metaVars, part>>

\* Mutant: removeFile leaves the hash.
Drop_KeepingHash(c) ==
    /\ at[c] = "dropping"
    /\ status' = "none" /\ saved' = TRUE
    /\ tracked' = None
    /\ Return(c)
    /\ UNCHANGED <<file, events, watchers, filling, hash, chunks, cleaning,
                   bounds, harm>>

\* removeFile, and handleFileDeleted forgets the version.
Drop(c) ==
    /\ at[c] = "dropping"
    /\ status' = "none" /\ hash' = None /\ saved' = TRUE
    /\ tracked' = None
    /\ Return(c)
    /\ UNCHANGED <<file, events, watchers, filling, chunks, cleaning, bounds,
                   harm>>

\* Either step fails: handleFileDeleted ignores it.
DeleteFails(c) ==
    /\ at[c] \in Deleting
    /\ Fault
    /\ harm' = harm \cup {"failed", "unremoved"}
    /\ Return(c)
    /\ UNCHANGED <<file, events, watchVars, metaVars, chunks, cleaning>>

-----------------------------------------------------------------------------
\* The service ends, with its timers, its calls and its watchers.  What only
\* its memory had of the document is lost.
Restart ==
    /\ restarts < MaxRestarts
    /\ restarts' = restarts + 1
    /\ watchers' = 0 /\ tracked' = None /\ filling' = None
    /\ debounce' = None /\ events' = <<>>
    /\ at' = [c \in Calls |-> "free"]
    /\ kind' = [c \in Calls |-> "none"]
    /\ seen' = [c \in Calls |-> None]
    /\ marked' = [c \in Calls |-> None]
    /\ part' = [c \in Calls |-> 0]
    /\ harm' = harm \cup (IF Settled THEN {} ELSE {"unwatched"})
                    \cup (IF status = "pending" THEN {"killed"} ELSE {})
    /\ status' = IF saved THEN status ELSE "none"
    /\ hash' = IF saved THEN hash ELSE None
    /\ saved' = TRUE
    /\ UNCHANGED <<file, chunks, cleaning, changes, faults>>

UserStep == (\E v \in Versions : Upload(v) \/ Modify(v)) \/ Remove
CleanStep == CleanChunks \/ CleanIndex \/ CleaningFails
IndexStep(c) ==
    \/ Read(c) \/ Check(c) \/ Mark(c) \/ Clear(c) \/ Embed(c) \/ AppendChunk(c)
    \/ RecordHash(c) \/ Finish(c) \/ Stamp(c) \/ RecordError(c)
    \/ \E p \in Indexing \ {"failing"} : Fails(c, p)
WatchStep(c) ==
    \/ Start(c) \/ Scan(c) \/ Sample(c) \/ ScanFails(c) \/ Watch(c)
    \/ \E event \in {"add", "change"} : HandleChange(c, event)
    \/ LookAgain(c) \/ HandleDelete(c)
    \/ Fire(c) \/ Compare(c) \/ CompareFails(c) \/ Track(c)
DeleteStep(c) == Unlink(c) \/ Drop(c) \/ DeleteFails(c)

Next == \/ UserStep \/ CleanStep \/ Restart
        \/ \E c \in Calls : IndexStep(c) \/ WatchStep(c) \/ DeleteStep(c)

Spec == Init /\ [][Next]_vars

-----------------------------------------------------------------------------
(* Properties.                                                             *)

\* Types: the document, the calls, the metadata and the chunk file.
TypeOK ==
    /\ file \in Versions \cup {None}
    /\ events \in Seq({"add", "change", "unlink"})
    /\ watchers \in Nat
    /\ tracked \in Versions \cup {None}
    /\ filling \in Calls \cup {None}
    /\ debounce \in Calls \cup {None}
    /\ at \in [Calls -> Places]
    /\ kind \in [Calls -> Kinds]
    /\ seen \in [Calls -> Versions \cup {None}]
    /\ marked \in [Calls -> Versions \cup {None}]
    /\ part \in [Calls -> 0..Parts]
    /\ status \in {"none", "pending", "indexed", "error"}
    /\ hash \in Versions \cup {None}
    /\ saved \in BOOLEAN
    /\ cleaning \in {"none", "chunks", "index"}
    /\ chunks \in Seq([of : Versions, no : 1..Parts])
    /\ changes \in 0..MaxChanges
    /\ faults \in 0..MaxFaults
    /\ restarts \in 0..MaxRestarts
    /\ harm \subseteq {"unwatched", "late timer", "late clean", "overlap",
                       "masked", "failed", "unrecorded", "unremoved", "killed"}

\* Once the watcher has handled all it has seen, the document is indexed as
\* it is in the directory, through all bursts of changes (handleFileChange,
\* indexDocument).  The exceptions: a change nobody watched; two calls at the
\* document at once; a failure; a change whose version a call that was
\* indexing an older one took for its own ("masked"); and a removal whose
\* clean-up by the api-server comes when the document is there again
\* ("late clean").
SettledIsIndexed ==
    Settled /\ file # None /\ harm \subseteq {"late timer"}
        => status = "indexed" /\ hash = file /\ chunks = Whole(file)

\* Once all is handled a document that was removed has left no chunk and no
\* metadata (handleFileDeleted, deleteDocument), unless its timer was still
\* set when its removal was handled, or the exceptions above.
SettledIsGone ==
    Settled /\ file = None /\ harm \subseteq {"masked"}
        => status = "none" /\ hash = None /\ chunks = <<>>

\* Even after failures, and whatever a timer masked, a document that counts
\* as indexed has every chunk of the version it counts as, once, in order:
\* an indexing cut short never leaves the status of a complete one
\* (indexDocument, and the check of the hash that skips it).
IndexedIsWhole ==
    Settled /\ file # None /\ status = "indexed"
        /\ harm \cap {"overlap", "unwatched", "unremoved", "late clean"} = {}
        => chunks = Whole(hash)

\* A document that shows as pending has a call that works on it, which ends
\* with another status, unless the service was stopped meanwhile or could
\* not record the error (initializeFileHashes retries errors only, so such a
\* document stays pending until it changes).
PendingHasWorker ==
    status = "pending" /\ harm \cap {"killed", "unrecorded"} = {}
        => \E c \in Calls : at[c] \in Working
=============================================================================
