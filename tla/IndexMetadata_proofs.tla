------------------------ MODULE IndexMetadata_proofs ------------------------
(***************************************************************************)
(* Proofs about IndexMetadata.  The inductive invariant follows an update  *)
(* that runs by itself from the object it changes to the text, the         *)
(* temporary file and index.json, and says what the objects in memory and  *)
(* the files have to do with the updates that are done.                    *)
(***************************************************************************)
EXTENDS IndexMetadata, TLAPS

Loading == {"reading", "loading"}
Saving == {"saving", "opening", "writing", "renaming"}
Writing == {"opening", "writing", "renaming"}
BeforeOpen == {"new", "waiting", "reading", "loading", "saving", "opening"}

\* The lock names the update that runs, unless two were let in together.
LockInv ==
    /\ lock # Nothing => lock \in Running
    /\ "crowd" \notin upset =>
          Running = IF lock = Nothing THEN {} ELSE {lock}

AloneInv ==
    /\ \A u \in alone : Running = {u}
    /\ upset \cap {"crowd", "api"} = {} => Running \subseteq alone

\* An object that is being loaded is in nobody's use; an update is reflected
\* by the object it saves.
HeapInv ==
    /\ \A u \in Updates : pc[u] \in Saving =>
          cache # Nothing /\ held[u] \in Callers /\ u \in heap[held[u]]
    /\ \A c \in Callers : pc[c] \in Loading =>
          cache # c /\ \A u \in Updates : pc[u] \in Saving => held[u] # c

CacheInv ==
    "stale" \notin upset =>
        /\ cache # Nothing =>
              \A u \in Updates : pc[u] = "done" => u \in heap[cache]
        /\ \A u \in Updates : pc[u] \in Saving => held[u] = cache

\* Files are named after an update that has opened one.
FileInv ==
    /\ \A u \in Updates : pc[u] \in BeforeOpen => index # u /\ temp # u
    /\ temp # Nothing => temp # index

\* An update that runs by itself has the temporary file to itself.
LoneInv ==
    \A u \in alone :
        /\ pc[u] \in {"writing", "renaming"} => fd[u] = temp /\ temp # Nothing
        /\ pc[u] = "writing" => content[temp] = Empty
        /\ pc[u] = "renaming" => content[temp] = Whole(text[u])
        /\ pc[u] \in Writing =>
              /\ u \in text[u]
              /\ \A v \in heap[held[u]] : pc[v] \in Ended => v \in text[u]

\* What is read into an empty cache has the updates that are done.
LoadInv ==
    upset = {} /\ cache = Nothing =>
        \A c \in Callers : pc[c] = "loading" /\ got[c].form = "whole" =>
            \A u \in Updates : pc[u] = "done" => u \in got[c].has

IInv ==
    /\ TypeOK
    /\ LockInv
    /\ WaitsForRunning
    /\ AloneInv
    /\ HeapInv
    /\ CacheInv
    /\ FileInv
    /\ LoneInv
    /\ LoadInv
    /\ ReportedIsSaved
-----------------------------------------------------------------------------
(* Types, one part of TypeOK at a time.                                    *)

LEMMA InitType == Init => TypeOK
  BY NothingAssumption, MaxRewritesAssumption, MaxRestartsAssumption
     DEF Init, TypeOK, CallTypes, MemoryTypes, FileTypes, CounterTypes,
         HistoryTypes, Callers, Contents, Empty, Ended, InsideLock

\* The ways a document or a broken file comes about.
LEMMA ContentTypes ==
  /\ Empty \in Contents
  /\ Torn \in Contents
  /\ \A s \in SUBSET Updates : Whole(s) \in Contents
  /\ \A f \in Contents : f.has \subseteq Updates
  /\ \A old : \A s \in SUBSET Updates : Written(old, s) \subseteq Contents
<1>1. /\ Empty \in Contents
      /\ Torn \in Contents
      /\ \A s \in SUBSET Updates : Whole(s) \in Contents
  BY DEF Contents
<1>2. \A f \in Contents : f.has \subseteq Updates
  BY DEF Contents, Empty, Torn, Whole
<1>3. \A old : \A s \in SUBSET Updates : Written(old, s) \subseteq Contents
  BY <1>1 DEF Written
<1> QED
  BY <1>1, <1>2, <1>3

LEMMA WaitersAreUpdates == \A u : Waiters(u) \subseteq Updates
  BY DEF Waiters

LEMMA CallStep ==
  ASSUME CallTypes, [Next]_vars
  PROVE  CallTypes'
<1> USE ReadersAssumption DEF CallTypes, Callers, InsideLock, Ended
<1>1. ASSUME NEW u \in Updates, Wait(u) \/ Begin(u) \/ Stringify(u) \/ Open(u)
                                  \/ Write(u)
      PROVE  CallTypes'
  BY <1>1 DEF Wait, Begin, Stringify, Open, Write
<1>2. ASSUME NEW c \in Callers, ReadIndex(c) \/ Load(c)
      PROVE  CallTypes'
  BY <1>2 DEF ReadIndex, Load
<1>3. ASSUME NEW u \in Updates, Succeed(u)
      PROVE  CallTypes'
  BY <1>3, WaitersAreUpdates DEF Succeed, Forget
<1>4. ASSUME NEW u \in Updates, Fail(u)
      PROVE  CallTypes'
  BY <1>4, WaitersAreUpdates DEF Fail, Forget
<1>5. ASSUME NEW r \in Readers, BeginRead(r) \/ LoadFails(r)
      PROVE  CallTypes'
  BY <1>5 DEF BeginRead, LoadFails
<1>6. CASE Restart
  BY <1>6 DEF Restart
<1>7. CASE ApiRead \/ ApiTruncate \/ ApiWrite \/ UNCHANGED vars
  BY <1>7 DEF ApiRead, ApiTruncate, ApiWrite, vars
<1>8. \A u \in Updates : LoadFails(u) \/ WriteFails(u) \/ RenameFails(u) => Fail(u)
  BY DEF LoadFails, WriteFails, RenameFails
<1>9. \A u \in Updates : Rename(u) => Succeed(u)
  BY DEF Rename
<1> QED
  BY <1>1, <1>2, <1>3, <1>4, <1>5, <1>6, <1>7, <1>8, <1>9 DEF Next, Progress

LEMMA MemoryStep ==
  ASSUME CallTypes, MemoryTypes, FileTypes, [Next]_vars
  PROVE  MemoryTypes'
<1> USE ReadersAssumption DEF MemoryTypes, Callers, loadVars, saveVars
<1>1. ASSUME NEW u \in Updates, Wait(u) \/ Stringify(u) \/ Open(u) \/ Write(u)
      PROVE  MemoryTypes'
  BY <1>1 DEF Wait, Stringify, Open, Write
<1>2. ASSUME NEW u \in Updates, Begin(u)
      PROVE  MemoryTypes'
  BY <1>2 DEF Begin, Change
<1>3. ASSUME NEW c \in Callers, ReadIndex(c)
      PROVE  MemoryTypes'
  <2>1. (IF index = Nothing THEN Whole({}) ELSE content[index]) \in Contents
    BY ContentTypes DEF FileTypes
  <2> QED
    BY <1>3, <2>1 DEF ReadIndex
<1>4. ASSUME NEW c \in Callers, Load(c)
      PROVE  MemoryTypes'
  <2>1. got[c].has \subseteq Updates /\ Empty \in Contents
    BY ContentTypes
  <2> QED
    BY <1>4, <2>1 DEF Load
<1>5. ASSUME NEW u \in Updates, Succeed(u)
      PROVE  MemoryTypes'
  BY <1>5, WaitersAreUpdates DEF Succeed, Change
<1>6. ASSUME NEW u \in Updates, Fail(u)
      PROVE  MemoryTypes'
  BY <1>6 DEF Fail
<1>7. ASSUME NEW r \in Readers, BeginRead(r) \/ LoadFails(r)
      PROVE  MemoryTypes'
  BY <1>7 DEF BeginRead, LoadFails
<1>8. CASE Restart
  BY <1>8, ContentTypes DEF Restart
<1>9. CASE ApiRead \/ ApiTruncate \/ ApiWrite \/ UNCHANGED vars
  BY <1>9 DEF ApiRead, ApiTruncate, ApiWrite, vars
<1>10. \A u \in Updates : LoadFails(u) \/ WriteFails(u) \/ RenameFails(u) => Fail(u)
  BY DEF LoadFails, WriteFails, RenameFails
<1>11. \A u \in Updates : Rename(u) => Succeed(u)
  BY DEF Rename
<1> QED
  BY <1>1, <1>2, <1>3, <1>4, <1>5, <1>6, <1>7, <1>8, <1>9, <1>10, <1>11
     DEF Next, Progress

LEMMA FileStep ==
  ASSUME CallTypes, MemoryTypes, FileTypes, HeapInv, [Next]_vars
  PROVE  FileTypes'
<1> USE ReadersAssumption DEF FileTypes, saveVars, diskVars, apiVars
<1>1. ASSUME NEW u \in Updates, Wait(u) \/ Begin(u)
      PROVE  FileTypes'
  BY <1>1 DEF Wait, Begin
<1>2. ASSUME NEW c \in Callers, ReadIndex(c) \/ Load(c)
      PROVE  FileTypes'
  BY <1>2 DEF ReadIndex, Load
<1>3. ASSUME NEW u \in Updates, Stringify(u)
      PROVE  FileTypes'
  <2>1. heap[held[u]] \in SUBSET Updates
    BY <1>3 DEF Stringify, HeapInv, Saving, MemoryTypes
  <2> QED
    BY <1>3, <2>1 DEF Stringify
<1>4. ASSUME NEW u \in Updates, Open(u)
      PROVE  FileTypes'
  <2>1. Empty \in Contents
    BY ContentTypes
  <2> QED
    BY <1>4, <2>1 DEF Open
<1>5. ASSUME NEW u \in Updates, Write(u)
      PROVE  FileTypes'
  <2>1. PICK new \in Written(content[fd[u]], text[u]) :
          content' = [content EXCEPT ![fd[u]] = new]
    BY <1>5 DEF Write
  <2>2. new \in Contents
    BY <2>1, ContentTypes
  <2> QED
    BY <1>5, <2>1, <2>2 DEF Write
<1>6. ASSUME NEW u \in Updates, Succeed(u) \/ Fail(u)
      PROVE  /\ text' \in [Updates -> SUBSET Updates]
             /\ fd' \in [Updates -> Updates \cup {Nothing}]
  BY <1>6 DEF Succeed, Fail, Forget
<1>7. ASSUME NEW u \in Updates, LoadFails(u) \/ WriteFails(u) \/ RenameFails(u)
      PROVE  FileTypes'
  <2>1. Fail(u)
    BY <1>7, ReadersAssumption DEF LoadFails, WriteFails, RenameFails
  <2>2. Torn \in Contents
    BY ContentTypes
  <2> QED
    BY <1>6, <1>7, <2>1, <2>2 DEF LoadFails, WriteFails, RenameFails
<1>8. ASSUME NEW u \in Updates, Rename(u)
      PROVE  FileTypes'
  BY <1>6, <1>8 DEF Rename
<1>9. ASSUME NEW r \in Readers, BeginRead(r) \/ LoadFails(r)
      PROVE  FileTypes'
  BY <1>9 DEF BeginRead, LoadFails
<1>10. CASE Restart
  BY <1>10 DEF Restart
<1>11. CASE ApiRead
  <2>1. index # Nothing => content[index].has \in SUBSET Updates
    BY ContentTypes
  <2> QED
    BY <1>11, <2>1 DEF ApiRead
<1>12. CASE ApiTruncate
  <2>1. Empty \in Contents
    BY ContentTypes
  <2> QED
    BY <1>12, <2>1 DEF ApiTruncate
<1>13. CASE ApiWrite
  <2>1. PICK new \in Written(content[api.fd], api.has) :
          content' = [content EXCEPT ![api.fd] = new]
    BY <1>13 DEF ApiWrite
  <2>2. new \in Contents
    BY <2>1, ContentTypes
  <2> QED
    BY <1>13, <2>1, <2>2 DEF ApiWrite
<1>14. CASE UNCHANGED vars
  BY <1>14 DEF vars
<1> QED
  BY <1>1, <1>2, <1>3, <1>4, <1>5, <1>7, <1>8, <1>9, <1>10, <1>11, <1>12,
     <1>13, <1>14
     DEF Next, Progress, Callers

LEMMA CounterStep ==
  ASSUME CounterTypes, [Next]_vars
  PROVE  CounterTypes'
<1> USE MaxRewritesAssumption, MaxRestartsAssumption DEF CounterTypes, apiVars
<1>1. ASSUME NEW u \in Updates, Wait(u) \/ Begin(u) \/ Progress(u)
      PROVE  CounterTypes'
  BY <1>1 DEF Wait, Begin, Progress, ReadIndex, Load, LoadFails, Stringify,
              Open, Write, WriteFails, Rename, RenameFails
<1>2. ASSUME NEW r \in Readers,
             BeginRead(r) \/ ReadIndex(r) \/ Load(r) \/ LoadFails(r)
      PROVE  CounterTypes'
  BY <1>2 DEF BeginRead, ReadIndex, Load, LoadFails
<1>3. CASE ApiRead \/ ApiTruncate \/ ApiWrite \/ Restart \/ UNCHANGED vars
  BY <1>3 DEF ApiRead, ApiTruncate, ApiWrite, Restart, vars
<1> QED
  BY <1>1, <1>2, <1>3 DEF Next

LEMMA HistoryStep ==
  ASSUME HistoryTypes, [Next]_vars
  PROVE  HistoryTypes'
<1> USE ReadersAssumption DEF HistoryTypes
<1>1. ASSUME NEW u \in Updates, Succeed(u)
      PROVE  HistoryTypes'
  BY <1>1, WaitersAreUpdates DEF Succeed, StillAlone
<1>2. ASSUME NEW u \in Updates, Wait(u) \/ Begin(u) \/ Progress(u)
      PROVE  HistoryTypes'
  BY <1>1, <1>2 DEF Wait, Begin, Progress, ReadIndex, Load, LoadFails, Stringify,
              Open, Write, WriteFails, Rename, RenameFails, Fail, StillAlone
<1>3. ASSUME NEW r \in Readers,
             BeginRead(r) \/ ReadIndex(r) \/ Load(r) \/ LoadFails(r)
      PROVE  HistoryTypes'
  BY <1>3 DEF BeginRead, ReadIndex, Load, LoadFails
<1>4. CASE ApiRead \/ ApiTruncate \/ ApiWrite \/ Restart \/ UNCHANGED vars
  BY <1>4 DEF ApiRead, ApiTruncate, ApiWrite, Restart, vars
<1> QED
  BY <1>1, <1>2, <1>3, <1>4 DEF Next

-----------------------------------------------------------------------------
(* The steps, for the parts of the invariant that speak of running updates *)

\* The last step of an update, with what it does apart from its end.
LEMMA Ends ==
  ASSUME NEW u \in Updates
  PROVE  /\ LoadFails(u) \/ WriteFails(u) \/ RenameFails(u) =>
                Fail(u) /\ u \in Running
         /\ Rename(u) => Succeed(u) /\ u \in Running /\ pc[u] = "renaming"
  BY ReadersAssumption
     DEF LoadFails, WriteFails, RenameFails, Rename, Running, InsideLock

\* A step that neither begins nor ends an update.
Amid ==
    /\ Running' = Running
    /\ lock' = lock
    /\ alone' = alone \/ (alone' = {} /\ "api" \in upset')
    /\ upset \subseteq upset'
    /\ upset' \subseteq upset \cup {"api", "stale"}
    /\ \A w \in Updates : pc'[w] = "waiting" =>
          \/ pc[w] = "waiting" /\ waitsFor'[w] = waitsFor[w]
          \/ lock # Nothing /\ waitsFor'[w] = lock

\* Which updates run after a step.
LEMMA RunningStep ==
  ASSUME CallTypes, [Next]_vars
  PROVE  \/ \E u \in Updates : Begin(u) /\ Running' = Running \cup {u}
         \/ \E u \in Running : /\ Rename(u)
                                /\ Running' = (Running \ {u}) \cup Waiters(u)
         \/ \E u \in Running : /\ Fail(u)
                                /\ Running' = Running \ {u}
         \/ Restart /\ Running' = {}
         \/ Amid
<1> USE ReadersAssumption DEF CallTypes, Callers, Running, InsideLock
<1>1. ASSUME NEW u \in Updates, Begin(u)
      PROVE  Running' = Running \cup {u}
  BY <1>1 DEF Begin
<1>2. ASSUME NEW u \in Updates, Rename(u)
      PROVE  u \in Running /\ Running' = (Running \ {u}) \cup Waiters(u)
  <2>1. u \in Running /\ u \notin Waiters(u) /\ Succeed(u)
    BY <1>2, Ends DEF Waiters
  <2>2. \A w \in Updates : pc'[w] = IF w = u THEN "done"
                                 ELSE IF w \in Waiters(u) THEN "saving" ELSE pc[w]
    BY <2>1 DEF Succeed
  <2> HIDE DEF CallTypes
  <2> QED
    BY <2>1, <2>2, WaitersAreUpdates
<1>3. ASSUME NEW u \in Updates, LoadFails(u) \/ WriteFails(u) \/ RenameFails(u)
      PROVE  Fail(u) /\ u \in Running /\ Running' = Running \ {u}
  BY <1>3, Ends DEF Fail, Waiters
<1>4. CASE Restart
  BY <1>4 DEF Restart
<1>5. ASSUME NEW u \in Updates, Wait(u) \/ Stringify(u) \/ Open(u) \/ Write(u)
      PROVE  Amid
  BY <1>5 DEF Amid, Wait, Stringify, Open, Write
<1>6. ASSUME NEW c \in Callers, ReadIndex(c) \/ Load(c)
      PROVE  Amid
  BY <1>6 DEF Amid, ReadIndex, Load
<1>7. ASSUME NEW r \in Readers, BeginRead(r) \/ LoadFails(r)
      PROVE  Amid
  BY <1>7 DEF Amid, BeginRead, LoadFails
<1>8. CASE ApiRead \/ ApiTruncate \/ ApiWrite \/ UNCHANGED vars
  BY <1>8 DEF Amid, ApiRead, ApiTruncate, ApiWrite, vars
<1> HIDE DEF Running
<1> QED
  BY <1>1, <1>2, <1>3, <1>4, <1>5, <1>6, <1>7, <1>8 DEF Next, Progress

LEMMA LockStep ==
  ASSUME TypeOK, LockInv, AloneInv, WaitsForRunning, [Next]_vars
  PROVE  LockInv' /\ AloneInv' /\ WaitsForRunning'
<1> USE NothingAssumption DEF LockInv, AloneInv, WaitsForRunning, TypeOK
<1>1. ASSUME NEW u \in Updates, Begin(u), Running' = Running \cup {u}
      PROVE  LockInv' /\ AloneInv' /\ WaitsForRunning'
  <2>1. LockInv'
    BY <1>1 DEF Begin
  <2>2. AloneInv'
    BY <1>1 DEF Begin, StillAlone
  <2>3. WaitsForRunning'
    BY <1>1 DEF Begin, CallTypes, Callers
  <2> QED
    BY <2>1, <2>2, <2>3
<1>2. ASSUME NEW u \in Running, Rename(u),
             Running' = (Running \ {u}) \cup Waiters(u)
      PROVE  LockInv' /\ AloneInv' /\ WaitsForRunning'
  <2> u \in Updates /\ Succeed(u)
    BY <1>2 DEF Running, Rename
  <2>1. LockInv'
    <3>1. lock' # Nothing => lock' \in Running'
      BY <1>2 DEF Succeed
    <3>2. ASSUME "crowd" \notin upset'
          PROVE  Running' = IF lock' = Nothing THEN {} ELSE {lock'}
      <4>1. Running = {u}
        BY <3>2 DEF Succeed
      <4>2. ~ Several(Waiters(u))
        BY <3>2 DEF Succeed
      <4> QED
        BY <1>2, <4>1, <4>2, WaitersAreUpdates DEF Succeed, Several
    <3> QED
      BY <3>1, <3>2
  <2>2. AloneInv'
    <3>1. \A v \in alone' : Running' = {v}
      BY <1>2 DEF Succeed, StillAlone
    <3>2. ASSUME upset' \cap {"crowd", "api"} = {}
          PROVE  Running' \subseteq alone'
      <4>1. Running = {u}
        BY <3>2 DEF Succeed
      <4>2. ~ Several(Waiters(u))
        BY <3>2 DEF Succeed
      <4> QED
        BY <1>2, <4>1, <4>2 DEF Succeed, StillAlone, Several
    <3> QED
      BY <3>1, <3>2
  <2>3. WaitsForRunning'
    BY <1>2 DEF Succeed, Forget, Waiters, CallTypes, Callers
  <2> QED
    BY <2>1, <2>2, <2>3
<1>3. ASSUME NEW u \in Running, Fail(u), Running' = Running \ {u}
      PROVE  LockInv' /\ AloneInv' /\ WaitsForRunning'
  <2> u \in Updates
    BY DEF Running
  <2>1. LockInv' /\ AloneInv'
    BY <1>3 DEF Fail
  <2>2. WaitsForRunning'
    BY <1>3 DEF Fail, Forget, Waiters, CallTypes, Callers
  <2> QED
    BY <2>1, <2>2
<1>4. CASE Restart /\ Running' = {}
  <2>1. WaitsForRunning'
    BY <1>4, ReadersAssumption
       DEF Restart, CallTypes, Callers, InsideLock, Ended
  <2> QED
    BY <1>4, <2>1 DEF Restart
<1>5. CASE Amid
  <2>1. LockInv' /\ AloneInv'
    BY <1>5 DEF Amid
  <2>2. WaitsForRunning'
    BY <1>5 DEF Amid
  <2> QED
    BY <2>1, <2>2
<1> QED
  BY <1>1, <1>2, <1>3, <1>4, <1>5, RunningStep

-----------------------------------------------------------------------------
(* Objects in memory.                                                      *)

LEMMA HeapStep ==
  ASSUME TypeOK, HeapInv, [Next]_vars
  PROVE  HeapInv'
<1> USE ReadersAssumption, NothingAssumption
    DEF HeapInv, TypeOK, CallTypes, MemoryTypes, Callers, Loading, Saving
<1>1. ASSUME NEW u \in Updates, Wait(u)
      PROVE  HeapInv'
  BY <1>1 DEF Wait, loadVars, saveVars
<1>2. ASSUME NEW u \in Updates, Begin(u)
      PROVE  HeapInv'
  <2>1. CASE cache = Nothing
    BY <1>2, <2>1 DEF Begin
  <2>2. CASE cache # Nothing
    BY <1>2, <2>2 DEF Begin, Change
  <2> QED
    BY <2>1, <2>2
<1>3. ASSUME NEW c \in Callers, ReadIndex(c)
      PROVE  HeapInv'
  BY <1>3 DEF ReadIndex, saveVars
<1>4. ASSUME NEW c \in Callers, Load(c)
      PROVE  HeapInv'
  <2>1. CASE c \in Readers
    BY <1>4, <2>1 DEF Load
  <2>2. CASE c \in Updates
    BY <1>4, <2>2 DEF Load
  <2> QED
    BY <2>1, <2>2
<1>5. ASSUME NEW u \in Updates, Stringify(u) \/ Open(u) \/ Write(u)
      PROVE  HeapInv'
  BY <1>5 DEF Stringify, Open, Write, loadVars, saveVars
<1>6. ASSUME NEW u \in Updates, Rename(u)
      PROVE  HeapInv'
  <2> DEFINE ws == Waiters(u)
  <2>1. Succeed(u) /\ cache \in Callers /\ ws \subseteq Updates
    BY <1>6, Ends, WaitersAreUpdates DEF Rename
  <2>2. \A c \in Callers :
          pc'[c] = IF c = u THEN "done" ELSE IF c \in ws THEN "saving" ELSE pc[c]
    BY <2>1 DEF Succeed
  <2>3. /\ cache' = cache
        /\ heap' = [heap EXCEPT ![cache] = @ \cup ws]
        /\ held' = [v \in Updates |-> IF v \in ws THEN cache ELSE held[v]]
    BY <2>1 DEF Succeed, Change
  <2> HIDE DEF ws
  <2> QED
    BY <2>1, <2>2, <2>3
<1>7. ASSUME NEW u \in Updates, Fail(u)
      PROVE  HeapInv'
  BY <1>7 DEF Fail, loadVars
<1>8. ASSUME NEW r \in Readers, BeginRead(r)
      PROVE  HeapInv'
  BY <1>8 DEF BeginRead, loadVars, saveVars
<1>9. ASSUME NEW r \in Readers, LoadFails(r)
      PROVE  HeapInv'
  BY <1>9 DEF LoadFails, loadVars, saveVars
<1>10. CASE Restart
  BY <1>10 DEF Restart, InsideLock
<1>11. CASE ApiRead \/ ApiTruncate \/ ApiWrite \/ UNCHANGED vars
  BY <1>11 DEF ApiRead, ApiTruncate, ApiWrite, vars, loadVars, saveVars
<1> QED
  BY <1>1, <1>2, <1>3, <1>4, <1>5, <1>6, <1>7, <1>8, <1>9, <1>10, <1>11, Ends
     DEF Next, Progress

LEMMA CacheStep ==
  ASSUME IInv, [Next]_vars
  PROVE  CacheInv'
<1> USE ReadersAssumption, NothingAssumption
    DEF IInv, CacheInv, TypeOK, CallTypes, MemoryTypes, Callers, Saving
<1>1. ASSUME NEW u \in Updates, Wait(u)
      PROVE  CacheInv'
  BY <1>1 DEF Wait, loadVars, saveVars
<1>2. ASSUME NEW u \in Updates, Begin(u)
      PROVE  CacheInv'
  <2>1. CASE cache = Nothing
    BY <1>2, <2>1 DEF Begin
  <2>2. CASE cache # Nothing
    BY <1>2, <2>2 DEF Begin, Change
  <2> QED
    BY <2>1, <2>2
<1>3. ASSUME NEW c \in Callers, ReadIndex(c)
      PROVE  CacheInv'
  BY <1>3 DEF ReadIndex, saveVars
<1>4. ASSUME NEW c \in Callers, Load(c)
      PROVE  CacheInv'
  <2>1. SUFFICES ASSUME "stale" \notin upset'
        PROVE  /\ \A u \in Updates : pc'[u] = "done" => u \in heap'[c]
               /\ \A u \in Updates : pc'[u] \in Saving => held'[u] = c
    BY <1>4 DEF Load
  <2>2. cache = Nothing /\ upset = {}
    BY <1>4, <2>1 DEF Load
  <2>3. \A u \in Updates : pc[u] = "done" => u \in got[c].has
    BY <1>4, <2>2 DEF Load, LoadInv
  <2>4. \A u \in Updates : pc[u] \notin Saving
    BY <2>2 DEF HeapInv
  <2> QED
    BY <1>4, <2>3, <2>4 DEF Load
<1>5. ASSUME NEW u \in Updates, Stringify(u) \/ Open(u) \/ Write(u)
      PROVE  CacheInv'
  BY <1>5 DEF Stringify, Open, Write, loadVars, saveVars
<1>6. ASSUME NEW u \in Updates, Rename(u)
      PROVE  CacheInv'
  <2> DEFINE ws == Waiters(u)
  <2>1. Succeed(u) /\ cache \in Callers /\ ws \subseteq Updates
    BY <1>6, Ends, WaitersAreUpdates DEF Rename, HeapInv
  <2>2. \A c \in Callers :
          pc'[c] = IF c = u THEN "done" ELSE IF c \in ws THEN "saving" ELSE pc[c]
    BY <2>1 DEF Succeed
  <2>3. /\ cache' = cache
        /\ heap' = [heap EXCEPT ![cache] = @ \cup ws]
        /\ held' = [v \in Updates |-> IF v \in ws THEN cache ELSE held[v]]
    BY <2>1 DEF Succeed, Change
  <2>4. "stale" \notin upset' => "stale" \notin upset
    BY <2>1 DEF Succeed
  <2>5. pc[u] = "renaming" /\ u \in heap[held[u]]
    BY <1>6 DEF Rename, HeapInv
  <2> HIDE DEF ws
  <2> QED
    BY <2>1, <2>2, <2>3, <2>4, <2>5
<1>7. ASSUME NEW u \in Updates, Fail(u)
      PROVE  CacheInv'
  BY <1>7 DEF Fail, loadVars
<1>8. ASSUME NEW r \in Readers, BeginRead(r)
      PROVE  CacheInv'
  BY <1>8 DEF BeginRead, loadVars, saveVars
<1>9. ASSUME NEW r \in Readers, LoadFails(r)
      PROVE  CacheInv'
  BY <1>9 DEF LoadFails, loadVars, saveVars
<1>10. CASE Restart
  BY <1>10 DEF Restart, InsideLock
<1>11. CASE ApiRead \/ ApiTruncate \/ ApiWrite \/ UNCHANGED vars
  BY <1>11 DEF ApiRead, ApiTruncate, ApiWrite, vars, loadVars, saveVars
<1> QED
  BY <1>1, <1>2, <1>3, <1>4, <1>5, <1>6, <1>7, <1>8, <1>9, <1>10, <1>11, Ends
     DEF Next, Progress

\* What was read into an empty cache stays good until it is loaded.
LEMMA LoadStep ==
  ASSUME IInv, [Next]_vars
  PROVE  LoadInv'
<1> USE ReadersAssumption, NothingAssumption
    DEF IInv, LoadInv, TypeOK, CallTypes, MemoryTypes, Callers
<1>1. ASSUME NEW u \in Updates, Wait(u) \/ Begin(u)
      PROVE  LoadInv'
  BY <1>1 DEF Wait, Begin, loadVars
<1>2. ASSUME NEW c \in Callers, ReadIndex(c)
      PROVE  LoadInv'
  <2>1. ASSUME upset = {}, NEW u \in Updates, pc[u] = "done"
        PROVE  got'[c].has = content[index].has /\ u \in content[index].has
    BY <1>2, <2>1 DEF ReadIndex, ReportedIsSaved
  <2> QED
    BY <1>2, <2>1 DEF ReadIndex
<1>3. ASSUME NEW c \in Callers, Load(c)
      PROVE  LoadInv'
  BY <1>3 DEF Load
<1>4. ASSUME NEW u \in Updates, Stringify(u) \/ Open(u) \/ Write(u)
      PROVE  LoadInv'
  BY <1>4 DEF Stringify, Open, Write, loadVars
<1>5. ASSUME NEW u \in Updates, Rename(u)
      PROVE  LoadInv'
  BY <1>5 DEF Rename, Succeed, HeapInv, Saving
<1>6. ASSUME NEW u \in Updates, Fail(u)
      PROVE  LoadInv'
  BY <1>6 DEF Fail, loadVars
<1>7. ASSUME NEW r \in Readers, BeginRead(r) \/ LoadFails(r)
      PROVE  LoadInv'
  BY <1>7 DEF BeginRead, LoadFails, loadVars
<1>8. CASE Restart
  BY <1>8 DEF Restart, InsideLock
<1>9. CASE ApiRead \/ ApiTruncate \/ ApiWrite \/ UNCHANGED vars
  BY <1>9 DEF ApiRead, ApiTruncate, ApiWrite, vars, loadVars
<1> QED
  BY <1>1, <1>2, <1>3, <1>4, <1>5, <1>6, <1>7, <1>8, <1>9, Ends
     DEF Next, Progress

-----------------------------------------------------------------------------
(* Files.                                                                  *)

LEMMA NameStep ==
  ASSUME TypeOK, FileInv, [Next]_vars
  PROVE  FileInv'
<1> USE ReadersAssumption, NothingAssumption
    DEF FileInv, TypeOK, CallTypes, FileTypes, Callers, BeforeOpen
<1>1. ASSUME NEW u \in Updates, Wait(u) \/ Begin(u) \/ Stringify(u) \/ Write(u)
      PROVE  FileInv'
  BY <1>1 DEF Wait, Begin, Stringify, Write, diskVars
<1>2. ASSUME NEW c \in Callers, ReadIndex(c) \/ Load(c)
      PROVE  FileInv'
  BY <1>2 DEF ReadIndex, Load, diskVars
<1>3. ASSUME NEW u \in Updates, Open(u)
      PROVE  FileInv'
  BY <1>3 DEF Open
<1>4. ASSUME NEW u \in Updates, Rename(u)
      PROVE  FileInv'
  <2>1. \A v \in Updates : pc'[v] \in BeforeOpen => pc[v] \in BeforeOpen
    BY <1>4 DEF Rename, Succeed, Waiters
  <2> QED
    BY <1>4, <2>1 DEF Rename
<1>5. ASSUME NEW u \in Updates, LoadFails(u) \/ WriteFails(u) \/ RenameFails(u)
      PROVE  FileInv'
  <2>1. \A v \in Updates : pc'[v] \in BeforeOpen => pc[v] \in BeforeOpen
    BY <1>5, Ends DEF Fail
  <2>2. temp' = temp /\ index' = index
    BY <1>5 DEF LoadFails, WriteFails, RenameFails, diskVars
  <2> QED
    BY <2>1, <2>2
<1>6. ASSUME NEW r \in Readers, BeginRead(r) \/ LoadFails(r)
      PROVE  FileInv'
  BY <1>6 DEF BeginRead, LoadFails, diskVars
<1>7. CASE Restart
  BY <1>7 DEF Restart, InsideLock, diskVars
<1>8. CASE ApiRead \/ ApiTruncate \/ ApiWrite \/ UNCHANGED vars
  BY <1>8 DEF ApiRead, ApiTruncate, ApiWrite, vars, diskVars
<1> QED
  BY <1>1, <1>2, <1>3, <1>4, <1>5, <1>6, <1>7, <1>8 DEF Next, Progress

\* An update that starts by itself, or is all that goes on, is not yet writing.
LEMMA LoneStep ==
  ASSUME IInv, [Next]_vars
  PROVE  LoneInv'
<1> USE ReadersAssumption, NothingAssumption
    DEF IInv, LoneInv, TypeOK, CallTypes, Callers, Writing
<1>1. ASSUME NEW u \in Updates, Wait(u)
      PROVE  LoneInv'
  BY <1>1 DEF Wait, loadVars, saveVars, diskVars, Ended
<1>2. ASSUME NEW u \in Updates, Begin(u)
      PROVE  LoneInv'
  <2>1. alone' \subseteq {u}
    BY <1>2 DEF Begin, StillAlone
  <2>2. pc'[u] \in {"reading", "saving"}
    BY <1>2 DEF Begin
  <2> QED
    BY <2>1, <2>2
<1>3. ASSUME NEW c \in Callers, ReadIndex(c)
      PROVE  LoneInv'
  BY <1>3 DEF ReadIndex, saveVars, diskVars, Ended
<1>4. ASSUME NEW c \in Callers, Load(c)
      PROVE  LoneInv'
  <2>1. SUFFICES ASSUME NEW u \in alone, pc[u] \in Writing, u # c
        PROVE  /\ held'[u] = held[u] /\ heap'[held[u]] = heap[held[u]]
               /\ \A v \in Updates : pc'[v] \in Ended => pc[v] \in Ended
    BY <1>4 DEF Load, diskVars, MemoryTypes, HistoryTypes, HeapInv, Saving
  <2>2. held[u] # c /\ held[u] \in Callers
    BY <1>4, <2>1 DEF Load, HeapInv, Saving, Loading, HistoryTypes
  <2>3. CASE c \in Readers
    BY <1>4, <2>1, <2>2, <2>3 DEF Load, MemoryTypes, Ended
  <2>4. CASE c \in Updates
    BY <1>4, <2>1, <2>2, <2>4 DEF Load, MemoryTypes, Ended, HistoryTypes
  <2> QED
    BY <2>3, <2>4
<1>5. ASSUME NEW u \in Updates, Stringify(u)
      PROVE  LoneInv'
  <2>1. u \in Running
    BY <1>5 DEF Stringify, Running, InsideLock
  <2>2. alone \subseteq {u} /\ alone' = alone
    BY <1>5, <2>1 DEF Stringify, AloneInv
  <2>3. u \in heap[held[u]]
    BY <1>5 DEF Stringify, HeapInv, Saving
  <2> QED
    BY <1>5, <2>2, <2>3 DEF Stringify, FileTypes, loadVars
<1>6. ASSUME NEW u \in Updates, Open(u)
      PROVE  LoneInv'
  <2>1. u \in Running
    BY <1>6 DEF Open, Running, InsideLock
  <2>2. alone \subseteq {u} /\ alone' = alone
    BY <1>6, <2>1 DEF Open, AloneInv
  <2> QED
    BY <1>6, <2>2 DEF Open, FileTypes, loadVars, Ended
<1>7. ASSUME NEW u \in Updates, Write(u)
      PROVE  LoneInv'
  <2>1. u \in Running
    BY <1>7 DEF Write, Running, InsideLock
  <2>2. alone \subseteq {u} /\ alone' = alone
    BY <1>7, <2>1 DEF Write, AloneInv
  <2>3. ASSUME u \in alone
        PROVE  content'[temp] = Whole(text[u]) /\ temp # Nothing /\ fd[u] = temp
    BY <1>7, <2>3 DEF Write, Written, FileTypes
  <2> QED
    BY <1>7, <2>2, <2>3 DEF Write, loadVars, saveVars, Ended
<1>8. ASSUME NEW u \in Updates, Rename(u)
      PROVE  LoneInv'
  <2>1. u \in Running /\ Succeed(u)
    BY <1>8, Ends
  <2>2. alone' \subseteq Waiters(u)
    BY <2>1 DEF Succeed, StillAlone, AloneInv
  <2>3. \A w \in Waiters(u) : pc'[w] = "saving"
    BY <2>1, WaitersAreUpdates DEF Succeed, Waiters, Running, InsideLock
  <2> QED
    BY <2>2, <2>3
<1>9. ASSUME NEW u \in Running, Fail(u)
      PROVE  LoneInv'
  <2>1. alone' = {}
    BY <1>9 DEF Fail, AloneInv
  <2> QED
    BY <2>1
<1>10. ASSUME NEW r \in Readers, BeginRead(r) \/ LoadFails(r)
       PROVE  LoneInv'
  <2>1. UNCHANGED <<alone, fd, text, temp, content, heap, held>>
    BY <1>10 DEF BeginRead, LoadFails, loadVars, saveVars, diskVars
  <2>2. \A u \in Updates : pc'[u] = pc[u]
    BY <1>10 DEF BeginRead, LoadFails
  <2>3. \A u \in alone : u \in Updates
    BY DEF HistoryTypes
  <2>4. \A u \in alone : pc[u] \in Writing => heap[held[u]] \subseteq Updates
    BY <2>3 DEF HeapInv, Saving, MemoryTypes
  <2> QED
    BY <2>1, <2>2, <2>3, <2>4
<1>11. CASE Restart \/ ApiTruncate \/ ApiWrite
  <2>1. alone' = {}
    BY <1>11 DEF Restart, ApiTruncate, ApiWrite
  <2> QED
    BY <2>1
<1>12. CASE ApiRead \/ UNCHANGED vars
  BY <1>12 DEF ApiRead, vars, loadVars, saveVars, diskVars
<1> QED
  BY <1>1, <1>2, <1>3, <1>4, <1>5, <1>6, <1>7, <1>8, <1>9, <1>10, <1>11, <1>12,
     Ends
     DEF Next, Progress

\* While nothing is upset, a running update has the temporary file to itself,
\* so nobody writes to index.json.
LEMMA ReportedStep ==
  ASSUME IInv, [Next]_vars
  PROVE  ReportedIsSaved'
<1> USE ReadersAssumption, NothingAssumption
    DEF IInv, ReportedIsSaved, TypeOK, CallTypes, FileTypes, Callers
<1>1. ASSUME NEW u \in Updates, Wait(u) \/ Begin(u) \/ Stringify(u)
      PROVE  ReportedIsSaved'
  BY <1>1 DEF Wait, Begin, Stringify, diskVars
<1>2. ASSUME NEW c \in Callers, ReadIndex(c) \/ Load(c)
      PROVE  ReportedIsSaved'
  BY <1>2 DEF ReadIndex, Load, diskVars
<1>3. ASSUME NEW u \in Updates, Open(u)
      PROVE  ReportedIsSaved'
  BY <1>3 DEF Open, FileInv, BeforeOpen
<1>4. ASSUME NEW u \in Updates, pc[u] = "writing", upset = {}
      PROVE  fd[u] # index
  <2>1. u \in alone
    BY <1>4 DEF AloneInv, Running, InsideLock
  <2> QED
    BY <1>4, <2>1 DEF LoneInv, FileInv
<1>5. ASSUME NEW u \in Updates, Write(u)
      PROVE  ReportedIsSaved'
  BY <1>4, <1>5 DEF Write
<1>6. ASSUME NEW u \in Updates, Rename(u)
      PROVE  ReportedIsSaved'
  <2> DEFINE ws == Waiters(u)
  <2>1. u \in Running /\ Succeed(u) /\ pc[u] = "renaming"
    BY <1>6, Ends
  <2>2. SUFFICES ASSUME upset' = {}
        PROVE  \A v \in Updates : pc'[v] = "done" =>
                  index' # Nothing /\ content'[index'].form = "whole"
                  /\ v \in content'[index'].has
    OBVIOUS
  <2>3. u \in alone /\ "stale" \notin upset
    BY <2>1, <2>2 DEF Succeed, AloneInv
  <2>4. index' = temp /\ temp # Nothing /\ content' = content
    BY <1>6 DEF Rename
  <2>5. content[temp] = Whole(text[u])
    BY <2>1, <2>3 DEF LoneInv
  <2>6. ASSUME NEW v \in Updates, pc'[v] = "done"
        PROVE  v \in text[u]
    <3>1. v = u \/ pc[v] = "done"
      BY <2>1, <2>6 DEF Succeed
    <3>2. u \in text[u]
      BY <2>1, <2>3 DEF LoneInv, Writing
    <3>3. held[u] = cache /\ cache # Nothing
      BY <2>1, <2>3 DEF CacheInv, HeapInv, Saving
    <3>4. pc[v] = "done" => v \in heap[held[u]]
      BY <2>3, <3>3 DEF CacheInv
    <3>5. pc[v] = "done" => v \in text[u]
      BY <2>1, <2>3, <3>4 DEF LoneInv, Writing, Ended
    <3> QED
      BY <3>1, <3>2, <3>5
  <2> QED
    BY <2>4, <2>5, <2>6 DEF Whole
<1>7. ASSUME NEW u \in Updates, LoadFails(u) \/ WriteFails(u) \/ RenameFails(u)
      PROVE  ReportedIsSaved'
  <2>1. Fail(u)
    BY <1>7, Ends
  <2>2. \A v \in Updates : pc'[v] = "done" => pc[v] = "done"
    BY <2>1 DEF Fail
  <2>3. CASE WriteFails(u)
    BY <1>4, <2>1, <2>2, <2>3 DEF WriteFails, Fail
  <2>4. CASE LoadFails(u) \/ RenameFails(u)
    BY <2>1, <2>2, <2>4 DEF LoadFails, RenameFails, Fail, diskVars
  <2> QED
    BY <1>7, <2>3, <2>4
<1>8. ASSUME NEW r \in Readers, BeginRead(r) \/ LoadFails(r)
      PROVE  ReportedIsSaved'
  BY <1>8 DEF BeginRead, LoadFails, diskVars
<1>9. CASE Restart
  BY <1>9 DEF Restart, diskVars
<1>10. CASE ApiRead \/ ApiTruncate \/ ApiWrite \/ UNCHANGED vars
  BY <1>10 DEF ApiRead, ApiTruncate, ApiWrite, vars, diskVars
<1> HIDE DEF IInv, ReportedIsSaved, TypeOK, CallTypes, FileTypes
<1> QED
  BY <1>1, <1>2, <1>3, <1>5, <1>6, <1>7, <1>8, <1>9, <1>10 DEF Next, Progress

\* An update is done by its rename and by nothing else.
LEMMA OnlyRenameIsDone ==
  ASSUME CallTypes, [Next]_vars, NEW u \in Updates,
         pc[u] = "renaming", pc'[u] = "done"
  PROVE  Rename(u)
<1> USE ReadersAssumption DEF CallTypes, Callers
<1>1. ASSUME NEW v \in Updates, Wait(v) \/ Begin(v)
      PROVE  FALSE
  BY <1>1 DEF Wait, Begin
<1>2. ASSUME NEW c \in Callers, ReadIndex(c) \/ Load(c)
      PROVE  FALSE
  BY <1>2 DEF ReadIndex, Load
<1>3. ASSUME NEW v \in Updates, Stringify(v) \/ Open(v) \/ Write(v)
      PROVE  FALSE
  BY <1>3 DEF Stringify, Open, Write
<1>4. ASSUME NEW v \in Updates, Rename(v), v # u
      PROVE  FALSE
  BY <1>4 DEF Rename, Succeed
<1>5. ASSUME NEW v \in Updates, Fail(v)
      PROVE  FALSE
  BY <1>5 DEF Fail
<1>6. ASSUME NEW r \in Readers, BeginRead(r) \/ LoadFails(r)
      PROVE  FALSE
  BY <1>6 DEF BeginRead, LoadFails
<1>7. CASE Restart
  BY <1>7 DEF Restart, InsideLock
<1>8. CASE ApiRead \/ ApiTruncate \/ ApiWrite \/ UNCHANGED vars
  BY <1>8 DEF ApiRead, ApiTruncate, ApiWrite, vars
<1> HIDE DEF CallTypes
<1> QED
  BY <1>1, <1>2, <1>3, <1>4, <1>5, <1>6, <1>7, <1>8, Ends DEF Next, Progress

-----------------------------------------------------------------------------
(* Theorems.                                                               *)

LEMMA InitInv == Init => IInv
<1> SUFFICES ASSUME Init
             PROVE  IInv
  OBVIOUS
<1>1. \A c \in Callers : pc[c] = "new"
  BY DEF Init
<1>2. TypeOK
  BY InitType
<1>3. Running = {}
  BY <1>1 DEF Running, InsideLock, Callers
<1>4. LockInv /\ AloneInv
  BY <1>3 DEF Init, LockInv, AloneInv
<1>5. WaitsForRunning /\ HeapInv /\ CacheInv
  BY <1>1 DEF Init, WaitsForRunning, HeapInv, CacheInv, Saving, Loading, Callers
<1>6. FileInv
  BY NothingAssumption DEF Init, FileInv
<1>7. LoneInv
  BY DEF Init, LoneInv
<1>8. LoadInv /\ ReportedIsSaved
  BY <1>1 DEF LoadInv, ReportedIsSaved, Callers
<1> QED
  BY <1>2, <1>4, <1>5, <1>6, <1>7, <1>8 DEF IInv

LEMMA InvStep ==
  ASSUME IInv, [Next]_vars
  PROVE  IInv'
<1>1. TypeOK'
  BY CallStep, MemoryStep, FileStep, CounterStep, HistoryStep DEF IInv, TypeOK
<1>2. LockInv' /\ AloneInv' /\ WaitsForRunning'
  BY LockStep DEF IInv
<1>3. HeapInv' /\ FileInv'
  BY HeapStep, NameStep DEF IInv
<1>4. CacheInv' /\ LoadInv' /\ LoneInv' /\ ReportedIsSaved'
  BY CacheStep, LoadStep, LoneStep, ReportedStep
<1> QED
  BY <1>1, <1>2, <1>3, <1>4 DEF IInv

\* The inductive invariant holds in every state.
THEOREM Invariance == Spec => []IInv
<1>1. Init => IInv
  BY InitInv
<1>2. IInv /\ [Next]_vars => IInv'
  BY InvStep
<1> QED
  BY <1>1, <1>2, PTL DEF Spec

\* Every variable keeps its type, and calls are where their code can be.
THEOREM TypeCorrect == Spec => []TypeOK
<1>1. IInv => TypeOK
  BY DEF IInv
<1> QED
  BY <1>1, Invariance, PTL

\* The write lock of indexMetadata.repository.ts admits one update at a time
\* unless two of them waited for the same third one.
THEOREM LockExcludes == Spec => []OneUpdateAtATime
<1>1. IInv => OneUpdateAtATime
  BY DEF IInv, LockInv, OneUpdateAtATime, Several
<1> QED
  BY <1>1, Invariance, PTL

\* Nobody waits for a promise that no running update is going to settle.
THEOREM NobodyIsForgotten == Spec => []WaitsForRunning
<1>1. IInv => WaitsForRunning
  BY DEF IInv
<1> QED
  BY <1>1, Invariance, PTL

\* What was reported as saved is in index.json, through failed writes and
\* restarts, as long as no updates ran into each other, the api-server did
\* not rewrite the file, and the cache was loaded once and from a good file.
THEOREM ReportedStaysSaved == Spec => []ReportedIsSaved
<1>1. IInv => ReportedIsSaved
  BY DEF IInv
<1> QED
  BY <1>1, Invariance, PTL

\* An update that succeeds and met nobody leaves index.json a document with
\* all that its object reflects, whatever state the file was in.
THEOREM LoneRepair == Spec => LoneUpdateRepairs
<1>1. IInv /\ [Next]_vars =>
        [\A u \in alone : pc[u] = "renaming" /\ pc'[u] = "done" =>
            /\ content[index'].form = "whole"
            /\ {v \in Updates : v \in heap[held[u]] /\ pc[v] \in Ended}
                  \subseteq content[index'].has]_vars
  <2>1. SUFFICES ASSUME IInv, [Next]_vars, NEW u \in alone,
                        pc[u] = "renaming", pc'[u] = "done"
                 PROVE  /\ content[index'].form = "whole"
                        /\ {v \in Updates : v \in heap[held[u]] /\ pc[v] \in Ended}
                              \subseteq content[index'].has
    OBVIOUS
  <2>2. u \in Updates
    BY <2>1 DEF IInv, TypeOK, HistoryTypes
  <2>3. Rename(u)
    BY <2>1, <2>2, OnlyRenameIsDone DEF IInv, TypeOK
  <2>4. content[index'] = Whole(text[u])
    BY <2>1, <2>3 DEF Rename, IInv, LoneInv
  <2>5. \A v \in heap[held[u]] : pc[v] \in Ended => v \in text[u]
    BY <2>1 DEF IInv, LoneInv, Writing
  <2> QED
    BY <2>4, <2>5 DEF Whole
<1> QED
  BY <1>1, Invariance, PTL DEF Spec, LoneUpdateRepairs
=============================================================================
