------------------------ MODULE KnowledgeIndex_proofs ------------------------
(* Theorems about KnowledgeIndex for any versions, calls and bounds.       *)
EXTENDS KnowledgeIndex, SequenceTheorems, TLAPS

\* What a call is of and holds, by its place.
CallInv ==
    \A c \in Calls :
        /\ at[c] \in {"free", "waiting"} <=> kind[c] = "none"
        /\ at[c] \in {"scanning", "sampling", "opening"} => kind[c] = "start"
        /\ at[c] \in {"armed", "tracking"} => kind[c] \in {"add", "change"}
        /\ at[c] = "comparing" => kind[c] = "change"
        /\ at[c] \in Deleting <=> kind[c] = "delete"
        /\ at[c] \in Indexing \ {"reading", "failing"} => seen[c] \in Versions
        /\ at[c] \in Places \ (Working \cup {"tracking"}) => part[c] = 0
        /\ at[c] \in {"marking", "clearing"} => part[c] = 0
        /\ at[c] \in {"embedding", "appending"} => part[c] < Parts
        /\ at[c] \in {"hashing", "finishing", "stamping"} => part[c] = Parts

CallTypes ==
    /\ at \in [Calls -> Places]
    /\ kind \in [Calls -> Kinds]
    /\ seen \in [Calls -> Versions \cup {None}]
    /\ marked \in [Calls -> Versions \cup {None}]
    /\ part \in [Calls -> 0..Parts]
-----------------------------------------------------------------------------
\* The events of a change, after those that were there.
LEMMA Observed ==
  ASSUME TypeOK, NEW e \in {"add", "change", "unlink"}, Observe(e)
  PROVE  /\ events' \in Seq({"add", "change", "unlink"})
         /\ Len(events') = Len(events) + watchers
         /\ \A i \in 1..Len(events) : events'[i] = events[i]
         /\ \A i \in 1..watchers : events'[Len(events) + i] = e
<1> DEFINE S == {"add", "change", "unlink"}
           new == [w \in 1..watchers |-> e]
<1>1. new \in Seq(S)
  <2>1. new \in [1..watchers -> S] /\ watchers \in Nat
    BY DEF TypeOK
  <2> HIDE DEF new, S
  <2> QED
    BY <2>1, SeqDef, Zenon
<1>2. Len(new) = watchers
  <2>1. Len(new) \in Nat /\ DOMAIN new = 1..Len(new)
    BY <1>1, LenProperties, Zenon
  <2>2. DOMAIN new = 1..watchers /\ watchers \in Nat
    BY DEF TypeOK
  <2> HIDE DEF new
  <2>3. 1..Len(new) = 1..watchers
    BY <2>1, <2>2
  <2> DEFINE n == Len(new)
  <2>4. n \in Nat /\ 1..n = 1..watchers
    BY <2>1, <2>3
  <2> HIDE DEF n
  <2>5. n <= watchers
    <3>1. n > 0 => n \in 1..n
      BY <2>4
    <3>2. n > 0 => n \in 1..watchers
      BY <2>4, <3>1
    <3> QED
      BY <2>2, <2>4, <3>2
  <2>6. watchers <= n
    <3>1. watchers > 0 => watchers \in 1..watchers
      BY <2>2
    <3>2. watchers > 0 => watchers \in 1..n
      BY <2>4, <3>1
    <3> QED
      BY <2>2, <2>4, <3>2
  <2> QED
    BY <2>2, <2>4, <2>5, <2>6 DEF n
<1>3. \A i \in 1..watchers : new[i] = e
  OBVIOUS
<1>4. events \in Seq(S) /\ watchers \in Nat /\ Len(events) \in Nat /\ events' = events \o new
  <2>1. events \in Seq(S) /\ watchers \in Nat
    BY DEF TypeOK
  <2>2. events' = events \o new
    BY DEF Observe
  <2> QED
    BY <2>1, <2>2, LenProperties
<1> HIDE DEF new
<1>5. /\ events \o new \in Seq(S)
      /\ Len(events \o new) = Len(events) + Len(new)
      /\ \A i \in 1 .. Len(events) + Len(new) :
            (events \o new)[i] = IF i <= Len(events) THEN events[i] ELSE new[i - Len(events)]
  BY <1>1, <1>4, ConcatProperties
<1>6. \A i \in 1..Len(events) : events'[i] = events[i]
  BY <1>2, <1>4, <1>5
<1>7. \A i \in 1..watchers : events'[Len(events) + i] = e
  BY <1>2, <1>3, <1>4, <1>5
<1> QED
  BY <1>2, <1>4, <1>5, <1>6, <1>7

LEMMA Popped ==
  ASSUME TypeOK, NEW e, NextEvent(e)
  PROVE  /\ events # <<>> /\ events[1] = e
         /\ events' \in Seq({"add", "change", "unlink"})
         /\ Len(events') = Len(events) - 1
         /\ \A i \in 1..Len(events') : events'[i] = events[i + 1]
<1>1. events \in Seq({"add", "change", "unlink"}) /\ events # <<>> /\ events' = Tail(events)
  BY DEF TypeOK, NextEvent
<1>2. events[1] = e
  BY <1>1 DEF NextEvent
<1> QED
  BY <1>1, <1>2, HeadTailProperties

\* A timer is set and the one before it cleared.
LEMMA SetsTimer ==
  ASSUME TypeOK, CallInv, NEW c \in Calls, NEW e \in {"add", "change"}, SetTimer(c, e),
         at[c] \in {"free", "waiting"}
  PROVE  /\ at' \in [Calls -> Places] /\ kind' \in [Calls -> Kinds]
         /\ debounce' \in Calls
         /\ at'[c] = "armed" /\ kind'[c] = e
         /\ \A d \in Calls \ {c} :
               \/ at'[d] = at[d] /\ kind'[d] = kind[d]
               \/ at[d] = "armed" /\ at'[d] = "free" /\ kind'[d] = "none"
<1>1. \A d \in Calls :
         /\ at'[d] = IF d = c THEN "armed"
                     ELSE IF d = debounce /\ at[d] = "armed" THEN "free" ELSE at[d]
         /\ kind'[d] = IF d = c THEN e
                       ELSE IF d = debounce /\ at[d] = "armed" THEN "none" ELSE kind[d]
  BY Zenon DEF SetTimer
<1>2. at' = [d \in Calls |-> at'[d]] /\ kind' = [d \in Calls |-> kind'[d]]
  BY Zenon DEF SetTimer
<1>3. at \in [Calls -> Places] /\ kind \in [Calls -> Kinds] /\ "armed" \in Places
      /\ "free" \in Places /\ "none" \in Kinds /\ e \in Kinds
  BY DEF TypeOK, Places, Kinds
<1> QED
  BY <1>1, <1>2, <1>3 DEF SetTimer

\* The api-server's steps leave the service as it is, and what it stores too,
\* but for a document that is gone.
LEMMA CleanKeeps ==
  ASSUME CleanStep
  PROVE  /\ UNCHANGED <<file, events, watchVars, debounce, callVars>>
         /\ harm \subseteq harm' /\ harm' \subseteq harm \cup {"late clean"}
         /\ chunks' \in {chunks, <<>>}
         /\ \/ UNCHANGED <<status, hash>>
            \/ Unloaded /\ status' = "none" /\ hash' = None
         /\ \/ UNCHANGED <<metaVars, chunks>>
            \/ "late clean" \in harm'
            \/ file = None
BY DEF CleanStep, CleanChunks, CleanIndex, CleaningFails, Cleans, metaVars

\* A restart loses at most what the memory alone had.
LEMMA RestartKeeps ==
  ASSUME Restart
  PROVE  /\ UNCHANGED <<file, chunks>>
         /\ \/ UNCHANGED <<status, hash>>
            \/ ~saved /\ status' = "none" /\ hash' = None
BY DEF Restart

\* The calls keep their types and what CallInv says of them.
LEMMA CallStep ==
  ASSUME TypeOK, CallInv, [Next]_vars
  PROVE  CallTypes' /\ CallInv'
<1> USE NoneAssumption, PartsAssumption
<1> USE DEF CallTypes, CallInv, Places, Kinds, Indexing, Working, Deleting, Goto
<1>1. CallTypes /\ file \in Versions \cup {None} /\ Parts \in Nat
  BY DEF TypeOK
<1>2. CASE UserStep \/ CleanStep \/ UNCHANGED vars
  BY <1>1, <1>2, CleanKeeps DEF UserStep, Upload, Modify, Remove, Observe, callVars, vars
<1>3. CASE Restart
  BY <1>1, <1>3 DEF Restart
<1>4. ASSUME NEW c \in Calls, Return(c)
      PROVE  CallTypes' /\ CallInv'
  BY <1>1, <1>4 DEF Return, Forget
<1>5. ASSUME NEW c \in Calls, at[c] \in Indexing, Throws(c)
      PROVE  CallTypes' /\ CallInv'
  <2>1. CASE kind[c] = "start"
    BY <1>1, <1>5, <2>1 DEF Throws, Returns
  <2>2. CASE kind[c] # "start"
    BY <1>4, <1>5, <2>2 DEF Throws
  <2> QED
    BY <2>1, <2>2
<1>6. ASSUME NEW c \in Calls, at[c] \in Indexing, Returns(c)
      PROVE  CallTypes' /\ CallInv'
  <2>1. CASE kind[c] = "start"
    BY <1>1, <1>6, <2>1 DEF Returns
  <2>2. CASE kind[c] # "start"
    BY <1>1, <1>6, <2>2 DEF Returns
  <2> QED
    BY <2>1, <2>2
<1>7. ASSUME NEW c \in Calls, NEW e \in {"add", "change"}, SetTimer(c, e),
             at[c] \in {"free", "waiting"}, UNCHANGED <<seen, marked, part>>
      PROVE  CallTypes' /\ CallInv'
  BY <1>1, <1>7, SetsTimer
<1>8. ASSUME NEW c \in Calls, IndexStep(c)
      PROVE  CallTypes' /\ CallInv'
  <2>1. CASE Read(c)
    BY <1>1, <2>1 DEF Read
  <2>2. CASE Check(c)
    BY <1>1, <1>6, <2>2 DEF Check
  <2>3. CASE Mark(c) \/ Clear(c) \/ Embed(c) \/ RecordHash(c) \/ Finish(c)
    <3>1. /\ UNCHANGED <<kind, seen, marked, part>>
          /\ \/ at[c] = "marking" /\ Goto(c, "clearing")
             \/ at[c] = "clearing" /\ Goto(c, "embedding")
             \/ at[c] = "embedding" /\ Goto(c, "appending")
             \/ at[c] = "hashing" /\ Goto(c, "finishing")
             \/ at[c] = "finishing" /\ Goto(c, "stamping")
      BY <2>3 DEF Mark, Clear, Embed, RecordHash, Finish, Step
    <3> QED
      BY <1>1, <3>1
  <2>4. CASE AppendChunk(c)
    BY <1>1, <2>4 DEF AppendChunk, AfterPart, Step
  <2>5. CASE Stamp(c)
    BY <1>6, <2>5 DEF Stamp
  <2>6. CASE RecordError(c)
    BY <1>5, <2>6 DEF RecordError
  <2>7. CASE \E p \in Indexing \ {"failing"} : Fails(c, p)
    BY <1>1, <2>7 DEF Fails
  <2> QED
    BY <1>8, <2>1, <2>2, <2>3, <2>4, <2>5, <2>6, <2>7 DEF IndexStep
<1>9. ASSUME NEW c \in Calls, WatchStep(c)
      PROVE  CallTypes' /\ CallInv'
  <2>1. CASE Start(c) \/ Scan(c) \/ Sample(c) \/ ScanFails(c) \/ Fire(c)
    BY <1>1, <2>1 DEF Start, Scan, Sample, ScanFails, Filled, Fire
  <2>2. CASE Watch(c) \/ CompareFails(c) \/ Track(c)
    BY <1>4, <2>2 DEF Watch, CompareFails, Track
  <2>3. CASE \E e \in {"add", "change"} : HandleChange(c, e)
    <3>1. CASE \E e \in {"add", "change"} : SetTimer(c, e)
      BY <1>7, <2>3, <3>1 DEF HandleChange
    <3>2. CASE ~\E e \in {"add", "change"} : SetTimer(c, e)
      BY <1>1, <2>3, <3>2 DEF HandleChange
    <3> QED
      BY <3>1, <3>2
  <2>4. CASE LookAgain(c)
    <3>1. CASE SetTimer(c, "add")
      BY <1>7, <2>4, <3>1 DEF LookAgain
    <3>2. CASE ~SetTimer(c, "add")
      BY <1>1, <2>4, <3>2 DEF LookAgain
    <3> QED
      BY <3>1, <3>2
  <2>5. CASE HandleDelete(c)
    <3>1. /\ at[c] = "free" /\ Goto(c, "unlinking")
          /\ kind' = [kind EXCEPT ![c] = "delete"]
          /\ UNCHANGED <<seen, marked, part>>
      BY <2>5 DEF HandleDelete
    <3> QED
      BY <1>1, <3>1
  <2>6. CASE Compare(c)
    BY <1>1, <1>4, <2>6 DEF Compare
  <2> QED
    BY <1>9, <2>1, <2>2, <2>3, <2>4, <2>5, <2>6 DEF WatchStep
<1>10. ASSUME NEW c \in Calls, DeleteStep(c)
       PROVE  CallTypes' /\ CallInv'
  <2>1. CASE Unlink(c)
    BY <1>1, <2>1 DEF Unlink, Step
  <2>2. CASE Drop(c) \/ DeleteFails(c)
    BY <1>4, <2>2 DEF Drop, DeleteFails
  <2> QED
    BY <1>10, <2>1, <2>2 DEF DeleteStep
<1> QED
  BY <1>2, <1>3, <1>8, <1>9, <1>10 DEF Next

Harms == {"unwatched", "late timer", "late clean", "overlap", "masked", "failed",
          "unrecorded", "unremoved", "killed"}

\* What is not a call's.
DataTypes ==
    /\ file \in Versions \cup {None}
    /\ events \in Seq({"add", "change", "unlink"})
    /\ watchers \in Nat
    /\ tracked \in Versions \cup {None}
    /\ filling \in Calls \cup {None}
    /\ debounce \in Calls \cup {None}
    /\ status \in {"none", "pending", "indexed", "error"}
    /\ hash \in Versions \cup {None}
    /\ saved \in BOOLEAN
    /\ cleaning \in {"none", "chunks", "index"}
    /\ chunks \in Seq([of : Versions, no : 1..Parts])
    /\ changes \in 0..MaxChanges
    /\ faults \in 0..MaxFaults
    /\ restarts \in 0..MaxRestarts
    /\ harm \subseteq Harms

LEMMA DataStep ==
  ASSUME TypeOK, CallInv, [Next]_vars
  PROVE  DataTypes'
<1> USE NoneAssumption, PartsAssumption, BoundsAssumption
<1> USE DEF DataTypes, callVars, metaVars, watchVars, bounds, Fault
<1>1. DataTypes /\ CallTypes
  BY DEF TypeOK, Harms, CallTypes
<1>2. <<>> \in Seq({"add", "change", "unlink"}) /\ <<>> \in Seq([of : Versions, no : 1..Parts])
  BY EmptySeq
<1>3. \A c : harm \cup Overlap(c) \subseteq Harms
  BY <1>1 DEF Overlap, Harms
<1>4. \A c \in Calls : Return(c) => debounce' \in Calls \cup {None}
  BY <1>1 DEF Return
<1>5. CASE UNCHANGED vars
  BY <1>1, <1>5 DEF vars
<1>6. CASE UserStep
  <2>1. PICK e \in {"add", "change", "unlink"} :
           /\ file' \in Versions \cup {None} /\ cleaning' \in {cleaning, "chunks"}
           /\ Observe(e)
    BY <1>6 DEF UserStep, Upload, Modify, Remove
  <2>2. events' \in Seq({"add", "change", "unlink"})
    BY <2>1, Observed
  <2>3. harm' \subseteq Harms
    BY <1>1, <2>1 DEF Observe, Harms
  <2>5. changes' \in 0..MaxChanges
    BY <1>1, <2>1 DEF Observe
  <2>6. UNCHANGED <<watchVars, debounce, metaVars, chunks, faults, restarts>>
    BY <2>1 DEF Observe
  <2> QED
    BY <1>1, <2>1, <2>2, <2>3, <2>5, <2>6
<1>7. CASE Restart
  <2>1. harm' \subseteq Harms
    BY <1>1, <1>7 DEF Restart, Harms
  <2> QED
    BY <1>1, <1>2, <1>7, <2>1 DEF Restart
<1>8. ASSUME NEW c \in Calls, WatchStep(c)
      PROVE  DataTypes'
  <2>1. CASE Start(c) \/ Scan(c) \/ Sample(c) \/ ScanFails(c) \/ Fire(c)
    <3>1. CASE Start(c)
      BY <1>1, <3>1 DEF Start
    <3>2. CASE Scan(c)
      BY <1>1, <3>2 DEF Scan, Filled
    <3>3. CASE Fire(c)
      BY <1>1, <1>3, <3>3 DEF Fire
    <3>4. CASE Sample(c)
      BY <1>1, <1>3, <3>4 DEF Sample, Filled
    <3>5. CASE ScanFails(c)
      BY <1>1, <3>5 DEF ScanFails, Filled
    <3> QED
      BY <2>1, <3>1, <3>2, <3>3, <3>4, <3>5
  <2>2. CASE Watch(c) \/ Track(c)
    <3>1. CASE Watch(c)
      BY <1>1, <1>4, <3>1 DEF Watch
    <3>2. CASE Track(c)
      <4>1. tracked' \in Versions \cup {None}
        BY <1>1, <3>2 DEF Track, CallTypes
      <4> QED
        BY <1>1, <1>4, <3>2, <4>1 DEF Track
    <3> QED
      BY <2>2, <3>1, <3>2
  <2>3. ASSUME NEW e \in {"add", "change"}, HandleChange(c, e)
        PROVE  DataTypes'
    <3>1. events' \in Seq({"add", "change", "unlink"})
      BY <2>3, Popped DEF HandleChange
    <3>2. debounce' \in Calls \cup {None}
      BY <1>1, <2>3 DEF HandleChange, SetTimer
    <3> QED
      BY <1>1, <2>3, <3>1, <3>2 DEF HandleChange
  <2>4. CASE LookAgain(c)
    BY <1>1, <2>4 DEF LookAgain, SetTimer
  <2>5. CASE HandleDelete(c)
    <3>1. events' \in Seq({"add", "change", "unlink"})
      BY <2>5, Popped DEF HandleDelete
    <3>2. harm' \subseteq Harms
      BY <1>3, <2>5 DEF HandleDelete, Harms
    <3> QED
      BY <1>1, <2>5, <3>1, <3>2 DEF HandleDelete
  <2>6. CASE Compare(c) \/ CompareFails(c)
    <3>1. harm' \subseteq Harms
      BY <1>1, <1>3, <2>6 DEF Compare, CompareFails, Harms
    <3>2. debounce' \in Calls \cup {None}
      BY <1>1, <1>4, <2>6 DEF Compare, CompareFails
    <3> QED
      BY <1>1, <2>6, <3>1, <3>2 DEF Compare, CompareFails
  <2> QED
    BY <1>8, <2>1, <2>2, <2>3, <2>4, <2>5, <2>6 DEF WatchStep
<1>9. ASSUME NEW c \in Calls, IndexStep(c)
      PROVE  DataTypes'
  <2>1. debounce' \in Calls \cup {None}
    BY <1>1, <1>4, <1>9 DEF IndexStep, Read, Check, Mark, Clear, Embed, AppendChunk,
       RecordHash, Finish, Stamp, RecordError, Fails, Step, Returns, Throws
  <2>2. CASE Read(c) \/ Check(c) \/ Mark(c) \/ Embed(c) \/ Finish(c) \/ Stamp(c)
    BY <1>1, <2>1, <2>2 DEF Read, Check, Mark, Embed, Finish, Stamp, Step
  <2>3. CASE Clear(c)
    BY <1>1, <1>2, <2>1, <2>3 DEF Clear, Step
  <2>4. CASE AppendChunk(c)
    <3>1. Chunk(seen[c], part[c] + 1) \in [of : Versions, no : 1..Parts]
      <4>1. seen[c] \in Versions /\ part[c] < Parts
        BY <2>4 DEF AppendChunk, Step, CallInv, Indexing
      <4>2. part[c] + 1 \in 1..Parts
        BY <1>1, <4>1 DEF CallTypes
      <4> QED
        BY <4>1, <4>2 DEF Chunk
    <3>2. chunks' \in Seq([of : Versions, no : 1..Parts])
      BY <1>1, <2>4, <3>1, AppendProperties DEF AppendChunk
    <3> QED
      BY <1>1, <2>1, <2>4, <3>2 DEF AppendChunk, Step
  <2>5. CASE RecordHash(c)
    BY <1>1, <2>1, <2>5 DEF RecordHash, Step, CallTypes
  <2>6. CASE RecordError(c) \/ \E p \in Indexing \ {"failing"} : Fails(c, p)
    <3>1. harm' \subseteq Harms
      BY <1>1, <2>6 DEF RecordError, Fails, Harms
    <3>2. CASE RecordError(c)
      <4>1. saved' \in BOOLEAN /\ status' \in {status, "error"} /\ UNCHANGED <<changes, restarts>>
            /\ faults' \in 0..MaxFaults
        <5>1. CASE status' = "error" /\ saved' = TRUE /\ UNCHANGED <<bounds, harm>>
          BY <1>1, <5>1
        <5>2. CASE Fault /\ UNCHANGED <<status, saved>>
          <6>1. faults \in Nat /\ faults + 1 <= MaxFaults
            BY <1>1, <5>2
          <6> QED
            BY <1>1, <5>2, <6>1
        <5> QED
          BY <3>2, <5>1, <5>2 DEF RecordError
      <4> QED
        BY <1>1, <2>1, <3>1, <3>2, <4>1 DEF RecordError
    <3>3. CASE \E p \in Indexing \ {"failing"} : Fails(c, p)
      BY <1>1, <2>1, <3>1, <3>3 DEF Fails
    <3> QED
      BY <2>6, <3>2, <3>3
  <2> QED
    BY <1>9, <2>2, <2>3, <2>4, <2>5, <2>6 DEF IndexStep
<1>10. ASSUME NEW c \in Calls, DeleteStep(c)
       PROVE  DataTypes'
  <2>1. CASE Unlink(c)
    BY <1>1, <1>2, <2>1 DEF Unlink, Step
  <2>2. CASE Drop(c)
    BY <1>1, <1>4, <2>2 DEF Drop
  <2>3. CASE DeleteFails(c)
    <3>1. harm' \subseteq Harms
      BY <1>1, <2>3 DEF DeleteFails, Harms
    <3> QED
      BY <1>1, <1>4, <2>3, <3>1 DEF DeleteFails
  <2> QED
    BY <1>10, <2>1, <2>2, <2>3 DEF DeleteStep
<1>11. CASE CleanStep
  <2>1. harm' \subseteq Harms
    BY <1>1, <1>11, CleanKeeps DEF Harms
  <2>2. chunks' \in Seq([of : Versions, no : 1..Parts])
    BY <1>1, <1>2, <1>11, CleanKeeps
  <2>3. /\ UNCHANGED <<file, events, watchVars, debounce>>
        /\ status' \in {status, "none"} /\ hash' \in {hash, None}
    BY <1>11, CleanKeeps
  <2>4. cleaning' \in {"none", "chunks", "index"} /\ saved' \in BOOLEAN
    BY <1>1, <1>11 DEF CleanStep, CleanChunks, CleanIndex, CleaningFails, Cleans
  <2>5. changes' \in 0..MaxChanges /\ faults' \in 0..MaxFaults /\ restarts' \in 0..MaxRestarts
    <3>1. UNCHANGED bounds \/ Fault
      BY <1>11 DEF CleanStep, CleanChunks, CleanIndex, CleaningFails, Cleans
    <3>2. Fault => faults \in Nat /\ faults + 1 <= MaxFaults
      BY <1>1
    <3> QED
      BY <1>1, <3>1, <3>2
  <2> QED
    BY <1>1, <2>1, <2>2, <2>3, <2>4, <2>5
<1> QED
  BY <1>5, <1>6, <1>7, <1>8, <1>9, <1>10, <1>11 DEF Next

LEMMA TypeStep ==
  ASSUME TypeOK, CallInv, [Next]_vars
  PROVE  TypeOK' /\ CallInv'
  BY CallStep, DataStep DEF TypeOK, CallTypes, DataTypes, Harms

-----------------------------------------------------------------------------
CallActs(c) == IndexStep(c) \/ WatchStep(c) \/ DeleteStep(c)

\* What a step of call c leaves alone.
LEMMA Frame ==
  ASSUME TypeOK, CallInv, NEW c \in Calls, CallActs(c)
  PROVE  /\ file' = file
         /\ harm \subseteq harm'
         /\ \A d \in Calls \ {c} :
               /\ seen'[d] = seen[d] /\ part'[d] = part[d]
               /\ \/ at'[d] = at[d]
                  \/ at[d] = "armed" /\ at'[d] = "free"
<1> USE DEF Goto, Step
<1>1. CallTypes
  BY DEF TypeOK, CallTypes
<1> DEFINE Others == \A d \in Calls \ {c} :
               /\ seen'[d] = seen[d] /\ part'[d] = part[d]
               /\ \/ at'[d] = at[d]
                  \/ at[d] = "armed" /\ at'[d] = "free"
<1>2. Return(c) => Others
  BY <1>1 DEF Return, Forget, CallTypes
<1>3. Returns(c) => Others
  BY <1>1 DEF Returns, CallTypes
<1>4. \A e : Goto(c, e) /\ UNCHANGED <<seen, part>> => Others
  BY <1>1 DEF CallTypes
<1>5. \A e \in {"add", "change"} :
         SetTimer(c, e) /\ at[c] \in {"free", "waiting"} /\ UNCHANGED <<seen, part>> => Others
  BY SetsTimer
<1>6. CASE IndexStep(c)
  <2>1. CASE Read(c)
    BY <1>1, <2>1 DEF Read, CallTypes
  <2>2. CASE Check(c) \/ Stamp(c)
    BY <1>3, <1>4, <2>2 DEF Check, Stamp
  <2>3. CASE Mark(c) \/ Clear(c) \/ Embed(c) \/ RecordHash(c) \/ Finish(c)
    BY <1>4, <2>3 DEF Mark, Clear, Embed, RecordHash, Finish
  <2>4. CASE AppendChunk(c)
    BY <1>1, <2>4 DEF AppendChunk, CallTypes
  <2>5. CASE RecordError(c)
    BY <1>2, <1>3, <2>5 DEF RecordError, Throws
  <2>6. CASE \E p \in Indexing \ {"failing"} : Fails(c, p)
    BY <1>4, <2>6 DEF Fails
  <2> QED
    BY <1>6, <2>1, <2>2, <2>3, <2>4, <2>5, <2>6 DEF IndexStep, Read, Check, Mark, Clear,
       Embed, AppendChunk, RecordHash, Finish, Stamp, RecordError, Fails
<1>7. CASE WatchStep(c)
  <2>1. CASE Start(c) \/ Scan(c) \/ Sample(c) \/ ScanFails(c) \/ Fire(c) \/ HandleDelete(c)
    BY <1>4, <2>1 DEF Start, Scan, Sample, ScanFails, Filled, Fire, HandleDelete
  <2>2. CASE Watch(c) \/ CompareFails(c) \/ Track(c)
    BY <1>2, <2>2 DEF Watch, CompareFails, Track
  <2>3. CASE \E e \in {"add", "change"} : HandleChange(c, e)
    BY <1>4, <1>5, <2>3 DEF HandleChange
  <2>4. CASE LookAgain(c)
    BY <1>4, <1>5, <2>4 DEF LookAgain
  <2>5. CASE Compare(c)
    BY <1>2, <1>4, <2>5 DEF Compare
  <2> QED
    BY <1>7, <2>1, <2>2, <2>3, <2>4, <2>5 DEF WatchStep, Start, Scan, Sample, ScanFails,
       Filled, Watch, HandleChange,
       LookAgain, HandleDelete, Fire, Compare, CompareFails, Track
<1>8. CASE DeleteStep(c)
  BY <1>2, <1>4, <1>8 DEF DeleteStep, Unlink, Drop, DeleteFails
<1> QED
  BY <1>6, <1>7, <1>8 DEF CallActs

LEMMA HarmGrows ==
  ASSUME TypeOK, CallInv, [Next]_vars
  PROVE  harm \subseteq harm'
<1>1. CASE UserStep
  BY <1>1 DEF UserStep, Upload, Modify, Remove, Observe
<1>2. CASE Restart
  BY <1>2 DEF Restart
<1>3. CASE \E c \in Calls : CallActs(c)
  BY <1>3, Frame
<1>4. CASE CleanStep \/ UNCHANGED vars
  BY <1>4, CleanKeeps DEF vars
<1> QED
  BY <1>1, <1>2, <1>3, <1>4 DEF Next, CallActs
-----------------------------------------------------------------------------
(* Who works on a document that is pending.                                *)

Marked == Working \ {"marking", "stamping"}

MarkedInv ==
    status = "pending" /\ harm \cap {"killed", "unrecorded"} = {}
        => \E c \in Calls : at[c] \in Marked

LEMMA MarkedStep ==
  ASSUME TypeOK, CallInv, MarkedInv, [Next]_vars
  PROVE  MarkedInv'
<1> USE DEF MarkedInv
<1>1. harm \subseteq harm'
  BY HarmGrows
<1>2. CASE UserStep \/ UNCHANGED vars
  <2>1. UNCHANGED <<status, at>>
    BY <1>2 DEF UserStep, Upload, Modify, Remove, Observe, vars, metaVars, callVars
  <2> QED
    BY <1>1, <2>1
<1>3. CASE Restart
  BY <1>3 DEF Restart
<1>5. CASE CleanStep
  BY <1>1, <1>5, CleanKeeps DEF callVars
<1>4. ASSUME NEW c \in Calls, CallActs(c)
      PROVE  MarkedInv'
  <2>1. \A d \in Calls \ {c} : at[d] \in Marked => at'[d] \in Marked
    BY <1>4, Frame DEF Marked, Working, Indexing
  <2>2. at \in [Calls -> Places]
    BY DEF TypeOK
  <2>3. CASE status' = status /\ (at[c] \in Marked => at'[c] \in Marked)
    BY <1>1, <2>1, <2>3
  <2>4. CASE status' # "pending"
    BY <2>4
  <2>5. CASE "unrecorded" \in harm'
    BY <2>5
  <2>6. CASE at'[c] \in Marked
    BY <2>6
  <2>7. CASE at[c] \notin Marked /\ status' = status
    BY <2>3, <2>7
  <2>8. CASE IndexStep(c)
    <3> USE DEF Step, Goto, Marked, Working, Indexing
    <3>1. CASE Read(c) \/ Check(c) \/ Stamp(c)
      BY <2>7, <3>1 DEF Read, Check, Stamp, metaVars
    <3>2. CASE Mark(c) \/ Clear(c) \/ Embed(c) \/ RecordHash(c)
      BY <2>2, <2>6, <3>2 DEF Mark, Clear, Embed, RecordHash
    <3>3. CASE AppendChunk(c)
      BY <2>2, <2>6, <3>3 DEF AppendChunk, AfterPart
    <3>4. CASE Finish(c)
      BY <2>4, <3>4 DEF Finish
    <3>5. CASE RecordError(c)
      BY <2>4, <2>5, <3>5 DEF RecordError
    <3>6. CASE \E p \in Indexing \ {"failing"} : Fails(c, p)
      BY <2>2, <2>6, <3>6 DEF Fails
    <3> QED
      BY <2>8, <3>1, <3>2, <3>3, <3>4, <3>5, <3>6 DEF IndexStep
  <2>9. CASE WatchStep(c)
    <3>1. at[c] \notin Marked
      BY <2>9 DEF WatchStep, Start, Scan, Sample, ScanFails, Filled, Watch, HandleChange,
         LookAgain, HandleDelete,
         Fire, Compare, CompareFails, Track, Marked, Working, Indexing
    <3>2. status' = status
      BY <2>9 DEF WatchStep, Start, Scan, Sample, ScanFails, Filled, Watch, HandleChange,
         LookAgain, HandleDelete,
         Fire, Compare, CompareFails, Track, metaVars
    <3> QED
      BY <2>7, <3>1, <3>2
  <2>10. CASE DeleteStep(c)
    <3>1. at[c] \notin Marked
      BY <2>10 DEF DeleteStep, Unlink, Drop, DeleteFails, Step, Marked, Working, Indexing,
         Deleting
    <3>2. status' \in {status, "none"}
      BY <2>10 DEF DeleteStep, Unlink, Drop, DeleteFails, metaVars
    <3> QED
      BY <2>4, <2>7, <3>1, <3>2
  <2> QED
    BY <1>4, <2>8, <2>9, <2>10 DEF CallActs
<1> QED
  BY <1>2, <1>3, <1>4, <1>5 DEF Next, CallActs

-----------------------------------------------------------------------------
(* What the service has not handled yet.                                   *)

Unlinked == \E i \in 1..Len(events) : events[i] = "unlink"

\* The last event there is tells whether the document is.
EventInv ==
    /\ watchers = 0 => events = <<>>
    /\ events # <<>> => (events[Len(events)] = "unlink" <=> file = None)

\* A change that is watched is told of, and what was told before stays.
LEMMA UserEvents ==
  ASSUME TypeOK, EventInv, UserStep
  PROVE  /\ EventInv'
         /\ "unwatched" \notin harm' =>
               /\ events' # <<>>
               /\ Unlinked => Unlinked'
               /\ file' = None => Unlinked'
<1> USE NoneAssumption
<1>1. PICK e \in {"add", "change", "unlink"} :
         /\ Observe(e)
         /\ e = "unlink" <=> file' = None
  BY DEF UserStep, Upload, Modify, Remove
<1>2. /\ events' \in Seq({"add", "change", "unlink"})
      /\ Len(events') = Len(events) + watchers
      /\ \A i \in 1..Len(events) : events'[i] = events[i]
      /\ \A i \in 1..watchers : events'[Len(events) + i] = e
  BY <1>1, Observed
<1>3. watchers \in Nat /\ events \in Seq({"add", "change", "unlink"}) /\ watchers' = watchers
  BY <1>1 DEF TypeOK, Observe, watchVars
<1>4. Len(events) \in Nat /\ (events = <<>> <=> Len(events) = 0)
      /\ (events' = <<>> <=> Len(events') = 0)
  BY <1>2, <1>3, EmptySeq, LenProperties
<1>5. CASE watchers = 0
  BY <1>1, <1>2, <1>3, <1>4, <1>5 DEF EventInv, Observe
<1>6. CASE watchers # 0
  <2>1. events'[Len(events')] = e
    BY <1>2, <1>3, <1>4, <1>6
  <2>2. events' # <<>>
    BY <1>2, <1>3, <1>4, <1>6
  <2>3. Unlinked => Unlinked'
    BY <1>2, <1>3, <1>4 DEF Unlinked
  <2>4. file' = None => Unlinked'
    BY <1>1, <1>2, <1>3, <1>4, <1>6, <2>1 DEF Unlinked
  <2> QED
    BY <1>1, <1>3, <1>6, <2>1, <2>2, <2>3, <2>4 DEF EventInv
<1> QED
  BY <1>5, <1>6

\* An event is handled: of those that are left the last is the same.
LEMMA NextEvents ==
  ASSUME TypeOK, EventInv, NEW e, NextEvent(e), UNCHANGED <<file, watchers>>
  PROVE  /\ EventInv'
         /\ e # "unlink" /\ Unlinked => Unlinked'
         /\ file # None /\ e = "unlink" => events' # <<>>
<1>1. /\ events # <<>> /\ events[1] = e
      /\ events' \in Seq({"add", "change", "unlink"})
      /\ Len(events') = Len(events) - 1
      /\ \A i \in 1..Len(events') : events'[i] = events[i + 1]
  BY Popped
<1>2. events \in Seq({"add", "change", "unlink"})
  BY DEF TypeOK
<1>3. Len(events) \in Nat /\ Len(events) # 0 /\ (events' = <<>> <=> Len(events') = 0)
  BY <1>1, <1>2, EmptySeq, LenProperties
<1>4. events' # <<>> => events'[Len(events')] = events[Len(events)]
  BY <1>1, <1>3
<1>5. EventInv'
  BY <1>1, <1>4 DEF EventInv
<1>6. ASSUME e # "unlink", Unlinked
      PROVE  Unlinked'
  <2>1. PICK i \in 1..Len(events) : events[i] = "unlink"
    BY <1>6 DEF Unlinked
  <2>2. i # 1
    BY <1>1, <1>6, <2>1
  <2>3. i - 1 \in 1..Len(events') /\ (i - 1) + 1 = i
    BY <1>1, <1>3, <2>1, <2>2
  <2>4. events'[i - 1] = "unlink"
    BY <1>1, <2>1, <2>3
  <2> QED
    BY <2>3, <2>4 DEF Unlinked
<1>7. file # None /\ e = "unlink" => events' # <<>>
  BY <1>1, <1>3 DEF EventInv
<1> QED
  BY <1>5, <1>6, <1>7

SameEvents == events' = events /\ (Unlinked' <=> Unlinked)

\* The other steps of a call.
LEMMA OtherEvents ==
  ASSUME TypeOK, EventInv, NEW c \in Calls, CallActs(c), ~HandleDelete(c),
         \A e \in {"add", "change"} : ~HandleChange(c, e)
  PROVE  EventInv' /\ SameEvents
<1>1. UNCHANGED <<file, events>>
  <2>1. CASE IndexStep(c)
    BY <2>1 DEF IndexStep, Read, Check, Mark, Clear, Embed, AppendChunk, RecordHash, Finish,
       Stamp, RecordError, Fails, Step
  <2>2. CASE WatchStep(c)
    BY <2>2 DEF WatchStep, Start, Scan, Sample, ScanFails, Filled, Watch, LookAgain, Fire,
       Compare, CompareFails, Track
  <2>3. CASE DeleteStep(c)
    BY <2>3 DEF DeleteStep, Unlink, Drop, DeleteFails, Step
  <2> QED
    BY <2>1, <2>2, <2>3 DEF CallActs
<1>2. SameEvents
  BY <1>1 DEF SameEvents, Unlinked
<1>3. watchers' \in {watchers, watchers + 1}
  <2>1. CASE IndexStep(c)
    BY <2>1 DEF IndexStep, Read, Check, Mark, Clear, Embed, AppendChunk, RecordHash, Finish,
       Stamp, RecordError, Fails, Step, watchVars
  <2>2. CASE WatchStep(c)
    BY <2>2 DEF WatchStep, Start, Scan, Sample, ScanFails, Filled, Watch, LookAgain, Fire,
       Compare, CompareFails, Track,
       watchVars
  <2>3. CASE DeleteStep(c)
    BY <2>3 DEF DeleteStep, Unlink, Drop, DeleteFails, Step, watchVars
  <2> QED
    BY <2>1, <2>2, <2>3 DEF CallActs
<1>4. watchers \in Nat
  BY DEF TypeOK
<1> QED
  BY <1>1, <1>2, <1>3, <1>4 DEF EventInv

LEMMA EventStep ==
  ASSUME TypeOK, CallInv, EventInv, [Next]_vars
  PROVE  EventInv'
<1>1. CASE UserStep
  BY <1>1, UserEvents
<1>2. CASE Restart
  BY <1>2 DEF Restart, EventInv
<1>3. CASE CleanStep \/ UNCHANGED vars
  BY <1>3, CleanKeeps DEF vars, EventInv, watchVars
<1>4. ASSUME NEW c \in Calls, CallActs(c)
      PROVE  EventInv'
  <2>1. CASE HandleDelete(c)
    BY <2>1, NextEvents DEF HandleDelete, watchVars
  <2>2. ASSUME NEW e \in {"add", "change"}, HandleChange(c, e)
        PROVE  EventInv'
    BY <2>2, NextEvents DEF HandleChange, watchVars
  <2> QED
    BY <1>4, <2>1, <2>2, OtherEvents
<1> QED
  BY <1>1, <1>2, <1>3, <1>4 DEF Next, CallActs

-----------------------------------------------------------------------------
(* The calls that work on the document, one at a time unless they overlap. *)

Engaged == Indexing \cup Deleting

Sound == harm \cap {"overlap", "unwatched", "late clean"} = {}

OneBusy == Sound => \A c, d \in Calls : at[c] \in Engaged /\ at[d] \in Engaged => c = d

\* A call that goes to work finds no other at it, or the overlap is noted.
LEMMA Entering ==
  ASSUME TypeOK, CallInv, NEW c \in Calls, CallActs(c),
         at[c] \notin Engaged, at'[c] \in Engaged
  PROVE  /\ at'[c] \in {"reading", "unlinking"}
         /\ UNCHANGED <<metaVars, chunks>>
         /\ "overlap" \notin harm' => \A d \in Calls \ {c} : at[d] \notin Engaged
<1> USE DEF Engaged, Indexing, Deleting, Goto
<1>1. at \in [Calls -> Places]
  BY DEF TypeOK
<1>2. "overlap" \notin Overlap(c) => \A d \in Calls \ {c} : at[d] \notin Engaged
  BY DEF Overlap, Busy
<1>3. ~IndexStep(c) /\ ~DeleteStep(c)
  BY DEF IndexStep, Read, Check, Mark, Clear, Embed, AppendChunk, RecordHash, Finish,
     Stamp, RecordError, Fails, Step, DeleteStep, Unlink, Drop, DeleteFails
<1>4. WatchStep(c)
  BY <1>3 DEF CallActs
<1>5. \A q \in Places : Goto(c, q) => at'[c] = q
  BY <1>1
<1>6. Return(c) => at'[c] = "free"
  BY <1>1 DEF Return
<1>7. ~Start(c) /\ ~Watch(c) /\ ~CompareFails(c) /\ ~Track(c)
  BY <1>1, <1>6 DEF Start, Watch, CompareFails, Track
<1>8. ~LookAgain(c)
  BY <1>1, SetsTimer DEF LookAgain
<1>9. \A e \in {"add", "change"} : ~HandleChange(c, e)
  BY <1>1, SetsTimer DEF HandleChange
<1>10. CASE Scan(c) \/ Sample(c) \/ ScanFails(c)
  BY <1>1, <1>2, <1>10 DEF Scan, Sample, ScanFails, Filled
<1>11. CASE HandleDelete(c)
  BY <1>1, <1>2, <1>11 DEF HandleDelete
<1>12. CASE Fire(c)
  BY <1>1, <1>2, <1>12 DEF Fire
<1>13. CASE Compare(c)
  BY <1>1, <1>2, <1>6, <1>13 DEF Compare
<1> QED
  BY <1>4, <1>7, <1>8, <1>9, <1>10, <1>11, <1>12, <1>13 DEF WatchStep

LEMMA BusyStep ==
  ASSUME TypeOK, CallInv, OneBusy, [Next]_vars
  PROVE  OneBusy'
<1> SUFFICES ASSUME Sound'
             PROVE  \A c, d \in Calls : at'[c] \in Engaged /\ at'[d] \in Engaged => c = d
  BY DEF OneBusy
<1>1. Sound
  BY HarmGrows DEF Sound
<1>2. "free" \notin Engaged /\ "armed" \notin Engaged
  BY DEF Engaged, Indexing, Deleting
<1>3. CASE UserStep \/ CleanStep \/ UNCHANGED vars
  <2>1. at' = at
    BY <1>3, CleanKeeps DEF UserStep, Upload, Modify, Remove, Observe, vars, callVars
  <2> QED
    BY <1>1, <2>1 DEF OneBusy
<1>4. CASE Restart
  BY <1>2, <1>4 DEF Restart
<1>5. ASSUME NEW c \in Calls, CallActs(c)
      PROVE  \A b, d \in Calls : at'[b] \in Engaged /\ at'[d] \in Engaged => b = d
  <2>1. \A d \in Calls \ {c} : at'[d] \in Engaged => at[d] \in Engaged
    BY <1>2, <1>5, Frame
  <2>2. CASE at[c] \in Engaged \/ at'[c] \notin Engaged
    BY <1>1, <2>1, <2>2 DEF OneBusy
  <2>3. CASE at[c] \notin Engaged /\ at'[c] \in Engaged
    <3>1. \A d \in Calls \ {c} : at[d] \notin Engaged
      BY <1>5, <2>3, Entering DEF Sound
    <3> QED
      BY <2>1, <3>1
  <2> QED
    BY <2>2, <2>3
<1> QED
  BY <1>3, <1>4, <1>5 DEF Next, CallActs
-----------------------------------------------------------------------------
(* An indexing that has read the document holds on to it: if it is gone by *)
(* then its removal is not handled yet.                                    *)

Reading == Indexing \ {"reading", "failing"}

HoldInv ==
    Sound => \A c \in Calls : file = None /\ at[c] \in Reading => Unlinked

LEMMA WatchQuiet ==
  ASSUME NEW c \in Calls, WatchStep(c)
  PROVE  UNCHANGED <<status, hash, saved, chunks>> /\ at[c] \notin Engaged
BY DEF WatchStep, Start, Scan, Sample, ScanFails, Filled, Watch, HandleChange, LookAgain,
   HandleDelete, Fire,
   Compare, CompareFails, Track, metaVars, Engaged, Indexing, Deleting

\* The events a call leaves, as far as they tell of a removal.
LEMMA CallEvents ==
  ASSUME TypeOK, EventInv, NEW c \in Calls, CallActs(c)
  PROVE  \/ SameEvents /\ ~HandleDelete(c)
         \/ /\ WatchStep(c) /\ ~HandleDelete(c)
            /\ Unlinked => Unlinked'
            /\ \E e \in {"add", "change"} : HandleChange(c, e)
         \/ /\ HandleDelete(c)
            /\ at'[c] = "unlinking"
            /\ file # None => events' # <<>>
<1>1. CASE HandleDelete(c)
  BY <1>1, NextEvents DEF HandleDelete, watchVars, Goto, TypeOK
<1>2. ASSUME NEW e \in {"add", "change"}, HandleChange(c, e), ~HandleDelete(c)
      PROVE  WatchStep(c) /\ (Unlinked => Unlinked')
  BY <1>2, NextEvents DEF HandleChange, watchVars, WatchStep
<1> QED
  BY <1>1, <1>2, OtherEvents

LEMMA HoldStep ==
  ASSUME TypeOK, CallInv, EventInv, OneBusy, HoldInv, [Next]_vars
  PROVE  HoldInv'
<1> SUFFICES ASSUME Sound', file' = None, NEW b \in Calls, at'[b] \in Reading
             PROVE  Unlinked'
  BY DEF HoldInv
<1>1. Sound
  BY HarmGrows DEF Sound
<1>2. file = None /\ at[b] \in Reading => Unlinked
  BY <1>1 DEF HoldInv
<1>3. CASE UserStep
  BY <1>3, UserEvents DEF Sound
<1>4. CASE CleanStep \/ UNCHANGED vars
  <2>1. UNCHANGED <<file, events, at>>
    BY <1>4, CleanKeeps DEF vars, callVars
  <2> QED
    BY <1>2, <2>1 DEF Unlinked
<1>5. CASE Restart
  BY <1>5 DEF Restart, Reading, Indexing
<1>6. ASSUME NEW c \in Calls, CallActs(c)
      PROVE  Unlinked'
  <2>1. at \in [Calls -> Places] /\ file = None
    BY <1>6, Frame DEF TypeOK
  <2>2. Reading \subseteq Engaged /\ "free" \notin Engaged /\ "reading" \notin Reading
        /\ "unlinking" \notin Reading /\ "unlinking" \in Engaged
    BY DEF Reading, Engaged, Indexing, Deleting
  <2>3. at[b] \in Reading
    <3>1. CASE b # c
      BY <1>6, <2>2, <3>1, Frame
    <3>2. CASE b = c
      <4>1. at[c] \in Engaged
        BY <1>6, <2>2, <3>2, Entering
      <4>2. ~WatchStep(c)
        BY <4>1, WatchQuiet
      <4>3. ~DeleteStep(c)
        BY <2>1, <3>2 DEF DeleteStep, Unlink, Drop, DeleteFails, Step, Return, Goto,
           Reading, Indexing
      <4>4. at[c] # "failing" /\ ~Read(c)
        <5>1. ~Read(c)
          BY <2>1, <3>2 DEF Read, Goto, Reading, Indexing
        <5>2. RecordError(c) => at'[c] \in {"opening", "free"}
          BY <2>1 DEF RecordError, Throws, Returns, Return, Goto, Places
        <5>3. ~RecordError(c)
          BY <3>2, <5>2 DEF Reading, Indexing
        <5> QED
          BY <1>6, <4>2, <4>3, <5>1, <5>3 DEF CallActs, IndexStep, Check, Mark, Clear,
             Embed,
             AppendChunk, RecordHash, Finish, Stamp, Fails, Step
      <4>5. at[c] # "reading"
        <5>1. \A p \in Indexing : ~Fails(c, p)
          BY <2>1, <3>2 DEF Fails, Goto, Reading, Indexing
        <5> QED
          BY <1>6, <4>2, <4>3, <4>4, <5>1 DEF CallActs, IndexStep, Check, Mark, Clear,
             Embed,
             AppendChunk, RecordHash, Finish, Stamp, RecordError, Step
      <4>6. at[c] \in Indexing
        BY <1>6, <4>2, <4>3 DEF CallActs, IndexStep, Read, Check, Mark, Clear, Embed,
             AppendChunk, RecordHash, Finish, Stamp, RecordError, Fails, Step, Indexing
      <4> QED
        BY <3>2, <4>4, <4>5, <4>6 DEF Reading
    <3> QED
      BY <3>1, <3>2
  <2>4. ~HandleDelete(c)
    <3>1. ASSUME HandleDelete(c)
          PROVE  FALSE
      <4>1. at[c] = "free" /\ at'[c] = "unlinking"
        BY <2>1, <3>1 DEF HandleDelete, Goto
      <4>2. at[b] \notin Engaged
        BY <1>6, <2>2, <2>3, <4>1, Entering DEF Sound
      <4> QED
        BY <2>2, <2>3, <4>2
    <3> QED
      BY <3>1
  <2> QED
    BY <1>2, <1>6, <2>1, <2>3, <2>4, CallEvents DEF SameEvents
<1> QED
  BY <1>3, <1>4, <1>5, <1>6 DEF Next, CallActs

-----------------------------------------------------------------------------
(* How far the call that indexes has come.                                 *)

\* s is the first n chunks of version v.
FirstOf(s, v, n) == Len(s) = n /\ \A i \in 1..n : s[i] = Chunk(v, i)

\* From the moment the status is "pending" until it is "indexed".
Filling == {"clearing", "embedding", "appending", "hashing", "finishing"}

ProgressOf(c) ==
    /\ at[c] \in Filling => status = "pending"
    /\ at[c] \in {"embedding", "appending", "hashing", "finishing", "stamping"} =>
          FirstOf(chunks, seen[c], part[c]) \/ Unlinked
    /\ at[c] \in {"finishing", "stamping"} => hash = seen[c]
    /\ at[c] = "stamping" => status = "indexed"
    /\ at[c] = "dropping" => chunks = <<>>

ProgressInv == Sound => \A c \in Calls : ProgressOf(c)

LEMMA FirstOfNothing ==
  ASSUME NEW v
  PROVE  FirstOf(<<>>, v, 0)
BY EmptySeq DEF FirstOf

LEMMA FirstOfNext ==
  ASSUME NEW s \in Seq([of : Versions, no : 1..Parts]), NEW v \in Versions,
         NEW n \in Nat, n < Parts, FirstOf(s, v, n)
  PROVE  FirstOf(Append(s, Chunk(v, n + 1)), v, n + 1)
<1>1. Chunk(v, n + 1) \in [of : Versions, no : 1..Parts]
  BY PartsAssumption DEF Chunk
<1> DEFINE t == Append(s, Chunk(v, n + 1))
<1>2. /\ Len(t) = n + 1
      /\ \A i \in 1..n : t[i] = Chunk(v, i)
      /\ t[n + 1] = Chunk(v, n + 1)
  BY <1>1, AppendProperties DEF FirstOf
<1> HIDE DEF t
<1>3. \A i \in 1..n + 1 : t[i] = Chunk(v, i)
  <2> TAKE i \in 1..n + 1
  <2>1. i \in 1..n \/ i = n + 1
    OBVIOUS
  <2> QED
    BY <1>2, <2>1
<1>4. FirstOf(t, v, n + 1)
  BY <1>2, <1>3 DEF FirstOf
<1> QED
  BY <1>4 DEF t

LEMMA AllOf ==
  ASSUME TypeOK, NEW v \in Versions, FirstOf(chunks, v, Parts)
  PROVE  chunks = Whole(v)
<1>1. chunks \in Seq([of : Versions, no : 1..Parts])
  BY DEF TypeOK
<1>2. chunks = [i \in 1..Len(chunks) |-> chunks[i]]
  BY <1>1, LenProperties
<1>3. Len(chunks) = Parts /\ \A i \in 1..Parts : chunks[i] = Chunk(v, i)
  BY DEF FirstOf
<1> QED
  BY <1>2, <1>3 DEF Whole

LEMMA ProgressStep ==
  ASSUME TypeOK, CallInv, EventInv, OneBusy, HoldInv, ProgressInv, [Next]_vars
  PROVE  ProgressInv'
<1> SUFFICES ASSUME Sound', NEW b \in Calls
             PROVE  ProgressOf(b)'
  BY DEF ProgressInv
<1> USE NoneAssumption
<1>1. Sound
  BY HarmGrows DEF Sound
<1>2. ProgressOf(b)
  BY <1>1 DEF ProgressInv
<1>3. CASE UserStep
  <2>1. /\ Unlinked => Unlinked'
        /\ file' = None => Unlinked'
    BY <1>3, UserEvents DEF Sound
  <2>2. UNCHANGED <<at, seen, part, status, hash>>
    BY <1>3 DEF UserStep, Upload, Modify, Remove, Observe, metaVars, callVars
  <2>3. chunks' = chunks
    BY <1>3 DEF UserStep, Upload, Modify, Remove, Observe
  <2> QED
    BY <1>2, <2>1, <2>2, <2>3 DEF ProgressOf
<1>4. CASE UNCHANGED vars
  BY <1>2, <1>4 DEF vars, callVars, metaVars, ProgressOf, Unlinked
<1>5. CASE Restart
  BY <1>5 DEF Restart, ProgressOf, Filling
<1>7. CASE CleanStep
  <2>1. UNCHANGED <<file, events, at, seen, part>> /\ (Unlinked' <=> Unlinked)
    BY <1>7, CleanKeeps DEF callVars, Unlinked
  <2>2. /\ chunks' \in {chunks, <<>>}
        /\ UNCHANGED <<status, hash, chunks>> \/ file = None
        /\ UNCHANGED <<status, hash>> \/ Unloaded
    BY <1>7, CleanKeeps DEF Sound, metaVars
  <2>3. CASE at[b] \in {"free", "scanning", "sampling"}
    BY <2>1, <2>3 DEF ProgressOf, Filling
  <2>4. CASE at[b] \notin {"free", "scanning", "sampling"}
    <3>1. UNCHANGED <<status, hash>>
      BY <2>2, <2>4 DEF Unloaded
    <3>2. {"embedding", "appending", "hashing", "finishing", "stamping"} \subseteq Reading
      BY DEF Reading, Indexing
    <3>3. file = None /\ at[b] \in Reading => Unlinked
      BY <1>1 DEF HoldInv
    <3> QED
      BY <1>2, <2>1, <2>2, <3>1, <3>2, <3>3 DEF ProgressOf
  <2> QED
    BY <2>3, <2>4
<1>6. ASSUME NEW c \in Calls, CallActs(c)
      PROVE  ProgressOf(b)'
  <2> USE DEF Engaged, Indexing, Deleting, Filling
  <2>1. at \in [Calls -> Places]
    BY DEF TypeOK
  <2>2. (Unlinked => Unlinked') \/ at'[c] = "unlinking"
    BY <1>6, CallEvents DEF SameEvents
  <2>3. CASE b # c
    <3>1. /\ seen'[b] = seen[b] /\ part'[b] = part[b]
          /\ at'[b] = at[b] \/ at'[b] = "free"
      BY <1>6, <2>3, Frame
    <3>2. CASE at[b] \in Engaged
      <4>1. at[c] \notin Engaged /\ at'[c] \notin Engaged
        BY <1>1, <1>6, <2>3, <3>2, Entering DEF OneBusy, Sound
      <4>2. WatchStep(c)
        BY <1>6, <4>1 DEF CallActs, IndexStep, Read, Check, Mark, Clear, Embed, AppendChunk,
           RecordHash, Finish, Stamp, RecordError, Fails, Step, DeleteStep, Unlink, Drop,
           DeleteFails
      <4>3. UNCHANGED <<status, hash, chunks>>
        BY <4>2, WatchQuiet
      <4> QED
        BY <1>2, <2>2, <3>1, <4>1, <4>3 DEF ProgressOf
    <3>3. CASE at[b] \notin Engaged
      BY <3>1, <3>3 DEF ProgressOf
    <3> QED
      BY <3>2, <3>3
  <2>4. CASE b = c /\ at'[c] \notin Engaged
    BY <2>4 DEF ProgressOf
  <2>5. CASE b = c /\ at'[c] \in Engaged
    <3>1. CASE WatchStep(c)
      <4>1. at'[c] \in {"reading", "unlinking"}
        BY <1>6, <2>5, <3>1, WatchQuiet, Entering
      <4> QED
        BY <2>5, <4>1 DEF ProgressOf
    <3>2. CASE DeleteStep(c)
      BY <2>1, <2>5, <3>2 DEF DeleteStep, Unlink, Drop, DeleteFails, Step, Goto, Return,
         ProgressOf
    <3>3. CASE IndexStep(c)
      <4>1. CASE Read(c) \/ Check(c) \/ Stamp(c) \/ RecordError(c)
               \/ \E p \in Indexing \ {"failing"} : Fails(c, p)
        <5>1. Returns(c) \/ Throws(c) => at'[c] \notin Engaged
          BY <2>1 DEF Returns, Throws, Return, Goto
        <5>2. at'[c] \in {"checking", "marking", "failing"}
          BY <2>1, <2>5, <4>1, <5>1 DEF Read, Check, Stamp, RecordError, Fails, Goto
        <5> QED
          BY <2>5, <5>2 DEF ProgressOf
      <4>2. CASE Mark(c)
        BY <2>1, <2>5, <4>2 DEF Mark, Step, Goto, ProgressOf
      <4>3. CASE Clear(c)
        <5>1. part[c] = 0 /\ part'[c] = 0 /\ at'[c] = "embedding" /\ chunks' = <<>>
              /\ status' = status /\ at[c] = "clearing"
          BY <2>1, <4>3 DEF Clear, Step, Goto, CallInv, metaVars
        <5>2. FirstOf(<<>>, seen'[c], 0)
          BY FirstOfNothing
        <5> QED
          BY <1>2, <2>5, <5>1, <5>2 DEF ProgressOf
      <4>4. CASE Embed(c) \/ RecordHash(c) \/ Finish(c)
        <5>1. UNCHANGED <<chunks, part, seen, events>>
          BY <4>4 DEF Embed, RecordHash, Finish, Step
        <5>2. Unlinked' <=> Unlinked
          BY <5>1 DEF Unlinked
        <5>3. CASE Embed(c)
          BY <1>2, <2>1, <2>5, <5>1, <5>2, <5>3 DEF Embed, Step, Goto, ProgressOf, metaVars
        <5>4. CASE RecordHash(c)
          BY <1>2, <2>1, <2>5, <5>1, <5>2, <5>4 DEF RecordHash, Step, Goto, ProgressOf
        <5>5. CASE Finish(c)
          BY <1>2, <2>1, <2>5, <5>1, <5>2, <5>5 DEF Finish, Step, Goto, ProgressOf
        <5> QED
          BY <4>4, <5>3, <5>4, <5>5
      <4>5. CASE AppendChunk(c)
        <5>1. /\ at[c] = "appending" /\ at'[c] \in {"embedding", "hashing"}
              /\ UNCHANGED <<events, status, hash>> /\ seen'[c] = seen[c]
              /\ chunks' = Append(chunks, Chunk(seen[c], part[c] + 1))
          BY <2>1, <4>5 DEF AppendChunk, Step, Goto, AfterPart, metaVars
        <5>2. part'[c] = part[c] + 1 /\ part[c] \in Nat /\ part[c] < Parts
              /\ seen[c] \in Versions
          <6>1. part \in [Calls -> 0..Parts] /\ part' = [part EXCEPT ![c] = @ + 1]
            BY <4>5 DEF AppendChunk, TypeOK
          <6>2. part[c] < Parts /\ seen[c] \in Versions
            BY <5>1 DEF CallInv
          <6> QED
            BY <6>1, <6>2, PartsAssumption
        <5>3. chunks \in Seq([of : Versions, no : 1..Parts])
          BY DEF TypeOK
        <5>4. FirstOf(chunks, seen[c], part[c]) => FirstOf(chunks', seen'[c], part'[c])
          BY <5>1, <5>2, <5>3, FirstOfNext
        <5>5. Unlinked => Unlinked'
          BY <5>1 DEF Unlinked
        <5> QED
          BY <1>2, <2>5, <5>1, <5>4, <5>5 DEF ProgressOf
      <4> QED
        BY <3>3, <4>1, <4>2, <4>3, <4>4, <4>5 DEF IndexStep
    <3> QED
      BY <1>6, <3>1, <3>2, <3>3 DEF CallActs
  <2> QED
    BY <2>3, <2>4, <2>5
<1> QED
  BY <1>3, <1>4, <1>5, <1>6, <1>7 DEF Next, CallActs

-----------------------------------------------------------------------------
(* What a document that counts as indexed has.                             *)

Deletes == \E c \in Calls : at[c] \in Deleting

WholeInv ==
    Sound /\ "unremoved" \notin harm /\ status = "indexed" =>
       \/ file # None /\ hash \in Versions /\ FirstOf(chunks, hash, Parts)
       \/ Unlinked
       \/ Deletes

\* At rest there is nothing to handle and nobody at work.
LEMMA AtRest ==
  ASSUME TypeOK, Settled
  PROVE  ~Unlinked /\ ~Deletes /\ \A c \in Calls : at[c] = "free"
<1>1. events = <<>> /\ \A c \in Calls : at[c] = "free"
  BY DEF Settled
<1>2. ~Unlinked
  BY <1>1, EmptySeq DEF Unlinked
<1> QED
  BY <1>1, <1>2 DEF Deletes, Deleting

\* A call that deletes goes on, as long as another one takes the step.
LEMMA OthersDelete ==
  ASSUME TypeOK, CallInv, NEW c \in Calls, CallActs(c), at[c] \notin Deleting
  PROVE  Deletes => Deletes'
BY Frame DEF Deletes, Deleting

LEMMA WholeStep ==
  ASSUME TypeOK, CallInv, EventInv, OneBusy, HoldInv, ProgressInv, WholeInv,
         [Next]_vars
  PROVE  WholeInv'
<1> USE NoneAssumption
<1> DEFINE Kept == \/ file' # None /\ hash' \in Versions /\ FirstOf(chunks', hash', Parts)
                   \/ Unlinked'
                   \/ Deletes'
<1> SUFFICES ASSUME Sound', "unremoved" \notin harm', status' = "indexed"
             PROVE  Kept
  BY DEF WholeInv
<1>1. Sound /\ "unremoved" \notin harm
  BY HarmGrows DEF Sound
<1>2. status = "indexed" => \/ file # None /\ hash \in Versions /\ FirstOf(chunks, hash, Parts)
                            \/ Unlinked
                            \/ Deletes
  BY <1>1 DEF WholeInv
<1>3. \A c \in Calls : ProgressOf(c)
  BY <1>1 DEF ProgressInv
<1>4. CASE UserStep
  <2>1. /\ Unlinked => Unlinked'
        /\ file' = None => Unlinked'
    BY <1>4, UserEvents DEF Sound
  <2>2. UNCHANGED <<at, status, hash>>
    BY <1>4 DEF UserStep, Upload, Modify, Remove, Observe, metaVars, callVars
  <2>3. chunks' = chunks
    BY <1>4 DEF UserStep, Upload, Modify, Remove, Observe
  <2>4. Deletes' <=> Deletes
    BY <2>2 DEF Deletes
  <2> QED
    BY <1>2, <2>1, <2>2, <2>3, <2>4
<1>5. CASE UNCHANGED vars
  BY <1>2, <1>5 DEF vars, callVars, metaVars, Unlinked, Deletes
<1>6. CASE Restart
  <2>1. Settled /\ UNCHANGED <<file, status, hash, chunks>>
    BY <1>6, RestartKeeps DEF Restart, Sound
  <2> QED
    BY <1>2, <2>1, AtRest
<1>8. CASE CleanStep
  <2>1. UNCHANGED <<file, events, at, status, hash>>
    BY <1>8, CleanKeeps DEF callVars
  <2>2. (Unlinked' <=> Unlinked) /\ (Deletes' <=> Deletes)
    BY <2>1 DEF Unlinked, Deletes
  <2>3. chunks' = chunks \/ file = None
    BY <1>8, CleanKeeps DEF Sound
  <2> QED
    BY <1>2, <2>1, <2>2, <2>3
<1>7. ASSUME NEW c \in Calls, CallActs(c)
      PROVE  Kept
  <2>1. at \in [Calls -> Places] /\ file' = file
    BY <1>7, Frame DEF TypeOK
  <2>2. (Unlinked => Unlinked') \/ Deletes'
    BY <1>7, CallEvents DEF SameEvents, Deletes, Deleting
  <2>3. CASE WatchStep(c)
    <3>1. UNCHANGED <<status, hash, chunks>> /\ at[c] \notin Deleting
      BY <2>3, WatchQuiet DEF Engaged
    <3>2. Deletes => Deletes'
      BY <1>7, <3>1, OthersDelete
    <3> QED
      BY <1>2, <2>1, <2>2, <3>1, <3>2
  <2>4. CASE IndexStep(c)
    <3>1. at[c] \in Indexing /\ at[c] \notin Deleting
      BY <2>4 DEF IndexStep, Read, Check, Mark, Clear, Embed, AppendChunk, RecordHash,
         Finish, Stamp, RecordError, Fails, Step, Indexing, Deleting
    <3>2. Deletes => Deletes'
      BY <1>7, <3>1, OthersDelete
    <3>3. CASE UNCHANGED <<status, hash, chunks>>
      BY <1>2, <2>1, <2>2, <3>2, <3>3
    <3>4. CASE Read(c) \/ Check(c) \/ Embed(c) \/ Stamp(c)
                 \/ \E p \in Indexing \ {"failing"} : Fails(c, p)
      BY <3>3, <3>4 DEF Read, Check, Embed, Stamp, Fails, Step, metaVars
    <3>5. CASE Mark(c)
      BY <3>5 DEF Mark
    <3>6. CASE Clear(c) \/ AppendChunk(c) \/ RecordHash(c)
      <4>1. at[c] \in Filling /\ status' = status
        BY <3>6 DEF Clear, AppendChunk, RecordHash, Step, Filling, metaVars
      <4> QED
        BY <1>3, <4>1 DEF ProgressOf
    <3>7. CASE Finish(c)
      <4>1. at[c] = "finishing" /\ UNCHANGED <<hash, chunks, events>>
        BY <3>7 DEF Finish, Step
      <4>2. hash = seen[c] /\ part[c] = Parts /\ seen[c] \in Versions
            /\ (FirstOf(chunks, seen[c], part[c]) \/ Unlinked)
            /\ (file # None \/ Unlinked)
        BY <1>1, <1>3, <4>1 DEF HoldInv, ProgressOf, CallInv, Reading, Indexing
      <4>3. Unlinked => Unlinked'
        BY <4>1 DEF Unlinked
      <4> QED
        BY <2>1, <4>1, <4>2, <4>3
    <3>8. CASE RecordError(c)
      <4>1. UNCHANGED <<status, hash, chunks>>
        BY <3>8 DEF RecordError
      <4> QED
        BY <3>3, <4>1
    <3> QED
      BY <2>4, <3>4, <3>5, <3>6, <3>7, <3>8 DEF IndexStep
  <2>5. CASE DeleteStep(c)
    <3>1. CASE Unlink(c)
      BY <2>1, <3>1 DEF Unlink, Step, Goto, Deletes, Deleting
    <3>2. CASE Drop(c)
      BY <3>2 DEF Drop
    <3>3. CASE DeleteFails(c)
      BY <3>3 DEF DeleteFails
    <3> QED
      BY <2>5, <3>1, <3>2, <3>3 DEF DeleteStep
  <2> QED
    BY <1>7, <2>3, <2>4, <2>5 DEF CallActs
<1> QED
  BY <1>4, <1>5, <1>6, <1>7, <1>8 DEF Next, CallActs
-----------------------------------------------------------------------------
(* What a document that was removed leaves.                                *)

Empty == status = "none" /\ hash = None /\ chunks = <<>>

GoneInv ==
    harm \subseteq {"masked"} /\ file = None =>
       \/ Unlinked
       \/ /\ \A c \in Calls : at[c] \notin Indexing \cup {"armed"}
          /\ Deletes \/ Empty

LEMMA GoneStep ==
  ASSUME TypeOK, CallInv, EventInv, OneBusy, ProgressInv, GoneInv, [Next]_vars
  PROVE  GoneInv'
<1> USE NoneAssumption
<1> DEFINE Idle == \A c \in Calls : at[c] \notin Indexing \cup {"armed"}
           Kept == Unlinked' \/ (Idle' /\ (Deletes' \/ Empty'))
<1> SUFFICES ASSUME harm' \subseteq {"masked"}, file' = None
             PROVE  Kept
  BY DEF GoneInv
<1>1. harm \subseteq {"masked"} /\ Sound /\ Sound'
  BY HarmGrows DEF Sound
<1>2. file = None => Unlinked \/ (Idle /\ (Deletes \/ Empty))
  BY <1>1 DEF GoneInv
<1>3. \A c \in Calls : ProgressOf(c)
  BY <1>1 DEF ProgressInv
<1>4. CASE UserStep
  BY <1>1, <1>4, UserEvents DEF Sound
<1>5. CASE UNCHANGED vars
  BY <1>2, <1>5 DEF vars, callVars, metaVars, Unlinked, Deletes, Empty
<1>6. CASE Restart
  <2>1. Settled /\ UNCHANGED <<file, chunks>> /\ Idle'
    BY <1>1, <1>6 DEF Restart, Sound, Indexing
  <2> QED
    BY <1>2, <1>6, <2>1, AtRest, RestartKeeps DEF Empty
<1>8. CASE CleanStep
  <2>1. UNCHANGED <<file, events, at>>
    BY <1>8, CleanKeeps DEF callVars
  <2>2. (Unlinked' <=> Unlinked) /\ (Deletes' <=> Deletes) /\ (Idle' <=> Idle)
    BY <2>1 DEF Unlinked, Deletes
  <2>3. Empty => Empty'
    BY <1>8, CleanKeeps DEF Empty
  <2> QED
    BY <1>2, <2>1, <2>2, <2>3
<1>7. ASSUME NEW c \in Calls, CallActs(c)
      PROVE  Kept
  <2>1. at \in [Calls -> Places]
    BY DEF TypeOK
  <2>2. file = None
    BY <1>7, Frame
  <2>3. Idle /\ at'[c] \notin Indexing \cup {"armed"} => Idle'
    BY <1>7, Frame DEF Indexing
  <2>4. CASE HandleDelete(c)
    <3>1. at[c] = "free" /\ at'[c] = "unlinking" /\ Armed = {}
      BY <1>1, <2>1, <2>4 DEF HandleDelete, Goto
    <3>2. \A d \in Calls \ {c} : at[d] \notin Engaged
      BY <1>1, <1>7, <3>1, Entering DEF Sound, Engaged, Indexing, Deleting
    <3>3. Idle
      BY <3>1, <3>2 DEF Engaged, Armed, Indexing
    <3> QED
      BY <2>3, <3>1, <3>3 DEF Deletes, Deleting, Indexing
  <2>5. CASE Unlinked /\ ~HandleDelete(c)
    BY <1>7, <2>5, CallEvents DEF SameEvents
  <2>6. CASE ~Unlinked /\ ~HandleDelete(c)
    <3>1. Idle /\ (Deletes \/ Empty)
      BY <1>2, <2>2, <2>6
    <3>2. CASE WatchStep(c)
      <4>1. UNCHANGED <<status, hash, chunks>> /\ at[c] \notin Deleting
        BY <3>2, WatchQuiet DEF Engaged
      <4>2. at'[c] \notin Indexing \cup {"armed"}
        <5> USE DEF Goto, Indexing
        <5>1. Return(c) => at'[c] = "free"
          BY <2>1 DEF Return
        <5>2. CASE Start(c) \/ Scan(c) \/ Sample(c) \/ ScanFails(c) \/ LookAgain(c)
          BY <2>1, <2>2, <5>2 DEF Start, Scan, Sample, ScanFails, LookAgain
        <5>3. CASE Watch(c) \/ CompareFails(c) \/ Track(c) \/ Compare(c)
          BY <2>2, <5>1, <5>3 DEF Watch, CompareFails, Track, Compare
        <5>4. CASE \E e \in {"add", "change"} : HandleChange(c, e)
          BY <2>1, <2>2, <5>4 DEF HandleChange
        <5>5. CASE Fire(c)
          BY <3>1, <5>5 DEF Fire
        <5> QED
          BY <2>6, <3>2, <5>2, <5>3, <5>4, <5>5 DEF WatchStep
      <4>3. Deletes => Deletes'
        BY <1>7, <4>1, OthersDelete
      <4> QED
        BY <2>3, <3>1, <4>1, <4>2, <4>3 DEF Empty
    <3>3. CASE IndexStep(c)
      BY <3>1, <3>3 DEF IndexStep, Read, Check, Mark, Clear, Embed, AppendChunk, RecordHash,
         Finish, Stamp, RecordError, Fails, Step, Indexing
    <3>4. CASE DeleteStep(c)
      <4>1. CASE Unlink(c)
        BY <2>1, <2>3, <3>1, <4>1 DEF Unlink, Step, Goto, Deletes, Deleting, Indexing
      <4>2. CASE Drop(c)
        <5>1. at'[c] = "free"
          BY <2>1, <4>2 DEF Drop, Return, Goto
        <5>2. Empty'
          BY <1>3, <4>2 DEF Drop, ProgressOf, Empty
        <5> QED
          BY <2>3, <3>1, <5>1, <5>2 DEF Indexing
      <4>3. CASE DeleteFails(c)
        BY <4>3 DEF DeleteFails
      <4> QED
        BY <3>4, <4>1, <4>2, <4>3 DEF DeleteStep
    <3> QED
      BY <1>7, <3>2, <3>3, <3>4 DEF CallActs
  <2> QED
    BY <2>4, <2>5, <2>6
<1> QED
  BY <1>4, <1>5, <1>6, <1>7, <1>8 DEF Next, CallActs

-----------------------------------------------------------------------------
(* How the index follows the document.                                     *)

Clean == harm \subseteq {"late timer"}

RemovedInv ==
    Clean =>
       /\ file = None /\ hash # None => Unlinked \/ Deletes
       /\ \A c \in Calls : /\ file = None /\ at[c] \in Reading => Unlinked
                           /\ at[c] = "failing" /\ hash # None => Unlinked

HashInv ==
    Clean /\ hash # None =>
       \/ status = "indexed" /\ FirstOf(chunks, hash, Parts)
       \/ Unlinked
       \/ \E c \in Calls : at[c] \in Filling \cup Deleting

Current == status = "indexed" /\ hash = file /\ FirstOf(chunks, file, Parts)

\* What is still to come, unless the index is current: an event, a timer
\* that will read the document, or an indexing of it as it is.
FollowInv ==
    Clean /\ file # None =>
       \/ events # <<>>
       \/ \E c \in Calls : \/ at[c] \in {"armed", "waiting", "comparing", "reading"}
                           \/ at[c] \in Reading /\ seen[c] = file
       \/ Current /\ \A c \in Calls : at[c] \notin Engaged

LEMMA CleanIsSound ==
  ASSUME TypeOK, CallInv, [Next]_vars, Clean'
  PROVE  Clean /\ Sound /\ Sound'
BY HarmGrows DEF Clean, Sound

\* A removal that is not handled yet leaves an event.
LEMMA UnlinkedIsEvent ==
  ASSUME TypeOK, Unlinked
  PROVE  events # <<>>
BY EmptySeq DEF Unlinked

LEMMA RemovedStep ==
  ASSUME TypeOK, CallInv, EventInv, OneBusy, RemovedInv, [Next]_vars
  PROVE  RemovedInv'
<1> USE NoneAssumption
<1> DEFINE P1 == file = None /\ hash # None => Unlinked \/ Deletes
           P2(b) == /\ file = None /\ at[b] \in Reading => Unlinked
                    /\ at[b] = "failing" /\ hash # None => Unlinked
           Q1 == file' = None /\ hash' # None => Unlinked' \/ Deletes'
           Q2(b) == /\ file' = None /\ at'[b] \in Reading => Unlinked'
                    /\ at'[b] = "failing" /\ hash' # None => Unlinked'
<1> SUFFICES ASSUME Clean'
             PROVE  Q1 /\ \A b \in Calls : Q2(b)
  BY DEF RemovedInv
<1>1. Clean /\ Sound /\ Sound'
  BY CleanIsSound
<1>2. P1 /\ \A b \in Calls : P2(b)
  BY <1>1 DEF RemovedInv
<1>3. CASE UserStep
  <2>1. /\ Unlinked => Unlinked'
        /\ file' = None => Unlinked'
    BY <1>1, <1>3, UserEvents DEF Sound
  <2>2. UNCHANGED <<at, hash>>
    BY <1>3 DEF UserStep, Upload, Modify, Remove, Observe, metaVars, callVars
  <2> QED
    BY <1>2, <2>1, <2>2
<1>4. CASE UNCHANGED vars
  BY <1>2, <1>4 DEF vars, callVars, metaVars, Unlinked, Deletes
<1>5. CASE Restart
  <2>1. /\ Settled /\ file' = file /\ hash' \in {hash, None}
        /\ \A b \in Calls : at'[b] = "free"
    BY <1>1, <1>5 DEF Restart, Sound
  <2> QED
    BY <1>2, <2>1, AtRest DEF Reading, Indexing
<1>7. CASE CleanStep
  <2>1. UNCHANGED <<file, events, at>> /\ hash' \in {hash, None}
    BY <1>7, CleanKeeps DEF callVars
  <2>2. (Unlinked' <=> Unlinked) /\ (Deletes' <=> Deletes)
    BY <2>1 DEF Unlinked, Deletes
  <2> QED
    BY <1>2, <2>1, <2>2
<1>6. ASSUME NEW c \in Calls, CallActs(c)
      PROVE  Q1 /\ \A b \in Calls : Q2(b)
  <2> HIDE DEF P1, P2, Q1, Q2
  <2>1. at \in [Calls -> Places] /\ file' = file
    BY <1>6, Frame DEF TypeOK
  <2>2. \A b \in Calls \ {c} : at'[b] = at[b] \/ at'[b] \notin Engaged
    BY <1>6, Frame DEF Engaged, Indexing, Deleting
  <2>3. \A b \in Calls : at[b] \in Engaged /\ at[c] \in Engaged => b = c
    BY <1>1 DEF OneBusy
  <2>4. Reading \subseteq Engaged /\ "failing" \in Engaged /\ "failing" \notin Deleting
        /\ Deleting \subseteq Engaged /\ "reading" \notin Reading /\ "unlinking" \notin Reading
    BY DEF Reading, Engaged, Indexing, Deleting
  <2>5. CASE HandleDelete(c)
    <3>1. at'[c] = "unlinking" /\ at[c] \notin Engaged /\ at'[c] \in Engaged
      BY <2>1, <2>5 DEF HandleDelete, Goto, Engaged, Indexing, Deleting
    <3>2. \A d \in Calls \ {c} : at[d] \notin Engaged
      BY <1>1, <1>6, <3>1, Entering DEF Sound
    <3>3. Q1
      BY <3>1 DEF Q1, Deletes, Deleting
    <3>4. \A b \in Calls : Q2(b)
      BY <2>2, <2>4, <3>1, <3>2 DEF Q2
    <3> QED
      BY <3>3, <3>4
  <2>6. CASE WatchStep(c) /\ ~HandleDelete(c)
    <3>1. hash' = hash /\ at[c] \notin Engaged
      BY <2>6, WatchQuiet
    <3>2. Unlinked => Unlinked'
      BY <1>6, <2>6, CallEvents DEF SameEvents
    <3>3. Deletes => Deletes'
      BY <1>6, <2>4, <3>1, OthersDelete
    <3>4. at'[c] \in {"reading", "unlinking"} \/ at'[c] \notin Engaged
      BY <1>6, <3>1, Entering
    <3>5. \A b \in Calls : Q2(b)
      BY <1>2, <2>1, <2>2, <2>4, <3>1, <3>2, <3>4 DEF P2, Q2
    <3>6. Q1
      BY <1>2, <2>1, <3>1, <3>2, <3>3 DEF P1, Q1
    <3> QED
      BY <3>5, <3>6
  <2>7. CASE ~WatchStep(c)
    <3>1. SameEvents
      BY <1>6, <2>7, CallEvents DEF WatchStep
    <3>2. at[c] \in Engaged
      BY <1>6, <2>7 DEF CallActs, IndexStep, Read, Check, Mark, Clear, Embed, AppendChunk,
         RecordHash, Finish, Stamp, RecordError, Fails, Step, DeleteStep, Unlink, Drop,
         DeleteFails, Engaged, Indexing, Deleting
    <3>3. \A b \in Calls \ {c} : at'[b] \notin Engaged
      BY <2>2, <2>3, <3>2
    <3>4. Q2(c) => \A b \in Calls : Q2(b)
      BY <2>4, <3>3 DEF Q2
    <3>5. Deletes => at[c] \in Deleting
      BY <2>3, <2>4, <3>2 DEF Deletes
    <3>6. CASE Unlinked
      BY <3>1, <3>6 DEF SameEvents, Q1, Q2
    <3>7. CASE ~Unlinked /\ DeleteStep(c)
      <4>1. CASE Unlink(c)
        <5>1. at'[c] = "dropping"
          BY <2>1, <4>1 DEF Unlink, Step, Goto
        <5> QED
          BY <3>4, <5>1 DEF Q1, Q2, Deletes, Deleting, Reading, Indexing
      <4>2. CASE Drop(c)
        <5>1. at'[c] = "free" /\ hash' = None
          BY <2>1, <4>2 DEF Drop, Return, Goto
        <5> QED
          BY <3>4, <5>1 DEF Q1, Q2, Reading, Indexing
      <4>3. CASE DeleteFails(c)
        BY <4>3 DEF DeleteFails, Clean
      <4> QED
        BY <3>7, <4>1, <4>2, <4>3 DEF DeleteStep
    <3>8. CASE ~Unlinked /\ IndexStep(c)
      <4> USE DEF Goto
      <4>1. ~(file = None /\ at[c] \in Reading) /\ ~(at[c] = "failing" /\ hash # None)
        BY <1>2, <3>8 DEF P2
      <4>2. at[c] \notin Deleting
        BY <3>8 DEF IndexStep, Read, Check, Mark, Clear, Embed, AppendChunk, RecordHash,
           Finish, Stamp, RecordError, Fails, Step, Indexing, Deleting
      <4>3. file = None => hash = None
        BY <1>2, <3>5, <3>8, <4>2 DEF P1
      <4>4. CASE Read(c)
        <5>1. hash' = hash
          BY <4>4 DEF Read, metaVars
        <5>2. \/ file = None /\ at'[c] = "failing"
              \/ file # None /\ at'[c] = "checking"
          BY <2>1, <4>4 DEF Read
        <5> QED
          BY <2>1, <3>4, <4>3, <5>1, <5>2 DEF Q1, Q2, Reading
      <4>5. CASE RecordError(c)
        <5>1. hash' = hash /\ at'[c] \in {"opening", "free"}
          BY <2>1, <4>5 DEF RecordError, Throws, Returns, Return, Places
        <5> QED
          BY <2>1, <3>4, <4>3, <5>1 DEF Q1, Q2, Reading, Indexing
      <4>6. CASE ~Read(c) /\ ~RecordError(c)
        <5>1. at[c] \in Reading /\ at'[c] # "failing"
          <6>1. ASSUME NEW p \in Indexing \ {"failing"}, Fails(c, p)
                PROVE  FALSE
            <7>1. "failed" \in harm'
              BY <6>1 DEF Fails
            <7> QED
              BY <7>1 DEF Clean
          <6>2. Returns(c) => at'[c] \in {"opening", "tracking"}
            BY <2>1 DEF Returns
          <6> QED
            BY <2>1, <3>8, <4>6, <6>1, <6>2 DEF IndexStep, Check, Mark, Clear, Embed,
               AppendChunk, AfterPart, RecordHash, Finish, Stamp, Step, Reading, Indexing
        <5>2. file # None
          BY <4>1, <5>1
        <5> QED
          BY <2>1, <3>4, <5>1, <5>2 DEF Q1, Q2
      <4> QED
        BY <4>4, <4>5, <4>6
    <3> QED
      BY <1>6, <2>7, <3>6, <3>7, <3>8 DEF CallActs
  <2> QED
    BY <2>5, <2>6, <2>7
<1> QED
  BY <1>3, <1>4, <1>5, <1>6, <1>7 DEF Next, CallActs


LEMMA HashStep ==
  ASSUME TypeOK, CallInv, EventInv, OneBusy, ProgressInv, RemovedInv, HashInv, [Next]_vars
  PROVE  HashInv'
<1> USE NoneAssumption
<1> DEFINE Full == \E c \in Calls : at[c] \in Filling
           Kept == \/ status' = "indexed" /\ FirstOf(chunks', hash', Parts)
                   \/ Unlinked'
                   \/ Full' \/ Deletes'
<1> SUFFICES ASSUME Clean', hash' # None
             PROVE  Kept
  BY DEF HashInv, Deletes
<1>1. Clean /\ Sound /\ Sound'
  BY CleanIsSound
<1>2. hash # None => \/ status = "indexed" /\ FirstOf(chunks, hash, Parts)
                     \/ Unlinked
                     \/ Full \/ Deletes
  BY <1>1 DEF HashInv, Deletes
<1>3. \A c \in Calls : ProgressOf(c)
  BY <1>1 DEF ProgressInv
<1>4. CASE UserStep
  <2>1. /\ Unlinked => Unlinked'
        /\ file' = None => Unlinked'
    BY <1>1, <1>4, UserEvents DEF Sound
  <2>2. UNCHANGED <<at, status, hash>>
    BY <1>4 DEF UserStep, Upload, Modify, Remove, Observe, metaVars, callVars
  <2>3. chunks' = chunks
    BY <1>4 DEF UserStep, Upload, Modify, Remove, Observe
  <2>4. Deletes' <=> Deletes
    BY <2>2 DEF Deletes
  <2> QED
    BY <1>2, <2>1, <2>2, <2>3, <2>4
<1>5. CASE UNCHANGED vars
  BY <1>2, <1>5 DEF vars, callVars, metaVars, Unlinked, Deletes
<1>6. CASE Restart
  <2>1. Settled /\ UNCHANGED <<status, hash, chunks>>
    BY <1>1, <1>6, RestartKeeps DEF Restart, Sound
  <2>2. ~Full
    BY <2>1, AtRest DEF Filling
  <2> QED
    BY <1>2, <2>1, <2>2, AtRest
<1>8. CASE CleanStep
  <2>1. UNCHANGED <<file, events, at>> /\ UNCHANGED <<status, hash>>
    BY <1>8, CleanKeeps DEF callVars
  <2>2. (Unlinked' <=> Unlinked) /\ (Deletes' <=> Deletes) /\ (Full' <=> Full)
    BY <2>1 DEF Unlinked, Deletes
  <2>3. chunks' = chunks \/ file = None
    BY <1>1, <1>8, CleanKeeps DEF Sound
  <2>4. file = None => Unlinked \/ Deletes
    BY <1>1, <2>1 DEF RemovedInv
  <2> QED
    BY <1>2, <2>1, <2>2, <2>3, <2>4
<1>7. ASSUME NEW c \in Calls, CallActs(c)
      PROVE  Kept
  <2>1. at \in [Calls -> Places]
    BY DEF TypeOK
  <2>2. CASE HandleDelete(c)
    BY <2>1, <2>2 DEF HandleDelete, Goto, Deletes, Deleting
  <2>3. CASE Unlinked /\ ~HandleDelete(c)
    BY <1>7, <2>3, CallEvents DEF SameEvents
  <2>4. CASE ~Unlinked /\ ~HandleDelete(c)
    <3>1. \A b \in Calls \ {c} : at[b] \in Filling \cup Deleting => at'[b] = at[b]
      BY <1>7, Frame DEF Filling, Deleting
    <3>2. CASE at[c] \notin Filling \cup Deleting /\ UNCHANGED <<status, hash, chunks>>
      BY <1>2, <2>4, <3>1, <3>2 DEF Deletes
    <3>3. CASE WatchStep(c)
      BY <3>2, <3>3, WatchQuiet DEF Engaged, Filling, Indexing
    <3>4. CASE DeleteStep(c)
      <4>1. CASE Unlink(c)
        BY <2>1, <4>1 DEF Unlink, Step, Goto, Deletes, Deleting
      <4>2. CASE Drop(c)
        BY <4>2 DEF Drop
      <4>3. CASE DeleteFails(c)
        BY <4>3 DEF DeleteFails, Clean
      <4> QED
        BY <3>4, <4>1, <4>2, <4>3 DEF DeleteStep
    <3>5. CASE IndexStep(c)
      <4> USE DEF Goto, Step, Filling
      <4>1. CASE Read(c) \/ Check(c) \/ Stamp(c)
        BY <3>2, <4>1 DEF Read, Check, Stamp, metaVars, Deleting
      <4>2. CASE Mark(c) \/ Clear(c) \/ Embed(c) \/ RecordHash(c)
        BY <2>1, <4>2 DEF Mark, Clear, Embed, RecordHash
      <4>3. CASE AppendChunk(c)
        BY <2>1, <4>3 DEF AppendChunk, AfterPart
      <4>4. CASE Finish(c)
        <5>1. at[c] = "finishing" /\ UNCHANGED <<hash, chunks>> /\ status' = "indexed"
          BY <4>4 DEF Finish
        <5>2. hash = seen[c] /\ part[c] = Parts /\ FirstOf(chunks, seen[c], part[c])
          BY <1>3, <2>4, <5>1 DEF ProgressOf, CallInv
        <5> QED
          BY <5>1, <5>2
      <4>5. CASE RecordError(c)
        <5>1. at[c] = "failing" /\ hash' = hash
          BY <4>5 DEF RecordError
        <5>2. hash = None
          BY <1>1, <2>4, <5>1 DEF RemovedInv
        <5> QED
          BY <5>1, <5>2
      <4>6. CASE \E p \in Indexing \ {"failing"} : Fails(c, p)
        <5>1. "failed" \in harm'
          BY <4>6 DEF Fails
        <5> QED
          BY <5>1 DEF Clean
      <4> QED
        BY <3>5, <4>1, <4>2, <4>3, <4>4, <4>5, <4>6 DEF IndexStep
    <3> QED
      BY <1>7, <3>3, <3>4, <3>5 DEF CallActs
  <2> QED
    BY <2>2, <2>3, <2>4
<1> QED
  BY <1>4, <1>5, <1>6, <1>7, <1>8 DEF Next, CallActs

\* What index.json lacks of the document goes with its removal.
SavedInv == Clean /\ ~saved /\ hash # None => Unlinked \/ Deletes

LEMMA SavedStep ==
  ASSUME TypeOK, CallInv, EventInv, RemovedInv, SavedInv, [Next]_vars
  PROVE  SavedInv'
<1> USE NoneAssumption
<1> SUFFICES ASSUME Clean', ~saved', hash' # None
             PROVE  Unlinked' \/ Deletes'
  BY DEF SavedInv
<1>1. Clean /\ Sound /\ Sound'
  BY CleanIsSound
<1>2. ~saved /\ hash # None => Unlinked \/ Deletes
  BY <1>1 DEF SavedInv
<1>3. CASE UserStep
  <2>1. Unlinked => Unlinked'
    BY <1>1, <1>3, UserEvents DEF Sound
  <2>2. UNCHANGED <<at, hash, saved>>
    BY <1>3 DEF UserStep, Upload, Modify, Remove, Observe, metaVars, callVars
  <2> QED
    BY <1>2, <2>1, <2>2 DEF Deletes
<1>4. CASE UNCHANGED vars
  BY <1>2, <1>4 DEF vars, callVars, metaVars, Unlinked, Deletes
<1>5. CASE Restart
  BY <1>5 DEF Restart
<1>6. CASE CleanStep
  <2>1. UNCHANGED <<file, events, at, hash>>
    BY <1>6, CleanKeeps DEF callVars
  <2>2. (Unlinked' <=> Unlinked) /\ (Deletes' <=> Deletes)
    BY <2>1 DEF Unlinked, Deletes
  <2>3. saved' = saved \/ file = None
    BY <1>1, <1>6, CleanKeeps DEF Sound, metaVars
  <2>4. file = None => Unlinked \/ Deletes
    BY <1>1, <2>1 DEF RemovedInv
  <2> QED
    BY <1>2, <2>1, <2>2, <2>3, <2>4
<1>7. ASSUME NEW c \in Calls, CallActs(c)
      PROVE  Unlinked' \/ Deletes'
  <2>1. at \in [Calls -> Places]
    BY DEF TypeOK
  <2>2. (Unlinked => Unlinked') \/ Deletes'
    BY <1>7, CallEvents DEF SameEvents, Deletes, Deleting
  <2>3. CASE UNCHANGED <<hash, saved>> /\ at[c] \notin Deleting
    BY <1>2, <1>7, <2>2, <2>3, OthersDelete
  <2>4. CASE WatchStep(c)
    BY <2>3, <2>4, WatchQuiet DEF Engaged
  <2>5. CASE IndexStep(c)
    <3>1. at[c] \notin Deleting
      BY <2>5 DEF IndexStep, Read, Check, Mark, Clear, Embed, AppendChunk, RecordHash,
         Finish, Stamp, RecordError, Fails, Step, Indexing, Deleting
    <3>2. saved' \/ UNCHANGED <<hash, saved>>
      BY <2>5 DEF IndexStep, Read, Check, Mark, Clear, Embed, AppendChunk, RecordHash,
         Finish, Stamp, RecordError, Fails, metaVars
    <3> QED
      BY <2>3, <3>1, <3>2
  <2>6. CASE DeleteStep(c)
    <3>1. CASE Unlink(c)
      BY <2>1, <3>1 DEF Unlink, Step, Goto, Deletes, Deleting
    <3>2. CASE Drop(c)
      BY <3>2 DEF Drop
    <3>3. CASE DeleteFails(c)
      BY <3>3 DEF DeleteFails, Clean
    <3> QED
      BY <2>6, <3>1, <3>2, <3>3 DEF DeleteStep
  <2> QED
    BY <1>7, <2>4, <2>5, <2>6 DEF CallActs
<1> QED
  BY <1>3, <1>4, <1>5, <1>6, <1>7 DEF Next, CallActs

LEMMA FollowStep ==
  ASSUME TypeOK, CallInv, EventInv, OneBusy, ProgressInv, HashInv, SavedInv, FollowInv,
         [Next]_vars
  PROVE  FollowInv'
<1> USE NoneAssumption
<1> DEFINE Soon(b) == \/ at[b] \in {"armed", "waiting", "comparing", "reading"}
                      \/ at[b] \in Reading /\ seen[b] = file
           Quiet == \A b \in Calls : at[b] \notin Engaged
           Kept == \/ events' # <<>>
                   \/ \E b \in Calls : Soon(b)'
                   \/ Current' /\ Quiet'
<1> SUFFICES ASSUME Clean', file' # None
             PROVE  Kept
  BY DEF FollowInv
<1>1. Clean /\ Sound /\ Sound'
  BY CleanIsSound
<1>2. file # None => \/ events # <<>>
                     \/ \E b \in Calls : Soon(b)
                     \/ Current /\ Quiet
  BY <1>1 DEF FollowInv
<1>3. \A c \in Calls : ProgressOf(c)
  BY <1>1 DEF ProgressInv
<1>4. CASE UserStep
  BY <1>1, <1>4, UserEvents DEF Sound
<1>5. CASE UNCHANGED vars
  BY <1>2, <1>5 DEF vars, callVars, metaVars, Current
<1>6. CASE Restart
  <2>1. /\ Settled /\ UNCHANGED <<file, chunks>>
        /\ \A b \in Calls : at'[b] = "free"
    BY <1>1, <1>6 DEF Restart, Sound
  <2>2. /\ events = <<>>
        /\ \A b \in Calls : at[b] = "free"
    BY <2>1 DEF Settled
  <2>3. Current /\ Quiet
    BY <1>2, <2>1, <2>2 DEF Reading, Indexing
  <2>4. UNCHANGED <<status, hash>>
    <3>1. saved
      BY <1>1, <2>1, <2>3, AtRest DEF SavedInv, Current
    <3> QED
      BY <1>6, <3>1, RestartKeeps
  <2>5. Current' /\ Quiet'
    BY <2>1, <2>3, <2>4 DEF Current, Engaged, Indexing, Deleting
  <2> QED
    BY <2>5
<1>8. CASE CleanStep
  <2>1. UNCHANGED <<file, events, at, seen, status, hash, chunks>>
    BY <1>1, <1>8, CleanKeeps DEF Sound, callVars, metaVars
  <2> QED
    BY <1>2, <2>1 DEF Current
<1>7. ASSUME NEW c \in Calls, CallActs(c)
      PROVE  Kept
  <2> HIDE DEF Quiet
  <2>1. at \in [Calls -> Places] /\ file' = file /\ file # None
    BY <1>7, Frame DEF TypeOK
  <2>2. \A b \in Calls \ {c} : /\ seen'[b] = seen[b]
                               /\ at'[b] = at[b] \/ (at[b] = "armed" /\ at'[b] = "free")
    BY <1>7, Frame
  <2>3. CASE Soon(c)'
    BY <2>3
  <2>4. CASE HandleDelete(c)
    BY <1>7, <2>1, <2>4, CallEvents
  <2>5. CASE \E e \in {"add", "change"} : HandleChange(c, e)
    <3>1. at'[c] = "armed"
      BY <2>1, <2>5, SetsTimer DEF HandleChange
    <3> QED
      BY <2>3, <3>1
  <2>6. CASE LookAgain(c)
    <3>1. at'[c] = "armed"
      BY <2>1, <2>6, SetsTimer DEF LookAgain
    <3> QED
      BY <2>3, <3>1
  <2> DEFINE Other == /\ ~HandleDelete(c) /\ ~LookAgain(c)
                      /\ \A e \in {"add", "change"} : ~HandleChange(c, e)
  <2>8. Other => events' = events /\ \A b \in Calls \ {c} : at'[b] = at[b]
    <3>1. SUFFICES ASSUME Other
                   PROVE  events' = events /\ \A b \in Calls \ {c} : at'[b] = at[b]
      OBVIOUS
    <3>2. events' = events
      BY <1>7, <3>1, OtherEvents DEF SameEvents
    <3>3. \A q : Goto(c, q) => \A b \in Calls \ {c} : at'[b] = at[b]
      BY <2>1 DEF Goto
    <3>4. Return(c) \/ Returns(c) \/ Throws(c) => \A b \in Calls \ {c} : at'[b] = at[b]
      BY <3>3 DEF Return, Returns, Throws
    <3>5. CASE IndexStep(c) \/ DeleteStep(c)
      BY <3>3, <3>4, <3>5 DEF IndexStep, Read, Check, Mark, Clear, Embed, AppendChunk,
         RecordHash, Finish, Stamp, RecordError, Fails, Step, DeleteStep, Unlink, Drop,
         DeleteFails
    <3>6. CASE WatchStep(c)
      BY <3>1, <3>3, <3>4, <3>6 DEF WatchStep, Start, Scan, Sample, ScanFails, Filled,
         Watch, Fire, Compare,
         CompareFails, Track
    <3> QED
      BY <1>7, <3>2, <3>5, <3>6 DEF CallActs
  <2> HIDE DEF Other
  <2>9. ASSUME Other, ~Soon(c)
        PROVE  Kept \/ (events = <<>> /\ Current /\ Quiet)
    <3>1. CASE events # <<>>
      BY <2>8, <2>9, <3>1
    <3>2. ASSUME NEW b \in Calls, Soon(b)
          PROVE  Kept
      <4>1. b # c
        BY <2>9, <3>2
      <4>2. at'[b] = at[b] /\ seen'[b] = seen[b] /\ file' = file
        BY <2>1, <2>2, <2>8, <2>9, <4>1
      <4>3. Soon(b)'
        BY <3>2, <4>2
      <4> QED
        BY <4>3
    <3> QED
      BY <1>2, <2>1, <3>1, <3>2
  <2>10. CASE Other /\ WatchStep(c)
    <3>1. UNCHANGED <<status, hash, chunks>> /\ at[c] \notin Engaged
      BY <2>10, WatchQuiet
    <3>2. Current' <=> Current
      BY <2>1, <3>1 DEF Current
    <3>3. at'[c] \notin Engaged /\ Quiet => Quiet'
      BY <2>2 DEF Quiet, Engaged, Indexing, Deleting
    <3>4. CASE at'[c] \in Engaged
      <4>1. at'[c] \in {"reading", "unlinking"}
        BY <1>7, <3>1, <3>4, Entering
      <4>2. at'[c] # "unlinking"
        BY <2>1, <2>10 DEF Other, WatchStep, Start, Scan, Sample, ScanFails, Filled,
           Watch, Fire, Compare, CompareFails,
           Track, Return, Goto, Places
      <4> QED
        BY <2>3, <4>1, <4>2
    <3>5. CASE at'[c] \notin Engaged
      <4>1. CASE ~Soon(c)
        BY <2>9, <2>10, <3>2, <3>3, <3>5, <4>1
      <4>2. CASE Fire(c)
        <5>1. at'[c] \in {"reading", "comparing"}
          BY <2>1, <4>2 DEF Fire, Goto
        <5> QED
          BY <2>3, <5>1
      <4>3. CASE Compare(c) /\ at'[c] # "reading"
        <5>1. file \in {None, tracked} /\ Return(c)
              /\ harm' = IF file \in {None, hash} /\ Busy = {} THEN harm
                         ELSE harm \cup {"masked"}
          BY <2>1, <4>3 DEF Compare, Goto
        <5>2. hash = file /\ Busy = {}
          <6>1. "masked" \notin harm'
            BY DEF Clean
          <6> QED
            BY <2>1, <5>1, <6>1
        <5>3. Quiet /\ \A b \in Calls : at[b] \notin Filling \cup Deleting
          BY <5>2 DEF Busy, Quiet, Engaged, Filling, Indexing
        <5>4. Current \/ Unlinked
          BY <1>1, <2>1, <5>2, <5>3 DEF HashInv, Current
        <5>5. Unlinked => events # <<>>
          BY UnlinkedIsEvent
        <5> QED
          BY <2>8, <2>10, <3>2, <3>3, <3>5, <5>3, <5>4, <5>5
      <4>4. CASE Compare(c) /\ at'[c] = "reading"
        BY <2>3, <4>4
      <4>5. CASE CompareFails(c)
        BY <4>5 DEF CompareFails, Clean
      <4>6. Start(c) \/ Scan(c) \/ Sample(c) \/ ScanFails(c) \/ Watch(c) \/ Track(c) => ~Soon(c)
        BY DEF Start, Scan, Sample, ScanFails, Watch, Track, Reading, Indexing
      <4> HIDE DEF Soon
      <4> QED
        BY <2>10, <4>1, <4>2, <4>3, <4>4, <4>5, <4>6 DEF Other, WatchStep
    <3> QED
      BY <3>4, <3>5
  <2>11. CASE ~WatchStep(c)
    <3>1. at[c] \in Engaged /\ ~Quiet
      BY <1>7, <2>11 DEF CallActs, IndexStep, Read, Check, Mark, Clear, Embed, AppendChunk,
         RecordHash, Finish, Stamp, RecordError, Fails, Step, DeleteStep, Unlink, Drop,
         DeleteFails, Engaged, Indexing, Deleting, Quiet
    <3>2. Other
      BY <2>11 DEF Other, WatchStep
    <3>3. CASE ~Soon(c)
      BY <2>9, <3>1, <3>2, <3>3
    <3>4. CASE at[c] \in Reading /\ seen[c] = file
      <4> USE DEF Goto
      <4>1. \A q \in Reading : at' = [at EXCEPT ![c] = q] /\ seen' = seen => Soon(c)'
        BY <2>1, <3>4
      <4>2. CASE at'[c] \notin Engaged
        <5>1. Quiet'
          <6>1. \A b \in Calls \ {c} : at[b] \notin Engaged
            BY <1>1, <3>1 DEF OneBusy
          <6> QED
            BY <2>2, <4>2, <6>1 DEF Quiet, Engaged, Indexing, Deleting
        <5>2. CASE Check(c)
          <6>1. hash = seen[c] /\ UNCHANGED <<status, hash, chunks, events>>
                /\ at[c] = "checking"
            <7>1. ~Goto(c, "marking")
              BY <2>1, <4>2 DEF Engaged, Indexing
            <7> QED
              BY <5>2, <7>1 DEF Check, metaVars
          <6>2. \A b \in Calls : at[b] \notin Filling \cup Deleting
            <7>1. at[c] \notin Filling \cup Deleting
              BY <6>1 DEF Filling, Deleting
            <7>2. Filling \cup Deleting \subseteq Engaged
              BY DEF Filling, Engaged, Indexing
            <7> QED
              BY <1>1, <3>1, <7>1, <7>2 DEF OneBusy
          <6>3. Current \/ Unlinked
            BY <1>1, <2>1, <3>4, <6>1, <6>2 DEF HashInv, Current
          <6>4. Current => Current'
            BY <2>1, <6>1 DEF Current
          <6>5. Unlinked => events' # <<>>
            BY <6>1, UnlinkedIsEvent
          <6> QED
            BY <5>1, <6>3, <6>4, <6>5
        <5>3. CASE Stamp(c)
          <6>1. at[c] = "stamping" /\ UNCHANGED <<status, hash, chunks, events>>
            BY <5>3 DEF Stamp, metaVars
          <6>2. /\ hash = seen[c] /\ status = "indexed" /\ part[c] = Parts
                /\ FirstOf(chunks, seen[c], part[c]) \/ Unlinked
            BY <1>3, <6>1 DEF ProgressOf, CallInv
          <6>3. Current' \/ Unlinked
            BY <2>1, <3>4, <6>1, <6>2 DEF Current
          <6>4. Unlinked => events' # <<>>
            BY <6>1, UnlinkedIsEvent
          <6> QED
            BY <5>1, <6>3, <6>4
        <5>4. ~Check(c) /\ ~Stamp(c) => FALSE
          BY <1>7, <2>1, <2>11, <3>4, <4>2 DEF CallActs, IndexStep, Read, Mark, Clear,
             Embed,
             AppendChunk, AfterPart, RecordHash, Finish, RecordError, Fails, Step, DeleteStep,
             Unlink, Drop, DeleteFails, Engaged, Indexing, Deleting, Reading
        <5> QED
          BY <5>2, <5>3, <5>4
      <4>3. CASE at'[c] \in Engaged
        <5>1. ~\E p \in Indexing \ {"failing"} : Fails(c, p)
          <6>1. ASSUME NEW p \in Indexing \ {"failing"}, Fails(c, p)
                PROVE  FALSE
            <7>1. "failed" \in harm'
              BY <6>1 DEF Fails
            <7> QED
              BY <7>1 DEF Clean
          <6> QED
            BY <6>1
        <5>2. ~Read(c) /\ ~RecordError(c) /\ ~DeleteStep(c)
          BY <3>4 DEF Read, RecordError, DeleteStep, Unlink, Drop, DeleteFails, Step,
             Reading,
             Indexing, Deleting
        <5>3. ~Returns(c)
          BY <2>1, <4>3 DEF Returns, Engaged, Indexing, Deleting
        <5>4. \E q \in Reading : at' = [at EXCEPT ![c] = q] /\ seen' = seen
          BY <1>7, <2>11, <5>1, <5>2, <5>3 DEF CallActs, IndexStep, Check, Mark, Clear,
             Embed,
             AppendChunk, AfterPart, RecordHash, Finish, Stamp, Step, Reading, Indexing
        <5>5. Soon(c)'
          BY <4>1, <5>4
        <5> QED
          BY <2>3, <5>5
      <4> QED
        BY <4>2, <4>3
    <3>5. CASE at[c] = "reading"
      <4>1. Read(c)
        <5>1. ~\E p \in Indexing \ {"failing"} : Fails(c, p)
          <6>1. ASSUME NEW p \in Indexing \ {"failing"}, Fails(c, p)
                PROVE  FALSE
            <7>1. "failed" \in harm'
              BY <6>1 DEF Fails
            <7> QED
              BY <7>1 DEF Clean
          <6> QED
            BY <6>1
        <5> QED
          BY <1>7, <2>11, <3>5, <5>1 DEF CallActs, IndexStep, Check, Mark, Clear, Embed,
             AppendChunk, RecordHash, Finish, Stamp, RecordError, Step, DeleteStep, Unlink,
             Drop, DeleteFails, Deleting
      <4>2. at'[c] = "checking" /\ seen'[c] = file
        BY <2>1, <4>1 DEF Read, Goto, TypeOK
      <4>3. Soon(c)'
        BY <2>1, <4>2 DEF Reading, Indexing
      <4> QED
        BY <2>3, <4>3
    <3>6. at[c] \notin {"armed", "waiting", "comparing"}
      BY <3>1 DEF Engaged, Indexing, Deleting
    <3> QED
      BY <3>3, <3>4, <3>5, <3>6
  <2> QED
    BY <2>4, <2>5, <2>6, <2>10, <2>11 DEF Other
<1> QED
  BY <1>4, <1>5, <1>6, <1>7, <1>8 DEF Next, CallActs

-----------------------------------------------------------------------------
IInv ==
    /\ TypeOK /\ CallInv /\ MarkedInv /\ EventInv
    /\ OneBusy /\ HoldInv /\ ProgressInv /\ WholeInv /\ GoneInv
    /\ RemovedInv /\ HashInv /\ SavedInv /\ FollowInv

LEMMA InitInv == Init => IInv
<1> SUFFICES ASSUME Init
             PROVE  IInv
  OBVIOUS
<1> USE NoneAssumption, PartsAssumption, BoundsAssumption DEF Init
<1>1. TypeOK
  BY EmptySeq DEF TypeOK, Places, Kinds
<1>2. CallInv
  BY DEF CallInv, Places, Working, Indexing, Deleting
<1>3. MarkedInv /\ EventInv /\ WholeInv /\ HashInv /\ SavedInv
  BY DEF MarkedInv, EventInv, WholeInv, HashInv, SavedInv
<1>4. OneBusy
  BY DEF OneBusy, Engaged, Indexing, Deleting
<1>5. ProgressInv
  BY DEF ProgressInv, ProgressOf, Filling
<1>8. HoldInv
  BY DEF HoldInv, Reading, Indexing
<1>6. GoneInv
  BY DEF GoneInv, Empty, Indexing
<1>7. RemovedInv /\ FollowInv
  BY DEF RemovedInv, FollowInv, Reading, Indexing
<1> QED
  BY <1>1, <1>2, <1>3, <1>4, <1>5, <1>6, <1>7, <1>8 DEF IInv

LEMMA StepInv ==
  ASSUME IInv, [Next]_vars
  PROVE  IInv'
<1> USE DEF IInv
<1>1. TypeOK' /\ CallInv'
  BY TypeStep
<1>2. MarkedInv' /\ EventInv'
  BY MarkedStep, EventStep
<1>3. OneBusy' /\ HoldInv' /\ ProgressInv'
  BY BusyStep, HoldStep, ProgressStep
<1>4. WholeInv' /\ GoneInv'
  BY WholeStep, GoneStep
<1>5. RemovedInv' /\ HashInv'
  BY RemovedStep, HashStep
<1>6. SavedInv' /\ FollowInv'
  BY SavedStep, FollowStep
<1> QED
  BY <1>1, <1>2, <1>3, <1>4, <1>5, <1>6

LEMMA Invariance == Spec => []IInv
BY InitInv, StepInv, PTL DEF Spec

\* The document, the calls, the metadata and the chunk file have their types:
\* no chunk but of a version there is, none past the last one.
THEOREM TypeCorrect == Spec => []TypeOK
<1>1. IInv => TypeOK
  BY DEF IInv
<1> QED
  BY <1>1, Invariance, PTL

\* For any number of versions, chunks, calls, watchers, faults and restarts:
\* a document that shows as pending has a call at it that will end that
\* (indexDocument), unless the service was stopped or could not record.
THEOREM NoOrphan == Spec => []PendingHasWorker
<1>1. IInv => PendingHasWorker
  BY DEF IInv, MarkedInv, PendingHasWorker, Marked
<1> QED
  BY <1>1, Invariance, PTL

\* Whatever failed and whatever a timer masked, at rest a document that counts
\* as indexed has every chunk of the version it counts as, once and in order
\* (indexDocument: the status says "pending" from before the first chunk is
\* removed until after the last one is appended).
THEOREM IndexedWhole == Spec => []IndexedIsWhole
<1>1. ASSUME IInv
      PROVE  IndexedIsWhole
  <2> SUFFICES ASSUME Settled, status = "indexed",
                      harm \cap {"overlap", "unwatched", "unremoved", "late clean"} = {}
               PROVE  chunks = Whole(hash)
    BY DEF IndexedIsWhole
  <2>1. hash \in Versions /\ FirstOf(chunks, hash, Parts)
    BY <1>1, AtRest DEF IInv, WholeInv, Sound
  <2> QED
    BY <1>1, <2>1, AllOf DEF IInv
<1> QED
  BY <1>1, Invariance, PTL

\* Once all events are handled a document that was removed has left nothing,
\* no chunk, no status, no hash (handleFileDeleted, deleteDocument), unless
\* its timer was still set, or something failed, overlapped or was not watched.
THEOREM RemovedIsGone == Spec => []SettledIsGone
<1>1. IInv => SettledIsGone
  BY AtRest DEF IInv, SettledIsGone, GoneInv, Empty
<1> QED
  BY <1>1, Invariance, PTL

\* Once all events are handled a document that is there is indexed as it is,
\* through every burst of changes (handleFileChange, indexDocument), unless a
\* change was masked or something failed, overlapped or was not watched.
THEOREM IndexFollows == Spec => []SettledIsIndexed
<1>1. ASSUME IInv
      PROVE  SettledIsIndexed
  <2> SUFFICES ASSUME Settled, file # None, Clean
               PROVE  status = "indexed" /\ hash = file /\ chunks = Whole(file)
    BY DEF SettledIsIndexed, Clean
  <2>1. events = <<>> /\ \A c \in Calls : at[c] = "free"
    BY DEF Settled
  <2>2. Current
    BY <1>1, <2>1 DEF IInv, FollowInv, Reading, Indexing
  <2>3. file \in Versions
    BY <1>1 DEF IInv, TypeOK
  <2> QED
    BY <1>1, <2>2, <2>3, AllOf DEF IInv, Current
<1> QED
  BY <1>1, Invariance, PTL
=============================================================================
