------------------------- MODULE WorkingFile_proofs -------------------------
(* Theorems about WorkingFile for any requests, case names and files.      *)
EXTENDS WorkingFile, TLAPS

\* What a request asks for and which files it has open, by its place.
PlaceInv ==
    \A r \in Requests :
        /\ place[r] = "idle" <=> kind[r] = "none"
        /\ place[r] \in {"read", "openWrite", "write"}
              => kind[r] \in {"edit", "solve"}
        /\ place[r] \in {"saveResults", "record", "foldRead"}
              => kind[r] = "solve"
        /\ place[r] = "copy" => kind[r] \in {"save", "saveAs"}
        /\ place[r] \in {"rename", "update"} => kind[r] = "saveAs"
        /\ target[r] # NoFile <=> place[r] \in {"write", "copy"}
        /\ source[r] # NoFile <=> place[r] = "copy"

\* Requests that are in flight at the same time have met.
MetInv == \A r, s \in InFlight : r # s => s \in met[r]

\* A file has one name.
LinkInv == \A p, q \in Dirs \X Names : Exists(p) /\ dir[p] = dir[q] => p = q

\* Files the session's directory names or has named, and those of the user's.
OfSession(f) ==
    \/ \E n \in Names : dir[Session(n)] = f
    \/ \E r \in Requests : place[r] = "write" /\ target[r] = f
    \/ \E r \in Requests : source[r] = f
OfModel(f) ==
    \/ \E n \in Names : dir[Model(n)] = f
    \/ \E r \in Requests : place[r] = "copy" /\ target[r] = f

\* No file is both: no save writes to a working file.
ApartInv == \A f \in Files : ~(OfSession(f) /\ OfModel(f))

DeadInv == ~live => \A n \in Names : ~Exists(Session(n))

SavesAsMet ==
    \E r, s \in Requests : kind[r] = "saveAs" /\ kind[s] = "saveAs" /\ s \in met[r]
Updating == {r \in Requests : place[r] = "update"}

\* The working file is where FilePath says, or where it is about to say.
PathInv ==
    live /\ ~SavesAsMet =>
        /\ Updating # {} \/ Exists(Session(current))
        /\ \A r \in Updating : Exists(Session(name[r]))

\* While a solve is between its results and the session, the results are its
\* own, those of a solve it met, or gone in a failed write.
SolveInv ==
    /\ results = {} \/ \E r \in Requests : results = {r} /\ kind[r] = "solve"
    /\ \A r \in Requests : place[r] = "record" =>
          \/ results = {r}
          \/ \E s \in Requests : results = {s} /\ r \in met[s]
          \/ results = {} /\ \E s \in broken : kind[s] = "solve"

\* The request met no other that rewrites the working file.
Lone(r) == met[r] \cap Rewriters = {}

\* Names under which a handler will read or write the working file.
InUse(n) ==
    \/ n = current
    \/ \E r \in InFlight : /\ name[r] = n
                           /\ kind[r] \in {"edit", "solve"} \/ place[r] = "update"

\* An acknowledged edit that met no rewriting request is in every whole file
\* the handlers work on, and in all that they are about to write.
KeepInv ==
    \A e \in Acknowledged : Lone(e) =>
        /\ \A n \in Names : InUse(n) /\ Exists(Session(n)) =>
              \/ content[dir[Session(n)]] = Torn
              \/ e \in content[dir[Session(n)]]
        /\ \A r \in Requests : place[r] \in {"openWrite", "write"} => e \in seen[r]

\* Such an edit writes the file FilePath names.
WriterInv ==
    \A r \in Requests :
        /\ place[r] = "write" /\ kind[r] = "edit" /\ Lone(r)
        /\ Exists(Session(current))
        => target[r] = dir[Session(current)]

\* Where the working file is, or will be when a save-as has updated the session.
Given(n) == n = current \/ \E q \in Requests : place[q] = "update" /\ name[q] = n

\* Without overlaps and failed writes, a working file is torn only while a
\* request has it open, and a request finds the file as it truncated it.
TornInv ==
    broken = {} /\ ~Collision =>
        /\ \A n \in Names :
              /\ Given(n) /\ Exists(Session(n)) /\ content[dir[Session(n)]] = Torn
              => \E r \in Requests : place[r] = "write" /\ target[r] = dir[Session(n)]
        /\ \A r \in Requests : place[r] = "write" => content[target[r]] = Torn

\* Without overlaps the handlers agree on the name of the working file.
NamesInv ==
    ~Collision =>
        /\ \A r \in InFlight : kind[r] \in {"edit", "solve"} => name[r] = current
        /\ \A r \in Requests : place[r] = "update" /\ Exists(Session(current))
                                   => name[r] = current

\* Without overlaps all saves in flight copy the same file, the working file.
SourceInv ==
    ~Collision =>
        /\ \A r, s \in Requests : place[r] = "copy" /\ place[s] = "copy"
                                   => source[r] = source[s]
        /\ \A r \in Requests, n \in Names :
              place[r] = "copy" /\ Given(n) /\ Exists(Session(n))
              => source[r] = dir[Session(n)]

\* What a save that met no rewriting request copies is whole and holds every
\* acknowledged edit, and no other save has put anything else into its target.
SaveInv ==
    broken = {} /\ ~Collision =>
        \A r \in Requests : place[r] = "copy" /\ Lone(r) =>
            /\ content[source[r]] # Torn
            /\ Acknowledged \subseteq content[source[r]]
            /\ content[target[r]] \in {Torn, content[source[r]]}

IInv == /\ TypeOK /\ PlaceInv /\ MetInv /\ LinkInv /\ ApartInv /\ DeadInv
        /\ PathInv /\ SolveInv /\ ResultsOfOneSolve
        /\ KeepInv /\ WriterInv /\ TornInv /\ NamesInv /\ SourceInv /\ SaveInv
-----------------------------------------------------------------------------
LEMMA Paths ==
    /\ \A n \in Names : Session(n) \in Dirs \X Names /\ Model(n) \in Dirs \X Names
    /\ \A m, n \in Names : Session(m) = Session(n) => m = n
    /\ \A m, n \in Names : Model(m) = Model(n) => m = n
    /\ \A m, n \in Names : Session(m) # Model(n)
    /\ \A p \in Dirs \X Names : \E n \in Names : p = Session(n) \/ p = Model(n)
  BY DEF Session, Model, Dirs

LEMMA TornIsNoSet == Torn \notin SUBSET Requests
  BY TornAssumption DEF Torn

LEMMA InitInv == Init => TypeOK /\ PlaceInv /\ MetInv /\ LinkInv
  BY NoFileAssumption, FirstNameAssumption
     DEF Init, TypeOK, PlaceInv, MetInv, LinkInv, InFlight, Places, Over

\* What Arrive does to met.
LEMMA Meeting ==
  ASSUME NEW r, NEW k, NEW to, Arrive(r, k, to), TypeOK, r \in Requests
  PROVE  /\ met' \in [Requests -> SUBSET Requests]
         /\ \A s \in Requests :
               met'[s] = IF s = r THEN InFlight
                         ELSE IF s \in InFlight THEN met[s] \cup {r} ELSE met[s]
<1>1. met' = [s \in Requests |-> CASE s = r -> InFlight
                                   [] s \in InFlight -> met[s] \cup {r}
                                   [] OTHER -> met[s]]
  BY DEF Arrive
<1>2. InFlight \subseteq Requests /\ \A s \in Requests : met[s] \subseteq Requests
  BY DEF InFlight, TypeOK
<1>3. r \notin InFlight
  BY DEF InFlight, Arrive
<1> HIDE DEF InFlight
<1>4. \A s \in Requests :
         met'[s] = IF s = r THEN InFlight
                   ELSE IF s \in InFlight THEN met[s] \cup {r} ELSE met[s]
  BY <1>1, <1>3, Zenon
<1>5. met' = [s \in Requests |-> met'[s]]
  BY <1>1
<1> QED
  BY <1>2, <1>4, <1>5

LEMMA TypeStep ==
  ASSUME TypeOK, PlaceInv, [Next]_vars
  PROVE  TypeOK'
<1> USE NoFileAssumption DEF TypeOK, Kinds, Places, Over
<1> USE DEF sessionVars, fileVars, solveVars, localVars, historyVars
<1>1. ASSUME NEW r \in Requests, NEW k \in Kinds, NEW to \in Places, Arrive(r, k, to)
      PROVE  /\ kind' \in [Requests -> Kinds \cup {"none"}]
             /\ place' \in [Requests -> Places]
             /\ met' \in [Requests -> SUBSET Requests]
             /\ UNCHANGED <<sessionVars, solveVars, broken>>
  BY <1>1, Meeting DEF Arrive
<1>2. ASSUME NEW r \in Requests, NEW k \in Kinds, Start(r, k)
      PROVE  TypeOK'
  BY <1>1, <1>2 DEF Start
<1>3. ASSUME NEW r \in Requests, NEW p \in Dirs \X Names, Truncate(r, p)
      PROVE  /\ dir' \in [Dirs \X Names -> Files \cup {NoFile}]
             /\ content' \in [Files -> (SUBSET Requests) \cup {Torn}]
             /\ target' \in [Requests -> Files \cup {NoFile}]
  BY <1>3 DEF Truncate
<1>4. ASSUME NEW r \in Requests, NEW n \in Names, OpenCopy(r, n),
             Arrive(r, "save", "copy") \/ Arrive(r, "saveAs", "copy")
      PROVE  TypeOK'
  <2>1. Truncate(r, Model(n)) /\ Model(n) \in Dirs \X Names
    BY <1>4, Paths DEF OpenCopy
  <2>2. source' \in [Requests -> Files \cup {NoFile}]
    BY <1>4, Paths DEF OpenCopy
  <2> QED
    BY <1>1, <1>3, <1>4, <2>1, <2>2 DEF OpenCopy
<1>5. ASSUME NEW r \in Requests, SolverReads(r)
      PROVE  TypeOK'
  BY <1>5, Paths DEF SolverReads, Goto, Whole, Exists
<1>6. ASSUME NEW r \in Requests, OpenWrite(r)
      PROVE  TypeOK'
  <2>1. Truncate(r, WritePath(r)) /\ WritePath(r) \in Dirs \X Names
    BY <1>6, Paths DEF OpenWrite, WritePath
  <2> QED
    BY <1>3, <1>6, <2>1 DEF OpenWrite, Goto
<1>7. ASSUME NEW r \in Requests, NEW c \in (SUBSET Requests) \cup {Torn},
             content' = [content EXCEPT ![target[r]] = c]
      PROVE  content' \in [Files -> (SUBSET Requests) \cup {Torn}]
  BY <1>7
<1>8. ASSUME NEW r \in Requests, Close(r)
      PROVE  /\ source' \in [Requests -> Files \cup {NoFile}]
             /\ target' \in [Requests -> Files \cup {NoFile}]
  BY <1>8 DEF Close
<1>9. ASSUME NEW r \in Requests, Write(r)
      PROVE  TypeOK'
  <2>1. PICK c \in (SUBSET Requests) \cup {Torn} :
           content' = [content EXCEPT ![target[r]] = c]
    BY <1>9 DEF Write, Fill
  <2> QED
    BY <1>7, <1>8, <1>9, <2>1 DEF Write, Goto
<1>10. ASSUME NEW r \in Requests, Copy(r)
       PROVE  TypeOK'
  <2>1. source[r] \in Files
    BY <1>10 DEF Copy, Goto, PlaceInv
  <2>2. PICK c \in (SUBSET Requests) \cup {Torn} :
           content' = [content EXCEPT ![target[r]] = c]
    BY <1>10, <2>1 DEF Copy, Fill
  <2> QED
    BY <1>7, <1>8, <1>10, <2>2 DEF Copy, Goto
<1>11. ASSUME NEW r \in Requests, WriteFails(r)
       PROVE  TypeOK'
  BY <1>7, <1>8, <1>11 DEF WriteFails, Goto, AfterFailure
<1>12. ASSUME NEW r \in Requests, CopyFails(r)
       PROVE  TypeOK'
  BY <1>7, <1>8, <1>12 DEF CopyFails, Goto
<1>13. ASSUME NEW r \in Requests, SolverFails(r) \/ OpenWriteFails(r)
       PROVE  TypeOK'
  BY <1>13 DEF SolverFails, OpenWriteFails, Goto, AfterFailure
<1>14. ASSUME NEW r \in Requests, SaveRawResults(r) \/ SaveRawResultsFails(r)
                                    \/ UpdateSessionResults(r)
       PROVE  TypeOK'
  <2>1. CASE SaveRawResults(r)
    BY <2>1 DEF SaveRawResults, Goto
  <2>2. CASE SaveRawResultsFails(r)
    BY <2>2 DEF SaveRawResultsFails, Goto
  <2>3. CASE UpdateSessionResults(r)
    BY <2>3 DEF UpdateSessionResults, Goto
  <2> QED
    BY <1>14, <2>1, <2>2, <2>3
<1>15. ASSUME NEW r \in Requests, UpdateControlState(r)
       PROVE  TypeOK'
  BY <1>15, Paths DEF UpdateControlState, Goto, Whole, Exists
<1>16. ASSUME NEW r \in Requests, UpdateControlStateFails(r) \/ Update(r)
       PROVE  TypeOK'
  BY <1>16 DEF UpdateControlStateFails, Update, Goto
<1>17. ASSUME NEW r \in Requests, Rename(r)
       PROVE  TypeOK'
  <2>1. dir' \in [Dirs \X Names -> Files \cup {NoFile}]
    BY <1>17, Paths DEF Rename
  <2> QED
    BY <1>17, <2>1 DEF Rename, Goto
<1>18. ASSUME NEW r \in Requests, RenameFails(r)
       PROVE  TypeOK'
  BY <1>18 DEF RenameFails, Goto
<1>19. CASE RemoveSession \/ UNCHANGED vars
  BY <1>19 DEF RemoveSession, vars
<1>20. ASSUME NEW r \in Requests, Edit(r) \/ Solve(r) \/ Save(r)
       PROVE  TypeOK'
  BY <1>5, <1>6, <1>9, <1>10, <1>11, <1>12, <1>13, <1>14, <1>15, <1>16, <1>17, <1>18,
     <1>20, Zenon DEF Edit, Solve, Save
<1>21. ASSUME NEW r \in Requests, SaveCase(r) \/ \E n \in Names : SaveCaseAs(r, n)
       PROVE  TypeOK'
  BY <1>4, <1>21 DEF SaveCase, SaveCaseAs
<1> HIDE DEF TypeOK
<1> QED
  BY <1>2, <1>19, <1>20, <1>21 DEF Next

\* The steps of a request after it has arrived that leave the files alone.
Quiet(r) ==
    \/ SolverReads(r) \/ SolverFails(r) \/ OpenWriteFails(r)
    \/ SaveRawResults(r) \/ SaveRawResultsFails(r) \/ UpdateSessionResults(r)
    \/ UpdateControlState(r) \/ UpdateControlStateFails(r) \/ Update(r)

\* Those that write into an open file and close it.
Fills(r) == Write(r) \/ WriteFails(r) \/ Copy(r) \/ CopyFails(r)

\* The beginnings of a save: it opens the case it writes.
Opens(r, k, n) == k \in {"save", "saveAs"} /\ Arrive(r, k, "copy") /\ OpenCopy(r, n)

LEMMA Steps ==
  ASSUME TypeOK, [Next]_vars
  PROVE  \/ \E r \in Requests, k \in Kinds : Start(r, k)
         \/ \E r \in Requests, k \in Kinds, n \in Names : Opens(r, k, n)
         \/ \E r \in Requests : Quiet(r)
         \/ \E r \in Requests : OpenWrite(r)
         \/ \E r \in Requests : Fills(r)
         \/ \E r \in Requests : Rename(r)
         \/ \E r \in Requests : RenameFails(r)
         \/ RemoveSession
         \/ UNCHANGED vars
<1>1. ASSUME NEW r \in Requests, SaveCase(r)
      PROVE  Opens(r, "save", original)
  BY <1>1 DEF SaveCase, Opens
<1>2. ASSUME NEW r \in Requests, NEW n \in Names, SaveCaseAs(r, n)
      PROVE  Opens(r, "saveAs", n)
  BY <1>2 DEF SaveCaseAs, Opens
<1> QED
  BY <1>1, <1>2 DEF Next, Edit, Solve, Save, Quiet, Fills, Kinds, TypeOK

\* What a quiet step leaves alone, and where it may lead.
LEMMA QuietStep ==
  ASSUME NEW r \in Requests, Quiet(r), TypeOK
  PROVE  /\ UNCHANGED <<live, dir, content, source, target, kind, met>>
         /\ \E p \in Places :
               /\ place' = [place EXCEPT ![r] = p]
               /\ \/ place[r] = "read" /\ kind[r] = "edit" /\ p = "openWrite"
                  \/ place[r] = "read" /\ kind[r] # "edit" /\ p = "saveResults"
                  \/ place[r] = "saveResults" /\ p = "record"
                  \/ place[r] = "record" /\ p = "foldRead"
                  \/ place[r] = "foldRead" /\ p = "openWrite"
                  \/ /\ place[r] \in {"read", "openWrite", "saveResults", "record",
                                      "foldRead", "update"}
                     /\ p \in Over
                     /\ p = "ok" /\ kind[r] = "edit" => place[r] \in {"record", "foldRead", "update"}
<1> USE DEF Goto, sessionVars, fileVars, solveVars, localVars, Places, Over
<1>1. CASE SolverReads(r)
  BY <1>1 DEF SolverReads
<1>2. CASE SolverFails(r)
  BY <1>2 DEF SolverFails
<1>3. CASE OpenWriteFails(r)
  <2>1. CASE kind[r] = "edit"
    BY <1>3, <2>1 DEF OpenWriteFails, AfterFailure
  <2>2. CASE kind[r] # "edit"
    BY <1>3, <2>2 DEF OpenWriteFails, AfterFailure
  <2> QED
    BY <2>1, <2>2
<1>4. CASE SaveRawResults(r)
  BY <1>4 DEF SaveRawResults
<1>5. CASE SaveRawResultsFails(r)
  BY <1>5 DEF SaveRawResultsFails
<1>6. CASE UpdateSessionResults(r)
  BY <1>6 DEF UpdateSessionResults
<1>7. CASE UpdateControlState(r)
  BY <1>7 DEF UpdateControlState
<1>8. CASE UpdateControlStateFails(r)
  BY <1>8 DEF UpdateControlStateFails
<1>9. CASE Update(r)
  BY <1>9 DEF Update
<1> QED
  BY <1>1, <1>2, <1>3, <1>4, <1>5, <1>6, <1>7, <1>8, <1>9 DEF Quiet

\* What writing a file does.
LEMMA FillStep ==
  ASSUME NEW r \in Requests, Fills(r), TypeOK
  PROVE  /\ UNCHANGED <<live, current, original, dir, results, recorded, kind, met, name, seen>>
         /\ Close(r)
         /\ \E c : content' = [content EXCEPT ![target[r]] = c]
         /\ \E p \in {"ok", "error", "rename"} :
               /\ place' = [place EXCEPT ![r] = p]
               /\ p = "rename" => place[r] = "copy" /\ kind[r] # "save"
         /\ place[r] \in {"write", "copy"}
         /\ broken \subseteq broken'
<1> USE DEF Goto, sessionVars, solveVars
<1>1. CASE Write(r)
  BY <1>1 DEF Write, Fill
<1>2. CASE WriteFails(r)
  BY <1>2 DEF WriteFails, AfterFailure
<1>3. CASE Copy(r)
  BY <1>3 DEF Copy, Fill
<1>4. CASE CopyFails(r)
  BY <1>4 DEF CopyFails
<1> QED
  BY <1>1, <1>2, <1>3, <1>4 DEF Fills

LEMMA PlaceStep ==
  ASSUME TypeOK, PlaceInv, [Next]_vars
  PROVE  PlaceInv'
<1> USE NoFileAssumption DEF TypeOK, PlaceInv
<1> USE DEF sessionVars, fileVars, solveVars, localVars, historyVars
<1>1. ASSUME NEW r \in Requests, NEW k \in Kinds, Start(r, k)
      PROVE  PlaceInv'
  BY <1>1 DEF Start, Arrive
<1>2. ASSUME NEW r \in Requests, NEW k \in Kinds, NEW n \in Names, Opens(r, k, n)
      PROVE  PlaceInv'
  <2>1. dir[Session(current)] \in Files
    BY <1>2, Paths DEF Opens, OpenCopy, Exists
  <2>2. PICK f \in Files : target' = [target EXCEPT ![r] = f]
    BY <1>2 DEF Opens, OpenCopy, Truncate
  <2>3. source' = [source EXCEPT ![r] = dir[Session(current)]]
    BY <1>2 DEF Opens, OpenCopy
  <2> QED
    BY <1>2, <2>1, <2>2, <2>3 DEF Opens, Arrive
<1>3. ASSUME NEW r \in Requests, Quiet(r)
      PROVE  PlaceInv'
  BY <1>3, QuietStep DEF Over
<1>4. ASSUME NEW r \in Requests, OpenWrite(r)
      PROVE  PlaceInv'
  BY <1>4 DEF OpenWrite, Goto, Truncate
<1>5. ASSUME NEW r \in Requests, Fills(r)
      PROVE  PlaceInv'
  BY <1>5, FillStep DEF Close
<1>6. ASSUME NEW r \in Requests, Rename(r) \/ RenameFails(r)
      PROVE  PlaceInv'
  BY <1>6 DEF Rename, RenameFails, Goto
<1>7. CASE RemoveSession \/ UNCHANGED vars
  BY <1>7 DEF RemoveSession, vars
<1> QED
  BY <1>1, <1>2, <1>3, <1>4, <1>5, <1>6, <1>7, Steps

LEMMA MetStep ==
  ASSUME TypeOK, MetInv, PlaceInv, [Next]_vars
  PROVE  MetInv'
<1> USE DEF MetInv, InFlight, TypeOK, Over, Goto
<1>1. ASSUME NEW r \in Requests, NEW k, NEW to, Arrive(r, k, to)
      PROVE  MetInv'
  BY <1>1, Meeting DEF Arrive
<1>2. ASSUME NEW r \in Requests, Quiet(r)
      PROVE  MetInv'
  BY <1>2, QuietStep
<1>3. ASSUME NEW r \in Requests, Fills(r)
      PROVE  MetInv'
  BY <1>3, FillStep
<1>4. ASSUME NEW r \in Requests, OpenWrite(r) \/ Rename(r) \/ RenameFails(r)
      PROVE  MetInv'
  BY <1>4 DEF OpenWrite, Rename, RenameFails
<1>5. CASE RemoveSession \/ UNCHANGED vars
  BY <1>5 DEF RemoveSession, vars, historyVars
<1> QED
  BY <1>1, <1>2, <1>3, <1>4, <1>5, Steps DEF Start, Opens

LEMMA LinkStep ==
  ASSUME TypeOK, LinkInv, PlaceInv, [Next]_vars
  PROVE  LinkInv'
<1> USE DEF LinkInv, TypeOK, Exists
<1>1. ASSUME NEW r \in Requests, NEW p \in Dirs \X Names, Truncate(r, p)
      PROVE  LinkInv'
  BY <1>1 DEF Truncate, Free
<1>2. ASSUME NEW r \in Requests, Rename(r)
      PROVE  LinkInv'
  <2> DEFINE a == Session(current)
             b == Session(name[r])
  <2>1. a \in Dirs \X Names /\ b \in Dirs \X Names
    BY Paths
  <2>2. \A p \in Dirs \X Names :
          dir'[p] = IF p = b THEN dir[a] ELSE IF p = a THEN NoFile ELSE dir[p]
    BY <1>2, <2>1 DEF Rename
  <2> HIDE DEF a, b
  <2> QED
    BY <2>1, <2>2
<1>3. ASSUME NEW r \in Requests, RenameFails(r)
      PROVE  LinkInv'
  BY <1>3, Paths DEF RenameFails
<1>4. CASE RemoveSession
  BY <1>4 DEF RemoveSession
<1>5. CASE UNCHANGED dir
  BY <1>5
<1>6. ASSUME NEW r \in Requests, NEW k \in Kinds, NEW n \in Names, Opens(r, k, n)
      PROVE  LinkInv'
  BY <1>1, <1>6, Paths DEF Opens, OpenCopy
<1>7. ASSUME NEW r \in Requests, OpenWrite(r)
      PROVE  LinkInv'
  BY <1>1, <1>7, Paths DEF OpenWrite, WritePath
<1>8. ASSUME NEW r \in Requests, Fills(r) \/ Quiet(r) \/ \E k \in Kinds : Start(r, k)
      PROVE  UNCHANGED dir
  BY <1>8, FillStep, QuietStep DEF Start, fileVars
<1> QED
  BY <1>2, <1>3, <1>4, <1>5, <1>6, <1>7, <1>8, Steps DEF vars

\* What a step may do to the history.
LEMMA HistoryStep ==
  ASSUME TypeOK, PlaceInv, [Next]_vars
  PROVE  /\ \A r \in Requests : kind[r] # "none" =>
               kind'[r] = kind[r] /\ met[r] \subseteq met'[r]
         /\ broken \subseteq broken'
         /\ live' => live
<1> USE DEF TypeOK, PlaceInv, Goto
<1>1. ASSUME NEW r \in Requests, NEW k, NEW to, Arrive(r, k, to)
      PROVE  /\ \A s \in Requests : kind[s] # "none" =>
                   kind'[s] = kind[s] /\ met[s] \subseteq met'[s]
             /\ UNCHANGED <<live, broken>>
  BY <1>1, Meeting DEF Arrive, sessionVars
<1>2. ASSUME NEW r \in Requests, Quiet(r)
      PROVE  UNCHANGED <<kind, met, live>> /\ broken \subseteq broken'
  <2>1. broken \subseteq broken'
    BY <1>2 DEF Quiet, SolverReads, SolverFails, OpenWriteFails, SaveRawResults,
       SaveRawResultsFails, UpdateSessionResults, UpdateControlState,
       UpdateControlStateFails, Update
  <2> QED
    BY <1>2, <2>1, QuietStep
<1>3. ASSUME NEW r \in Requests, Fills(r)
      PROVE  UNCHANGED <<kind, met, live>> /\ broken \subseteq broken'
  BY <1>3, FillStep
<1>4. ASSUME NEW r \in Requests, OpenWrite(r) \/ Rename(r) \/ RenameFails(r)
      PROVE  UNCHANGED <<kind, met, live, broken>>
  BY <1>4 DEF OpenWrite, Rename, RenameFails, sessionVars
<1>5. CASE RemoveSession \/ UNCHANGED vars
  BY <1>5 DEF RemoveSession, vars, historyVars
<1> QED
  BY <1>1, <1>2, <1>3, <1>4, <1>5, Steps DEF Start, Opens

\* A rename moves a file from name to name in the session's directory.
LEMMA RenameMoves ==
  ASSUME NEW r \in Requests, Rename(r), TypeOK
  PROVE  /\ Exists(Session(current))
         /\ \A n \in Names : dir'[Session(n)] = IF n = name[r] THEN dir[Session(current)]
                               ELSE IF n = current THEN NoFile ELSE dir[Session(n)]
         /\ \A n \in Names : dir'[Model(n)] = dir[Model(n)]
         /\ place[r] = "rename"
         /\ place' = [place EXCEPT ![r] = "update"]
         /\ UNCHANGED <<live, current, content, target, source, seen, name, kind, met,
                        results, recorded, broken>>
<1> DEFINE a == Session(current)
           b == Session(name[r])
<1>1. a \in Dirs \X Names /\ b \in Dirs \X Names /\ name[r] \in Names /\ current \in Names
  BY Paths DEF TypeOK
<1>2. \A p \in Dirs \X Names :
        dir'[p] = IF p = b THEN dir[a] ELSE IF p = a THEN NoFile ELSE dir[p]
  BY <1>1 DEF Rename, TypeOK
<1>3. ASSUME NEW n \in Names
      PROVE  /\ Session(n) = a <=> n = current
             /\ Session(n) = b <=> n = name[r]
             /\ Model(n) # a /\ Model(n) # b
             /\ Session(n) \in Dirs \X Names /\ Model(n) \in Dirs \X Names
  BY <1>1, Paths
<1> HIDE DEF a, b
<1>4. \A n \in Names :
        /\ dir'[Session(n)] = IF n = name[r] THEN dir[a]
                               ELSE IF n = current THEN NoFile ELSE dir[Session(n)]
        /\ dir'[Model(n)] = dir[Model(n)]
  BY <1>2, <1>3
<1> QED
  BY <1>4 DEF a, Rename, Goto, sessionVars, solveVars, localVars

\* Opening a file of the session, and one of the user's, for writing.
LEMMA TruncateSession ==
  ASSUME NEW r, NEW m \in Names, Truncate(r, Session(m)), TypeOK
  PROVE  \E f \in Files :
           /\ f = dir[Session(m)] \/ (~Exists(Session(m)) /\ Free(f))
           /\ \A n \in Names : dir'[Session(n)] = IF n = m THEN f ELSE dir[Session(n)]
           /\ \A n \in Names : dir'[Model(n)] = dir[Model(n)]
           /\ content' = [content EXCEPT ![f] = Torn]
           /\ target' = [target EXCEPT ![r] = f]
<1>1. PICK f \in Files :
         /\ f = dir[Session(m)] \/ (~Exists(Session(m)) /\ Free(f))
         /\ dir' = [dir EXCEPT ![Session(m)] = f]
         /\ content' = [content EXCEPT ![f] = Torn]
         /\ target' = [target EXCEPT ![r] = f]
  BY DEF Truncate
<1>2. \A n \in Names : dir'[Session(n)] = IF n = m THEN f ELSE dir[Session(n)]
  BY <1>1, Paths DEF TypeOK
<1>3. \A n \in Names : dir'[Model(n)] = dir[Model(n)]
  BY <1>1, Paths DEF TypeOK
<1> QED
  BY <1>1, <1>2, <1>3

LEMMA TruncateModel ==
  ASSUME NEW r, NEW m \in Names, Truncate(r, Model(m)), TypeOK
  PROVE  \E f \in Files :
           /\ f = dir[Model(m)] \/ (~Exists(Model(m)) /\ Free(f))
           /\ \A n \in Names : dir'[Model(n)] = IF n = m THEN f ELSE dir[Model(n)]
           /\ \A n \in Names : dir'[Session(n)] = dir[Session(n)]
           /\ content' = [content EXCEPT ![f] = Torn]
           /\ target' = [target EXCEPT ![r] = f]
<1>1. PICK f \in Files :
         /\ f = dir[Model(m)] \/ (~Exists(Model(m)) /\ Free(f))
         /\ dir' = [dir EXCEPT ![Model(m)] = f]
         /\ content' = [content EXCEPT ![f] = Torn]
         /\ target' = [target EXCEPT ![r] = f]
  BY DEF Truncate
<1>2. \A n \in Names : dir'[Model(n)] = IF n = m THEN f ELSE dir[Model(n)]
  BY <1>1, Paths DEF TypeOK
<1>3. \A n \in Names : dir'[Session(n)] = dir[Session(n)]
  BY <1>1, Paths DEF TypeOK
<1> QED
  BY <1>1, <1>2, <1>3

\* No name leads to a free file, and nobody has one open.
LEMMA FreeFile ==
  ASSUME NEW f \in Files, Free(f), TypeOK
  PROVE  ~OfSession(f) /\ ~OfModel(f)
  BY Paths DEF Free, OfSession, OfModel, TypeOK

LEMMA OpenWriteStep ==
  ASSUME NEW r \in Requests, OpenWrite(r), TypeOK
  PROVE  /\ live
         /\ place[r] = "openWrite"
         /\ place' = [place EXCEPT ![r] = "write"]
         /\ UNCHANGED <<live, current, results, recorded, kind, met, source, name, seen,
                        broken>>
         /\ \E m \in Names, f \in Files :
              /\ m = IF kind[r] = "edit" THEN current ELSE name[r]
              /\ f = dir[Session(m)] \/ (~Exists(Session(m)) /\ Free(f))
              /\ \A n \in Names : dir'[Session(n)] = IF n = m THEN f ELSE dir[Session(n)]
              /\ \A n \in Names : dir'[Model(n)] = dir[Model(n)]
              /\ content' = [content EXCEPT ![f] = Torn]
              /\ target' = [target EXCEPT ![r] = f]
<1> DEFINE m == IF kind[r] = "edit" THEN current ELSE name[r]
<1>1. m \in Names /\ WritePath(r) = Session(m)
  BY DEF TypeOK, WritePath
<1> HIDE DEF m
<1>2. Truncate(r, Session(m))
  BY <1>1 DEF OpenWrite
<1>3. \E f \in Files :
        /\ f = dir[Session(m)] \/ (~Exists(Session(m)) /\ Free(f))
        /\ \A n \in Names : dir'[Session(n)] = IF n = m THEN f ELSE dir[Session(n)]
        /\ \A n \in Names : dir'[Model(n)] = dir[Model(n)]
        /\ content' = [content EXCEPT ![f] = Torn]
        /\ target' = [target EXCEPT ![r] = f]
  BY <1>1, <1>2, TruncateSession
<1> QED
  BY <1>1, <1>3 DEF OpenWrite, Goto, sessionVars, solveVars, m

LEMMA OpensStep ==
  ASSUME NEW r \in Requests, NEW k \in Kinds, NEW m \in Names, Opens(r, k, m), TypeOK
  PROVE  /\ k \in {"save", "saveAs"}
         /\ place[r] = "idle"
         /\ place' = [place EXCEPT ![r] = "copy"]
         /\ Arrive(r, k, "copy")
         /\ name' = [name EXCEPT ![r] = m]
         /\ source' = [source EXCEPT ![r] = dir[Session(current)]]
         /\ Exists(Session(current)) /\ dir[Session(current)] \in Files
         /\ UNCHANGED <<live, current, results, recorded, seen, broken>>
         /\ \E f \in Files :
              /\ f = dir[Model(m)] \/ (~Exists(Model(m)) /\ Free(f))
              /\ \A n \in Names : dir'[Model(n)] = IF n = m THEN f ELSE dir[Model(n)]
              /\ \A n \in Names : dir'[Session(n)] = dir[Session(n)]
              /\ content' = [content EXCEPT ![f] = Torn]
              /\ target' = [target EXCEPT ![r] = f]
<1>1. dir[Session(current)] \in Files
  BY Paths DEF Opens, OpenCopy, TypeOK, Exists
<1>2. Truncate(r, Model(m))
  BY DEF Opens, OpenCopy
<1>3. \E f \in Files :
        /\ f = dir[Model(m)] \/ (~Exists(Model(m)) /\ Free(f))
        /\ \A n \in Names : dir'[Model(n)] = IF n = m THEN f ELSE dir[Model(n)]
        /\ \A n \in Names : dir'[Session(n)] = dir[Session(n)]
        /\ content' = [content EXCEPT ![f] = Torn]
        /\ target' = [target EXCEPT ![r] = f]
  BY <1>2, TruncateModel
<1>4. Arrive(r, k, "copy") /\ OpenCopy(r, m) /\ k \in {"save", "saveAs"}
  BY DEF Opens
<1> QED
  BY <1>1, <1>3, <1>4 DEF OpenCopy, Arrive, sessionVars, solveVars

LEMMA ApartStep ==
  ASSUME TypeOK, PlaceInv, ApartInv, [Next]_vars
  PROVE  ApartInv'
<1> USE NoFileAssumption DEF TypeOK, PlaceInv, ApartInv
<1>1. ASSUME NEW r \in Requests, NEW k \in Kinds, Start(r, k)
      PROVE  ApartInv'
  BY <1>1 DEF Start, Arrive, fileVars, OfSession, OfModel
<1>2. ASSUME NEW r \in Requests, NEW k \in Kinds, NEW n \in Names, Opens(r, k, n)
      PROVE  ApartInv'
  <2>1. PICK f \in Files :
           /\ f = dir[Model(n)] \/ Free(f)
           /\ \A m \in Names : dir'[Model(m)] = IF m = n THEN f ELSE dir[Model(m)]
           /\ \A m \in Names : dir'[Session(m)] = dir[Session(m)]
           /\ target' = [target EXCEPT ![r] = f]
    BY <1>2, OpensStep
  <2>2. /\ place[r] = "idle" /\ place' = [place EXCEPT ![r] = "copy"]
        /\ source' = [source EXCEPT ![r] = dir[Session(current)]]
    BY <1>2, OpensStep
  <2>3. ~OfSession(f)
    BY <2>1, FreeFile DEF OfModel
  <2>4. ASSUME NEW g \in Files
        PROVE  /\ OfSession(g)' => OfSession(g)
               /\ OfModel(g)' => OfModel(g) \/ g = f
    BY <2>1, <2>2 DEF OfSession, OfModel
  <2> QED
    BY <2>3, <2>4
<1>3. ASSUME NEW r \in Requests, Quiet(r)
      PROVE  ApartInv'
  <2>1. PICK p : /\ place' = [place EXCEPT ![r] = p]
                 /\ p \notin {"write", "copy"} /\ place[r] \notin {"write", "copy"}
    BY <1>3, QuietStep DEF Over
  <2>2. UNCHANGED <<dir, source, target>>
    BY <1>3, QuietStep
  <2>3. \A q \in Requests : /\ place'[q] = "write" => place[q] = "write"
                            /\ place'[q] = "copy" => place[q] = "copy"
    BY <2>1
  <2> QED
    BY <2>2, <2>3 DEF OfSession, OfModel
<1>4. ASSUME NEW r \in Requests, OpenWrite(r)
      PROVE  ApartInv'
  <2>1. PICK m \in Names, f \in Files :
           /\ m = IF kind[r] = "edit" THEN current ELSE name[r]
           /\ f = dir[Session(m)] \/ (~Exists(Session(m)) /\ Free(f))
           /\ \A n \in Names : dir'[Session(n)] = IF n = m THEN f ELSE dir[Session(n)]
           /\ \A n \in Names : dir'[Model(n)] = dir[Model(n)]
           /\ content' = [content EXCEPT ![f] = Torn]
           /\ target' = [target EXCEPT ![r] = f]
    BY <1>4, OpenWriteStep
  <2>2. /\ source' = source
        /\ place[r] = "openWrite" /\ place' = [place EXCEPT ![r] = "write"]
    BY <1>4, OpenWriteStep
  <2>3. ~OfModel(f)
    BY <2>1, FreeFile DEF OfSession
  <2>4. ASSUME NEW g \in Files
        PROVE  /\ OfModel(g)' => OfModel(g)
               /\ OfSession(g)' => OfSession(g) \/ g = f
    BY <2>1, <2>2 DEF OfSession, OfModel
  <2> QED
    BY <2>3, <2>4
<1>5. ASSUME NEW r \in Requests, Fills(r)
      PROVE  ApartInv'
  <2>1. PICK p \in {"ok", "error", "rename"} : place' = [place EXCEPT ![r] = p]
    BY <1>5, FillStep
  <2>2. dir' = dir /\ target' = [target EXCEPT ![r] = NoFile]
                   /\ source' = [source EXCEPT ![r] = NoFile]
    BY <1>5, FillStep DEF Close
  <2> QED
    BY <2>1, <2>2 DEF OfSession, OfModel
<1>6. ASSUME NEW r \in Requests, Rename(r)
      PROVE  ApartInv'
  <2>1. /\ \A n \in Names : dir'[Session(n)] = IF n = name[r] THEN dir[Session(current)]
                               ELSE IF n = current THEN NoFile ELSE dir[Session(n)]
        /\ \A n \in Names : dir'[Model(n)] = dir[Model(n)]
        /\ place[r] = "rename" /\ place' = [place EXCEPT ![r] = "update"]
        /\ UNCHANGED <<source, target>>
    BY <1>6, RenameMoves
  <2>2. ASSUME NEW g \in Files
        PROVE  OfSession(g)' => OfSession(g)
    BY <2>1 DEF OfSession
  <2>3. ASSUME NEW g \in Files
        PROVE  OfModel(g)' => OfModel(g)
    BY <2>1 DEF OfModel
  <2> QED
    BY <2>2, <2>3
<1>7. ASSUME NEW r \in Requests, RenameFails(r)
      PROVE  ApartInv'
  <2>1. \A n \in Names : dir'[Model(n)] \in {dir[Model(n)], NoFile}
                           /\ dir'[Session(n)] = dir[Session(n)]
    BY <1>7, Paths DEF RenameFails
  <2>2. source' = source /\ target' = target /\ place[r] = "rename"
        /\ place' = [place EXCEPT ![r] = "error"]
    BY <1>7 DEF RenameFails, Goto, localVars
  <2>3. ASSUME NEW g \in Files
        PROVE  /\ OfSession(g)' => OfSession(g)
               /\ OfModel(g)' => OfModel(g)
    BY <2>1, <2>2 DEF OfSession, OfModel
  <2> QED
    BY <2>3
<1>8. CASE RemoveSession
  <2>1. \A n \in Names : dir'[Model(n)] = dir[Model(n)]
                           /\ dir'[Session(n)] = NoFile
    BY <1>8 DEF RemoveSession, Session, Model, Dirs
  <2>2. UNCHANGED <<place, source, target>>
    BY <1>8 DEF RemoveSession, localVars
  <2>3. ASSUME NEW g \in Files
        PROVE  /\ OfSession(g)' => OfSession(g)
               /\ OfModel(g)' => OfModel(g)
    BY <2>1, <2>2 DEF OfSession, OfModel
  <2> QED
    BY <2>3
<1>9. CASE UNCHANGED vars
  BY <1>9 DEF vars, OfSession, OfModel
<1> QED
  BY <1>1, <1>2, <1>3, <1>4, <1>5, <1>6, <1>7, <1>8, <1>9, Steps

LEMMA DeadStep ==
  ASSUME TypeOK, DeadInv, [Next]_vars
  PROVE  DeadInv'
<1> USE DEF DeadInv, Exists
<1>1. ASSUME NEW r \in Requests, NEW k \in Kinds, NEW n \in Names, Opens(r, k, n)
      PROVE  DeadInv'
  BY <1>1, OpensStep
<1>2. ASSUME NEW r \in Requests, Rename(r)
      PROVE  DeadInv'
  BY <1>2, RenameMoves DEF TypeOK
<1>3. ASSUME NEW r \in Requests, RenameFails(r)
      PROVE  DeadInv'
  BY <1>3, Paths DEF RenameFails, TypeOK, sessionVars
<1>4. CASE RemoveSession
  BY <1>4 DEF RemoveSession, TypeOK, Session, Dirs
<1>5. ASSUME NEW r \in Requests, OpenWrite(r)
      PROVE  DeadInv'
  BY <1>5, OpenWriteStep
<1>6. ASSUME NEW r \in Requests, Fills(r) \/ Quiet(r) \/ \E k \in Kinds : Start(r, k)
      PROVE  DeadInv'
  BY <1>6, FillStep, QuietStep DEF Start, fileVars, Arrive, sessionVars
<1> QED
  BY <1>1, <1>2, <1>3, <1>4, <1>5, <1>6, Steps DEF vars

\* The quiet steps that change a name.
LEMMA QuietNames ==
  ASSUME NEW r \in Requests, Quiet(r)
  PROVE  \/ Update(r)
         \/ UpdateControlState(r)
         \/ UNCHANGED <<current, name>>
  BY DEF Quiet, SolverReads, SolverFails, OpenWriteFails, SaveRawResults,
         SaveRawResultsFails, UpdateSessionResults, UpdateControlStateFails,
         sessionVars, localVars

\* Overlaps are not forgotten.
LEMMA SavesAsStayMet ==
  ASSUME TypeOK, PlaceInv, [Next]_vars, SavesAsMet
  PROVE  SavesAsMet'
  BY HistoryStep DEF SavesAsMet

LEMMA PathStep ==
  ASSUME TypeOK, PlaceInv, MetInv, PathInv, [Next]_vars
  PROVE  PathInv'
<1> SUFFICES ASSUME live', ~SavesAsMet'
             PROVE  /\ (\E q \in Requests : place'[q] = "update")
                          \/ dir'[Session(current')] # NoFile
                    /\ \A q \in Requests : place'[q] = "update"
                          => dir'[Session(name'[q])] # NoFile
  BY DEF PathInv, Updating, Exists
<1>1. /\ live /\ ~SavesAsMet
      /\ (\E q \in Requests : place[q] = "update") \/ dir[Session(current)] # NoFile
      /\ \A q \in Requests : place[q] = "update" => dir[Session(name[q])] # NoFile
  BY HistoryStep, SavesAsStayMet DEF PathInv, Updating, Exists
<1> USE DEF TypeOK
<1>2. CASE \E r \in Requests, k \in Kinds : Start(r, k)
  BY <1>1, <1>2 DEF Start, Arrive, sessionVars, fileVars
<1>3. ASSUME NEW r \in Requests, NEW k \in Kinds, NEW n \in Names, Opens(r, k, n)
      PROVE  /\ (\E q \in Requests : place'[q] = "update")
                   \/ dir'[Session(current')] # NoFile
             /\ \A q \in Requests : place'[q] = "update"
                   => dir'[Session(name'[q])] # NoFile
  BY <1>1, <1>3, OpensStep
<1>4. ASSUME NEW r \in Requests, Quiet(r)
      PROVE  /\ (\E q \in Requests : place'[q] = "update")
                   \/ dir'[Session(current')] # NoFile
             /\ \A q \in Requests : place'[q] = "update"
                   => dir'[Session(name'[q])] # NoFile
  <2>1. CASE Update(r)
    BY <1>1, <2>1 DEF Update, Goto, fileVars, localVars
  <2>2. CASE UpdateControlState(r)
    BY <1>1, <2>2 DEF UpdateControlState, Goto, fileVars, sessionVars
  <2>3. CASE UNCHANGED <<current, name>> /\ ~Update(r)
    <3>1. PICK p : place' = [place EXCEPT ![r] = p] /\ p # "update"
      BY <1>4, QuietStep DEF Over
    <3>2. place[r] # "update"
      BY <1>4, <2>3 DEF Quiet, Goto, SolverReads, SolverFails, OpenWriteFails,
         SaveRawResults, SaveRawResultsFails, UpdateSessionResults,
         UpdateControlState, UpdateControlStateFails
    <3>3. dir' = dir
      BY <1>4, QuietStep
    <3> QED
      BY <1>1, <2>3, <3>1, <3>2, <3>3
  <2> QED
    BY <1>4, <2>1, <2>2, <2>3, QuietNames
<1>5. ASSUME NEW r \in Requests, OpenWrite(r)
      PROVE  /\ (\E q \in Requests : place'[q] = "update")
                   \/ dir'[Session(current')] # NoFile
             /\ \A q \in Requests : place'[q] = "update"
                   => dir'[Session(name'[q])] # NoFile
  <2>1. PICK m \in Names, f \in Files :
           /\ m = IF kind[r] = "edit" THEN current ELSE name[r]
           /\ f = dir[Session(m)] \/ (~Exists(Session(m)) /\ Free(f))
           /\ \A n \in Names : dir'[Session(n)] = IF n = m THEN f ELSE dir[Session(n)]
           /\ \A n \in Names : dir'[Model(n)] = dir[Model(n)]
           /\ content' = [content EXCEPT ![f] = Torn]
           /\ target' = [target EXCEPT ![r] = f]
    BY <1>5, OpenWriteStep
  <2>2. /\ UNCHANGED <<current, name>>
        /\ place' = [place EXCEPT ![r] = "write"] /\ place[r] = "openWrite"
    BY <1>5, OpenWriteStep
  <2> QED
    BY <1>1, <2>1, <2>2, NoFileAssumption
<1>6. CASE \E r \in Requests : Fills(r)
  BY <1>1, <1>6, FillStep
<1>7. ASSUME NEW r \in Requests, Rename(r)
      PROVE  /\ (\E q \in Requests : place'[q] = "update")
                   \/ dir'[Session(current')] # NoFile
             /\ \A q \in Requests : place'[q] = "update"
                   => dir'[Session(name'[q])] # NoFile
  <2>1. \A q \in Requests : place[q] # "update"
    BY <1>1, <1>7, RenameMoves DEF MetInv, InFlight, Over, PlaceInv, SavesAsMet
  <2>2. /\ dir[Session(current)] # NoFile /\ place' = [place EXCEPT ![r] = "update"]
        /\ dir'[Session(name[r])] = dir[Session(current)] /\ name' = name
    BY <1>7, RenameMoves DEF Exists
  <2> QED
    BY <2>1, <2>2
<1>8. CASE \E r \in Requests : RenameFails(r)
  <2>1. PICK r \in Requests : RenameFails(r)
    BY <1>8
  <2>2. \A n \in Names : dir'[Session(n)] = dir[Session(n)]
    BY <2>1, Paths DEF RenameFails
  <2> QED
    BY <1>1, <2>1, <2>2 DEF RenameFails, Goto, sessionVars, localVars
<1>9. CASE RemoveSession \/ UNCHANGED vars
  BY <1>1, <1>9 DEF RemoveSession, vars
<1> QED
  BY <1>2, <1>3, <1>4, <1>5, <1>6, <1>7, <1>8, <1>9, Steps

\* The steps that touch the results or a solve that is about to record them.
LEMMA ResultsSteps ==
  ASSUME TypeOK, PlaceInv, [Next]_vars
  PROVE  \/ \E r \in Requests :
               SaveRawResults(r) \/ SaveRawResultsFails(r) \/ UpdateSessionResults(r)
         \/ /\ UNCHANGED <<results, recorded>>
            /\ \A q \in Requests : place'[q] = "record" <=> place[q] = "record"
<1> USE DEF TypeOK, Goto
<1>1. ASSUME NEW r \in Requests, NEW k \in Kinds, Start(r, k)
      PROVE  /\ UNCHANGED <<results, recorded>>
             /\ \A q \in Requests : place'[q] = "record" <=> place[q] = "record"
  BY <1>1 DEF Start, Arrive, solveVars
<1>2. ASSUME NEW r \in Requests, NEW k \in Kinds, NEW n \in Names, Opens(r, k, n)
      PROVE  /\ UNCHANGED <<results, recorded>>
             /\ \A q \in Requests : place'[q] = "record" <=> place[q] = "record"
  BY <1>2, OpensStep
<1>3. ASSUME NEW r \in Requests, Quiet(r),
             ~SaveRawResults(r), ~SaveRawResultsFails(r), ~UpdateSessionResults(r)
      PROVE  /\ UNCHANGED <<results, recorded>>
             /\ \A q \in Requests : place'[q] = "record" <=> place[q] = "record"
  <2>1. CASE SolverReads(r)
    BY <2>1 DEF SolverReads, solveVars
  <2>2. CASE OpenWriteFails(r)
    BY <2>2 DEF OpenWriteFails, AfterFailure, solveVars
  <2> QED
    BY <1>3, <2>1, <2>2 DEF Quiet, SolverFails, UpdateControlState, UpdateControlStateFails,
       Update, solveVars
<1>4. ASSUME NEW r \in Requests, Fills(r)
      PROVE  /\ UNCHANGED <<results, recorded>>
             /\ \A q \in Requests : place'[q] = "record" <=> place[q] = "record"
  BY <1>4, FillStep
<1>5. ASSUME NEW r \in Requests, OpenWrite(r) \/ Rename(r) \/ RenameFails(r)
      PROVE  /\ UNCHANGED <<results, recorded>>
             /\ \A q \in Requests : place'[q] = "record" <=> place[q] = "record"
  BY <1>5 DEF OpenWrite, Rename, RenameFails, solveVars
<1>6. CASE RemoveSession \/ UNCHANGED vars
  BY <1>6 DEF RemoveSession, vars, solveVars
<1> QED
  BY <1>1, <1>2, <1>3, <1>4, <1>5, <1>6, Steps

LEMMA SolveStep ==
  ASSUME TypeOK, PlaceInv, MetInv, SolveInv, ResultsOfOneSolve, [Next]_vars
  PROVE  SolveInv' /\ ResultsOfOneSolve'
<1>1. /\ \A q, s \in Requests : kind[q] # "none" /\ s \in met[q] => s \in met'[q]
      /\ \A q \in Requests : kind[q] # "none" => kind'[q] = kind[q]
      /\ broken \subseteq broken'
      /\ live' => live
  BY HistoryStep
<1>2. \A q \in Requests : place[q] \in {"record", "saveResults"} => kind[q] = "solve"
  BY DEF PlaceInv
<1>3. /\ \A q \in Requests : met[q] \subseteq Requests
      /\ results \subseteq Requests /\ broken \subseteq Requests
  BY DEF TypeOK
<1>4. ASSUME NEW r \in Requests, SaveRawResults(r)
      PROVE  SolveInv' /\ ResultsOfOneSolve'
  <2>1. /\ results' = {r} /\ place[r] = "saveResults"
        /\ kind' = kind
        /\ place' = [place EXCEPT ![r] = "record"] /\ place' \in [Requests -> Places]
    BY <1>4 DEF SaveRawResults, Goto, TypeOK, Places
  <2>2. \A q \in Requests : place'[q] = "record" => q = r \/ q \in met'[r]
    BY <1>1, <1>2, <2>1 DEF MetInv, InFlight, Over, TypeOK
  <2>3. place'[r] = "record"
    BY <2>1 DEF TypeOK
  <2> QED
    BY <1>2, <2>1, <2>2, <2>3 DEF SolveInv, ResultsOfOneSolve
<1>5. ASSUME NEW r \in Requests, SaveRawResultsFails(r)
      PROVE  SolveInv' /\ ResultsOfOneSolve'
  <2>1. /\ place[r] = "saveResults"
        /\ \A q \in Requests : place'[q] = "record" <=> place[q] = "record"
        /\ recorded' = recorded /\ kind' = kind /\ met' = met
    BY <1>5 DEF SaveRawResultsFails, Goto, TypeOK
  <2>2. CASE results' = results
    BY <1>1, <1>3, <2>1, <2>2 DEF SolveInv, ResultsOfOneSolve
  <2>3. CASE results' = {} /\ broken' = broken \cup {r}
    BY <1>1, <1>2, <2>1, <2>3 DEF SolveInv, ResultsOfOneSolve
  <2> QED
    BY <1>5, <2>2, <2>3 DEF SaveRawResultsFails
<1>6. ASSUME NEW r \in Requests, UpdateSessionResults(r)
      PROVE  SolveInv' /\ ResultsOfOneSolve'
  <2>1. /\ place[r] = "record" /\ results' = results /\ kind' = kind /\ met' = met
        /\ \A q \in Requests : place'[q] = "record" => place[q] = "record"
        /\ live => recorded' = {r}
        /\ broken' = broken
    BY <1>6 DEF UpdateSessionResults, Goto, TypeOK
  <2>2. SolveInv'
    BY <2>1 DEF SolveInv
  <2>3. \/ results = {r}
        \/ \E s \in Requests : results = {s} /\ r \in met[s]
        \/ results = {} /\ \E s \in broken : kind[s] = "solve"
    BY <2>1 DEF SolveInv
  <2>4. ResultsOfOneSolve'
    BY <1>1, <1>2, <2>1, <2>3 DEF ResultsOfOneSolve
  <2> QED
    BY <2>2, <2>4
<1>7. CASE /\ UNCHANGED <<results, recorded>>
           /\ \A q \in Requests : place'[q] = "record" <=> place[q] = "record"
  <2>1. (\E s \in broken : kind[s] = "solve") => \E s \in broken' : kind'[s] = "solve"
    BY <1>1, <1>3
  <2>2. SolveInv'
    BY <1>1, <1>7, <2>1 DEF SolveInv
  <2>3. \A q \in results : (\E s \in met[q] : kind[s] = "solve")
                               => \E s \in met'[q] : kind'[s] = "solve"
    BY <1>1, <1>3 DEF SolveInv
  <2>4. ResultsOfOneSolve'
    BY <1>1, <1>3, <1>7, <2>1, <2>3 DEF ResultsOfOneSolve
  <2> QED
    BY <2>2, <2>4
<1> QED
  BY <1>4, <1>5, <1>6, <1>7, ResultsSteps

LEMMA LoneStays ==
  ASSUME TypeOK, PlaceInv, [Next]_vars, NEW r \in Requests, kind[r] # "none", Lone(r)'
  PROVE  Lone(r)
  BY HistoryStep DEF Lone, Rewriters, Rewriting

\* What is in flight with such a request only saves.
LEMMA LoneInFlight ==
  ASSUME TypeOK, MetInv, NEW r \in InFlight, Lone(r), NEW s \in InFlight, s # r
  PROVE  kind[s] \notin Rewriting
  BY DEF Lone, MetInv, Rewriters, InFlight

\* An edit is acknowledged when its file has been written.
LEMMA AckStep ==
  ASSUME TypeOK, PlaceInv, [Next]_vars,
         NEW e \in Requests, place'[e] = "ok", kind'[e] = "edit"
  PROVE  kind[e] = "edit" /\ (place[e] = "ok" \/ Write(e))
<1> USE DEF TypeOK, PlaceInv, Goto
<1>1. ASSUME NEW r \in Requests, NEW k \in Kinds, Start(r, k)
      PROVE  kind[e] = "edit" /\ place[e] = "ok"
  BY <1>1 DEF Start, Arrive
<1>2. ASSUME NEW r \in Requests, NEW k \in Kinds, NEW n \in Names, Opens(r, k, n)
      PROVE  kind[e] = "edit" /\ place[e] = "ok"
  BY <1>2, OpensStep DEF Arrive
<1>3. ASSUME NEW r \in Requests, Quiet(r)
      PROVE  kind[e] = "edit" /\ place[e] = "ok"
  BY <1>3, QuietStep
<1>4. ASSUME NEW r \in Requests, Fills(r)
      PROVE  kind[e] = "edit" /\ (place[e] = "ok" \/ Write(e))
  <2>1. CASE e # r
    BY <1>4, <2>1, FillStep
  <2>2. CASE e = r
    BY <1>4, <2>2 DEF Fills, Write, Copy, CopyFails, WriteFails, AfterFailure
  <2> QED
    BY <2>1, <2>2
<1>5. ASSUME NEW r \in Requests, OpenWrite(r) \/ Rename(r) \/ RenameFails(r)
      PROVE  kind[e] = "edit" /\ place[e] = "ok"
  BY <1>5 DEF OpenWrite, Rename, RenameFails
<1>6. CASE RemoveSession \/ UNCHANGED vars
  BY <1>6 DEF RemoveSession, vars
<1> QED
  BY <1>1, <1>2, <1>3, <1>4, <1>5, <1>6, Steps

\* The quiet steps that read a file for a later write.
LEMMA QuietReads ==
  ASSUME NEW r \in Requests, Quiet(r), TypeOK, PlaceInv
  PROVE  \/ /\ place[r] = "read" /\ kind[r] \in {"edit", "solve"}
            /\ Whole(Session(name[r]))
            /\ seen' = [seen EXCEPT ![r] = content[dir[Session(name[r])]]]
            /\ UNCHANGED <<current, name>>
         \/ /\ place[r] = "foldRead" /\ kind[r] = "solve"
            /\ Whole(Session(current))
            /\ seen' = [seen EXCEPT ![r] = content[dir[Session(current)]]]
            /\ name' = [name EXCEPT ![r] = current] /\ current' = current
         \/ /\ place[r] = "update" /\ place' = [place EXCEPT ![r] = "ok"]
            /\ current' = name[r] /\ UNCHANGED <<seen, name>>
         \/ /\ UNCHANGED <<current, name, seen>> /\ place[r] # "update"
            /\ place'[r] \notin {"openWrite", "write"}
<1> USE DEF Goto, localVars, sessionVars, TypeOK, PlaceInv
<1>1. CASE SolverReads(r)
  BY <1>1 DEF SolverReads
<1>2. CASE UpdateControlState(r)
  BY <1>2 DEF UpdateControlState
<1>3. CASE Update(r)
  BY <1>3 DEF Update
<1>4. CASE OpenWriteFails(r)
  BY <1>4 DEF OpenWriteFails, AfterFailure
<1>5. CASE SolverFails(r) \/ SaveRawResults(r) \/ SaveRawResultsFails(r)
            \/ UpdateSessionResults(r) \/ UpdateControlStateFails(r)
  BY <1>5 DEF SolverFails, SaveRawResults, SaveRawResultsFails,
     UpdateSessionResults, UpdateControlStateFails
<1> QED
  BY <1>1, <1>2, <1>3, <1>4, <1>5 DEF Quiet

LEMMA WriterStep ==
  ASSUME TypeOK, PlaceInv, MetInv, WriterInv, [Next]_vars
  PROVE  WriterInv'
<1> SUFFICES ASSUME NEW q \in Requests, place'[q] = "write", kind'[q] = "edit", Lone(q)',
                    dir'[Session(current')] # NoFile
             PROVE  target'[q] = dir'[Session(current')]
  BY DEF WriterInv, Exists
<1> USE DEF TypeOK
<1>1. kind[q] # "none" => kind[q] = "edit" /\ Lone(q)
  BY HistoryStep, LoneStays
<1>2. place[q] = "write" /\ dir[Session(current)] # NoFile => target[q] = dir[Session(current)]
  BY <1>1 DEF WriterInv, Exists, PlaceInv
<1>3. ASSUME NEW r \in InFlight, kind[r] \in Rewriting, r # q
      PROVE  place[q] # "write"
  <2>1. SUFFICES ASSUME place[q] = "write"
                 PROVE  FALSE
    OBVIOUS
  <2>2. q \in InFlight /\ kind[q] # "none"
    BY <2>1 DEF InFlight, Over, PlaceInv
  <2> QED
    BY <1>1, <1>3, <2>2, LoneInFlight
<1>4. ASSUME NEW r \in Requests, NEW k \in Kinds, Start(r, k)
      PROVE  target'[q] = dir'[Session(current')]
  BY <1>2, <1>4 DEF Start, Arrive, sessionVars, fileVars
<1>5. ASSUME NEW r \in Requests, NEW k \in Kinds, NEW n \in Names, Opens(r, k, n)
      PROVE  target'[q] = dir'[Session(current')]
  <2>1. PICK f \in Files :
           /\ f = dir[Model(n)] \/ (~Exists(Model(n)) /\ Free(f))
           /\ \A m \in Names : dir'[Model(m)] = IF m = n THEN f ELSE dir[Model(m)]
           /\ \A m \in Names : dir'[Session(m)] = dir[Session(m)]
           /\ content' = [content EXCEPT ![f] = Torn]
           /\ target' = [target EXCEPT ![r] = f]
    BY <1>5, OpensStep
  <2>2. place' = [place EXCEPT ![r] = "copy"] /\ current' = current
    BY <1>5, OpensStep
  <2> QED
    BY <1>2, <2>1, <2>2
<1>6. ASSUME NEW r \in Requests, Quiet(r)
      PROVE  target'[q] = dir'[Session(current')]
  <2>1. PICK p : place' = [place EXCEPT ![r] = p] /\ p # "write" /\ place[r] # "write"
    BY <1>6, QuietStep DEF Over
  <2>2. dir' = dir /\ target' = target /\ r # q /\ place[q] = "write"
    BY <1>6, <2>1, QuietStep
  <2>3. place[r] = "update" => r \in InFlight /\ kind[r] \in Rewriting
    BY DEF InFlight, Over, PlaceInv, Rewriting
  <2>4. current' = current
    BY <1>3, <1>6, <2>2, <2>3, QuietReads
  <2> QED
    BY <1>2, <2>2, <2>4
<1>7. ASSUME NEW r \in Requests, OpenWrite(r)
      PROVE  target'[q] = dir'[Session(current')]
  <2>1. PICK m \in Names, f \in Files :
           /\ m = IF kind[r] = "edit" THEN current ELSE name[r]
           /\ f = dir[Session(m)] \/ (~Exists(Session(m)) /\ Free(f))
           /\ \A n \in Names : dir'[Session(n)] = IF n = m THEN f ELSE dir[Session(n)]
           /\ \A n \in Names : dir'[Model(n)] = dir[Model(n)]
           /\ content' = [content EXCEPT ![f] = Torn]
           /\ target' = [target EXCEPT ![r] = f]
    BY <1>7, OpenWriteStep
  <2>2. /\ UNCHANGED <<current, kind>>
        /\ place' = [place EXCEPT ![r] = "write"] /\ place[r] = "openWrite"
    BY <1>7, OpenWriteStep
  <2>3. r \in InFlight /\ kind[r] \in Rewriting
    BY <2>2 DEF InFlight, Over, PlaceInv, Rewriting
  <2>4. r = q
    BY <1>3, <2>2, <2>3
  <2> QED
    BY <2>1, <2>2, <2>4
<1>8. ASSUME NEW r \in Requests, Fills(r)
      PROVE  target'[q] = dir'[Session(current')]
  <2>1. PICK p \in {"ok", "error", "rename"} : place' = [place EXCEPT ![r] = p]
    BY <1>8, FillStep
  <2> QED
    BY <1>2, <1>8, <2>1, FillStep DEF Close
<1>9. ASSUME NEW r \in Requests, Rename(r)
      PROVE  target'[q] = dir'[Session(current')]
  <2>1. r \in InFlight /\ kind[r] \in Rewriting /\ r # q /\ place[q] = "write"
    BY <1>9, RenameMoves DEF InFlight, Over, PlaceInv, Rewriting
  <2> QED
    BY <1>3, <2>1
<1>10. ASSUME NEW r \in Requests, RenameFails(r)
       PROVE  target'[q] = dir'[Session(current')]
  <2>1. \A n \in Names : dir'[Session(n)] = dir[Session(n)]
    BY <1>10, Paths DEF RenameFails
  <2>2. place' = [place EXCEPT ![r] = "error"] /\ UNCHANGED <<current, target>>
    BY <1>10 DEF RenameFails, Goto, sessionVars, localVars
  <2> QED
    BY <1>2, <2>1, <2>2
<1>11. CASE RemoveSession
  BY <1>11, Paths DEF RemoveSession, Session
<1>12. CASE UNCHANGED vars
  BY <1>2, <1>12 DEF vars
<1> QED
  BY <1>4, <1>5, <1>6, <1>7, <1>8, <1>9, <1>10, <1>11, <1>12, Steps

LEMMA StartStep ==
  ASSUME NEW r \in Requests, NEW k \in Kinds, Start(r, k), TypeOK
  PROVE  /\ k \in {"edit", "solve"} /\ place[r] = "idle"
         /\ place' = [place EXCEPT ![r] = "read"]
         /\ kind' = [kind EXCEPT ![r] = k]
         /\ name' = [name EXCEPT ![r] = current]
         /\ UNCHANGED <<live, current, dir, content, seen, source, target, broken>>
  BY DEF Start, Arrive, sessionVars, fileVars

LEMMA RenameFailsStep ==
  ASSUME NEW r \in Requests, RenameFails(r), TypeOK
  PROVE  /\ place[r] = "rename" /\ place' = [place EXCEPT ![r] = "error"]
         /\ \A n \in Names : dir'[Session(n)] = dir[Session(n)]
         /\ UNCHANGED <<live, current, content, name, seen, source, target, kind, met,
                        broken>>
  BY Paths DEF RenameFails, Goto, sessionVars, localVars, TypeOK

LEMMA RemoveStep ==
  ASSUME RemoveSession, TypeOK
  PROVE  /\ \A n \in Names : dir'[Session(n)] = NoFile
         /\ UNCHANGED <<current, content, place, name, seen, source, target, kind, met,
                        broken>>
  BY Paths DEF RemoveSession, Session, localVars, historyVars, TypeOK

\* What Write and Copy leave in the file.
LEMMA FillsWith ==
  ASSUME NEW r \in Requests, Fills(r), TypeOK, PlaceInv
  PROVE  /\ target[r] \in Files
         /\ \E c : /\ content' = [content EXCEPT ![target[r]] = c]
                   /\ \/ c = Torn
                      \/ Write(r) /\ kind[r] = "edit" /\ c = seen[r] \cup {r}
                      \/ Write(r) /\ kind[r] # "edit" /\ c = seen[r]
                      \/ Copy(r) /\ c = content[source[r]]
<1>1. target[r] \in Files
  BY NoFileAssumption, FillStep DEF PlaceInv, TypeOK
<1>2. CASE Write(r)
  <2>1. CASE kind[r] = "edit"
    BY <1>1, <1>2, <2>1 DEF Write, Fill
  <2>2. CASE kind[r] # "edit"
    BY <1>1, <1>2, <2>2 DEF Write, Fill
  <2> QED
    BY <2>1, <2>2
<1>3. CASE Copy(r)
  BY <1>1, <1>3 DEF Copy, Fill
<1>4. CASE WriteFails(r) \/ CopyFails(r)
  BY <1>1, <1>4 DEF WriteFails, CopyFails
<1> QED
  BY <1>1, <1>2, <1>3, <1>4 DEF Fills

\* The names in use after a step were in use before, but for those a save-as
\* has just given the working file.
LEMMA InUseStep ==
  ASSUME TypeOK, PlaceInv, [Next]_vars, NEW n \in Names, InUse(n)'
  PROVE  InUse(n) \/ \E r \in Requests : Rename(r) /\ n = name[r]
<1> USE DEF TypeOK, InUse, InFlight, Over
<1>1. ASSUME NEW r \in Requests, NEW k \in Kinds, Start(r, k)
      PROVE  InUse(n)
  <2>1. /\ place[r] = "idle" /\ place' = [place EXCEPT ![r] = "read"]
        /\ kind' = [kind EXCEPT ![r] = k]
        /\ name' = [name EXCEPT ![r] = current] /\ current' = current
    BY <1>1, StartStep
  <2> QED
    BY <2>1
<1>2. ASSUME NEW r \in Requests, NEW k \in Kinds, NEW m \in Names, Opens(r, k, m)
      PROVE  InUse(n)
  <2>1. /\ k \in {"save", "saveAs"} /\ place[r] = "idle" /\ current' = current
        /\ place' = [place EXCEPT ![r] = "copy"] /\ kind' = [kind EXCEPT ![r] = k]
        /\ name' = [name EXCEPT ![r] = m]
    BY <1>2, OpensStep DEF Arrive
  <2> QED
    BY <2>1
<1>3. ASSUME NEW r \in Requests, Quiet(r)
      PROVE  InUse(n)
  <2>1. /\ kind' = kind
        /\ \E p \in Places : /\ place' = [place EXCEPT ![r] = p] /\ p # "update"
                             /\ place[r] \notin Over \cup {"idle"}
    BY <1>3, QuietStep
  <2>2. CASE place[r] = "foldRead" /\ name' = [name EXCEPT ![r] = current] /\ current' = current
    BY <2>1, <2>2
  <2>3. CASE place[r] = "update" /\ place' = [place EXCEPT ![r] = "ok"]
             /\ current' = name[r] /\ name' = name
    BY <2>1, <2>3
  <2>4. CASE UNCHANGED <<current, name>>
    BY <2>1, <2>4
  <2> QED
    BY <1>3, <2>2, <2>3, <2>4, QuietReads
<1>4. ASSUME NEW r \in Requests, OpenWrite(r)
      PROVE  InUse(n)
  BY <1>4, OpenWriteStep
<1>5. ASSUME NEW r \in Requests, Fills(r)
      PROVE  InUse(n)
  <2>1. /\ UNCHANGED <<current, name, kind>> /\ place[r] \in {"write", "copy"}
        /\ \E p \in {"ok", "error", "rename"} :
               place' = [place EXCEPT ![r] = p] /\ (p = "rename" => place[r] = "copy")
    BY <1>5, FillStep
  <2>2. place[r] = "copy" => kind[r] \in {"save", "saveAs"}
    BY DEF PlaceInv
  <2> QED
    BY <2>1, <2>2
<1>6. ASSUME NEW r \in Requests, Rename(r)
      PROVE  InUse(n) \/ n = name[r]
  BY <1>6, RenameMoves
<1>7. ASSUME NEW r \in Requests, RenameFails(r)
      PROVE  InUse(n)
  BY <1>7, RenameFailsStep
<1>8. CASE RemoveSession
  BY <1>8, RemoveStep
<1>9. CASE UNCHANGED vars
  BY <1>9 DEF vars
<1> QED
  BY <1>1, <1>2, <1>3, <1>4, <1>5, <1>6, <1>7, <1>8, <1>9, Steps

\* The edits a handler is about to write are those it read from a file in use.
LEMMA SeenStep ==
  ASSUME TypeOK, PlaceInv, [Next]_vars, NEW q \in Requests,
         place'[q] \in {"openWrite", "write"}
  PROVE  \/ place[q] \in {"openWrite", "write"} /\ seen'[q] = seen[q]
         \/ \E n \in Names : /\ InUse(n) /\ Whole(Session(n))
                             /\ seen'[q] = content[dir[Session(n)]]
<1> USE DEF TypeOK
<1>1. ASSUME NEW r \in Requests, NEW k \in Kinds, Start(r, k)
      PROVE  place[q] \in {"openWrite", "write"} /\ seen'[q] = seen[q]
  BY <1>1, StartStep
<1>2. ASSUME NEW r \in Requests, NEW k \in Kinds, NEW m \in Names, Opens(r, k, m)
      PROVE  place[q] \in {"openWrite", "write"} /\ seen'[q] = seen[q]
  BY <1>2, OpensStep
<1>3. ASSUME NEW r \in Requests, Quiet(r), q = r
      PROVE  \E n \in Names : /\ InUse(n) /\ Whole(Session(n))
                              /\ seen'[q] = content[dir[Session(n)]]
  <2>1. CASE /\ place[r] = "read" /\ kind[r] \in {"edit", "solve"}
             /\ Whole(Session(name[r]))
             /\ seen' = [seen EXCEPT ![r] = content[dir[Session(name[r])]]]
    BY <1>3, <2>1 DEF InUse, InFlight, Over
  <2>2. CASE /\ Whole(Session(current))
             /\ seen' = [seen EXCEPT ![r] = content[dir[Session(current)]]]
    BY <1>3, <2>2 DEF InUse
  <2> QED
    BY <1>3, <2>1, <2>2, QuietReads
<1>4. ASSUME NEW r \in Requests, Quiet(r), q # r
      PROVE  place[q] \in {"openWrite", "write"} /\ seen'[q] = seen[q]
  BY <1>4, QuietReads, QuietStep
<1>5. ASSUME NEW r \in Requests, OpenWrite(r)
      PROVE  place[q] \in {"openWrite", "write"} /\ seen'[q] = seen[q]
  BY <1>5, OpenWriteStep
<1>6. ASSUME NEW r \in Requests, Fills(r)
      PROVE  place[q] \in {"openWrite", "write"} /\ seen'[q] = seen[q]
  BY <1>6, FillStep
<1>7. ASSUME NEW r \in Requests, Rename(r)
      PROVE  place[q] \in {"openWrite", "write"} /\ seen'[q] = seen[q]
  BY <1>7, RenameMoves
<1>8. ASSUME NEW r \in Requests, RenameFails(r)
      PROVE  place[q] \in {"openWrite", "write"} /\ seen'[q] = seen[q]
  BY <1>8, RenameFailsStep
<1>9. CASE RemoveSession \/ UNCHANGED vars
  BY <1>9, RemoveStep DEF vars
<1> QED
  BY <1>1, <1>2, <1>3, <1>4, <1>5, <1>6, <1>7, <1>8, <1>9, Steps

\* A file a name of the session leads to is not one a save writes.
LEMMA SessionFile ==
  ASSUME TypeOK, PlaceInv, ApartInv, NEW n \in Names, Exists(Session(n)),
         NEW r \in Requests, place[r] = "copy"
  PROVE  dir[Session(n)] # target[r]
  BY Paths DEF ApartInv, OfSession, OfModel, Exists, TypeOK

\* Files in use that hold an edit still hold it, or are torn, after a step.
LEMMA HeldStep ==
  ASSUME TypeOK, PlaceInv, ApartInv, [Next]_vars, NEW e \in Requests,
         \A n \in Names : InUse(n) /\ Exists(Session(n)) =>
            content[dir[Session(n)]] = Torn \/ e \in content[dir[Session(n)]],
         \A r \in Requests : place[r] \in {"openWrite", "write"} => e \in seen[r],
         NEW n \in Names, InUse(n)', dir'[Session(n)] # NoFile
  PROVE  content'[dir'[Session(n)]] = Torn \/ e \in content'[dir'[Session(n)]]
<1> USE DEF TypeOK, Exists
<1>1. InUse(n) /\ dir[Session(n)] # NoFile =>
         content[dir[Session(n)]] = Torn \/ e \in content[dir[Session(n)]]
  OBVIOUS
<1>2. dir[Session(n)] \in Files \cup {NoFile}
  BY Paths
<1>3. InUse(n) \/ \E r \in Requests : Rename(r) /\ n = name[r]
  BY InUseStep
<1> HIDE DEF InUse
<1>4. ASSUME NEW r \in Requests, NEW k \in Kinds, Start(r, k), InUse(n)
      PROVE  content'[dir'[Session(n)]] = Torn \/ e \in content'[dir'[Session(n)]]
  BY <1>1, <1>4, StartStep
<1>5. ASSUME NEW r \in Requests, NEW k \in Kinds, NEW m \in Names, Opens(r, k, m), InUse(n)
      PROVE  content'[dir'[Session(n)]] = Torn \/ e \in content'[dir'[Session(n)]]
  <2>1. PICK f \in Files :
           /\ f = dir[Model(m)] \/ (~Exists(Model(m)) /\ Free(f))
           /\ \A i \in Names : dir'[Model(i)] = IF i = m THEN f ELSE dir[Model(i)]
           /\ \A i \in Names : dir'[Session(i)] = dir[Session(i)]
           /\ content' = [content EXCEPT ![f] = Torn]
           /\ target' = [target EXCEPT ![r] = f]
    BY <1>5, OpensStep
  <2>2. \A g \in Files : content'[g] = IF g = f THEN Torn ELSE content[g]
    BY <2>1
  <2>3. dir'[Session(n)] = dir[Session(n)]
    BY <2>1
  <2> QED
    BY <1>1, <1>2, <1>5, <2>2, <2>3
<1>6. ASSUME NEW r \in Requests, Quiet(r), InUse(n)
      PROVE  content'[dir'[Session(n)]] = Torn \/ e \in content'[dir'[Session(n)]]
  BY <1>1, <1>6, QuietStep
<1>7. ASSUME NEW r \in Requests, OpenWrite(r), InUse(n)
      PROVE  content'[dir'[Session(n)]] = Torn \/ e \in content'[dir'[Session(n)]]
  <2>1. PICK m \in Names, f \in Files :
           /\ m = IF kind[r] = "edit" THEN current ELSE name[r]
           /\ f = dir[Session(m)] \/ (~Exists(Session(m)) /\ Free(f))
           /\ \A i \in Names : dir'[Session(i)] = IF i = m THEN f ELSE dir[Session(i)]
           /\ \A i \in Names : dir'[Model(i)] = dir[Model(i)]
           /\ content' = [content EXCEPT ![f] = Torn]
           /\ target' = [target EXCEPT ![r] = f]
    BY <1>7, OpenWriteStep
  <2>2. \A g \in Files : content'[g] = IF g = f THEN Torn ELSE content[g]
    BY <2>1
  <2>3. CASE n = m
    BY <2>1, <2>2, <2>3
  <2>4. CASE n # m
    <3>1. dir'[Session(n)] = dir[Session(n)]
      BY <2>1, <2>4
    <3> QED
      BY <1>1, <1>2, <1>7, <2>2, <3>1
  <2> QED
    BY <2>3, <2>4
<1>8. ASSUME NEW r \in Requests, Fills(r), InUse(n)
      PROVE  content'[dir'[Session(n)]] = Torn \/ e \in content'[dir'[Session(n)]]
  <2>1. PICK c : /\ content' = [content EXCEPT ![target[r]] = c]
                 /\ \/ c = Torn
                    \/ Write(r) /\ kind[r] = "edit" /\ c = seen[r] \cup {r}
                    \/ Write(r) /\ kind[r] # "edit" /\ c = seen[r]
                    \/ Copy(r) /\ c = content[source[r]]
    BY <1>8, FillsWith
  <2>2. dir'[Session(n)] = dir[Session(n)] /\ target[r] \in Files
    BY <1>8, FillStep, FillsWith
  <2>3. \A g \in Files : content'[g] = IF g = target[r] THEN c ELSE content[g]
    BY <2>1, <2>2
  <2>4. CASE dir[Session(n)] # target[r]
    BY <1>1, <1>2, <1>8, <2>2, <2>3, <2>4
  <2>5. CASE dir[Session(n)] = target[r]
    <3>1. place[r] # "copy"
      BY <2>2, <2>5, NoFileAssumption, SessionFile
    <3>2. ~Copy(r) /\ place[r] = "write"
      BY <1>8, <3>1, FillStep DEF Copy, Goto
    <3>3. c = Torn \/ e \in c
      BY <2>1, <3>2
    <3> QED
      BY <2>2, <2>3, <2>5, <3>3
  <2> QED
    BY <2>4, <2>5
<1>9. ASSUME NEW r \in Requests, Rename(r), InUse(n) \/ n = name[r]
      PROVE  content'[dir'[Session(n)]] = Torn \/ e \in content'[dir'[Session(n)]]
  <2>1. /\ dir[Session(current)] # NoFile /\ content' = content
        /\ \A i \in Names : dir'[Session(i)] = IF i = name[r] THEN dir[Session(current)]
                               ELSE IF i = current THEN NoFile ELSE dir[Session(i)]
    BY <1>9, RenameMoves
  <2>2. content[dir[Session(current)]] = Torn \/ e \in content[dir[Session(current)]]
    BY <2>1 DEF InUse
  <2> QED
    BY <1>1, <1>9, <2>1, <2>2
<1>10. ASSUME NEW r \in Requests, RenameFails(r), InUse(n)
      PROVE  content'[dir'[Session(n)]] = Torn \/ e \in content'[dir'[Session(n)]]
  BY <1>1, <1>10, RenameFailsStep
<1>11. CASE RemoveSession
  BY <1>11, RemoveStep
<1>12. CASE UNCHANGED vars /\ InUse(n)
  BY <1>1, <1>12 DEF vars
<1> QED
  BY <1>3, <1>4, <1>5, <1>6, <1>7, <1>8, <1>9, <1>10, <1>11, <1>12, Steps

LEMMA KeepStep ==
  ASSUME TypeOK, PlaceInv, MetInv, ApartInv, WriterInv, KeepInv, [Next]_vars
  PROVE  KeepInv'
<1> SUFFICES ASSUME NEW e \in Requests, kind'[e] = "edit", place'[e] = "ok", Lone(e)'
             PROVE  /\ \A n \in Names : InUse(n)' /\ dir'[Session(n)] # NoFile =>
                          \/ content'[dir'[Session(n)]] = Torn
                          \/ e \in content'[dir'[Session(n)]]
                    /\ \A r \in Requests : place'[r] \in {"openWrite", "write"} => e \in seen'[r]
  BY DEF KeepInv, Acknowledged, Exists
<1>1. kind[e] = "edit" /\ Lone(e) /\ (place[e] = "ok" \/ Write(e))
  BY AckStep, LoneStays
<1>2. CASE place[e] = "ok"
  <2>1. /\ \A n \in Names : InUse(n) /\ Exists(Session(n)) =>
              content[dir[Session(n)]] = Torn \/ e \in content[dir[Session(n)]]
        /\ \A r \in Requests : place[r] \in {"openWrite", "write"} => e \in seen[r]
    BY <1>1, <1>2 DEF KeepInv, Acknowledged
  <2>2. \A n \in Names : InUse(n)' /\ dir'[Session(n)] # NoFile =>
           content'[dir'[Session(n)]] = Torn \/ e \in content'[dir'[Session(n)]]
    BY <2>1, HeldStep
  <2>3. \A r \in Requests : place'[r] \in {"openWrite", "write"} => e \in seen'[r]
    BY <2>1, SeenStep DEF Whole
  <2> QED
    BY <2>2, <2>3
<1>3. CASE Write(e)
  <2>1. /\ place[e] = "write" /\ place' = [place EXCEPT ![e] = "ok"]
        /\ UNCHANGED <<dir, current, kind, name, seen>>
    BY <1>3 DEF Write, Goto, sessionVars
  <2>2. \A r \in InFlight : r # e => kind[r] \notin Rewriting
    BY <1>1, <2>1, LoneInFlight DEF InFlight, Over
  <2>3. \A r \in Requests : place'[r] \in {"openWrite", "write"} => e \in seen'[r]
    BY <2>1, <2>2 DEF InFlight, Over, PlaceInv, Rewriting, TypeOK
  <2>4. ASSUME NEW n \in Names, InUse(n)'
        PROVE  n = current
    <3>1. PICK r \in Requests : n = current \/
               (/\ place'[r] \notin Over \cup {"idle"}
                /\ kind[r] \in {"edit", "solve"} \/ place'[r] = "update")
      BY <2>1, <2>4 DEF InUse, InFlight
    <3> QED
      BY <2>1, <2>2, <3>1 DEF InFlight, Over, PlaceInv, Rewriting, TypeOK
  <2>5. ASSUME dir[Session(current)] # NoFile
        PROVE  \/ content'[dir[Session(current)]] = Torn
               \/ e \in content'[dir[Session(current)]]
    <3>1. target[e] = dir[Session(current)] /\ target[e] \in Files
      BY <1>1, <2>1, <2>5, NoFileAssumption DEF WriterInv, Exists, PlaceInv, TypeOK
    <3>2. PICK c : /\ content' = [content EXCEPT ![target[e]] = c]
                   /\ \/ c = Torn
                      \/ Write(e) /\ kind[e] = "edit" /\ c = seen[e] \cup {e}
                      \/ Write(e) /\ kind[e] # "edit" /\ c = seen[e]
                      \/ Copy(e) /\ c = content[source[e]]
      BY <1>3, FillsWith DEF Fills
    <3>3. c = Torn \/ e \in c
      BY <1>1, <2>1, <3>2 DEF Copy, Goto
    <3> QED
      BY <3>1, <3>2, <3>3 DEF TypeOK
  <2> QED
    BY <2>1, <2>3, <2>4, <2>5
<1> QED
  BY <1>1, <1>2, <1>3

LEMMA CollisionStays ==
  ASSUME TypeOK, PlaceInv, [Next]_vars, Collision
  PROVE  Collision'
  BY HistoryStep DEF Collision, Rewriters, Rewriting, TypeOK

\* Without overlaps one request at a time rewrites.
LEMMA OneRewriter ==
  ASSUME TypeOK, MetInv, ~Collision, NEW r \in InFlight, NEW s \in InFlight,
         kind[r] \in Rewriting, kind[s] \in Rewriting
  PROVE  r = s
  BY DEF Collision, MetInv, Rewriters, InFlight

LEMMA GivenStep ==
  ASSUME TypeOK, PlaceInv, [Next]_vars, NEW n \in Names, Given(n)'
  PROVE  Given(n) \/ \E r \in Requests : Rename(r) /\ n = name[r]
<1> USE DEF TypeOK, Given
<1>1. ASSUME NEW r \in Requests, NEW k \in Kinds, Start(r, k)
      PROVE  Given(n)
  BY <1>1, StartStep
<1>2. ASSUME NEW r \in Requests, NEW k \in Kinds, NEW m \in Names, Opens(r, k, m)
      PROVE  Given(n)
  BY <1>2, OpensStep
<1>3. ASSUME NEW r \in Requests, Quiet(r)
      PROVE  Given(n)
  <2>1. \E p \in Places : place' = [place EXCEPT ![r] = p] /\ p # "update"
    BY <1>3, QuietStep DEF Over
  <2>2. CASE name' = [name EXCEPT ![r] = current] /\ current' = current
    BY <2>1, <2>2
  <2>3. CASE place[r] = "update" /\ current' = name[r] /\ name' = name
    BY <2>1, <2>3
  <2>4. CASE UNCHANGED <<current, name>>
    BY <2>1, <2>4
  <2> QED
    BY <1>3, <2>2, <2>3, <2>4, QuietReads
<1>4. ASSUME NEW r \in Requests, OpenWrite(r)
      PROVE  Given(n)
  BY <1>4, OpenWriteStep
<1>5. ASSUME NEW r \in Requests, Fills(r)
      PROVE  Given(n)
  BY <1>5, FillStep
<1>6. ASSUME NEW r \in Requests, Rename(r)
      PROVE  Given(n) \/ n = name[r]
  BY <1>6, RenameMoves
<1>7. ASSUME NEW r \in Requests, RenameFails(r)
      PROVE  Given(n)
  BY <1>7, RenameFailsStep
<1>8. CASE RemoveSession \/ UNCHANGED vars
  BY <1>8, RemoveStep DEF vars
<1> QED
  BY <1>1, <1>2, <1>3, <1>4, <1>5, <1>6, <1>7, <1>8, Steps

LEMMA TornStep ==
  ASSUME TypeOK, PlaceInv, MetInv, ApartInv, TornInv, [Next]_vars
  PROVE  TornInv'
<1> SUFFICES ASSUME broken' = {}, ~Collision'
             PROVE  /\ \A n \in Names :
                          /\ Given(n)' /\ dir'[Session(n)] # NoFile
                          /\ content'[dir'[Session(n)]] = Torn
                          => \E r \in Requests : /\ place'[r] = "write"
                                                 /\ target'[r] = dir'[Session(n)]
                    /\ \A r \in Requests : place'[r] = "write" => content'[target'[r]] = Torn
  BY DEF TornInv, Exists
<1> USE DEF TypeOK
<1>1. /\ \A n \in Names :
            Given(n) /\ dir[Session(n)] # NoFile /\ content[dir[Session(n)]] = Torn
            => \E r \in Requests : place[r] = "write" /\ target[r] = dir[Session(n)]
      /\ \A r \in Requests : place[r] = "write" => content[target[r]] = Torn
  BY HistoryStep, CollisionStays DEF TornInv, Exists
<1>2. ASSUME NEW r \in Requests, place[r] = "write",
             NEW s \in Requests, place[s] \in {"openWrite", "write"}
      PROVE  r = s
  <2>1. ~Collision
    BY CollisionStays
  <2>2. /\ r \in InFlight /\ s \in InFlight
        /\ kind[r] \in Rewriting /\ kind[s] \in Rewriting
    BY <1>2 DEF InFlight, Over, PlaceInv, Rewriting
  <2> QED
    BY <2>1, <2>2, OneRewriter
<1>3. /\ \A n \in Names : dir[Session(n)] \in Files \cup {NoFile}
      /\ \A q \in Requests : place[q] \in {"write", "copy"} => target[q] \in Files
  BY Paths, NoFileAssumption DEF PlaceInv
<1>4. \A n \in Names : Given(n)' => Given(n) \/ \E r \in Requests : Rename(r) /\ n = name[r]
  BY GivenStep
<1>5. CASE \E r \in Requests : \/ \E k \in Kinds : Start(r, k)
                               \/ RenameFails(r)
  <2>1. /\ current' = current
        /\ \A q \in Requests : place'[q] = "update" => place[q] = "update" /\ name'[q] = name[q]
    BY <1>5, StartStep, RenameFailsStep
  <2>3. \A n \in Names : Given(n)' => Given(n)
    BY <2>1 DEF Given
  <2>2. /\ \A n \in Names : dir'[Session(n)] = dir[Session(n)]
        /\ content' = content /\ target' = target
    BY <1>5, StartStep, RenameFailsStep
  <2>4. \A q \in Requests : place'[q] = "write" <=> place[q] = "write"
    BY <1>5, StartStep, RenameFailsStep
  <2> QED
    BY <1>1, <2>2, <2>3, <2>4
<1>6. ASSUME NEW r \in Requests, NEW k \in Kinds, NEW m \in Names, Opens(r, k, m)
      PROVE  /\ \A n \in Names :
                   /\ Given(n)' /\ dir'[Session(n)] # NoFile
                   /\ content'[dir'[Session(n)]] = Torn
                   => \E q \in Requests : place'[q] = "write" /\ target'[q] = dir'[Session(n)]
             /\ \A q \in Requests : place'[q] = "write" => content'[target'[q]] = Torn
  <2>1. PICK f \in Files :
           /\ f = dir[Model(m)] \/ (~Exists(Model(m)) /\ Free(f))
           /\ \A i \in Names : dir'[Model(i)] = IF i = m THEN f ELSE dir[Model(i)]
           /\ \A i \in Names : dir'[Session(i)] = dir[Session(i)]
           /\ content' = [content EXCEPT ![f] = Torn]
           /\ target' = [target EXCEPT ![r] = f]
    BY <1>6, OpensStep
  <2>2. /\ place[r] = "idle" /\ place' = [place EXCEPT ![r] = "copy"]
        /\ current' = current /\ name' = [name EXCEPT ![r] = m]
    BY <1>6, OpensStep
  <2>3. \A n \in Names : Given(n)' => Given(n)
    BY <2>2 DEF Given
  <2>4. \A n \in Names : dir[Session(n)] # f
    BY <2>1, FreeFile DEF ApartInv, OfSession, OfModel
  <2>5. /\ \A g \in Files : content'[g] = IF g = f THEN Torn ELSE content[g]
        /\ \A q \in Requests : place'[q] = "write" => place[q] = "write" /\ target'[q] = target[q]
        /\ \A q \in Requests : place[q] = "write" => place'[q] = "write"
    BY <2>1, <2>2
  <2>6. \A q \in Requests : place'[q] = "write" => content'[target'[q]] = Torn
    BY <1>1, <1>3, <2>5
  <2>7. ASSUME NEW n \in Names, Given(n)', dir'[Session(n)] # NoFile,
               content'[dir'[Session(n)]] = Torn
        PROVE  \E q \in Requests : place'[q] = "write" /\ target'[q] = dir'[Session(n)]
    <3>1. /\ dir'[Session(n)] = dir[Session(n)] /\ Given(n)
          /\ content[dir[Session(n)]] = Torn
      BY <1>3, <2>1, <2>3, <2>4, <2>5, <2>7
    <3> QED
      BY <1>1, <2>5, <2>7, <3>1
  <2> QED
    BY <2>6, <2>7
<1>7. ASSUME NEW r \in Requests, Quiet(r)
      PROVE  /\ \A n \in Names :
                   /\ Given(n)' /\ dir'[Session(n)] # NoFile
                   /\ content'[dir'[Session(n)]] = Torn
                   => \E q \in Requests : place'[q] = "write" /\ target'[q] = dir'[Session(n)]
             /\ \A q \in Requests : place'[q] = "write" => content'[target'[q]] = Torn
  <2>1. \A n \in Names : Given(n)' => Given(n)
    <3>1. \E p \in Places : place' = [place EXCEPT ![r] = p] /\ p # "update"
      BY <1>7, QuietStep DEF Over
    <3>2. \/ name' = [name EXCEPT ![r] = current] /\ current' = current
          \/ place[r] = "update" /\ current' = name[r] /\ name' = name
          \/ UNCHANGED <<current, name>>
      BY <1>7, QuietReads
    <3> QED
      BY <3>1, <3>2 DEF Given
  <2>2. /\ dir' = dir /\ content' = content /\ target' = target
        /\ \A q \in Requests : place'[q] = "write" <=> place[q] = "write"
    BY <1>7, QuietStep DEF Over
  <2> QED
    BY <1>1, <2>1, <2>2
<1>8. ASSUME NEW r \in Requests, OpenWrite(r)
      PROVE  /\ \A n \in Names :
                   /\ Given(n)' /\ dir'[Session(n)] # NoFile
                   /\ content'[dir'[Session(n)]] = Torn
                   => \E q \in Requests : place'[q] = "write" /\ target'[q] = dir'[Session(n)]
             /\ \A q \in Requests : place'[q] = "write" => content'[target'[q]] = Torn
  <2>1. PICK m \in Names, f \in Files :
           /\ m = IF kind[r] = "edit" THEN current ELSE name[r]
           /\ f = dir[Session(m)] \/ (~Exists(Session(m)) /\ Free(f))
           /\ \A i \in Names : dir'[Session(i)] = IF i = m THEN f ELSE dir[Session(i)]
           /\ \A i \in Names : dir'[Model(i)] = dir[Model(i)]
           /\ content' = [content EXCEPT ![f] = Torn]
           /\ target' = [target EXCEPT ![r] = f]
    BY <1>8, OpenWriteStep
  <2>2. /\ place[r] = "openWrite" /\ place' = [place EXCEPT ![r] = "write"]
        /\ UNCHANGED <<current, name>>
    BY <1>8, OpenWriteStep
  <2>3. \A n \in Names : Given(n)' => Given(n)
    BY <2>2 DEF Given
  <2>4. /\ \A g \in Files : content'[g] = IF g = f THEN Torn ELSE content[g]
        /\ place'[r] = "write" /\ target'[r] = f
        /\ \A q \in Requests : q # r => place'[q] = place[q] /\ target'[q] = target[q]
    BY <2>1, <2>2
  <2>5. \A q \in Requests : place'[q] = "write" => content'[target'[q]] = Torn
    BY <1>1, <1>3, <2>4
  <2>6. ASSUME NEW n \in Names, Given(n)', dir'[Session(n)] # NoFile,
               content'[dir'[Session(n)]] = Torn
        PROVE  \E q \in Requests : place'[q] = "write" /\ target'[q] = dir'[Session(n)]
    <3>1. CASE dir'[Session(n)] = f
      BY <2>4, <3>1
    <3>2. CASE dir'[Session(n)] # f
      <4>1. dir'[Session(n)] = dir[Session(n)] /\ content[dir[Session(n)]] = Torn
        BY <1>3, <2>1, <2>4, <2>6, <3>2
      <4>2. PICK q \in Requests : place[q] = "write" /\ target[q] = dir[Session(n)]
        BY <1>1, <2>3, <2>6, <4>1
      <4> QED
        BY <2>2, <2>4, <4>1, <4>2
    <3> QED
      BY <3>1, <3>2
  <2> QED
    BY <2>5, <2>6
<1>9. ASSUME NEW r \in Requests, Fills(r)
      PROVE  /\ \A n \in Names :
                   /\ Given(n)' /\ dir'[Session(n)] # NoFile
                   /\ content'[dir'[Session(n)]] = Torn
                   => \E q \in Requests : place'[q] = "write" /\ target'[q] = dir'[Session(n)]
             /\ \A q \in Requests : place'[q] = "write" => content'[target'[q]] = Torn
  <2>1. /\ UNCHANGED <<dir, current, name>>
        /\ \A q \in Requests : q # r => place'[q] = place[q] /\ target'[q] = target[q]
        /\ place[r] \in {"write", "copy"} /\ place'[r] \notin {"write", "update"}
    BY <1>9, FillStep DEF Close
  <2>2. \A n \in Names : Given(n)' => Given(n)
    BY <2>1 DEF Given
  <2>3. PICK c : content' = [content EXCEPT ![target[r]] = c]
    BY <1>9, FillStep
  <2>4. \A g \in Files : g # target[r] => content'[g] = content[g]
    BY <2>3
  <2>5. \A q \in Requests : place[q] = "write" /\ q # r => target[q] # target[r]
    <3>1. place[r] = "copy" => \A q \in Requests : place[q] = "write" => target[q] # target[r]
      BY <1>3 DEF ApartInv, OfSession, OfModel
    <3> QED
      BY <1>2, <2>1, <3>1
  <2>6. \A q \in Requests : place'[q] = "write" => content'[target'[q]] = Torn
    BY <1>1, <1>3, <2>1, <2>4, <2>5
  <2>7. ASSUME NEW n \in Names, dir[Session(n)] = target[r]
        PROVE  content'[target[r]] # Torn
    <3>1. place[r] = "write"
      BY <1>3, <2>1, <2>7, NoFileAssumption, SessionFile DEF Exists
    <3>2. Write(r)
      BY <1>9, <3>1 DEF Fills, WriteFails, Copy, CopyFails, Goto
    <3>3. content[target[r]] = Torn /\ target[r] \in Files
      BY <1>1, <1>3, <3>1
    <3>4. PICK d \in SUBSET Requests : content' = [content EXCEPT ![target[r]] = d]
      BY <3>2, <3>3 DEF Write, Fill
    <3> QED
      BY <3>3, <3>4, TornIsNoSet
  <2>8. ASSUME NEW n \in Names, Given(n)', dir'[Session(n)] # NoFile,
               content'[dir'[Session(n)]] = Torn
        PROVE  \E q \in Requests : place'[q] = "write" /\ target'[q] = dir'[Session(n)]
    <3>1. dir'[Session(n)] = dir[Session(n)] /\ dir[Session(n)] # target[r]
      BY <2>1, <2>7, <2>8
    <3>2. PICK q \in Requests : place[q] = "write" /\ target[q] = dir[Session(n)]
      BY <1>1, <1>3, <2>2, <2>4, <2>8, <3>1
    <3> QED
      BY <2>1, <3>1, <3>2
  <2> QED
    BY <2>6, <2>8
<1>10. ASSUME NEW r \in Requests, Rename(r)
       PROVE  /\ \A n \in Names :
                    /\ Given(n)' /\ dir'[Session(n)] # NoFile
                    /\ content'[dir'[Session(n)]] = Torn
                    => \E q \in Requests : place'[q] = "write" /\ target'[q] = dir'[Session(n)]
              /\ \A q \in Requests : place'[q] = "write" => content'[target'[q]] = Torn
  <2>1. /\ dir[Session(current)] # NoFile
        /\ \A i \in Names : dir'[Session(i)] = IF i = name[r] THEN dir[Session(current)]
                               ELSE IF i = current THEN NoFile ELSE dir[Session(i)]
        /\ place[r] = "rename" /\ place' = [place EXCEPT ![r] = "update"]
        /\ UNCHANGED <<current, content, target, name>>
    BY <1>10, RenameMoves DEF Exists
  <2>2. \A n \in Names : Given(n)' => Given(n) \/ n = name[r]
    BY <2>1 DEF Given
  <2>3. Given(current) /\ current \in Names
    BY DEF Given
  <2>4. \A q \in Requests : place'[q] = "write" <=> place[q] = "write"
    BY <2>1
  <2>5. ASSUME NEW n \in Names, Given(n)', dir'[Session(n)] # NoFile,
               content'[dir'[Session(n)]] = Torn
        PROVE  \E q \in Requests : place'[q] = "write" /\ target'[q] = dir'[Session(n)]
    <3>1. CASE n = name[r]
      BY <1>1, <2>1, <2>3, <2>4, <2>5, <3>1
    <3>2. CASE n # name[r]
      BY <1>1, <2>1, <2>2, <2>4, <2>5, <3>2
    <3> QED
      BY <3>1, <3>2
  <2> QED
    BY <1>1, <2>1, <2>4, <2>5
<1>11. CASE RemoveSession
  BY <1>1, <1>11, RemoveStep
<1>12. CASE UNCHANGED vars
  BY <1>1, <1>12 DEF vars, Given
<1> QED
  BY <1>5, <1>6, <1>7, <1>8, <1>9, <1>10, <1>11, <1>12, Steps

LEMMA NamesStep ==
  ASSUME TypeOK, PlaceInv, MetInv, NamesInv, [Next]_vars
  PROVE  NamesInv'
<1> SUFFICES ASSUME ~Collision', NEW q \in Requests
             PROVE  /\ /\ place'[q] \notin Over \cup {"idle"}
                       /\ kind'[q] \in {"edit", "solve"}
                       => name'[q] = current'
                    /\ place'[q] = "update" /\ dir'[Session(current')] # NoFile
                          => name'[q] = current'
  BY DEF NamesInv, InFlight, Exists
<1> USE DEF TypeOK, Over
<1>1. ~Collision
  BY CollisionStays
<1>2. /\ place[q] \notin Over \cup {"idle"} /\ kind[q] \in {"edit", "solve"} => name[q] = current
      /\ place[q] = "update" /\ dir[Session(current)] # NoFile => name[q] = current
  BY <1>1 DEF NamesInv, InFlight, Exists
<1>3. ASSUME NEW r \in Requests, place[r] \in {"openWrite", "rename", "update"}, r # q
      PROVE  /\ place[q] # "update"
             /\ place[q] \notin Over \cup {"idle"} => kind[q] \notin {"edit", "solve"}
  <2>1. r \in InFlight /\ kind[r] \in Rewriting
    BY <1>3 DEF InFlight, PlaceInv, Rewriting
  <2>2. q \in InFlight => kind[q] \notin Rewriting
    BY <1>1, <1>3, <2>1, OneRewriter
  <2> QED
    BY <2>2 DEF InFlight, PlaceInv, Rewriting
<1>4. ASSUME NEW r \in Requests, NEW k \in Kinds, Start(r, k)
      PROVE  /\ /\ place'[q] \notin Over \cup {"idle"} /\ kind'[q] \in {"edit", "solve"}
                => name'[q] = current'
             /\ place'[q] = "update" /\ dir'[Session(current')] # NoFile => name'[q] = current'
  BY <1>2, <1>4, StartStep
<1>5. ASSUME NEW r \in Requests, NEW k \in Kinds, NEW m \in Names, Opens(r, k, m)
      PROVE  /\ /\ place'[q] \notin Over \cup {"idle"} /\ kind'[q] \in {"edit", "solve"}
                => name'[q] = current'
             /\ place'[q] = "update" /\ dir'[Session(current')] # NoFile => name'[q] = current'
  <2>1. /\ k \in {"save", "saveAs"} /\ place' = [place EXCEPT ![r] = "copy"]
        /\ kind' = [kind EXCEPT ![r] = k] /\ name' = [name EXCEPT ![r] = m]
        /\ current' = current
    BY <1>5, OpensStep DEF Arrive
  <2>2. dir'[Session(current)] = dir[Session(current)]
    BY <1>5, OpensStep
  <2> QED
    BY <1>2, <2>1, <2>2
<1>6. ASSUME NEW r \in Requests, Quiet(r)
      PROVE  /\ /\ place'[q] \notin Over \cup {"idle"} /\ kind'[q] \in {"edit", "solve"}
                => name'[q] = current'
             /\ place'[q] = "update" /\ dir'[Session(current')] # NoFile => name'[q] = current'
  <2>1. /\ UNCHANGED <<dir, kind>> /\ place[r] \notin Over \cup {"idle"}
        /\ \E p \in Places : place' = [place EXCEPT ![r] = p] /\ p # "update"
    BY <1>6, QuietStep
  <2>2. CASE name' = [name EXCEPT ![r] = current] /\ current' = current
    BY <1>2, <2>1, <2>2
  <2>3. CASE /\ place[r] = "update" /\ place' = [place EXCEPT ![r] = "ok"]
             /\ current' = name[r] /\ name' = name
    BY <1>2, <1>3, <2>1, <2>3
  <2>4. CASE UNCHANGED <<current, name>>
    BY <1>2, <2>1, <2>4
  <2> QED
    BY <1>6, <2>2, <2>3, <2>4, QuietReads
<1>7. ASSUME NEW r \in Requests, OpenWrite(r)
      PROVE  /\ /\ place'[q] \notin Over \cup {"idle"} /\ kind'[q] \in {"edit", "solve"}
                => name'[q] = current'
             /\ place'[q] = "update" /\ dir'[Session(current')] # NoFile => name'[q] = current'
  <2>1. /\ place[r] = "openWrite" /\ place' = [place EXCEPT ![r] = "write"]
        /\ UNCHANGED <<current, name, kind>>
    BY <1>7, OpenWriteStep
  <2> QED
    BY <1>2, <1>3, <2>1
<1>8. ASSUME NEW r \in Requests, Fills(r)
      PROVE  /\ /\ place'[q] \notin Over \cup {"idle"} /\ kind'[q] \in {"edit", "solve"}
                => name'[q] = current'
             /\ place'[q] = "update" /\ dir'[Session(current')] # NoFile => name'[q] = current'
  BY <1>2, <1>8, FillStep
<1>9. ASSUME NEW r \in Requests, Rename(r)
      PROVE  /\ /\ place'[q] \notin Over \cup {"idle"} /\ kind'[q] \in {"edit", "solve"}
                => name'[q] = current'
             /\ place'[q] = "update" /\ dir'[Session(current')] # NoFile => name'[q] = current'
  <2>1. /\ place[r] = "rename" /\ place' = [place EXCEPT ![r] = "update"]
        /\ UNCHANGED <<current, name, kind>>
    BY <1>9, RenameMoves
  <2>2. name[r] # current => dir'[Session(current)] = NoFile
    BY <1>9, RenameMoves
  <2> QED
    BY <1>2, <1>3, <2>1, <2>2
<1>10. CASE \E r \in Requests : RenameFails(r)
  BY <1>2, <1>10, RenameFailsStep
<1>11. CASE RemoveSession \/ UNCHANGED vars
  BY <1>2, <1>11, RemoveStep DEF vars
<1> QED
  BY <1>4, <1>5, <1>6, <1>7, <1>8, <1>9, <1>10, <1>11, Steps

\* Without overlaps a step that writes finds the working file under FilePath.
LEMMA OpenWriteInPlace ==
  ASSUME TypeOK, PlaceInv, MetInv, PathInv, NamesInv, ~Collision,
         NEW r \in Requests, OpenWrite(r)
  PROVE  \A n \in Names : dir'[Session(n)] = dir[Session(n)]
<1> USE DEF TypeOK
<1>1. PICK m \in Names, f \in Files :
         /\ m = IF kind[r] = "edit" THEN current ELSE name[r]
         /\ f = dir[Session(m)] \/ (~Exists(Session(m)) /\ Free(f))
         /\ \A i \in Names : dir'[Session(i)] = IF i = m THEN f ELSE dir[Session(i)]
         /\ \A i \in Names : dir'[Model(i)] = dir[Model(i)]
         /\ content' = [content EXCEPT ![f] = Torn]
         /\ target' = [target EXCEPT ![r] = f]
  BY OpenWriteStep
<1>2. live /\ place[r] = "openWrite"
  BY OpenWriteStep
<1>3. r \in InFlight /\ kind[r] \in {"edit", "solve"} /\ kind[r] \in Rewriting
  BY <1>2 DEF InFlight, Over, PlaceInv, Rewriting
<1>4. m = current
  BY <1>1, <1>3 DEF NamesInv
<1>5. Updating = {}
  <2>1. ASSUME NEW q \in Updating
        PROVE  FALSE
    <3>1. q \in InFlight /\ kind[q] \in Rewriting /\ place[q] = "update"
      BY <2>1 DEF Updating, InFlight, Over, PlaceInv, Rewriting
    <3> QED
      BY <1>2, <1>3, <3>1, OneRewriter
  <2> QED
    BY <2>1
<1>6. ~SavesAsMet
  BY DEF Collision, SavesAsMet, Rewriters, Rewriting
<1>7. Exists(Session(current))
  BY <1>2, <1>5, <1>6 DEF PathInv
<1> QED
  BY <1>1, <1>4, <1>7

LEMMA SourceStep ==
  ASSUME TypeOK, PlaceInv, MetInv, PathInv, NamesInv, SourceInv, [Next]_vars
  PROVE  SourceInv'
<1> SUFFICES ASSUME ~Collision', NEW q \in Requests, place'[q] = "copy"
             PROVE  /\ \A s \in Requests : place'[s] = "copy" => source'[q] = source'[s]
                    /\ \A n \in Names : Given(n)' /\ dir'[Session(n)] # NoFile
                                           => source'[q] = dir'[Session(n)]
  BY DEF SourceInv, Exists
<1> USE DEF TypeOK
<1>1. ~Collision
  BY CollisionStays
<1>2. /\ \A s, t \in Requests : place[s] = "copy" /\ place[t] = "copy" => source[s] = source[t]
      /\ \A s \in Requests, n \in Names :
            place[s] = "copy" /\ Given(n) /\ dir[Session(n)] # NoFile
            => source[s] = dir[Session(n)]
  BY <1>1 DEF SourceInv, Exists
<1>3. \A n \in Names : Given(n)' => Given(n) \/ \E r \in Requests : Rename(r) /\ n = name[r]
  BY GivenStep
<1>4. Given(current)
  BY DEF Given
<1>5. ASSUME NEW r \in Requests, NEW k \in Kinds, NEW m \in Names, Opens(r, k, m)
      PROVE  /\ \A s \in Requests : place'[s] = "copy" => source'[q] = source'[s]
             /\ \A n \in Names : Given(n)' /\ dir'[Session(n)] # NoFile
                                    => source'[q] = dir'[Session(n)]
  <2>1. /\ place[r] = "idle" /\ place' = [place EXCEPT ![r] = "copy"]
        /\ source' = [source EXCEPT ![r] = dir[Session(current)]]
        /\ dir[Session(current)] # NoFile
        /\ current' = current /\ name' = [name EXCEPT ![r] = m]
    BY <1>5, OpensStep DEF Exists
  <2>2. \A n \in Names : dir'[Session(n)] = dir[Session(n)]
    BY <1>5, OpensStep
  <2>3. \A s \in Requests : place'[s] = "copy" => source'[s] = dir[Session(current)]
    BY <1>2, <1>4, <2>1
  <2>4. \A n \in Names : Given(n)' => n = current
    BY <1>1, <2>1 DEF Given, NamesInv, Exists
  <2> QED
    BY <2>2, <2>3, <2>4
<1>6. ASSUME NEW r \in Requests, Rename(r)
      PROVE  /\ \A s \in Requests : place'[s] = "copy" => source'[q] = source'[s]
             /\ \A n \in Names : Given(n)' /\ dir'[Session(n)] # NoFile
                                    => source'[q] = dir'[Session(n)]
  <2>1. /\ dir[Session(current)] # NoFile
        /\ \A i \in Names : dir'[Session(i)] = IF i = name[r] THEN dir[Session(current)]
                               ELSE IF i = current THEN NoFile ELSE dir[Session(i)]
        /\ place[r] = "rename" /\ place' = [place EXCEPT ![r] = "update"]
        /\ UNCHANGED <<current, source, name>>
    BY <1>6, RenameMoves DEF Exists
  <2>2. \A n \in Names : Given(n)' => Given(n) \/ n = name[r]
    BY <2>1 DEF Given
  <2>3. place[q] = "copy" /\ source[q] = dir[Session(current)]
    BY <1>2, <1>4, <2>1
  <2> QED
    BY <1>2, <2>1, <2>2, <2>3
<1>7. ASSUME /\ \A s \in Requests :
                   place'[s] = "copy" => place[s] = "copy" /\ source'[s] = source[s]
             /\ \A n \in Names : dir'[Session(n)] \in {dir[Session(n)], NoFile},
             ~\E r \in Requests : Rename(r)
      PROVE  /\ \A s \in Requests : place'[s] = "copy" => source'[q] = source'[s]
             /\ \A n \in Names : Given(n)' /\ dir'[Session(n)] # NoFile
                                    => source'[q] = dir'[Session(n)]
  BY <1>2, <1>3, <1>7
<1>8. ASSUME NEW r \in Requests, NEW k \in Kinds, Start(r, k)
      PROVE  /\ \A s \in Requests :
                   place'[s] = "copy" => place[s] = "copy" /\ source'[s] = source[s]
             /\ \A n \in Names : dir'[Session(n)] \in {dir[Session(n)], NoFile}
  BY <1>8, StartStep
<1>9. ASSUME NEW r \in Requests, Quiet(r)
      PROVE  /\ \A s \in Requests :
                   place'[s] = "copy" => place[s] = "copy" /\ source'[s] = source[s]
             /\ \A n \in Names : dir'[Session(n)] \in {dir[Session(n)], NoFile}
  BY <1>9, QuietStep DEF Over
<1>10. ASSUME NEW r \in Requests, OpenWrite(r)
       PROVE  /\ \A s \in Requests :
                    place'[s] = "copy" => place[s] = "copy" /\ source'[s] = source[s]
              /\ \A n \in Names : dir'[Session(n)] \in {dir[Session(n)], NoFile}
  BY <1>1, <1>10, OpenWriteStep, OpenWriteInPlace
<1>11. ASSUME NEW r \in Requests, Fills(r)
       PROVE  /\ \A s \in Requests :
                    place'[s] = "copy" => place[s] = "copy" /\ source'[s] = source[s]
              /\ \A n \in Names : dir'[Session(n)] \in {dir[Session(n)], NoFile}
  BY <1>11, FillStep DEF Close
<1>12. ASSUME NEW r \in Requests, RenameFails(r)
       PROVE  /\ \A s \in Requests :
                    place'[s] = "copy" => place[s] = "copy" /\ source'[s] = source[s]
              /\ \A n \in Names : dir'[Session(n)] \in {dir[Session(n)], NoFile}
  BY <1>12, RenameFailsStep
<1>13. CASE RemoveSession \/ UNCHANGED vars
  <2>1. /\ \A s \in Requests :
                    place'[s] = "copy" => place[s] = "copy" /\ source'[s] = source[s]
        /\ \A n \in Names : dir'[Session(n)] \in {dir[Session(n)], NoFile}
    BY <1>13, RemoveStep DEF vars
  <2> QED
    BY <1>6, <1>7, <2>1
<1> QED
  BY <1>5, <1>6, <1>7, <1>8, <1>9, <1>10, <1>11, <1>12, <1>13, Steps

LEMMA SaveStep ==
  ASSUME TypeOK, PlaceInv, MetInv, ApartInv, KeepInv, TornInv, SourceInv, SaveInv,
         [Next]_vars
  PROVE  SaveInv'
<1> SUFFICES ASSUME broken' = {}, ~Collision',
                    NEW r \in Requests, place'[r] = "copy", Lone(r)'
             PROVE  /\ content'[source'[r]] # Torn
                    /\ Acknowledged' \subseteq content'[source'[r]]
                    /\ content'[target'[r]] \in {Torn, content'[source'[r]]}
  BY DEF SaveInv
<1> USE DEF TypeOK
<1>1. ~Collision /\ broken = {}
  BY CollisionStays, HistoryStep
<1>2. \A s \in Requests : place'[s] \notin Over \cup {"idle"} /\ s # r
                             => kind'[s] \notin Rewriting
  <2>1. TypeOK' /\ MetInv'
    BY TypeStep, MetStep
  <2> QED
    BY <2>1 DEF MetInv, InFlight, Lone, Rewriters, Over
<1>3. /\ \A n \in Names : dir[Session(n)] \in Files \cup {NoFile}
      /\ \A s \in Requests : place[s] = "copy" => target[s] \in Files /\ source[s] \in Files
  BY Paths, NoFileAssumption DEF PlaceInv
<1>4. ASSUME \A s \in InFlight : kind[s] \notin Rewriting
      PROVE  Acknowledged' \subseteq Acknowledged
  BY <1>4, AckStep DEF Acknowledged, Write, Goto, InFlight, Over, Rewriting
<1>5. ASSUME NEW k \in Kinds, NEW m \in Names, Opens(r, k, m)
      PROVE  /\ content'[source'[r]] # Torn
             /\ Acknowledged' \subseteq content'[source'[r]]
             /\ content'[target'[r]] \in {Torn, content'[source'[r]]}
  <2>1. PICK f \in Files :
           /\ f = dir[Model(m)] \/ (~Exists(Model(m)) /\ Free(f))
           /\ \A i \in Names : dir'[Model(i)] = IF i = m THEN f ELSE dir[Model(i)]
           /\ \A i \in Names : dir'[Session(i)] = dir[Session(i)]
           /\ content' = [content EXCEPT ![f] = Torn]
           /\ target' = [target EXCEPT ![r] = f]
    BY <1>5, OpensStep
  <2>2. /\ place[r] = "idle" /\ place' = [place EXCEPT ![r] = "copy"]
        /\ source' = [source EXCEPT ![r] = dir[Session(current)]]
        /\ Exists(Session(current)) /\ dir[Session(current)] \in Files
        /\ kind' = [kind EXCEPT ![r] = k]
    BY <1>5, OpensStep DEF Arrive
  <2>3. dir[Session(current)] # f
    BY <2>1, <2>2, FreeFile DEF ApartInv, OfSession, OfModel
  <2>4. \A s \in InFlight : kind[s] \notin Rewriting
    BY <1>2, <2>2 DEF InFlight, Over
  <2>5. content[dir[Session(current)]] # Torn
    <3>1. \A s \in Requests : place[s] # "write"
      BY <2>4 DEF InFlight, Over, PlaceInv, Rewriting
    <3> QED
      BY <1>1, <2>2, <3>1 DEF TornInv, Given
  <2>6. Acknowledged \subseteq content[dir[Session(current)]]
    <3>1. \A e \in Acknowledged : e \in Requests /\ Lone(e)
      BY <1>1 DEF Acknowledged, Lone, Collision, Rewriters, Rewriting
    <3> QED
      BY <2>2, <2>5, <3>1 DEF KeepInv, InUse
  <2> QED
    BY <1>4, <2>1, <2>2, <2>3, <2>4, <2>5, <2>6
<1>6. CASE place[r] = "copy"
  <2>1. kind[r] \in {"save", "saveAs"} /\ Lone(r) /\ r \in InFlight
    BY <1>6, LoneStays DEF PlaceInv, InFlight, Over
  <2>2. /\ content[source[r]] # Torn
        /\ Acknowledged \subseteq content[source[r]]
        /\ content[target[r]] \in {Torn, content[source[r]]}
    BY <1>1, <1>6, <2>1 DEF SaveInv
  <2>3. \A s \in InFlight : s # r => kind[s] \notin Rewriting
    BY <2>1, LoneInFlight
  <2>4. Acknowledged' \subseteq Acknowledged
    BY <1>6, <2>3, AckStep DEF Acknowledged, Write, Goto, InFlight, Over, Rewriting
  <2>5. ASSUME content' = content, source'[r] = source[r], target'[r] = target[r]
        PROVE  /\ content'[source'[r]] # Torn
               /\ Acknowledged' \subseteq content'[source'[r]]
               /\ content'[target'[r]] \in {Torn, content'[source'[r]]}
    BY <2>2, <2>4, <2>5
  <2>6. ASSUME NEW s \in Requests, NEW k \in Kinds, Start(s, k)
        PROVE  content' = content /\ source'[r] = source[r] /\ target'[r] = target[r]
    BY <2>6, StartStep
  <2>7. ASSUME NEW s \in Requests, NEW k \in Kinds, NEW m \in Names, Opens(s, k, m)
        PROVE  /\ content'[source'[r]] # Torn
               /\ Acknowledged' \subseteq content'[source'[r]]
               /\ content'[target'[r]] \in {Torn, content'[source'[r]]}
    <3>1. PICK f \in Files :
             /\ f = dir[Model(m)] \/ (~Exists(Model(m)) /\ Free(f))
             /\ \A i \in Names : dir'[Model(i)] = IF i = m THEN f ELSE dir[Model(i)]
             /\ \A i \in Names : dir'[Session(i)] = dir[Session(i)]
             /\ content' = [content EXCEPT ![f] = Torn]
             /\ target' = [target EXCEPT ![s] = f]
      BY <2>7, OpensStep
    <3>2. /\ place[s] = "idle"
          /\ source' = [source EXCEPT ![s] = dir[Session(current)]]
      BY <2>7, OpensStep
    <3>3. source[r] # f
      BY <1>3, <1>6, <3>1, FreeFile DEF ApartInv, OfSession, OfModel
    <3>4. \A g \in Files : content'[g] = IF g = f THEN Torn ELSE content[g]
      BY <3>1
    <3>5. source'[r] = source[r] /\ target'[r] = target[r]
      BY <1>6, <3>1, <3>2
    <3> QED
      BY <1>3, <1>6, <2>2, <2>4, <3>3, <3>4, <3>5
  <2>8. ASSUME NEW s \in Requests, Quiet(s)
        PROVE  content' = content /\ source'[r] = source[r] /\ target'[r] = target[r]
    BY <2>8, QuietStep
  <2>9. ASSUME NEW s \in Requests, OpenWrite(s)
        PROVE  FALSE
    BY <1>6, <2>3, <2>9, OpenWriteStep DEF InFlight, Over, PlaceInv, Rewriting
  <2>10. ASSUME NEW s \in Requests, Fills(s)
         PROVE  /\ content'[source'[r]] # Torn
                /\ Acknowledged' \subseteq content'[source'[r]]
                /\ content'[target'[r]] \in {Torn, content'[source'[r]]}
    <3>1. s # r
      BY <2>10, FillStep
    <3>2. place[s] = "copy"
      BY <2>3, <2>10, <3>1, FillStep DEF InFlight, Over, PlaceInv, Rewriting
    <3>3. PICK c : /\ content' = [content EXCEPT ![target[s]] = c]
                   /\ \/ c = Torn
                      \/ Write(s) /\ kind[s] = "edit" /\ c = seen[s] \cup {s}
                      \/ Write(s) /\ kind[s] # "edit" /\ c = seen[s]
                      \/ Copy(s) /\ c = content[source[s]]
      BY <2>10, FillsWith
    <3>4. c \in {Torn, content[source[r]]}
      <4>1. ~Write(s)
        BY <3>2 DEF Write, Goto
      <4>2. source[s] = source[r]
        BY <1>1, <1>6, <3>2 DEF SourceInv
      <4> QED
        BY <3>3, <4>1, <4>2
    <3>5. source[r] # target[s]
      BY <1>3, <1>6, <3>2 DEF ApartInv, OfSession, OfModel
    <3>6. source'[r] = source[r] /\ target'[r] = target[r]
      BY <2>10, <3>1, FillStep DEF Close
    <3>7. \A g \in Files : content'[g] = IF g = target[s] THEN c ELSE content[g]
      BY <1>3, <3>2, <3>3
    <3> QED
      BY <1>3, <1>6, <2>2, <2>4, <3>4, <3>5, <3>6, <3>7
  <2>11. ASSUME NEW s \in Requests, Rename(s)
         PROVE  content' = content /\ source'[r] = source[r] /\ target'[r] = target[r]
    BY <2>11, RenameMoves
  <2>12. ASSUME NEW s \in Requests, RenameFails(s)
         PROVE  content' = content /\ source'[r] = source[r] /\ target'[r] = target[r]
    BY <2>12, RenameFailsStep
  <2>13. CASE RemoveSession \/ UNCHANGED vars
    <3>1. content' = content /\ source'[r] = source[r] /\ target'[r] = target[r]
      BY <2>13, RemoveStep DEF vars
    <3> QED
      BY <2>5, <3>1
  <2> QED
    BY <2>5, <2>6, <2>7, <2>8, <2>9, <2>10, <2>11, <2>12, <2>13, Steps
<1>7. ASSUME place[r] # "copy"
      PROVE  \E k \in Kinds, m \in Names : Opens(r, k, m)
  <2>1. ASSUME NEW s \in Requests, NEW k \in Kinds, Start(s, k)
        PROVE  FALSE
    BY <1>7, <2>1, StartStep
  <2>2. ASSUME NEW s \in Requests, NEW k \in Kinds, NEW m \in Names, Opens(s, k, m)
        PROVE  s = r
    BY <1>7, <2>2, OpensStep
  <2>3. ASSUME NEW s \in Requests,
               Quiet(s) \/ OpenWrite(s) \/ Fills(s) \/ Rename(s) \/ RenameFails(s)
        PROVE  FALSE
    BY <1>7, <2>3, QuietStep, OpenWriteStep, FillStep, RenameMoves, RenameFailsStep DEF Over
  <2>4. ~RemoveSession /\ ~UNCHANGED vars
    BY <1>7, RemoveStep DEF vars
  <2> QED
    BY <2>1, <2>2, <2>3, <2>4, Steps
<1> QED
  BY <1>5, <1>6, <1>7
-----------------------------------------------------------------------------
LEMMA InitIInv == Init => IInv
<1> SUFFICES ASSUME Init
             PROVE  IInv
  OBVIOUS
<1>1. TypeOK /\ PlaceInv /\ MetInv /\ LinkInv
  BY InitInv
<1>2. /\ live /\ current = FirstName /\ results = {} /\ recorded = {}
      /\ kind = [r \in Requests |-> "none"] /\ place = [r \in Requests |-> "idle"]
      /\ source = [r \in Requests |-> NoFile] /\ target = [r \in Requests |-> NoFile]
      /\ content = [f \in Files |-> {}]
      /\ Exists(Session(FirstName))
  BY FirstNameAssumption DEF Init
<1>3. ApartInv
  <2>1. \A m, n \in Names : Exists(Session(m)) => dir[Session(m)] # dir[Model(n)]
    BY Paths DEF Init
  <2>2. ASSUME NEW f \in Files, OfSession(f), OfModel(f)
        PROVE  FALSE
    <3>1. PICK m \in Names : dir[Session(m)] = f
      BY <1>2, <2>2, NoFileAssumption DEF OfSession
    <3>2. PICK n \in Names : dir[Model(n)] = f
      BY <1>2, <2>2 DEF OfModel
    <3> QED
      BY <2>1, <3>1, <3>2, NoFileAssumption DEF Exists
  <2> QED
    BY <2>2 DEF ApartInv
<1>4. DeadInv /\ PathInv /\ SolveInv /\ ResultsOfOneSolve
  BY <1>2 DEF DeadInv, PathInv, Updating, SolveInv, ResultsOfOneSolve
<1>5. KeepInv /\ WriterInv
  BY <1>2 DEF KeepInv, WriterInv, Acknowledged
<1>6. TornInv
  <2>1. \A n \in Names : Exists(Session(n)) => content[dir[Session(n)]] = {}
    BY <1>1, <1>2, Paths DEF TypeOK, Exists
  <2> QED
    BY <1>2, <2>1 DEF TornInv, Torn
<1>7. NamesInv /\ SourceInv /\ SaveInv
  BY <1>2 DEF NamesInv, SourceInv, SaveInv, InFlight
<1> QED
  BY <1>1, <1>3, <1>4, <1>5, <1>6, <1>7 DEF IInv

LEMMA StepIInv == IInv /\ [Next]_vars => IInv'
  BY TypeStep, PlaceStep, MetStep, LinkStep, ApartStep, DeadStep, PathStep, SolveStep,
     KeepStep, WriterStep, TornStep, NamesStep, SourceStep, SaveStep DEF IInv

LEMMA Invariance == Spec => []IInv
  BY InitIInv, StepIInv, PTL DEF Spec

\* Every variable has its type in every reachable state.
THEOREM TypeCorrect == Spec => []TypeOK
<1>1. IInv => TypeOK
  BY DEF IInv
<1> QED
  BY <1>1, Invariance, PTL

\* A request in flight has open the files its place in the handler calls for,
\* and no file is both a working file and a case of the user's: a save never
\* writes into the session's directory (SaveCase, SaveCaseAs).
THEOREM FilesApart == Spec => [](PlaceInv /\ LinkInv /\ ApartInv)
<1>1. IInv => PlaceInv /\ LinkInv /\ ApartInv
  BY DEF IInv
<1> QED
  BY <1>1, Invariance, PTL

\* For any number of requests: an edit that was acknowledged without meeting
\* another rewriting request is in the working file whenever that is whole and
\* at rest, and the file is unreadable only after an overlap or a failed write
\* (EditElement, UpdateControlState, SaveCaseAs).
THEOREM NoLoss == Spec => []NoLossWithoutOverlap
<1>1. ASSUME IInv
      PROVE  NoLossWithoutOverlap
  <2> SUFFICES ASSUME live, Exists(Session(current)), AtRest
               PROVE  IF Whole(Session(current))
                      THEN \A e \in Acknowledged :
                              \/ e \in content[dir[Session(current)]]
                              \/ met[e] \cap Rewriters # {}
                      ELSE broken # {} \/ Collision
    BY DEF NoLossWithoutOverlap
  <2>1. InUse(current) /\ Given(current) /\ current \in Names
    BY <1>1 DEF InUse, Given, IInv, TypeOK
  <2>2. CASE Whole(Session(current))
    BY <1>1, <2>1, <2>2 DEF IInv, KeepInv, Lone, Whole
  <2>3. CASE ~Whole(Session(current))
    BY <1>1, <2>1, <2>3 DEF IInv, TornInv, Whole, AtRest
  <2> QED
    BY <2>2, <2>3
<1> QED
  BY <1>1, Invariance, PTL

\* FilePath names a file unless a save-as is between its rename and its update
\* of the session, or two saves-as overlapped (SaveCaseAs).
THEOREM PathExists == Spec => []FilePathExists
<1>1. IInv => FilePathExists
  BY DEF IInv, PathInv, Updating, SavesAsMet, FilePathExists
<1> QED
  BY <1>1, Invariance, PTL

\* The results on disk and those the session records are of one solve, but for
\* the moment between the two, overlapping solves and failed writes
\* (SaveRawResults, UpdateSessionResults).
THEOREM OneSolve == Spec => []ResultsOfOneSolve
<1>1. IInv => ResultsOfOneSolve
  BY DEF IInv
<1> QED
  BY <1>1, Invariance, PTL

\* A save that is reported as done has copied every edit acknowledged so far,
\* unless a rewriting request overlapped or a write failed (copyFile).
THEOREM SaveCompletes == Spec => SaveIsComplete
<1> DEFINE Done(r) ==
        /\ place[r] = "copy" /\ place'[r] \in {"ok", "rename"}
        /\ Exists(Model(name[r])) /\ dir[Model(name[r])] = target[r]
        /\ met[r] \cap Rewriters = {} /\ ~Collision /\ broken = {}
<1>1. ASSUME IInv, [Next]_vars, NEW r \in Requests, Done(r)
      PROVE  Acknowledged \subseteq content'[target[r]]
  <2> USE <1>1 DEF IInv
  <2>1. /\ content[source[r]] # Torn
        /\ Acknowledged \subseteq content[source[r]]
        /\ content[target[r]] \in {Torn, content[source[r]]}
    BY DEF SaveInv, Lone
  <2>2. target[r] \in Files
    BY NoFileAssumption DEF PlaceInv, TypeOK
  <2>3. Copy(r)
    <3> USE DEF TypeOK
    <3>1. ASSUME NEW s \in Requests, NEW k \in Kinds, Start(s, k)
          PROVE  FALSE
      BY <3>1, StartStep
    <3>2. ASSUME NEW s \in Requests, NEW k \in Kinds, NEW m \in Names, Opens(s, k, m)
          PROVE  FALSE
      <4>1. place[s] = "idle" /\ place' = [place EXCEPT ![s] = "copy"]
        BY <3>2, OpensStep
      <4> QED
        BY <4>1
    <3>3. ASSUME NEW s \in Requests,
                 Quiet(s) \/ OpenWrite(s) \/ Rename(s) \/ RenameFails(s)
          PROVE  FALSE
      BY <3>3, QuietStep, OpenWriteStep, RenameMoves, RenameFailsStep
    <3>4. ASSUME NEW s \in Requests, Fills(s)
          PROVE  Copy(r)
      <4>1. s = r
        BY <3>4, FillStep
      <4> QED
        BY <3>4, <4>1 DEF Fills, Write, WriteFails, CopyFails, Goto
    <3>5. ~RemoveSession /\ ~UNCHANGED vars
      BY RemoveStep DEF vars
    <3> QED
      BY <3>1, <3>2, <3>3, <3>4, <3>5, Steps
  <2>4. content' = [content EXCEPT ![target[r]] = content[source[r]]]
    BY <2>1, <2>3 DEF Copy, Fill
  <2> QED
    BY <2>1, <2>2, <2>4 DEF TypeOK
<1>2. IInv /\ [Next]_vars =>
         [\A r \in Requests : Done(r) => Acknowledged \subseteq content'[target[r]]]_vars
  BY <1>1
<1> QED
  BY <1>2, Invariance, PTL DEF Spec, SaveIsComplete
=============================================================================
