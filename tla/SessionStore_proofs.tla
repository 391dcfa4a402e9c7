------------------------ MODULE SessionStore_proofs ------------------------
(* Theorems about SessionStore for any users, sessions, requests and limit. *)
EXTENDS SessionStore, SequenceTheorems, TLAPS

Distinct(q) == \A i, j \in DOMAIN q : q[i] = q[j] => i = j

\* A list a user's list becomes when it loses its first k entries and gets s.
Renewed(q, k, s) == Append(SubSeq(q, k + 1, Len(q)), s)
Before(c, x, y) == \E i, j \in DOMAIN c : i < j /\ c[i] = x /\ c[j] = y

\* Sessions in the map have an owner.
OwnerInv == \A s \in sessions : owner[s] \in Users

\* The sessions that were drawn, each once, in the order of their creation.
CreatedInv ==
    /\ \A s \in Sessions : owner[s] \in Users <=> s \in ToSet(created)
    /\ Distinct(created)

\* Every user's list is in the order of creation.
OrderInv ==
    \A u \in Users : \A i, j \in DOMAIN byUser[u] :
        i < j => Before(created, byUser[u][i], byUser[u][j])

IndexInv == OwnerInv /\ CreatedInv /\ OrderInv /\ IndexAgrees /\ WithinLimit

\* A request that is about to set a field has written the file, unless its
\* session was removed.
RequestInv ==
    \A r \in Requests :
        /\ at[r] = "idle" => target[r] = NoSession
        /\ at[r] # "idle" => target[r] \in Sessions /\ owner[target[r]] \in Users
        /\ target[r] \in sessions =>
              /\ at[r] = "setFileInfo" => "model" \in disk[target[r]]
              /\ at[r] = "setSlot" => "study" \in disk[target[r]]
              /\ at[r] = "setResults" => "results" \in disk[target[r]]

\* Nothing can write for a session that was removed with all it owns.
TidyInv ==
    \A s \in tidy :
        s \notin sessions /\ owner[s] \in Users /\ ~Busy(s) /\ disk[s] = {}

\* A case is loaded into a session once, before the session has a FilePath and
\* so before any save-as of it.
Loading == {"makeDir", "copyModel", "setFileInfo"}

LoadInv ==
    \A r \in Requests : at[r] \in Loading =>
        /\ target[r] \notin filePath
        /\ \A q \in Requests \ {r} :
              at[q] \in Loading \cup {"rename", "setPath"} => target[q] # target[r]

FileInv == RequestInv /\ LoadInv /\ PathsExist /\ TidyInv

IInv == TypeOK /\ IndexInv /\ FileInv
-----------------------------------------------------------------------------
(* What the operations on the index do to a list.                          *)

LEMMA RenewedList ==
    ASSUME NEW q \in Seq(Sessions), NEW s \in Sessions, NEW k \in 0 .. Len(q)
    PROVE  /\ Renewed(q, k, s) \in Seq(Sessions)
           /\ Len(Renewed(q, k, s)) = Len(q) - k + 1
           /\ \A i \in 1 .. Len(q) - k : Renewed(q, k, s)[i] = q[k + i]
           /\ Renewed(q, k, s)[Len(q) - k + 1] = s
<1> DEFINE n == Len(q)
           rest == SubSeq(q, k + 1, n)
<1>1. n \in Nat /\ k \in Nat /\ k <= n
  BY LenProperties
<1>2. \A i \in k + 1 .. n : q[i] \in Sessions
  BY <1>1, ElementOfSeq
<1>3. /\ rest \in Seq(Sessions)
      /\ Len(rest) = n - k
      /\ \A i \in 1 .. n - k : rest[i] = q[k + i]
  <2>1. k + 1 \in Int /\ n \in Int
    BY <1>1
  <2>2. /\ rest \in Seq(Sessions)
        /\ Len(rest) = IF k + 1 <= n THEN n - (k + 1) + 1 ELSE 0
        /\ \A i \in 1 .. n - (k + 1) + 1 : rest[i] = q[k + 1 + i - 1]
    BY <1>2, <2>1, SubSeqProperties
  <2> HIDE DEF rest, n
  <2>3. Len(rest) = n - k
    BY <2>2, <1>1
  <2>4. ASSUME NEW i \in 1 .. n - k
        PROVE  rest[i] = q[k + i]
    <3>1. i \in 1 .. n - (k + 1) + 1 /\ k + 1 + i - 1 = k + i
      BY <1>1
    <3> QED
      BY <3>1, <2>2
  <2> QED
    BY <2>2, <2>3, <2>4
<1>4. Renewed(q, k, s) = Append(rest, s)
  BY DEF Renewed
<1> HIDE DEF rest, n
<1>5. /\ Append(rest, s) \in Seq(Sessions)
      /\ Len(Append(rest, s)) = Len(rest) + 1
      /\ \A i \in 1 .. Len(rest) : Append(rest, s)[i] = rest[i]
      /\ Append(rest, s)[Len(rest) + 1] = s
  BY <1>3, AppendProperties
<1>6. /\ Append(rest, s) \in Seq(Sessions)
      /\ Len(Append(rest, s)) = n - k + 1
      /\ \A i \in 1 .. n - k : Append(rest, s)[i] = q[k + i]
      /\ Append(rest, s)[n - k + 1] = s
  BY <1>1, <1>3, <1>5
<1> QED
  BY <1>4, <1>6 DEF n

\* Where the entries of Without(q, s) stand in q.
LEMMA WithoutList ==
    ASSUME NEW q \in Seq(Sessions), NEW s, NEW k \in 1 .. Len(q),
           q[k] = s, Distinct(q)
    PROVE  /\ Without(q, s) \in Seq(Sessions)
           /\ Len(Without(q, s)) = Len(q) - 1
           /\ \A i \in 1 .. Len(q) - 1 :
                 Without(q, s)[i] = IF i < k THEN q[i] ELSE q[i + 1]
<1> DEFINE n == Len(q)
           front == SubSeq(q, 1, k - 1)
           back == SubSeq(q, k + 1, n)
           First(i) == q[i] = s /\ \A j \in 1 .. i - 1 : q[j] # s
<1>1. n \in Nat /\ k \in Nat /\ 1 <= k /\ k <= n /\ DOMAIN q = 1 .. n
  BY LenProperties
<1>2. \A i \in 1 .. n : q[i] \in Sessions
  BY <1>1, ElementOfSeq
<1>3. (CHOOSE i \in DOMAIN q : First(i)) = k
  <2>1. First(k)
    <3>1. ASSUME NEW j \in 1 .. k - 1, q[j] = s
          PROVE  FALSE
      BY <1>1, <3>1 DEF Distinct
    <3> QED
      BY <3>1
  <2>2. \A i \in DOMAIN q : First(i) => i = k
    BY <1>1 DEF Distinct
  <2> QED
    BY <2>1, <2>2, <1>1
<1>4. Without(q, s) = front \o back
  BY <1>1, <1>3 DEF Without, RemoveAt
<1>5. /\ front \in Seq(Sessions) /\ Len(front) = k - 1
      /\ \A i \in 1 .. k - 1 : front[i] = q[i]
  <2>1. 1 \in Int /\ k - 1 \in Int /\ \A i \in 1 .. k - 1 : q[i] \in Sessions
    BY <1>1, <1>2
  <2>2. /\ front \in Seq(Sessions)
        /\ Len(front) = IF 1 <= k - 1 THEN k - 1 - 1 + 1 ELSE 0
        /\ \A i \in 1 .. k - 1 - 1 + 1 : front[i] = q[1 + i - 1]
    BY <2>1, SubSeqProperties
  <2> HIDE DEF front
  <2>3. \A i \in 1 .. k - 1 : i \in 1 .. k - 1 - 1 + 1 /\ 1 + i - 1 = i
    BY <1>1
  <2> QED
    BY <1>1, <2>2, <2>3
<1>6. /\ back \in Seq(Sessions) /\ Len(back) = n - k
      /\ \A i \in 1 .. n - k : back[i] = q[k + i]
  <2>1. k + 1 \in Int /\ n \in Int /\ \A i \in k + 1 .. n : q[i] \in Sessions
    BY <1>1, <1>2
  <2>2. /\ back \in Seq(Sessions)
        /\ Len(back) = IF k + 1 <= n THEN n - (k + 1) + 1 ELSE 0
        /\ \A i \in 1 .. n - (k + 1) + 1 : back[i] = q[k + 1 + i - 1]
    BY <2>1, SubSeqProperties
  <2> HIDE DEF back, n
  <2>3. \A i \in 1 .. n - k : i \in 1 .. n - (k + 1) + 1 /\ k + 1 + i - 1 = k + i
    BY <1>1
  <2> QED
    BY <1>1, <2>2, <2>3
<1> HIDE DEF front, back, n
<1>7. /\ front \o back \in Seq(Sessions)
      /\ Len(front \o back) = Len(front) + Len(back)
      /\ \A i \in 1 .. Len(front) + Len(back) : (front \o back)[i] =
            IF i <= Len(front) THEN front[i] ELSE back[i - Len(front)]
  BY <1>5, <1>6, ConcatProperties
<1>8. Len(front) + Len(back) = n - 1
  BY <1>1, <1>5, <1>6
<1>9. ASSUME NEW i \in 1 .. n - 1
      PROVE  (front \o back)[i] = IF i < k THEN q[i] ELSE q[i + 1]
  <2>1. CASE i < k
    <3>1. i <= k - 1 /\ i \in 1 .. k - 1
      BY <2>1, <1>1
    <3> QED
      BY <2>1, <3>1, <1>5, <1>7, <1>8
  <2>2. CASE ~(i < k)
    <3>1. ~(i <= k - 1) /\ i - (k - 1) \in 1 .. n - k /\ k + (i - (k - 1)) = i + 1
      BY <2>2, <1>1
    <3> QED
      BY <2>2, <3>1, <1>5, <1>6, <1>7, <1>8
  <2> QED
    BY <2>1, <2>2
<1> QED
  BY <1>4, <1>7, <1>8, <1>9 DEF n
-----------------------------------------------------------------------------
(* The index.                                                              *)

\* The excess of a list within the limit is none or one.
LEMMA ExcessOfList ==
    ASSUME NEW q \in Seq(Sessions), Len(q) <= MaxSessions
    PROVE  /\ Excess(q) \in 0 .. Len(q)
           /\ Len(q) - Excess(q) + 1 <= MaxSessions
<1>1. Len(q) \in Nat /\ MaxSessions \in Nat \ {0}
  BY LenProperties, MaxSessionsAssumption
<1>2. CASE Len(q) = MaxSessions
  BY <1>1, <1>2 DEF Excess
<1>3. CASE Len(q) < MaxSessions
  BY <1>1, <1>3 DEF Excess
<1> QED
  BY <1>1, <1>2, <1>3

LEMMA RegisterIndex ==
    ASSUME TypeOK, IndexInv, NEW u \in Users, NEW s \in Sessions, Register(u, s)
    PROVE  /\ byUser' \in [Users -> Seq(Sessions)]
           /\ created' \in Seq(Sessions)
           /\ IndexInv'
<1> DEFINE q == byUser[u]
           k == Excess(q)
           p == Renewed(q, k, s)
           gone == Evicted(q) \cap sessions
           Lists == [Users -> Seq(Sessions)]
<1>1. /\ byUser \in Lists /\ q \in Seq(Sessions) /\ created \in Seq(Sessions)
      /\ owner \in [Sessions -> Users \cup {NoUser}] /\ sessions \subseteq Sessions
  BY DEF TypeOK
<1>2. /\ owner[s] = NoUser
      /\ owner' = [owner EXCEPT ![s] = u]
      /\ created' = Append(created, s)
      /\ byUser' = [byUser EXCEPT ![u] = p]
      /\ sessions' = (sessions \ gone) \cup {s}
  BY DEF Register, Renewed
<1>3. Len(q) \in Nat /\ DOMAIN q = 1 .. Len(q) /\ Len(q) <= MaxSessions
  BY <1>1, LenProperties DEF IndexInv, WithinLimit
<1>4. k \in 0 .. Len(q) /\ Len(q) - k + 1 <= MaxSessions
  BY <1>1, <1>3, ExcessOfList
<1> DEFINE n == Len(q)
           m == n - k + 1
<1>5. /\ p \in Seq(Sessions) /\ Len(p) = m
      /\ \A i \in 1 .. n - k : p[i] = q[k + i]
      /\ p[m] = s
  BY <1>1, <1>4, RenewedList
<1>6. gone = {q[i] : i \in 1 .. k} \cap sessions
  BY DEF Evicted
<1> HIDE DEF p, k, gone, n, q
<1>7. n \in Nat /\ k \in 0 .. n /\ m \in Nat /\ DOMAIN p = 1 .. m
  BY <1>3, <1>4, <1>5, LenProperties DEF n
<1>8. /\ byUser' \in Lists
      /\ byUser'[u] = p
      /\ \A v \in Users \ {u} : byUser'[v] = byUser[v]
  BY <1>1, <1>2, <1>5
<1>9. /\ owner'[s] = u /\ \A t \in Sessions \ {s} : owner'[t] = owner[t]
      /\ s \notin sessions
  BY <1>1, <1>2, NoUserAssumption DEF IndexInv, OwnerInv
<1>10. /\ ToSet(q) = {t \in sessions : owner[t] = u}
       /\ Distinct(q)
  BY DEF IndexInv, IndexAgrees, Distinct, q
<1>11. /\ DOMAIN created = 1 .. Len(created) /\ Len(created) \in Nat
       /\ created' \in Seq(Sessions)
       /\ DOMAIN created' = 1 .. Len(created) + 1
       /\ \A i \in 1 .. Len(created) : created'[i] = created[i]
       /\ created'[Len(created) + 1] = s
  BY <1>1, <1>2, AppendProperties, LenProperties
<1>12. OwnerInv'
  BY <1>1, <1>2, <1>9 DEF IndexInv, OwnerInv
<1>13. CreatedInv'
  <2>1. s \notin ToSet(created)
    BY <1>2, NoUserAssumption DEF IndexInv, CreatedInv
  <2>2. ToSet(created') = ToSet(created) \cup {s}
    BY <1>11 DEF ToSet
  <2>3. \A t \in Sessions : owner'[t] \in Users <=> t \in ToSet(created')
    BY <2>2, <1>9 DEF IndexInv, CreatedInv
  <2>4. Distinct(created')
    BY <2>1, <1>11 DEF IndexInv, CreatedInv, Distinct, ToSet
  <2> QED
    BY <2>3, <2>4 DEF CreatedInv
<1>14. WithinLimit'
  BY <1>4, <1>5, <1>8 DEF IndexInv, WithinLimit, m, n
<1>15. IndexAgrees'
  <2>1. ToSet(p) = {t \in sessions' : owner'[t] = u}
    <3>1. ASSUME NEW i \in 1 .. m
          PROVE  p[i] \in sessions' /\ owner'[p[i]] = u
      <4>1. CASE i = m
        BY <4>1, <1>2, <1>5, <1>9
      <4>2. CASE i # m
        <5>1. i \in 1 .. n - k /\ k + i \in 1 .. n /\ k + i \notin 1 .. k
          BY <4>2, <1>7
        <5>2. p[i] = q[k + i] /\ p[i] \in sessions /\ owner[p[i]] = u
          BY <5>1, <1>5, <1>10, <1>3 DEF ToSet, n
        <5>3. p[i] \notin gone
          BY <5>1, <5>2, <1>6, <1>7, <1>10, <1>3 DEF Distinct, n
        <5> QED
          BY <5>2, <5>3, <1>2, <1>9, <1>1
      <4> QED
        BY <4>1, <4>2
    <3>2. ASSUME NEW t \in sessions', owner'[t] = u
          PROVE  \E i \in 1 .. m : p[i] = t
      <4>1. CASE t = s
        BY <4>1, <1>5, <1>7
      <4>2. CASE t # s
        <5>1. t \in sessions /\ t \notin gone /\ owner[t] = u
          BY <4>2, <3>2, <1>1, <1>2, <1>9
        <5>2. PICK i \in 1 .. n : q[i] = t
          BY <5>1, <1>10, <1>3 DEF ToSet, n
        <5>3. i \notin 1 .. k
          BY <5>1, <5>2, <1>6
        <5>4. i - k \in 1 .. n - k /\ i - k \in 1 .. m /\ k + (i - k) = i
          BY <5>3, <1>7
        <5> QED
          BY <5>2, <5>4, <1>5
      <4> QED
        BY <4>1, <4>2
    <3> QED
      BY <3>1, <3>2, <1>7 DEF ToSet
  <2>2. \A i, j \in DOMAIN p : p[i] = p[j] => i = j
    <3>1. \A i \in 1 .. n - k : k + i \in 1 .. n /\ p[i] # s
      <4>1. ASSUME NEW i \in 1 .. n - k
            PROVE  k + i \in 1 .. n /\ p[i] # s
        <5>1. k + i \in 1 .. n
          BY <1>7
        <5>2. q[k + i] \in sessions
          BY <5>1, <1>10, <1>3 DEF ToSet, n
        <5> QED
          BY <5>1, <5>2, <1>5, <1>9
      <4> QED
        BY <4>1
    <3>2. ASSUME NEW i \in 1 .. m, NEW j \in 1 .. m, p[i] = p[j]
          PROVE  i = j
      <4>1. CASE i = m \/ j = m
        BY <3>1, <3>2, <4>1, <1>5, <1>7
      <4>2. CASE i # m /\ j # m
        <5>1. i \in 1 .. n - k /\ j \in 1 .. n - k
          BY <4>2, <1>7
        <5>2. q[k + i] = q[k + j] /\ k + i \in DOMAIN q /\ k + j \in DOMAIN q
          BY <3>1, <3>2, <5>1, <1>3, <1>5 DEF n
        <5>3. k + i = k + j
          BY <5>2, <1>10 DEF Distinct
        <5> QED
          BY <5>3, <1>7
      <4> QED
        BY <4>1, <4>2
    <3> QED
      BY <3>2, <1>7
  <2>3. ASSUME NEW v \in Users, v # u
        PROVE  {t \in sessions' : owner'[t] = v} = {t \in sessions : owner[t] = v}
    <3>1. \A t \in gone : owner[t] = u
      BY <1>3, <1>6, <1>7, <1>10 DEF ToSet, n
    <3> QED
      BY <2>3, <3>1, <1>1, <1>2, <1>9
  <2>4. ASSUME NEW v \in Users
        PROVE  /\ ToSet(byUser'[v]) = {t \in sessions' : owner'[t] = v}
               /\ \A i, j \in DOMAIN byUser'[v] : byUser'[v][i] = byUser'[v][j] => i = j
    <3>1. CASE v = u
      BY <2>1, <2>2, <3>1, <1>8
    <3>2. CASE v # u
      <4>1. byUser'[v] = byUser[v]
        BY <3>2, <1>8
      <4>2. ToSet(byUser[v]) = {t \in sessions : owner[t] = v}
        BY DEF IndexInv, IndexAgrees
      <4>3. {t \in sessions' : owner'[t] = v} = {t \in sessions : owner[t] = v}
        BY <3>2, <2>3
      <4>4. \A i, j \in DOMAIN byUser[v] : byUser[v][i] = byUser[v][j] => i = j
        BY DEF IndexInv, IndexAgrees
      <4> QED
        BY <4>1, <4>2, <4>3, <4>4
    <3> QED
      BY <3>1, <3>2
  <2> QED
    BY <2>4 DEF IndexAgrees
<1>16. OrderInv'
  <2>1. ASSUME NEW x, NEW y, Before(created, x, y)
        PROVE  Before(created', x, y)
    BY <2>1, <1>11 DEF Before
  <2>2. ASSUME NEW x \in sessions
        PROVE  Before(created', x, s)
    <3>1. PICK i \in 1 .. Len(created) : created[i] = x
      BY <1>1, <1>11 DEF IndexInv, OwnerInv, CreatedInv, ToSet
    <3>2. i < Len(created) + 1 /\ {i, Len(created) + 1} \subseteq DOMAIN created'
      BY <1>11
    <3> QED
      BY <3>1, <3>2, <1>11 DEF Before
  <2>3. ASSUME NEW i \in 1 .. m, NEW j \in 1 .. m, i < j
        PROVE  Before(created', p[i], p[j])
    <3>1. i \in 1 .. n - k /\ k + i \in DOMAIN q /\ p[i] = q[k + i]
      BY <2>3, <1>3, <1>5, <1>7 DEF n
    <3>2. CASE j = m
      BY <2>2, <3>1, <3>2, <1>5, <1>10 DEF ToSet
    <3>3. CASE j # m
      <4>1. j \in 1 .. n - k /\ k + j \in DOMAIN q /\ p[j] = q[k + j] /\ k + i < k + j
        BY <3>3, <2>3, <1>3, <1>5, <1>7 DEF n
      <4>2. Before(created, q[k + i], q[k + j])
        BY <3>1, <4>1 DEF IndexInv, OrderInv, q
      <4> QED
        BY <2>1, <3>1, <4>1, <4>2
    <3> QED
      BY <3>2, <3>3
  <2>4. ASSUME NEW v \in Users, NEW i \in DOMAIN byUser'[v],
               NEW j \in DOMAIN byUser'[v], i < j
        PROVE  Before(created', byUser'[v][i], byUser'[v][j])
    <3>1. CASE v = u
      BY <2>3, <2>4, <3>1, <1>7, <1>8
    <3>2. CASE v # u
      BY <2>1, <2>4, <3>2, <1>8 DEF IndexInv, OrderInv
    <3> QED
      BY <3>1, <3>2
  <2> QED
    BY <2>4 DEF OrderInv
<1> QED
  BY <1>8, <1>11, <1>12, <1>13, <1>14, <1>15, <1>16 DEF IndexInv

LEMMA CleanupOneIndex ==
    ASSUME TypeOK, IndexInv, NEW s \in Sessions, CleanupOne(s)
    PROVE  byUser' \in [Users -> Seq(Sessions)] /\ IndexInv'
<1> DEFINE u == owner[s]
           q == byUser[u]
           w == Without(q, s)
<1>1. /\ byUser \in [Users -> Seq(Sessions)] /\ sessions \subseteq Sessions
      /\ s \in sessions /\ u \in Users
  BY DEF TypeOK, CleanupOne, IndexInv, OwnerInv
<1>2. /\ byUser' = [byUser EXCEPT ![u] = w]
      /\ sessions' = sessions \ {s}
      /\ owner' = owner /\ created' = created
  BY DEF CleanupOne
<1>3. q \in Seq(Sessions) /\ Len(q) \in Nat /\ DOMAIN q = 1 .. Len(q)
  BY <1>1, LenProperties
<1>4. ToSet(q) = {t \in sessions : owner[t] = u} /\ Distinct(q)
  BY <1>1 DEF IndexInv, IndexAgrees, Distinct, q
<1>5. PICK k \in 1 .. Len(q) : q[k] = s
  BY <1>1, <1>3, <1>4 DEF ToSet
<1>6. /\ w \in Seq(Sessions)
      /\ Len(w) = Len(q) - 1
      /\ \A i \in 1 .. Len(q) - 1 : w[i] = IF i < k THEN q[i] ELSE q[i + 1]
  BY <1>3, <1>4, <1>5, WithoutList
<1> DEFINE n == Len(q)
<1>7. /\ byUser' \in [Users -> Seq(Sessions)]
      /\ byUser'[u] = w
      /\ \A v \in Users \ {u} : byUser'[v] = byUser[v]
  BY <1>1, <1>2, <1>6
<1>8. Len(q) <= MaxSessions
  BY <1>1 DEF IndexInv, WithinLimit
<1>9. \A i, j \in DOMAIN q : i < j => Before(created, q[i], q[j])
  BY <1>1 DEF IndexInv, OrderInv
<1> HIDE DEF w, q, n
<1>10. DOMAIN w = 1 .. n - 1 /\ n \in Nat /\ k \in 1 .. n /\ DOMAIN q = 1 .. n
  BY <1>3, <1>5, <1>6, LenProperties DEF n
\* Entry i of the shorter list is entry At(i) of the longer one.
<1> DEFINE At(i) == IF i < k THEN i ELSE i + 1
<1>11. ASSUME NEW i \in 1 .. n - 1
       PROVE  At(i) \in 1 .. n /\ At(i) # k /\ w[i] = q[At(i)]
  BY <1>6, <1>10 DEF n
<1>12. \A i, j \in 1 .. n - 1 : i < j => At(i) < At(j)
  BY <1>10
<1>13. \A j \in 1 .. n : j # k => \E i \in 1 .. n - 1 : At(i) = j
  <2>1. ASSUME NEW j \in 1 .. n, j # k
        PROVE  \E i \in 1 .. n - 1 : At(i) = j
    <3>1. CASE j < k
      <4>1. j \in 1 .. n - 1 /\ At(j) = j
        BY <3>1, <1>10
      <4> HIDE DEF At
      <4> QED
        BY <4>1
    <3>2. CASE ~(j < k)
      <4>1. j - 1 \in 1 .. n - 1 /\ At(j - 1) = j
        BY <2>1, <3>2, <1>10
      <4> HIDE DEF At
      <4> QED
        BY <4>1
    <3> QED
      BY <3>1, <3>2
  <2> QED
    BY <2>1
<1> HIDE DEF At
<1>14. OwnerInv' /\ CreatedInv'
  BY <1>2 DEF IndexInv, OwnerInv, CreatedInv
<1>15. WithinLimit'
  <2>1. Len(w) <= MaxSessions
    BY <1>6, <1>8, <1>10, MaxSessionsAssumption DEF n
  <2> QED
    BY <2>1, <1>7 DEF IndexInv, WithinLimit
<1>16. OrderInv'
  <2>1. \A i, j \in DOMAIN w : i < j => Before(created', w[i], w[j])
    BY <1>2, <1>9, <1>10, <1>11, <1>12
  <2> QED
    BY <2>1, <1>2, <1>7 DEF IndexInv, OrderInv
<1>17. ToSet(w) = {t \in sessions' : owner'[t] = u}
  <2>1. ASSUME NEW i \in 1 .. n - 1
        PROVE  w[i] \in sessions' /\ owner'[w[i]] = u
    <3>1. q[At(i)] \in ToSet(q) /\ q[At(i)] # s
      BY <1>4, <1>5, <1>10, <1>11 DEF ToSet, Distinct
    <3> QED
      BY <3>1, <1>2, <1>4, <1>11
  <2>2. ASSUME NEW t \in sessions', owner'[t] = u
        PROVE  \E i \in 1 .. n - 1 : w[i] = t
    <3>1. PICK j \in 1 .. n : q[j] = t
      BY <2>2, <1>2, <1>4, <1>10 DEF ToSet
    <3>2. j # k
      BY <2>2, <3>1, <1>2, <1>5
    <3> QED
      BY <3>1, <3>2, <1>11, <1>13
  <2> QED
    BY <2>1, <2>2, <1>10 DEF ToSet
<1>18. \A i, j \in DOMAIN w : w[i] = w[j] => i = j
  <2>1. ASSUME NEW i \in 1 .. n - 1, NEW j \in 1 .. n - 1, w[i] = w[j]
        PROVE  i = j
    <3>1. At(i) = At(j)
      BY <2>1, <1>4, <1>10, <1>11 DEF Distinct
    <3>2. ~(i < j) /\ ~(j < i)
      BY <3>1, <1>10, <1>11, <1>12
    <3> QED
      BY <3>2, <1>10
  <2> QED
    BY <2>1, <1>10
<1>19. IndexAgrees'
  <2>1. ASSUME NEW v \in Users \ {u}
        PROVE  ToSet(byUser'[v]) = {t \in sessions' : owner'[t] = v}
    <3>1. ToSet(byUser[v]) = {t \in sessions : owner[t] = v}
      BY DEF IndexInv, IndexAgrees
    <3>2. {t \in sessions : owner[t] = v} = {t \in sessions' : owner'[t] = v}
      BY <1>2
    <3> QED
      BY <3>1, <3>2, <1>7
  <2>2. \A v \in Users \ {u} : \A i, j \in DOMAIN byUser'[v] :
            byUser'[v][i] = byUser'[v][j] => i = j
    BY <1>7 DEF IndexInv, IndexAgrees
  <2> QED
    BY <2>1, <2>2, <1>7, <1>17, <1>18 DEF IndexAgrees
<1> QED
  BY <1>7, <1>14, <1>15, <1>16, <1>19 DEF IndexInv

LEMMA CleanupUserIndex ==
    ASSUME TypeOK, IndexInv, NEW u \in Users, CleanupUserSessions(u)
    PROVE  byUser' \in [Users -> Seq(Sessions)] /\ IndexInv'
<1>1. /\ byUser \in [Users -> Seq(Sessions)] /\ sessions \subseteq Sessions
      /\ byUser' = [byUser EXCEPT ![u] = <<>>]
      /\ sessions' = sessions \ ToSet(byUser[u])
      /\ owner' = owner /\ created' = created
  BY DEF TypeOK, CleanupUserSessions
<1>2. <<>> \in Seq(Sessions) /\ Len(<<>>) = 0 /\ DOMAIN <<>> = {}
  BY EmptySeq
<1>3. /\ byUser' \in [Users -> Seq(Sessions)]
      /\ byUser'[u] = <<>>
      /\ \A v \in Users \ {u} : byUser'[v] = byUser[v]
  BY <1>1, <1>2
<1>4. OwnerInv' /\ CreatedInv'
  BY <1>1 DEF IndexInv, OwnerInv, CreatedInv
<1>5. OrderInv' /\ WithinLimit'
  BY <1>1, <1>2, <1>3, MaxSessionsAssumption DEF IndexInv, OrderInv, WithinLimit
<1>6. ASSUME NEW v \in Users
      PROVE  ToSet(byUser'[v]) = {t \in sessions' : owner'[t] = v}
  <2>1. \A x \in Users : ToSet(byUser[x]) = {t \in sessions : owner[t] = x}
    BY DEF IndexInv, IndexAgrees
  <2>2. CASE v = u
    <3>1. ToSet(byUser'[v]) = {}
      BY <2>2, <1>2, <1>3 DEF ToSet
    <3>2. {t \in sessions' : owner'[t] = v} = {}
      BY <2>1, <2>2, <1>1
    <3> QED
      BY <3>1, <3>2
  <2>3. CASE v # u
    <3>1. {t \in sessions' : owner'[t] = v} = {t \in sessions : owner[t] = v}
      BY <2>1, <2>3, <1>1
    <3> QED
      BY <3>1, <2>1, <2>3, <1>3
  <2> QED
    BY <2>2, <2>3
<1>7. \A v \in Users : \A i, j \in DOMAIN byUser'[v] :
          byUser'[v][i] = byUser'[v][j] => i = j
  BY <1>2, <1>3 DEF IndexInv, IndexAgrees
<1> QED
  BY <1>3, <1>4, <1>5, <1>6, <1>7 DEF IndexInv, IndexAgrees

\* After a restart the lists are empty.
LEMMA EmptyIndex ==
    ASSUME sessions' = {}, byUser' = [u \in Users |-> <<>>],
           owner' = owner, created' = created, CreatedInv
    PROVE  byUser' \in [Users -> Seq(Sessions)] /\ IndexInv'
<1>1. <<>> \in Seq(Sessions) /\ Len(<<>>) = 0 /\ DOMAIN <<>> = {}
  BY EmptySeq
<1>2. \A u \in Users : byUser'[u] = <<>>
  OBVIOUS
<1>3. OwnerInv' /\ CreatedInv' /\ OrderInv' /\ WithinLimit'
  BY <1>1, <1>2, MaxSessionsAssumption
     DEF OwnerInv, CreatedInv, OrderInv, WithinLimit
<1>4. IndexAgrees'
  BY <1>1, <1>2 DEF IndexAgrees, ToSet
<1> QED
  BY <1>1, <1>3, <1>4 DEF IndexInv

LEMMA SameIndex ==
    ASSUME IndexInv, UNCHANGED indexVars
    PROVE  IndexInv'
BY DEF indexVars, IndexInv, OwnerInv, CreatedInv, OrderInv, IndexAgrees, WithinLimit
-----------------------------------------------------------------------------
(* The steps of a request.                                                 *)

\* Steps that create files, steps that give up, steps that set a field.
Creates(r) ==
    \/ MakeDir(r) \/ CopyModel(r) \/ MakeStudyDir(r) \/ CopyStudy(r)
    \/ MakeRuns(r) \/ MakeResults(r) \/ WriteResults(r)
GivesUp(r) ==
    \/ CopyModelFails(r) \/ CopyStudyFails(r) \/ WriteResultsFails(r)
    \/ RenameFails(r)
Renames(r) == Rename(r) \/ SetPath(r)
SetsField(r) == SetSessionFileInfo(r) \/ SetSlot(r) \/ UpdateSessionResults(r)
RequestStep(r) ==
    \/ Creates(r) \/ GivesUp(r) \/ SetsField(r) \/ Renames(r)
    \/ \E s \in Sessions : Accept(r, s)

LEMMA RequestKeepsIndex ==
    ASSUME NEW r, RequestStep(r)
    PROVE  UNCHANGED indexVars
BY DEF RequestStep, Creates, GivesUp, SetsField, Accept, MakeDir, CopyModel,
       MakeStudyDir, CopyStudy, MakeRuns, MakeResults, WriteResults,
       CopyModelFails, CopyStudyFails, WriteResultsFails, SetSessionFileInfo,
       SetSlot, UpdateSessionResults, LoadStudyFile, AllocateRunPaths,
       SaveRawResults, lockedVars, RenameFails, Renames, Rename, SetPath, SaveCaseAs

LEMMA CreatesStep ==
    ASSUME IInv, NEW r \in Requests, Creates(r)
    PROVE  TypeOK' /\ FileInv'
<1>1. /\ at[r] # "idle" /\ target[r] \in Sessions /\ owner[target[r]] \in Users
  BY DEF IInv, FileInv, RequestInv, Creates, MakeDir, CopyModel, MakeStudyDir,
         CopyStudy, MakeRuns, MakeResults, WriteResults, Goto, Return
<1>2. /\ UNCHANGED lockedVars
      /\ \E things \in SUBSET (Workspace \cup PowerFlow) : Put(r, things)
  BY DEF Creates, MakeDir, CopyModel, MakeStudyDir, CopyStudy, MakeRuns,
         MakeResults, WriteResults, Workspace, PowerFlow
<1>3. /\ at' \in [Requests -> Steps] /\ target' \in [Requests -> Sessions \cup {NoSession}]
      /\ \A p \in Requests \ {r} : at'[p] = at[p] /\ target'[p] = target[p]
  BY DEF IInv, TypeOK, Steps, Creates, MakeDir, CopyModel, MakeStudyDir,
         CopyStudy, MakeRuns, MakeResults, WriteResults, Goto, Return
<1>4. \/ at'[r] = "idle" /\ target'[r] = NoSession
      \/ /\ at'[r] # "idle" /\ target'[r] = target[r]
         /\ at'[r] = "setFileInfo" => "model" \in disk'[target[r]]
         /\ at'[r] = "setSlot" => "study" \in disk'[target[r]]
         /\ at'[r] = "setResults" => "results" \in disk'[target[r]]
  BY <1>1 DEF IInv, TypeOK, Creates, MakeDir, CopyModel, MakeStudyDir,
         CopyStudy, MakeRuns, MakeResults, WriteResults, Goto, Return, Put
<1>5. /\ disk' \in [Sessions -> SUBSET (Workspace \cup PowerFlow)]
      /\ \A s \in Sessions : disk[s] \subseteq disk'[s]
      /\ \A s \in Sessions \ {target[r]} : disk'[s] = disk[s]
  BY <1>1, <1>2 DEF IInv, TypeOK, Put
<1>6. TypeOK'
  BY <1>2, <1>3, <1>5 DEF IInv, TypeOK, lockedVars, indexVars, fieldVars
<1>7. RequestInv'
  BY <1>1, <1>2, <1>3, <1>4, <1>5
     DEF IInv, TypeOK, FileInv, RequestInv, lockedVars, indexVars
<1>10. /\ at'[r] \in Loading => at[r] \in Loading
       /\ at[r] # "setPath" /\ at'[r] \notin {"rename", "setPath"}
  BY DEF IInv, TypeOK, Creates, MakeDir, CopyModel, MakeStudyDir, CopyStudy,
         MakeRuns, MakeResults, WriteResults, Goto, Return, Loading
<1>11. LoadInv'
  BY <1>2, <1>3, <1>4, <1>10
     DEF IInv, FileInv, LoadInv, lockedVars, fieldVars, Loading
<1>8. PathsExist'
  <2>1. ASSUME NEW s \in Sessions, NEW p \in Saving(s), at[p] = "setPath"
        PROVE  p \in Saving(s)' /\ at'[p] = "setPath"
    BY <2>1, <1>3, <1>10 DEF Saving
  <2> QED
    BY <1>2, <1>5, <2>1
       DEF IInv, TypeOK, FileInv, PathsExist, lockedVars, indexVars, fieldVars
<1>9. TidyInv'
  <2>1. target[r] \notin tidy
    BY DEF IInv, FileInv, TidyInv, Busy
  <2>2. \A s \in tidy : ~Busy(s)'
    BY <1>1, <1>3, <1>4, <2>1, NoSessionAssumption
       DEF IInv, TypeOK, FileInv, TidyInv, Busy
  <2> QED
    BY <1>2, <1>5, <2>1, <2>2
       DEF IInv, TypeOK, FileInv, TidyInv, lockedVars, indexVars
<1> QED
  BY <1>6, <1>7, <1>8, <1>9, <1>11 DEF FileInv

LEMMA GivesUpStep ==
    ASSUME IInv, NEW r \in Requests, GivesUp(r)
    PROVE  TypeOK' /\ FileInv'
<1>1. /\ UNCHANGED <<lockedVars, disk>>
      /\ at' = [at EXCEPT ![r] = "idle"]
      /\ target' = [target EXCEPT ![r] = NoSession]
  BY DEF GivesUp, CopyModelFails, CopyStudyFails, WriteResultsFails,
         RenameFails, Return
<1>2. TypeOK'
  BY <1>1 DEF IInv, TypeOK, Steps, lockedVars, indexVars, fieldVars
<1>3. RequestInv' /\ LoadInv'
  BY <1>1 DEF IInv, TypeOK, FileInv, RequestInv, LoadInv, Loading, lockedVars,
              indexVars, fieldVars
<1>5. PathsExist'
  <2>1. at[r] # "setPath"
    BY DEF GivesUp, CopyModelFails, CopyStudyFails, WriteResultsFails,
           RenameFails, Return
  <2>2. ASSUME NEW s \in Sessions, NEW p \in Saving(s), at[p] = "setPath"
        PROVE  p \in Saving(s)' /\ at'[p] = "setPath"
    BY <2>1, <2>2, <1>1 DEF IInv, TypeOK, Saving
  <2> QED
    BY <1>1, <2>2 DEF IInv, TypeOK, FileInv, PathsExist, lockedVars, indexVars,
                      fieldVars
<1>4. TidyInv'
  BY <1>1, NoSessionAssumption
     DEF IInv, TypeOK, FileInv, TidyInv, Busy, lockedVars, indexVars
<1> QED
  BY <1>2, <1>3, <1>4, <1>5 DEF FileInv

LEMMA SetsFieldStep ==
    ASSUME IInv, NEW r \in Requests, SetsField(r)
    PROVE  TypeOK' /\ FileInv'
<1>1. /\ UNCHANGED <<indexVars, expired, disk, tidy>>
      /\ at' = [at EXCEPT ![r] = "idle"]
      /\ target' = [target EXCEPT ![r] = NoSession]
      /\ stale' \subseteq stale /\ mixed' = mixed
  BY DEF SetsField, SetSessionFileInfo, SetSlot, UpdateSessionResults, Return
<1>2. TypeOK'
  <2>1. filePath' \cup resultsPath' \cup slots' \subseteq sessions
    BY DEF IInv, TypeOK, SetsField, SetSessionFileInfo, SetSlot, UpdateSessionResults
  <2> QED
    BY <1>1, <2>1 DEF IInv, TypeOK, Steps, indexVars
<1>3. RequestInv'
  BY <1>1 DEF IInv, TypeOK, FileInv, RequestInv, indexVars
<1>6. LoadInv'
  <2>1. /\ filePath' \subseteq filePath \cup {target[r]}
        /\ filePath' # filePath => at[r] \in Loading
    BY DEF SetsField, SetSessionFileInfo, SetSlot, UpdateSessionResults, Return,
           Loading
  <2>2. ASSUME NEW p \in Requests \ {r}, at[p] \in Loading
        PROVE  target[p] \notin filePath'
    BY <2>1, <2>2 DEF IInv, FileInv, LoadInv
  <2> QED
    BY <1>1, <2>2 DEF IInv, TypeOK, FileInv, LoadInv, Loading
<1>4. PathsExist'
  <2>1. at[r] # "setPath"
    BY DEF SetsField, SetSessionFileInfo, SetSlot, UpdateSessionResults, Return
  <2>2. ASSUME NEW s \in Sessions, NEW p \in Saving(s), at[p] = "setPath"
        PROVE  p \in Saving(s)' /\ at'[p] = "setPath"
    BY <2>1, <2>2, <1>1 DEF IInv, TypeOK, Saving
  <2>3. \A s \in sessions :
           /\ s \in filePath' => s \in filePath \/ "model" \in disk[s]
           /\ s \in resultsPath' => s \in resultsPath \/ "results" \in disk[s]
           /\ s \in slots' => s \in slots \/ "study" \in disk[s]
    BY DEF IInv, FileInv, RequestInv, SetsField, SetSessionFileInfo, SetSlot,
           UpdateSessionResults, Return
  <2> QED
    BY <1>1, <2>2, <2>3 DEF IInv, TypeOK, FileInv, PathsExist, indexVars
<1>5. TidyInv'
  BY <1>1, NoSessionAssumption
     DEF IInv, TypeOK, FileInv, TidyInv, Busy, indexVars
<1> QED
  BY <1>2, <1>3, <1>4, <1>5, <1>6 DEF FileInv

\* A save-as moves the working file to its new name and back under FilePath.
LEMMA RenamesStep ==
    ASSUME IInv, NEW r \in Requests, Renames(r)
    PROVE  TypeOK' /\ FileInv'
<1>0. PICK t \in Sessions : t = target[r]
  BY DEF IInv, FileInv, RequestInv, Renames, Rename, SetPath, Goto, Return
<1>1. /\ at[r] \in {"rename", "setPath"} /\ t = target[r] /\ t \notin tidy
      /\ owner[t] \in Users
  BY <1>0 DEF IInv, FileInv, RequestInv, TidyInv, Busy, Renames, Rename, SetPath,
         Goto, Return
<1>2. /\ UNCHANGED lockedVars
      /\ \A p \in Requests \ {r} : at'[p] = at[p] /\ target'[p] = target[p]
      /\ at' \in [Requests -> Steps]
      /\ target' \in [Requests -> Sessions \cup {NoSession}]
  BY DEF IInv, TypeOK, Steps, Renames, Rename, SetPath, Goto, Return
<1>3. \/ at'[r] = "idle" /\ target'[r] = NoSession
      \/ at'[r] = "setPath" /\ target'[r] = t
  BY <1>1 DEF IInv, TypeOK, Renames, Rename, SetPath, Goto, Return
<1>4. /\ disk' \in [Sessions -> SUBSET (Workspace \cup PowerFlow)]
      /\ \A s \in Sessions \ {t} : disk'[s] = disk[s]
      /\ "study" \in disk[t] => "study" \in disk'[t]
      /\ "results" \in disk[t] => "results" \in disk'[t]
  <2>1. PICK things \in SUBSET (Workspace \cup PowerFlow) :
           /\ disk' = [disk EXCEPT ![t] = things]
           /\ "study" \in disk[t] => "study" \in things
           /\ "results" \in disk[t] => "results" \in things
    <3>1. disk[t] \in SUBSET (Workspace \cup PowerFlow) /\ disk = [disk EXCEPT ![t] = disk[t]]
      BY DEF IInv, TypeOK
    <3>2. {"model", "renamed"} \subseteq Workspace
      BY DEF Workspace
    <3> DEFINE away == (disk[t] \ {"model"}) \cup {"renamed"}
               back == (disk[t] \ {"renamed"}) \cup {"model"}
    <3>3. /\ \A things \in {disk[t], away, back} :
                /\ things \in SUBSET (Workspace \cup PowerFlow)
                /\ "study" \in disk[t] => "study" \in things
                /\ "results" \in disk[t] => "results" \in things
      BY <3>1, <3>2
    <3>4. \E things \in {disk[t], away, back} : disk' = [disk EXCEPT ![t] = things]
      BY <1>1, <3>1 DEF Renames, Rename, SetPath
    <3> QED
      BY <3>3, <3>4
  <2> QED
    BY <2>1 DEF IInv, TypeOK
<1>5. \/ at'[r] = "setPath" /\ "renamed" \in disk'[t]
      \/ at'[r] = "idle" /\ "model" \in disk'[t]
      \/ at'[r] = "idle" /\ t \in mixed
      \/ at'[r] = "idle" /\ disk' = disk /\ "renamed" \notin disk[t]
  BY <1>1 DEF IInv, TypeOK, Renames, Rename, SetPath, Goto, Return, Has
<1>6. TypeOK'
  BY <1>2, <1>4 DEF IInv, TypeOK, lockedVars, indexVars, fieldVars
<1>7. \A p \in Requests : at'[p] \in Loading =>
        p # r /\ at[p] \in Loading /\ target[p] # t
  BY <1>1, <1>2, <1>3 DEF IInv, FileInv, LoadInv, Loading
<1>8. LoadInv'
  BY <1>1, <1>2, <1>3, <1>7
     DEF IInv, FileInv, LoadInv, lockedVars, fieldVars, Loading
<1>9. RequestInv'
  <2>1. ASSUME NEW p \in Requests \ {r}
        PROVE  at[p] = "setFileInfo" => target[p] # t
    BY <2>1, <1>2, <1>7 DEF Loading
  <2> QED
    BY <1>1, <1>2, <1>3, <1>4, <2>1
       DEF IInv, TypeOK, FileInv, RequestInv, lockedVars, indexVars
<1>10. PathsExist'
  <2>1. ASSUME NEW s \in Sessions, s # t, NEW p \in Saving(s), at[p] = "setPath"
        PROVE  p \in Saving(s)' /\ at'[p] = "setPath"
    BY <2>1, <1>1, <1>2 DEF Saving
  <2>2. ASSUME at'[r] = "setPath"
        PROVE  r \in Saving(t)'
    BY <2>2, <1>3 DEF Saving
  <2>3. ASSUME t \in sessions, t \in filePath
        PROVE  \/ "model" \in disk'[t]
               \/ "renamed" \in disk'[t] /\ \E p \in Saving(t)' : at'[p] = "setPath"
               \/ t \in mixed
    BY <2>2, <2>3, <1>5 DEF IInv, FileInv, PathsExist
  <2> QED
    BY <1>1, <1>2, <1>4, <2>1, <2>3
       DEF IInv, TypeOK, FileInv, PathsExist, lockedVars, indexVars, fieldVars
<1>11. TidyInv'
  <2>1. \A s \in tidy : ~Busy(s)'
    BY <1>1, <1>2, <1>3, NoSessionAssumption DEF IInv, TypeOK, FileInv, TidyInv, Busy
  <2> QED
    BY <1>1, <1>2, <1>4, <2>1
       DEF IInv, TypeOK, FileInv, TidyInv, lockedVars, indexVars
<1> QED
  BY <1>6, <1>8, <1>9, <1>10, <1>11 DEF FileInv

LEMMA AcceptStep ==
    ASSUME IInv, NEW r \in Requests, NEW s \in Sessions, Accept(r, s)
    PROVE  TypeOK' /\ FileInv'
<1>1. /\ UNCHANGED <<indexVars, filePath, resultsPath, slots, stale, expired,
                     disk, tidy>>
      /\ s \in sessions
      /\ mixed \subseteq mixed' /\ mixed' \subseteq mixed \cup {s}
  BY DEF Accept, LoadStudyFile, AllocateRunPaths, SaveRawResults, SaveCaseAs,
         lockedVars, fieldVars
<1>3. PICK step \in {"makeStudyDir", "makeRuns", "makeResults", "rename"} :
         Start(r, s, step) /\ (step = "rename" => s \in filePath)
  BY DEF Accept, LoadStudyFile, AllocateRunPaths, SaveRawResults, SaveCaseAs
<1>2. owner[s] \in Users /\ s \notin tidy
  BY <1>1 DEF IInv, IndexInv, OwnerInv, FileInv, TidyInv
<1>4. /\ at[r] = "idle" /\ at'[r] = step /\ target'[r] = s
      /\ \A p \in Requests \ {r} : at'[p] = at[p] /\ target'[p] = target[p]
      /\ at' \in [Requests -> Steps]
      /\ target' \in [Requests -> Sessions \cup {NoSession}]
  BY <1>3 DEF IInv, TypeOK, Steps, Start
<1>5. TypeOK'
  BY <1>1, <1>4 DEF IInv, TypeOK, indexVars
<1>6. RequestInv'
  BY <1>1, <1>2, <1>4 DEF IInv, TypeOK, FileInv, RequestInv, indexVars
<1>7. LoadInv'
  <2>1. at'[r] \notin Loading
    BY <1>4 DEF Loading
  <2>2. ASSUME NEW p \in Requests \ {r}, at'[p] \in Loading,
               at'[r] \in Loading \cup {"rename", "setPath"}
        PROVE  target'[r] # target'[p]
    BY <1>3, <1>4, <2>1, <2>2 DEF IInv, FileInv, LoadInv
  <2> QED
    BY <1>1, <1>4, <2>1, <2>2 DEF IInv, FileInv, LoadInv
<1>8. PathsExist'
  <2>1. ASSUME NEW x \in Sessions, NEW p \in Saving(x), at[p] = "setPath"
        PROVE  p \in Saving(x)' /\ at'[p] = "setPath"
    BY <2>1, <1>4 DEF Saving
  <2> QED
    BY <1>1, <2>1 DEF IInv, TypeOK, FileInv, PathsExist, indexVars
<1>9. TidyInv'
  BY <1>1, <1>2, <1>4 DEF IInv, TypeOK, FileInv, TidyInv, Busy, indexVars
<1> QED
  BY <1>5, <1>6, <1>7, <1>8, <1>9 DEF FileInv
-----------------------------------------------------------------------------
(* The removal of sessions, and the files.                                 *)

LEMMA DiscardFiles ==
    ASSUME IInv, NEW gone \in SUBSET sessions, Discard(gone)
    PROVE  /\ disk' \in [Sessions -> SUBSET (Workspace \cup PowerFlow)]
           /\ \A s \in Sessions \ gone : disk'[s] = disk[s]
           /\ filePath' = filePath \ gone
           /\ resultsPath' = resultsPath \ gone
           /\ slots' = slots \ gone
           /\ mixed' = mixed \ gone
           /\ stale' = stale \ gone
           /\ tidy' \subseteq tidy \cup gone
           /\ \A s \in tidy' \ tidy : ~Busy(s) /\ disk'[s] = {}
<1>1. /\ disk \in [Sessions -> SUBSET (Workspace \cup PowerFlow)]
      /\ gone \subseteq Sessions
  BY DEF IInv, TypeOK
<1>2. \A s \in Sessions : Leftover(s) \subseteq disk[s]
  BY DEF Leftover
<1>3. ASSUME NEW s \in gone, Settled(s)
      PROVE  ~Busy(s) /\ Leftover(s) = {}
  <2>1. disk[s] \subseteq Workspace \cup PowerFlow
    BY <1>1
  <2> QED
    BY <1>3, <2>1 DEF Settled, Leftover
<1>4. disk' = [s \in Sessions |-> IF s \in gone THEN Leftover(s) ELSE disk[s]]
  BY DEF Discard
<1>5. tidy' = tidy \cup {s \in gone : Settled(s)}
  BY DEF Discard
<1>6. \A s \in tidy' \ tidy : ~Busy(s) /\ disk'[s] = {}
  BY <1>1, <1>3, <1>4, <1>5
<1> QED
  BY <1>1, <1>2, <1>4, <1>5, <1>6 DEF Discard

\* Removing sessions keeps what FileInv says of the others.
LEMMA RemovalStep ==
    ASSUME IInv, NEW gone \in SUBSET sessions, Discard(gone),
           sessions' = sessions \ gone, owner' = owner, created' = created,
           byUser' \in [Users -> Seq(Sessions)], expired' \subseteq sessions',
           UNCHANGED requestVars
    PROVE  TypeOK' /\ FileInv'
<1>1. /\ disk' \in [Sessions -> SUBSET (Workspace \cup PowerFlow)]
      /\ \A s \in Sessions \ gone : disk'[s] = disk[s]
      /\ filePath' = filePath \ gone
      /\ resultsPath' = resultsPath \ gone
      /\ slots' = slots \ gone
      /\ mixed' = mixed \ gone
      /\ stale' = stale \ gone
      /\ tidy' \subseteq tidy \cup gone
      /\ \A s \in tidy' \ tidy : ~Busy(s) /\ disk'[s] = {}
  BY DiscardFiles
<1>2. TypeOK'
  BY <1>1 DEF IInv, TypeOK, requestVars
<1>3. RequestInv' /\ LoadInv'
  BY <1>1 DEF IInv, TypeOK, FileInv, RequestInv, LoadInv, Loading, requestVars
<1>5. PathsExist'
  BY <1>1 DEF IInv, TypeOK, FileInv, PathsExist, Saving, requestVars
<1>4. TidyInv'
  BY <1>1 DEF IInv, TypeOK, IndexInv, OwnerInv, FileInv, TidyInv, Busy, requestVars
<1> QED
  BY <1>2, <1>3, <1>4, <1>5 DEF FileInv

\* A new session has no files, no fields and no requests but the one that
\* creates it.
LEMMA RegisterStep ==
    ASSUME IInv, NEW u \in Users, NEW s \in Sessions, Register(u, s),
           \/ UNCHANGED requestVars
           \/ \E r \in Requests : Start(r, s, "makeDir")
    PROVE  TypeOK' /\ FileInv'
<1> DEFINE gone == Evicted(byUser[u]) \cap sessions
<1>1. /\ gone \in SUBSET sessions /\ Discard(gone)
      /\ owner[s] = NoUser /\ owner' = [owner EXCEPT ![s] = u]
      /\ sessions' = (sessions \ gone) \cup {s}
      /\ expired = {} /\ expired' = expired
  BY DEF Register, Unlocked
<1> HIDE DEF gone
<1>2. /\ disk' \in [Sessions -> SUBSET (Workspace \cup PowerFlow)]
      /\ \A t \in Sessions \ gone : disk'[t] = disk[t]
      /\ filePath' = filePath \ gone
      /\ resultsPath' = resultsPath \ gone
      /\ slots' = slots \ gone
      /\ mixed' = mixed \ gone
      /\ stale' = stale \ gone
      /\ tidy' \subseteq tidy \cup gone
      /\ \A t \in tidy' \ tidy : ~Busy(t) /\ disk'[t] = {}
  BY <1>1, DiscardFiles
<1>3. /\ s \notin sessions /\ s \notin tidy
      /\ \A r \in Requests : target[r] # s
  BY <1>1, NoUserAssumption, NoSessionAssumption
     DEF IInv, IndexInv, OwnerInv, FileInv, TidyInv, RequestInv
<1>4. /\ owner' \in [Sessions -> Users \cup {NoUser}]
      /\ owner'[s] = u /\ \A t \in Sessions \ {s} : owner'[t] = owner[t]
  BY <1>1 DEF IInv, TypeOK
<1>5. /\ at' \in [Requests -> Steps] /\ target' \in [Requests -> Sessions \cup {NoSession}]
      /\ \A r \in Requests : \/ at'[r] = at[r] /\ target'[r] = target[r]
                             \/ at'[r] = "makeDir" /\ target'[r] = s
  <2>1. /\ at \in [Requests -> Steps] /\ target \in [Requests -> Sessions \cup {NoSession}]
        /\ "makeDir" \in Steps
    BY DEF IInv, TypeOK, Steps
  <2>2. CASE UNCHANGED requestVars
    BY <2>1, <2>2 DEF requestVars
  <2>3. ASSUME NEW r \in Requests, Start(r, s, "makeDir")
        PROVE  /\ at' \in [Requests -> Steps]
               /\ target' \in [Requests -> Sessions \cup {NoSession}]
               /\ at'[r] = "makeDir" /\ target'[r] = s
               /\ \A p \in Requests \ {r} : at'[p] = at[p] /\ target'[p] = target[p]
    BY <2>1, <2>3 DEF Start
  <2> QED
    BY <2>2, <2>3
<1>6. byUser' \in [Users -> Seq(Sessions)] /\ created' \in Seq(Sessions)
  BY RegisterIndex DEF IInv
<1>7. TypeOK'
  BY <1>1, <1>2, <1>4, <1>5, <1>6 DEF IInv, TypeOK
<1>8. RequestInv'
  BY <1>1, <1>2, <1>3, <1>4, <1>5 DEF IInv, TypeOK, FileInv, RequestInv
<1>11. LoadInv'
  <2>1. s \notin filePath'
    BY <1>2, <1>3 DEF IInv, TypeOK
  <2>2. \/ UNCHANGED requestVars
        \/ \E r \in Requests :
              /\ at'[r] = "makeDir" /\ target'[r] = s
              /\ \A p \in Requests \ {r} : at'[p] = at[p] /\ target'[p] = target[p]
    BY DEF IInv, TypeOK, Start
  <2>3. CASE UNCHANGED requestVars
    BY <1>2, <2>3 DEF IInv, FileInv, LoadInv, requestVars
  <2>4. ASSUME NEW r \in Requests,
               at'[r] = "makeDir", target'[r] = s,
               \A p \in Requests \ {r} : at'[p] = at[p] /\ target'[p] = target[p]
        PROVE  LoadInv'
    BY <1>2, <1>3, <2>1, <2>4 DEF IInv, FileInv, LoadInv
  <2> QED
    BY <2>2, <2>3, <2>4
<1>9. PathsExist'
  <2>1. ASSUME NEW x \in Sessions, NEW p \in Saving(x), at[p] = "setPath"
        PROVE  p \in Saving(x)' /\ at'[p] = "setPath"
    <3>1. at'[p] = at[p] /\ target'[p] = target[p]
      <4>1. CASE UNCHANGED requestVars
        BY <4>1 DEF requestVars
      <4>2. ASSUME NEW r \in Requests, Start(r, s, "makeDir")
            PROVE  at'[p] = at[p] /\ target'[p] = target[p]
        BY <2>1, <4>2 DEF IInv, TypeOK, Start, Saving
      <4> QED
        BY <4>1, <4>2
    <3> QED
      BY <2>1, <3>1 DEF Saving
  <2> QED
    BY <1>1, <1>2, <1>3, <2>1 DEF IInv, TypeOK, FileInv, PathsExist
<1>10. TidyInv'
  <2>1. ASSUME NEW t \in tidy'
        PROVE  t \in Sessions /\ t # s /\ t \notin sessions' /\ owner'[t] \in Users
                /\ disk'[t] = {} /\ ~Busy(t)
    BY <1>1, <1>2, <1>3, <1>4
       DEF IInv, TypeOK, IndexInv, OwnerInv, FileInv, TidyInv
  <2>2. \A t \in tidy' : ~Busy(t)'
    BY <2>1, <1>5 DEF Busy
  <2> QED
    BY <2>1, <2>2 DEF TidyInv
<1> QED
  BY <1>7, <1>8, <1>9, <1>10, <1>11 DEF FileInv
-----------------------------------------------------------------------------
(* The theorems.                                                           *)

LEMMA InitIInv == Init => IInv
<1> SUFFICES ASSUME Init PROVE IInv
  OBVIOUS
<1>1. <<>> \in Seq(Sessions) /\ Len(<<>>) = 0 /\ DOMAIN <<>> = {}
  BY EmptySeq
<1>2. \A u \in Users : byUser[u] = <<>>
  BY DEF Init
<1>3. TypeOK
  BY <1>1 DEF Init, TypeOK, Steps
<1>4. OwnerInv /\ OrderInv /\ WithinLimit
  BY <1>1, <1>2, MaxSessionsAssumption DEF Init, OwnerInv, OrderInv, WithinLimit
<1>5. CreatedInv /\ IndexAgrees
  BY <1>1, <1>2, NoUserAssumption
     DEF Init, CreatedInv, Distinct, IndexAgrees, ToSet
<1>6. FileInv
  BY DEF Init, FileInv, RequestInv, LoadInv, Loading, PathsExist, TidyInv
<1> QED
  BY <1>3, <1>4, <1>5, <1>6 DEF IInv, IndexInv

LEMMA NextIInv == IInv /\ [Next]_vars => IInv'
<1> SUFFICES ASSUME IInv, [Next]_vars PROVE IInv'
  OBVIOUS
<1>0. TypeOK /\ IndexInv /\ FileInv
  BY DEF IInv
<1>1. CASE UNCHANGED vars
  BY <1>0, <1>1, SameIndex
     DEF vars, indexVars, IInv, TypeOK, FileInv, RequestInv, LoadInv, PathsExist,
         Saving, TidyInv, Busy
<1>2. ASSUME NEW r \in Requests, RequestStep(r)
      PROVE  IInv'
  <2>1. IndexInv'
    BY <1>0, <1>2, RequestKeepsIndex, SameIndex
  <2>2. TypeOK' /\ FileInv'
    BY <1>2, CreatesStep, GivesUpStep, SetsFieldStep, RenamesStep, AcceptStep
       DEF RequestStep
  <2> QED
    BY <2>1, <2>2 DEF IInv
<1>3. ASSUME NEW u \in Users, NEW s \in Sessions,
             CreateSession(u, s) \/ \E r \in Requests : LoadCase(r, u, s)
      PROVE  IInv'
  <2>1. /\ Register(u, s)
        /\ \/ UNCHANGED requestVars
           \/ \E r \in Requests : Start(r, s, "makeDir")
    BY <1>3 DEF CreateSession, LoadCase
  <2> QED
    BY <1>0, <2>1, RegisterIndex, RegisterStep DEF IInv
<1>4. ASSUME NEW s \in Sessions, Age(s)
      PROVE  IInv'
  <2>1. IndexInv'
    BY <1>0, <1>4, SameIndex DEF Age
  <2>2. TypeOK' /\ FileInv'
    BY <1>0, <1>4 DEF Age, TypeOK, FileInv, RequestInv, LoadInv, PathsExist, Saving,
                      TidyInv, Busy, indexVars, requestVars
  <2> QED
    BY <2>1, <2>2 DEF IInv
<1>5. ASSUME NEW s \in Sessions, CleanupOne(s)
      PROVE  IInv'
  <2>1. /\ {s} \in SUBSET sessions /\ Discard({s}) /\ sessions' = sessions \ {s}
        /\ owner' = owner /\ created' = created /\ UNCHANGED requestVars
        /\ expired' \subseteq sessions'
    BY <1>0, <1>5 DEF CleanupOne, TypeOK
  <2> QED
    BY <1>0, <1>5, <2>1, CleanupOneIndex, RemovalStep DEF IInv
<1>6. CASE CleanupBegin
  <2>1. IndexInv'
    BY <1>0, <1>6, SameIndex DEF CleanupBegin
  <2>2. TypeOK' /\ FileInv'
    BY <1>0, <1>6 DEF CleanupBegin, TypeOK, FileInv, RequestInv, LoadInv,
                      PathsExist, Saving, TidyInv, Busy, indexVars, fieldVars, requestVars
  <2> QED
    BY <2>1, <2>2 DEF IInv
<1>7. CASE Restart
  <2>1. byUser' \in [Users -> Seq(Sessions)] /\ IndexInv'
    BY <1>0, <1>7, EmptyIndex DEF Restart, IndexInv
  <2>2. TypeOK'
    BY <1>0, <1>7, <2>1 DEF Restart, TypeOK, Steps
  <2>3. FileInv'
    BY <1>0, <1>7, NoSessionAssumption
       DEF Restart, TypeOK, FileInv, RequestInv, LoadInv, Loading, PathsExist,
           TidyInv, Busy
  <2> QED
    BY <2>1, <2>2, <2>3 DEF IInv
<1>8. ASSUME NEW u \in Users, CleanupUserSessions(u)
      PROVE  IInv'
  <2> DEFINE gone == ToSet(byUser[u]) \cap sessions
  <2>1. /\ gone \in SUBSET sessions /\ Discard(gone) /\ sessions' = sessions \ gone
        /\ owner' = owner /\ created' = created /\ UNCHANGED requestVars
        /\ expired' \subseteq sessions'
    BY <1>8 DEF CleanupUserSessions, Unlocked
  <2> HIDE DEF gone
  <2> QED
    BY <1>0, <1>8, <2>1, CleanupUserIndex, RemovalStep DEF IInv
<1> QED
  BY <1>1, <1>2, <1>3, <1>4, <1>5, <1>6, <1>7, <1>8
     DEF Next, LoadCaseSteps, StudySteps, RunSteps, SaveAsSteps, RequestStep,
         Creates, GivesUp, SetsField, Renames

\* The types, the agreement of the index and what holds of files and requests
\* are preserved together by every handler and by the expiry loop.
THEOREM InductiveInvariant == Spec => []IInv
BY InitIInv, NextIInv, PTL DEF Spec

\* The maps, the fields and the directories keep their types, for any number
\* of users, sessions and requests.
THEOREM TypeCorrect == Spec => []TypeOK
BY InductiveInvariant, PTL DEF IInv

\* The session map and the per-user lists name the same sessions, each once
\* (CreateSession, CleanupExpiredSessions, CleanupUserSessions).
THEOREM IndexAgreement == Spec => []IndexAgrees
<1>1. IInv => IndexAgrees
  BY DEF IInv, IndexInv
<1> QED
  BY <1>1, InductiveInvariant, PTL

\* No user ever has more sessions than the configured limit (CreateSession).
THEOREM SessionLimit == Spec => []WithinLimit
<1>1. IInv => WithinLimit
  BY DEF IInv, IndexInv
<1> QED
  BY <1>1, InductiveInvariant, PTL

\* The paths of a session in the map name files that exist, however requests,
\* evictions and the expiry loop interleave; only FilePath may name none, while
\* a save-as has renamed the file and not yet said so, and after saves-as of
\* the session that overlapped (SaveCaseAs).
THEOREM NoDanglingPath == Spec => []PathsExist
<1>1. IInv => PathsExist
  BY DEF IInv, FileInv
<1> QED
  BY <1>1, InductiveInvariant, PTL

\* A session removed while all it owns is recorded and nobody works on it
\* leaves no files, and none come back.
THEOREM CleanRemoval == Spec => []SettledRemovalIsClean
<1>1. IInv => SettledRemovalIsClean
  BY DEF IInv, FileInv, TidyInv, SettledRemovalIsClean
<1> QED
  BY <1>1, InductiveInvariant, PTL

\* Eviction is first in, first out (CreateSession).
THEOREM FirstInFirstOut == Spec => OldestEvicted
<1> DEFINE Fifo == created' # created =>
              \A s \in sessions \ sessions', t \in sessions \cap sessions' :
                  owner[s] = owner[t] => Older(s, t)
<1>1. ASSUME IInv, Next, created' # created
      PROVE  \A s \in sessions \ sessions', t \in sessions \cap sessions' :
                  owner[s] = owner[t] => Older(s, t)
  <2>1. PICK u \in Users, new \in Sessions : Register(u, new)
    <3>1. \A r \in Requests : ~RequestStep(r)
      BY <1>1, RequestKeepsIndex DEF indexVars
    <3> QED
      BY <1>1, <3>1
         DEF Next, LoadCaseSteps, StudySteps, RunSteps, SaveAsSteps, RequestStep,
             Creates, GivesUp, SetsField, Renames, CreateSession, LoadCase, Age, CleanupOne,
             CleanupBegin, Restart, CleanupUserSessions, indexVars
  <2> DEFINE q == byUser[u]
             k == Excess(q)
  <2>2. /\ q \in Seq(Sessions) /\ Len(q) \in Nat /\ DOMAIN q = 1 .. Len(q)
        /\ Len(q) <= MaxSessions
    BY <1>1, LenProperties DEF IInv, TypeOK, IndexInv, WithinLimit
  <2>3. k \in 0 .. Len(q)
    BY <2>2, ExcessOfList
  <2>4. /\ owner[new] = NoUser
        /\ sessions' = (sessions \ (Evicted(q) \cap sessions)) \cup {new}
        /\ new \notin sessions
    BY <1>1, <2>1, NoUserAssumption DEF Register, IInv, IndexInv, OwnerInv
  <2>5. Evicted(q) = {q[i] : i \in 1 .. k}
    BY DEF Evicted
  <2>6. /\ ToSet(q) = {t \in sessions : owner[t] = u}
        /\ \A i, j \in DOMAIN q : i < j => Before(created, q[i], q[j])
    BY <1>1 DEF IInv, IndexInv, IndexAgrees, OrderInv
  <2> HIDE DEF q, k
  <2>7. ASSUME NEW s \in sessions \ sessions', NEW t \in sessions \cap sessions',
               owner[s] = owner[t]
        PROVE  Older(s, t)
    <3>1. PICK i \in 1 .. k : q[i] = s
      BY <2>4, <2>5
    <3>2. i \in DOMAIN q /\ owner[s] = u
      BY <2>2, <2>3, <2>6, <3>1 DEF ToSet
    <3>3. PICK j \in DOMAIN q : q[j] = t
      BY <2>6, <2>7, <3>2 DEF ToSet
    <3>4. j \notin 1 .. k
      BY <2>4, <2>5, <2>7, <3>3
    <3>5. i < j
      BY <2>2, <2>3, <3>3, <3>4
    <3> QED
      BY <2>6, <3>1, <3>2, <3>3, <3>5 DEF Before, Older
  <2> QED
    BY <2>7
<1>2. IInv /\ [Next]_vars => [Fifo]_vars
  BY <1>1 DEF Fifo
<1> QED
  BY <1>2, InductiveInvariant, PTL DEF Spec, OldestEvicted
=============================================================================
