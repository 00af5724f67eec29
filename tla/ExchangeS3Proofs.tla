-------------------------- MODULE ExchangeS3Proofs --------------------------
(***************************************************************************)
(* Theorems about the exchange through S3, for any number of workers, rows *)
(* and threads, any hash functions and any workers that fail.              *)
(***************************************************************************)
EXTENDS ExchangeS3, FiniteSetTheorems, WellFoundedInduction, TLAPS

(* The members of a group compute the same group. *)
LEMMA GroupsAgree ==
    ASSUME NEW l \in Levels, NEW w \in Workers, NEW v \in GroupMembers(l, w)
    PROVE  v \in Workers /\ GroupMembers(l, v) = GroupMembers(l, w)
<1>1. CASE NumLevels = 1
  BY <1>1, Zenon DEF GroupMembers
<1>2. CASE NumLevels # 1 /\ l = 0
  BY <1>2, Zenon DEF GroupMembers
<1>3. CASE NumLevels # 1 /\ l # 0
  BY <1>3, Zenon DEF GroupMembers
<1> QED BY <1>1, <1>2, <1>3

(* A worker is in its own group, which is finite. *)
LEMMA OwnGroup ==
    ASSUME NEW l \in Levels, NEW w \in Workers
    PROVE  /\ w \in GroupMembers(l, w)
           /\ IsFiniteSet(GroupMembers(l, w))
           /\ GroupSize(l, w) \in Nat \ {0}
<1>1. w \in GroupMembers(l, w) /\ GroupMembers(l, w) \subseteq Workers
  BY Zenon DEF GroupMembers
<1>2. IsFiniteSet(Workers)
  BY FS_Interval, WorkersAssumption DEF Workers
<1>3. IsFiniteSet(GroupMembers(l, w))
  BY <1>1, <1>2, FS_Subset
<1> DEFINE S == GroupMembers(l, w)
<1>4. w \in S /\ IsFiniteSet(S)
  BY <1>1, <1>3
<1> HIDE DEF S
<1>5. Cardinality(S) \in Nat /\ Cardinality(S) # 0
  BY <1>4, FS_CardinalityType, FS_EmptySet
<1> QED BY <1>1, <1>3, <1>5 DEF S, GroupSize

(* Positions in a group are below its size and differ. *)
LEMMA IndexBounds ==
    ASSUME NEW l \in Levels, NEW w \in Workers
    PROVE  MemberIndex(l, w) \in 0 .. GroupSize(l, w) - 1
<1> DEFINE S == GroupMembers(l, w)
           T == {v \in S : v < w}
<1>1. w \in S /\ IsFiniteSet(S) /\ Cardinality(S) \in Nat
  BY OwnGroup DEF GroupSize
<1>2. T \in SUBSET (S \ {w})
  BY DEF T, Workers
<1> HIDE DEF S, T
<1>3. IsFiniteSet(S \ {w}) /\ Cardinality(S \ {w}) = Cardinality(S) - 1
  BY <1>1, FS_RemoveElement
<1>4. IsFiniteSet(T) /\ Cardinality(T) <= Cardinality(S \ {w})
  BY <1>2, <1>3, FS_Subset
<1>5. Cardinality(T) \in Nat
  BY <1>4, FS_CardinalityType
<1>6. MemberIndex(l, w) = Cardinality(T) /\ GroupSize(l, w) = Cardinality(S)
  BY DEF MemberIndex, GroupSize, S, T
<1> QED BY <1>1, <1>3, <1>4, <1>5, <1>6

LEMMA IndexGrows ==
    ASSUME NEW l \in Levels, NEW w \in Workers, NEW v \in GroupMembers(l, w), v < w
    PROVE  MemberIndex(l, v) < MemberIndex(l, w)
<1> DEFINE S == GroupMembers(l, w)
           T == {u \in S : u < v}
           U == {u \in S : u < w}
<1>1. v \in Workers /\ GroupMembers(l, v) = S
  BY GroupsAgree
<1>2. IsFiniteSet(S)
  BY OwnGroup
<1>3. S \subseteq Workers
  BY Zenon DEF GroupMembers
<1>4. T \in SUBSET U /\ U \in SUBSET S /\ v \in U /\ v \notin T
  BY <1>1, <1>3 DEF Workers
<1>5. MemberIndex(l, v) = Cardinality(T) /\ MemberIndex(l, w) = Cardinality(U)
  BY <1>1, Zenon DEF MemberIndex
<1> HIDE DEF S, T, U
<1>6. IsFiniteSet(U)
  BY <1>2, <1>4, FS_Subset
<1>7. IsFiniteSet(T) /\ Cardinality(T) <= Cardinality(U) /\ Cardinality(T) # Cardinality(U)
  BY <1>4, <1>6, FS_Subset
<1>8. Cardinality(T) \in Nat /\ Cardinality(U) \in Nat
  BY <1>6, <1>7, FS_CardinalityType
<1> QED BY <1>5, <1>7, <1>8

LEMMA IndexInjective ==
    ASSUME NEW l \in Levels, NEW w \in Workers, NEW v \in GroupMembers(l, w),
           MemberIndex(l, v) = MemberIndex(l, w)
    PROVE  v = w
<1>1. v \in Workers /\ GroupMembers(l, v) = GroupMembers(l, w) /\ w \in GroupMembers(l, w)
  BY GroupsAgree, OwnGroup
<1>2. MemberIndex(l, v) \in Int /\ MemberIndex(l, w) \in Int
  BY <1>1, IndexBounds, OwnGroup
<1>3. ~(v < w)
  BY <1>2, IndexGrows
<1>4. ~(w < v)
  BY <1>1, <1>2, IndexGrows
<1> QED BY <1>1, <1>3, <1>4 DEF Workers

(* Every position below the size of the group is that of a member. *)
LEMMA IndexOnto ==
    ASSUME NEW l \in Levels, NEW w \in Workers, NEW i \in 0 .. GroupSize(l, w) - 1
    PROVE  \E v \in GroupMembers(l, w) : MemberIndex(l, v) = i
<1> DEFINE S == GroupMembers(l, w)
           n == GroupSize(l, w)
           T == 0 .. n - 1
           f == [v \in S |-> MemberIndex(l, v)]
<1>1. IsFiniteSet(S) /\ Cardinality(S) = n /\ n \in Nat \ {0}
  BY OwnGroup DEF GroupSize
<1>2. \A v \in S : v \in Workers /\ GroupMembers(l, v) = S
  BY GroupsAgree
<1>3. \A v \in S : MemberIndex(l, v) \in T
  <2> TAKE v \in S
  <2>1. GroupSize(l, v) = n
    BY <1>2 DEF GroupSize
  <2> QED BY <1>2, <2>1, IndexBounds
<1>4. \A u, v \in S : MemberIndex(l, u) = MemberIndex(l, v) => u = v
  BY <1>2, IndexInjective
<1>5. f \in Injection(S, T)
  BY <1>3, <1>4, Zenon DEF Injection, IsInjective
<1> HIDE DEF S, n
<1>6. IsFiniteSet(T) /\ Cardinality(T) = n
  BY <1>1, FS_Interval
<1> HIDE DEF f, T
<1>7. f \in Surjection(S, T)
  BY <1>1, <1>5, <1>6, FS_Injection
<1>8. PICK v \in S : f[v] = i
  BY <1>7 DEF Surjection, T, n
<1> QED BY <1>8 DEF f, S

(* With as many slices as row groups, a slice is one row group. *)
LEMMA OneRowGroup ==
    ASSUME NEW n \in Nat \ {0}, NEW i \in 0 .. n - 1
    PROVE  Slice(i, i + 1, n, n) = {i}
<1>1. \A k \in Nat : (k * n) \div n = k
  BY Z3
<1>2. SliceStart(i, n, n) = i /\ SliceStart(i + 1, n, n) = i + 1
  BY <1>1 DEF SliceStart
<1> QED BY <1>2 DEF Slice

----------------------------------------------------------------------------
(* What a receiver reads from a file is what the sender has sent to it. *)
LEMMA FileRows ==
    ASSUME NEW l \in Levels, NEW w \in Workers, NEW s \in GroupMembers(l, w),
           store[l][s] = RowGroups(l, s)
    PROVE  RowsFor(l, s, w) = Sent(l, s, w)
<1> DEFINE n == GroupSize(l, w)
           i == MemberIndex(l, w)
           file == store[l][s]
<1>1. GroupSize(l, s) = n
  BY GroupsAgree DEF GroupSize
<1>2. n \in Nat \ {0} /\ i \in 0 .. n - 1
  BY OwnGroup, IndexBounds
<1>3. file = [k \in 0 .. n - 1 |-> {r \in rows[s][l] : PartitionIndex(l, s, r) = k}]
  BY <1>1 DEF RowGroups
<1>4. RowsFor(l, s, w) = UNION {file[g] : g \in Slice(i, i + 1, Cardinality(DOMAIN file), n)}
  BY DEF RowsFor
<1> HIDE DEF n, i, file
<1>5. DOMAIN file = 0 .. n - 1
  BY <1>3
<1>6. Cardinality(DOMAIN file) = n
  BY <1>2, <1>5, FS_Interval
<1>7. Slice(i, i + 1, n, n) = {i}
  BY <1>2, OneRowGroup
<1>8. RowsFor(l, s, w) = file[i]
  BY <1>4, <1>6, <1>7
<1>9. file[i] = {r \in rows[s][l] : PartitionIndex(l, s, r) = i}
  BY <1>2, <1>3
<1> QED BY <1>8, <1>9 DEF Sent, i

(* A file has a row group. *)
LEMMA FileNotEmpty ==
    ASSUME NEW l \in Levels, NEW w \in Workers
    PROVE  RowGroups(l, w) # <<>>
<1>1. 0 \in DOMAIN RowGroups(l, w)
  BY OwnGroup DEF RowGroups
<1>2. 0 \notin DOMAIN <<>>
  OBVIOUS
<1> QED BY <1>1, <1>2

(* The rows that a worker has sent depend only on what it had. *)
LEMMA SameSent ==
    ASSUME NEW l \in Levels, NEW s \in Workers, hash' = hash, rows'[s][l] = rows[s][l]
    PROVE  /\ \A w \in Workers : Sent(l, s, w)' = Sent(l, s, w)
           /\ RowGroups(l, s)' = RowGroups(l, s)
BY Zenon DEF Sent, RowGroups, PartitionIndex, GroupSize, MemberIndex

LEMMA LevelFacts == \A l \in Levels : l \in Nat /\ l + 1 \in 0 .. NumLevels /\ l \in 0 .. NumLevels
BY LevelsAssumption DEF Levels

LEMMA RowGroupsType ==
    ASSUME TypeOK, NEW l \in Levels, NEW w \in Workers
    PROVE  RowGroups(l, w) \in [0 .. GroupSize(l, w) - 1 -> SUBSET Rows]
<1>1. rows \in [Workers -> [0 .. NumLevels -> SUBSET Rows]] /\ l \in 0 .. NumLevels
  BY LevelFacts, Zenon DEF TypeOK
<1>2. rows[w][l] \subseteq Rows
  BY <1>1, Zenon
<1> QED BY <1>2 DEF RowGroups

(* Members of a group are workers. *)
LEMMA MembersType ==
    ASSUME NEW l, NEW w
    PROVE  GroupMembers(l, w) \subseteq Workers
BY Zenon DEF GroupMembers

LEMMA Initially ==
    ASSUME Init
    PROVE  IndInv
<1>1. TypeOK
  <2>1. 0 \in 0 .. NumLevels
    BY LevelsAssumption
  <2>2. \A l \in Levels, w \in Workers : ~HasFile(l, w)
    BY DEF Init, HasFile
  <2>3. rows \in [Workers -> [0 .. NumLevels -> SUBSET Rows]]
    BY InputAssumption DEF Init
  <2> QED BY <2>1, <2>2, <2>3 DEF Init, TypeOK
<1>2. RowsAtOneWorker
  <2> SUFFICES ASSUME NEW l \in 0 .. NumLevels, NEW v \in Workers, NEW w \in Workers, v # w
               PROVE  rows[v][l] \cap rows[w][l] = {}
    BY DEF RowsAtOneWorker
  <2>1. rows[v][l] = IF l = 0 THEN Input[v] ELSE {}
    BY DEF Init
  <2>2. rows[w][l] = IF l = 0 THEN Input[w] ELSE {}
    BY DEF Init
  <2> QED BY <2>1, <2>2, InputAssumption
<1>3. FileInv
  BY DEF Init, FileInv, HasFile
<1>4. SenderInv
  <2> SUFFICES ASSUME NEW w \in Workers, NEW l \in Levels
               PROVE  rows[w][l + 1] = {}
    BY DEF SenderInv
  <2>1. l + 1 \in 0 .. NumLevels /\ l + 1 # 0
    BY LevelFacts
  <2> QED BY <2>1 DEF Init
<1>5. ArrivedInv
  BY DEF Init, ArrivedInv, Levels
<1>6. InputInv
  BY LevelsAssumption DEF Init, InputInv
<1> QED BY <1>1, <1>2, <1>3, <1>4, <1>5, <1>6 DEF IndInv

----------------------------------------------------------------------------
(* One lemma for each action.  The file of a worker appears... *)
LEMMA ConsumeUpstreamStep ==
    ASSUME IndInv, NEW w \in Workers, ConsumeUpstream(w)
    PROVE  IndInv'
<1> DEFINE l == level[w]
<1> USE DEF IndInv
<1>1. l \in Levels /\ state[w] = "consume" /\ UNCHANGED <<hash, level, rows>>
  BY DEF ConsumeUpstream
<1>2. store' = [store EXCEPT ![l][w] = RowGroups(l, w)]
  BY DEF ConsumeUpstream
<1>3. pending' = [pending EXCEPT ![w] = GroupMembers(l, w)] /\ state' = [state EXCEPT ![w] = "poll"]
  BY DEF ConsumeUpstream
<1>4. PICK d \in SUBSET Deferrable(l, w) : deferred' = [deferred EXCEPT ![w] = d]
  BY Zenon DEF ConsumeUpstream
<1>5. d \subseteq GroupMembers(l, w) /\ GroupMembers(l, w) \subseteq Workers
  BY MembersType, Zenon DEF Deferrable
<1>6. DOMAIN store = Levels /\ (\A k \in Levels : DOMAIN store[k] = Workers)
  BY Zenon DEF TypeOK
<1>7. \A k \in Levels, v \in Workers :
         store'[k][v] = IF k = l /\ v = w THEN RowGroups(l, w) ELSE store[k][v]
  BY <1>1, <1>2, <1>6
<1>8. \A k \in Levels : \A v \in Workers :
         /\ RowGroups(k, v)' = RowGroups(k, v)
         /\ \A u \in Workers : Sent(k, v, u)' = Sent(k, v, u)
  BY <1>1, SameSent, Zenon
<1> HIDE DEF l
<1>9. \A k \in Levels, v \in Workers : HasFile(k, v)' <=> HasFile(k, v) \/ (k = l /\ v = w)
  BY <1>1, <1>7, FileNotEmpty DEF HasFile
<1>10. TypeOK'
  <2>1. hash' \in Hashes /\ level' \in [Workers -> 0 .. NumLevels] /\ rows' \in [Workers -> [0 .. NumLevels -> SUBSET Rows]]
    BY <1>1, Zenon DEF TypeOK
  <2>2. state' \in [Workers -> {"consume", "poll", "failed"}]
    BY <1>3 DEF TypeOK
  <2>3. pending' \in [Workers -> SUBSET Workers] /\ deferred' \in [Workers -> SUBSET Workers]
    BY <1>3, <1>4, <1>5 DEF TypeOK
  <2>4. DOMAIN store' = Levels /\ (\A k \in Levels : DOMAIN store'[k] = Workers)
    BY <1>2, <1>6
  <2>5. ASSUME NEW k \in Levels, NEW v \in Workers, HasFile(k, v)'
        PROVE  store'[k][v] \in [0 .. GroupSize(k, v) - 1 -> SUBSET Rows]
    <3>1. CASE k = l /\ v = w
      BY <1>1, <1>7, <3>1, RowGroupsType
    <3>2. CASE ~(k = l /\ v = w)
      <4>1. HasFile(k, v) /\ store'[k][v] = store[k][v]
        BY <1>7, <1>9, <2>5, <3>2
      <4> QED BY <4>1, Zenon DEF TypeOK
    <3> QED BY <3>1, <3>2
  <2>6. ASSUME NEW v \in Workers
        PROVE  /\ state'[v] = "poll" => level'[v] \in Levels /\ pending'[v] \subseteq GroupMembers(level'[v], v)
               /\ state'[v] # "poll" => pending'[v] = {}
               /\ deferred'[v] \subseteq pending'[v]
    <3>1. CASE v = w
      BY <1>1, <1>3, <1>4, <1>5, <3>1 DEF TypeOK, l
    <3>2. CASE v # w
      BY <1>1, <1>3, <1>4, <3>2 DEF TypeOK
    <3> QED BY <3>1, <3>2
  <2> QED BY <2>1, <2>2, <2>3, <2>4, <2>5, <2>6, Zenon DEF TypeOK, GroupSize, HasFile
<1>11. RowsAtOneWorker'
  BY <1>1, Zenon DEF RowsAtOneWorker
<1>12. FileInv'
  <2> SUFFICES ASSUME NEW v \in Workers, NEW k \in Levels, HasFile(k, v)'
               PROVE  level'[v] >= k /\ store'[k][v] = RowGroups(k, v)'
    BY Zenon DEF FileInv
  <2>1. CASE k = l /\ v = w
    BY <1>1, <1>7, <1>8, <2>1, LevelFacts DEF l
  <2>2. CASE ~(k = l /\ v = w)
    BY <1>1, <1>7, <1>8, <1>9, <2>2 DEF FileInv
  <2> QED BY <2>1, <2>2
<1>13. SenderInv'
  <2> SUFFICES ASSUME NEW v \in Workers, NEW k \in Levels, NEW r \in rows'[v][k + 1]
               PROVE  \E s \in GroupMembers(k, v) : HasFile(k, s)' /\ r \in Sent(k, s, v)'
    BY Zenon DEF SenderInv
  <2>1. PICK s \in GroupMembers(k, v) : HasFile(k, s) /\ r \in Sent(k, s, v)
    BY <1>1 DEF SenderInv
  <2> QED BY <1>8, <1>9, <2>1, MembersType, Zenon
<1>14. ArrivedInv'
  <2> SUFFICES ASSUME NEW v \in Workers, NEW k \in Levels,
                      level'[v] > k \/ (level'[v] = k /\ state'[v] = "poll")
               PROVE  /\ HasFile(k, v)'
                      /\ \A s \in GroupMembers(k, v) : level'[v] > k \/ s \notin pending'[v] =>
                            HasFile(k, s)' /\ Sent(k, s, v)' \subseteq rows'[v][k + 1]
    BY Zenon DEF ArrivedInv
  <2>1. CASE k = l /\ v = w
    <3>1. pending'[v] = GroupMembers(k, v) /\ ~(level'[v] > k)
      BY <1>1, <1>3, <2>1, LevelFacts DEF TypeOK, l
    <3> QED BY <1>9, <2>1, <3>1
  <2>2. CASE ~(k = l /\ v = w)
    <3>1. level[v] > k \/ (level[v] = k /\ state[v] = "poll")
      BY <1>1, <1>3, <2>2 DEF TypeOK, l
    <3>2. HasFile(k, v) /\ \A s \in GroupMembers(k, v) : level[v] > k \/ s \notin pending[v] =>
            HasFile(k, s) /\ Sent(k, s, v) \subseteq rows[v][k + 1]
      BY <3>1, Zenon DEF ArrivedInv
    <3>3. level'[v] > k \/ pending'[v] = pending[v]
      BY <1>1, <1>3, <2>2 DEF TypeOK, l
    <3>4. ASSUME NEW s \in GroupMembers(k, v), level'[v] > k \/ s \notin pending'[v]
          PROVE  HasFile(k, s)' /\ Sent(k, s, v)' \subseteq rows'[v][k + 1]
      <4>1. s \in Workers
        BY MembersType, Zenon
      <4>2. level[v] > k \/ s \notin pending[v]
        BY <1>1, <3>3, <3>4, Zenon
      <4>3. HasFile(k, s) /\ Sent(k, s, v) \subseteq rows[v][k + 1]
        BY <3>2, <4>2, Zenon
      <4> QED BY <1>1, <1>8, <1>9, <4>1, <4>3, Zenon
    <3> QED BY <1>9, <3>2, <3>4, Zenon
  <2> QED BY <2>1, <2>2
<1>15. InputInv'
  BY <1>1, Zenon DEF InputInv
<1> QED BY <1>10, <1>11, <1>12, <1>13, <1>14, <1>15

(* ... may fail to... *)
LEMMA UploadFailsStep ==
    ASSUME IndInv, NEW w \in Workers, UploadFails(w)
    PROVE  IndInv'
<1> USE DEF IndInv
<1>1. UNCHANGED <<hash, level, rows, store, pending, deferred>> /\ state[w] = "consume" /\ state' = [state EXCEPT ![w] = "failed"]
  BY DEF UploadFails
<1>2. state \in [Workers -> {"consume", "poll", "failed"}]
  BY Zenon DEF TypeOK
<1>3. state' \in [Workers -> {"consume", "poll", "failed"}] /\ \A v \in Workers : state'[v] = "poll" <=> state[v] = "poll"
  BY <1>1, <1>2
<1>4. \A k \in Levels, v \in Workers : HasFile(k, v)' <=> HasFile(k, v)
  BY <1>1, Zenon DEF HasFile
<1>5. \A k \in Levels : \A v \in Workers :
         /\ RowGroups(k, v)' = RowGroups(k, v)
         /\ \A u \in Workers : Sent(k, v, u)' = Sent(k, v, u)
  BY <1>1, SameSent, Zenon
<1>6. TypeOK'
  BY <1>1, <1>3, Zenon DEF TypeOK, GroupSize, HasFile
<1>7. RowsAtOneWorker'
  BY <1>1, Zenon DEF RowsAtOneWorker
<1>8. FileInv'
  BY <1>1, <1>4, <1>5, Zenon DEF FileInv
<1>9. SenderInv'
  <2> SUFFICES ASSUME NEW v \in Workers, NEW k \in Levels, NEW r \in rows'[v][k + 1]
               PROVE  \E s \in GroupMembers(k, v) : HasFile(k, s)' /\ r \in Sent(k, s, v)'
    BY Zenon DEF SenderInv
  <2>1. PICK s \in GroupMembers(k, v) : HasFile(k, s) /\ r \in Sent(k, s, v)
    BY <1>1 DEF SenderInv
  <2> QED BY <1>4, <1>5, <2>1, MembersType, Zenon
<1>10. ArrivedInv'
  <2> SUFFICES ASSUME NEW v \in Workers, NEW k \in Levels,
                      level'[v] > k \/ (level'[v] = k /\ state'[v] = "poll")
               PROVE  /\ HasFile(k, v)'
                      /\ \A s \in GroupMembers(k, v) : level'[v] > k \/ s \notin pending'[v] =>
                            HasFile(k, s)' /\ Sent(k, s, v)' \subseteq rows'[v][k + 1]
    BY Zenon DEF ArrivedInv
  <2>1. HasFile(k, v) /\ \A s \in GroupMembers(k, v) : level[v] > k \/ s \notin pending[v] =>
          HasFile(k, s) /\ Sent(k, s, v) \subseteq rows[v][k + 1]
    BY <1>1, <1>3, Zenon DEF ArrivedInv
  <2>2. \A s \in GroupMembers(k, v) : s \in Workers /\ (HasFile(k, s)' <=> HasFile(k, s)) /\ Sent(k, s, v)' = Sent(k, s, v)
    BY <1>4, <1>5, MembersType, Zenon
  <2> QED BY <1>1, <1>4, <2>1, <2>2, Zenon
<1>11. InputInv'
  BY <1>1, Zenon DEF InputInv
<1> QED BY <1>6, <1>7, <1>8, <1>9, <1>10, <1>11

(* ... and ends the exchange at a worker that has taken all results. *)
LEMMA SignalEndStep ==
    ASSUME IndInv, NEW w \in Workers, SignalEnd(w)
    PROVE  IndInv'
<1> USE DEF IndInv
<1>1. /\ UNCHANGED <<hash, rows, store, pending, deferred>>
      /\ state[w] = "poll" /\ pending[w] = {}
      /\ level' = [level EXCEPT ![w] = @ + 1] /\ state' = [state EXCEPT ![w] = "consume"]
  BY DEF SignalEnd
<1>2. /\ state \in [Workers -> {"consume", "poll", "failed"}]
      /\ level \in [Workers -> 0 .. NumLevels]
      /\ level[w] \in Levels
  BY <1>1, Zenon DEF TypeOK
<1>3. /\ state' \in [Workers -> {"consume", "poll", "failed"}]
      /\ level' \in [Workers -> 0 .. NumLevels]
      /\ level'[w] = level[w] + 1 /\ state'[w] = "consume"
      /\ \A v \in Workers : v # w => level'[v] = level[v] /\ state'[v] = state[v]
  BY <1>1, <1>2, LevelFacts
<1>4. \A k \in Levels, v \in Workers : HasFile(k, v)' <=> HasFile(k, v)
  BY <1>1, Zenon DEF HasFile
<1>5. \A k \in Levels : \A v \in Workers :
         /\ RowGroups(k, v)' = RowGroups(k, v)
         /\ \A u \in Workers : Sent(k, v, u)' = Sent(k, v, u)
  BY <1>1, SameSent, Zenon
<1>6. TypeOK'
  <2>1. ASSUME NEW v \in Workers
        PROVE  /\ state'[v] = "poll" => level'[v] \in Levels /\ pending'[v] \subseteq GroupMembers(level'[v], v)
               /\ state'[v] # "poll" => pending'[v] = {}
               /\ deferred'[v] \subseteq pending'[v]
    <3>1. CASE v = w
      BY <1>1, <1>3, <3>1 DEF TypeOK
    <3>2. CASE v # w
      BY <1>1, <1>3, <3>2, Zenon DEF TypeOK
    <3> QED BY <3>1, <3>2
  <2> QED BY <1>1, <1>3, <2>1, Zenon DEF TypeOK, GroupSize, HasFile
<1>7. RowsAtOneWorker'
  BY <1>1, Zenon DEF RowsAtOneWorker
<1>8. FileInv'
  <2> SUFFICES ASSUME NEW v \in Workers, NEW k \in Levels, HasFile(k, v)'
               PROVE  level'[v] >= k /\ store'[k][v] = RowGroups(k, v)'
    BY Zenon DEF FileInv
  <2>1. level[v] >= k /\ store[k][v] = RowGroups(k, v)
    BY <1>4, Zenon DEF FileInv
  <2>2. level'[v] >= k
    BY <1>2, <1>3, <2>1, LevelFacts
  <2> QED BY <1>1, <1>5, <2>1, <2>2, Zenon
<1>9. SenderInv'
  <2> SUFFICES ASSUME NEW v \in Workers, NEW k \in Levels, NEW r \in rows'[v][k + 1]
               PROVE  \E s \in GroupMembers(k, v) : HasFile(k, s)' /\ r \in Sent(k, s, v)'
    BY Zenon DEF SenderInv
  <2>1. PICK s \in GroupMembers(k, v) : HasFile(k, s) /\ r \in Sent(k, s, v)
    BY <1>1 DEF SenderInv
  <2> QED BY <1>4, <1>5, <2>1, MembersType, Zenon
<1>10. ArrivedInv'
  <2> SUFFICES ASSUME NEW v \in Workers, NEW k \in Levels,
                      level'[v] > k \/ (level'[v] = k /\ state'[v] = "poll")
               PROVE  /\ HasFile(k, v)'
                      /\ \A s \in GroupMembers(k, v) : level'[v] > k \/ s \notin pending'[v] =>
                            HasFile(k, s)' /\ Sent(k, s, v)' \subseteq rows'[v][k + 1]
    BY Zenon DEF ArrivedInv
  <2> SUFFICES HasFile(k, v) /\ \A s \in GroupMembers(k, v) : level'[v] > k \/ s \notin pending[v] =>
                 HasFile(k, s) /\ Sent(k, s, v) \subseteq rows[v][k + 1]
    <3>1. \A s \in GroupMembers(k, v) : (HasFile(k, s)' <=> HasFile(k, s)) /\ Sent(k, s, v)' = Sent(k, s, v)
      BY <1>4, <1>5, MembersType, Zenon
    <3> QED BY <1>1, <1>4, <3>1, Zenon
  <2>1. CASE v # w
    BY <1>3, <2>1, Zenon DEF ArrivedInv
  <2>2. CASE v = w
    <3>1. level[v] > k \/ (level[v] = k /\ state[v] = "poll")
      BY <1>1, <1>2, <1>3, <2>2, LevelFacts
    <3> QED BY <1>1, <2>2, <3>1, Zenon DEF ArrivedInv
  <2> QED BY <2>1, <2>2
<1>11. InputInv'
  BY <1>1, Zenon DEF InputInv
<1> QED BY <1>6, <1>7, <1>8, <1>9, <1>10, <1>11

(* A file is returned: the rows that arrive were sent to this worker, and  *)
(* nobody has written a file yet from the rows that change.                *)
LEMMA ReturnFileStep ==
    ASSUME IndInv, NEW w \in Workers, NEW s \in Workers, ReturnFile(w, s)
    PROVE  IndInv'
<1> DEFINE l == level[w]
           new == Sent(l, s, w)
<1> USE DEF IndInv
<1>1. /\ UNCHANGED <<hash, level, state, store, deferred>>
      /\ state[w] = "poll" /\ s \in pending[w] \ deferred[w] /\ HasFile(l, s)
      /\ pending' = [pending EXCEPT ![w] = @ \ {s}]
      /\ rows' = [rows EXCEPT ![w][l + 1] = @ \cup RowsFor(l, s, w)]
  BY DEF ReturnFile
<1>2. l \in Levels /\ s \in GroupMembers(l, w)
  BY <1>1, Zenon DEF TypeOK
<1>3. RowsFor(l, s, w) = new
  BY <1>1, <1>2, FileRows DEF FileInv
<1>4. rows \in [Workers -> [0 .. NumLevels -> SUBSET Rows]] /\ level \in [Workers -> 0 .. NumLevels]
      /\ pending \in [Workers -> SUBSET Workers]
  BY Zenon DEF TypeOK
<1>5. l \in Nat /\ l \in 0 .. NumLevels /\ l + 1 \in 0 .. NumLevels
  BY <1>2, LevelFacts
<1>6. new \subseteq Rows
  BY <1>4, <1>5, Zenon DEF Sent
<1> HIDE DEF l
<1>7. \A v \in Workers, k \in 0 .. NumLevels :
         rows'[v][k] = IF v = w /\ k = l + 1 THEN rows[v][k] \cup new ELSE rows[v][k]
  BY <1>1, <1>3, <1>4, <1>5, Zenon
<1>8. rows' \in [Workers -> [0 .. NumLevels -> SUBSET Rows]]
  BY <1>1, <1>3, <1>4, <1>5, <1>6, Zenon
<1>9. pending' \in [Workers -> SUBSET Workers] /\ \A v \in Workers :
         pending'[v] = IF v = w THEN pending[v] \ {s} ELSE pending[v]
  BY <1>1, <1>4, Zenon
<1>10. \A k \in Levels, v \in Workers : HasFile(k, v)' <=> HasFile(k, v)
  BY <1>1, Zenon DEF HasFile
<1>11. \A k \in Levels : \A v \in Workers : HasFile(k, v) =>
         /\ RowGroups(k, v)' = RowGroups(k, v)
         /\ \A u \in Workers : Sent(k, v, u)' = Sent(k, v, u)
  <2> SUFFICES ASSUME NEW k \in Levels, NEW v \in Workers, HasFile(k, v)
               PROVE  rows'[v][k] = rows[v][k]
    BY <1>1, SameSent, Zenon
  <2>1. level[v] >= k
    BY DEF FileInv
  <2>2. ~(v = w /\ k = l + 1)
    BY <1>5, <2>1 DEF l
  <2> QED BY <1>7, <2>2, LevelFacts, Zenon
<1>12. TypeOK'
  <2>1. ASSUME NEW v \in Workers
        PROVE  /\ state'[v] = "poll" => level'[v] \in Levels /\ pending'[v] \subseteq GroupMembers(level'[v], v)
               /\ state'[v] # "poll" => pending'[v] = {}
               /\ deferred'[v] \subseteq pending'[v]
    <3>1. CASE v = w
      BY <1>1, <1>9, <3>1 DEF TypeOK
    <3>2. CASE v # w
      BY <1>1, <1>9, <3>2, Zenon DEF TypeOK
    <3> QED BY <3>1, <3>2
  <2> QED BY <1>1, <1>8, <1>9, <2>1, Zenon DEF TypeOK, GroupSize, HasFile
<1>13. RowsAtOneWorker'
  <2>1. ASSUME NEW v \in Workers, v # w, NEW r \in new, r \in rows[v][l + 1]
        PROVE  FALSE
    <3>1. PICK t \in GroupMembers(l, v) : r \in Sent(l, t, v)
      BY <1>2, <2>1 DEF SenderInv
    <3>2. t \in Workers /\ GroupMembers(l, t) = GroupMembers(l, v) /\ GroupMembers(l, s) = GroupMembers(l, w)
      BY <1>2, GroupsAgree
    <3>3. r \in rows[t][l] /\ r \in rows[s][l]
      BY <2>1, <3>1 DEF Sent
    <3>4. t = s
      BY <1>5, <3>2, <3>3 DEF RowsAtOneWorker
    <3>5. MemberIndex(l, v) = MemberIndex(l, w)
      BY <2>1, <3>1, <3>4 DEF Sent
    <3>6. v \in GroupMembers(l, w)
      BY <1>2, <3>2, <3>4, OwnGroup, Zenon
    <3> QED BY <1>2, <2>1, <3>5, <3>6, IndexInjective
  <2> SUFFICES ASSUME NEW k \in 0 .. NumLevels, NEW u \in Workers, NEW v \in Workers, u # v
               PROVE  rows'[u][k] \cap rows'[v][k] = {}
    BY Zenon DEF RowsAtOneWorker
  <2>2. rows[u][k] \cap rows[v][k] = {}
    BY Zenon DEF RowsAtOneWorker
  <2>3. CASE k = l + 1 /\ u = w
    BY <1>7, <2>1, <2>2, <2>3, Zenon
  <2>4. CASE k = l + 1 /\ v = w
    BY <1>7, <2>1, <2>2, <2>4, Zenon
  <2>5. CASE ~(k = l + 1 /\ u = w) /\ ~(k = l + 1 /\ v = w)
    BY <1>7, <2>2, <2>5, Zenon
  <2> QED BY <2>3, <2>4, <2>5
<1>14. FileInv'
  BY <1>1, <1>10, <1>11, Zenon DEF FileInv
<1>15. SenderInv'
  <2> SUFFICES ASSUME NEW v \in Workers, NEW k \in Levels, NEW r \in rows'[v][k + 1]
               PROVE  \E t \in GroupMembers(k, v) : HasFile(k, t)' /\ r \in Sent(k, t, v)'
    BY Zenon DEF SenderInv
  <2> SUFFICES \E t \in GroupMembers(k, v) : HasFile(k, t) /\ r \in Sent(k, t, v)
    BY <1>10, <1>11, MembersType, Zenon
  <2>1. CASE r \in rows[v][k + 1]
    BY <2>1, Zenon DEF SenderInv
  <2>2. CASE r \notin rows[v][k + 1]
    <3>1. k \in Nat /\ k + 1 \in 0 .. NumLevels
      BY LevelFacts
    <3>2. v = w /\ k + 1 = l + 1 /\ r \in new
      BY <1>7, <2>2, <3>1, Zenon
    <3>3. k = l
      BY <1>5, <3>1, <3>2
    <3> QED BY <1>1, <1>2, <3>2, <3>3, Zenon DEF l
  <2> QED BY <2>1, <2>2
<1>16. ArrivedInv'
  <2> SUFFICES ASSUME NEW v \in Workers, NEW k \in Levels,
                      level'[v] > k \/ (level'[v] = k /\ state'[v] = "poll")
               PROVE  /\ HasFile(k, v)'
                      /\ \A t \in GroupMembers(k, v) : level'[v] > k \/ t \notin pending'[v] =>
                            HasFile(k, t)' /\ Sent(k, t, v)' \subseteq rows'[v][k + 1]
    BY Zenon DEF ArrivedInv
  <2> SUFFICES ASSUME NEW t \in GroupMembers(k, v), level[v] > k \/ t \notin pending'[v]
               PROVE  HasFile(k, t) /\ Sent(k, t, v) \subseteq rows'[v][k + 1]
    <3>1. \A t \in GroupMembers(k, v) : HasFile(k, t) => HasFile(k, t)' /\ Sent(k, t, v)' = Sent(k, t, v)
      BY <1>10, <1>11, MembersType, Zenon
    <3>2. HasFile(k, v)
      BY <1>1, Zenon DEF ArrivedInv
    <3> QED BY <1>1, <1>10, <3>1, <3>2, Zenon
  <2>1. rows[v][k + 1] \subseteq rows'[v][k + 1]
    BY <1>7, LevelFacts, Zenon
  <2>2. CASE level[v] > k \/ t \notin pending[v]
    <3>1. HasFile(k, t) /\ Sent(k, t, v) \subseteq rows[v][k + 1]
      BY <1>1, <2>2, Zenon DEF ArrivedInv
    <3> QED BY <2>1, <3>1
  <2>3. CASE ~(level[v] > k \/ t \notin pending[v])
    <3>1. v = w /\ t = s /\ k = l
      BY <1>1, <1>9, <2>3 DEF l
    <3>2. rows'[v][k + 1] = rows[v][k + 1] \cup new
      BY <1>5, <1>7, <3>1, Zenon
    <3>3. new \subseteq rows'[v][k + 1]
      BY <3>2
    <3> QED BY <1>1, <3>1, <3>3 DEF l
  <2> QED BY <2>2, <2>3
<1>17. InputInv'
  <2>1. 0 \in 0 .. NumLevels /\ 0 # l + 1
    BY <1>5, LevelsAssumption
  <2> QED BY <1>7, <2>1, Zenon DEF InputInv
<1> QED BY <1>12, <1>13, <1>14, <1>15, <1>16, <1>17

----------------------------------------------------------------------------
(* The exchange keeps its invariant: ConsumeUpstream, WaitForFile and      *)
(* next(), on all workers and in any order.                                *)
THEOREM Invariance == Spec => []IndInv
<1>1. Init => IndInv
  BY Initially
<1>2. IndInv /\ [Next]_vars => IndInv'
  <2> SUFFICES ASSUME IndInv, [Next]_vars PROVE IndInv'
    OBVIOUS
  <2>1. ASSUME NEW w \in Workers, ConsumeUpstream(w) PROVE IndInv'
    BY <2>1, ConsumeUpstreamStep
  <2>2. ASSUME NEW w \in Workers, NEW s \in Workers, ReturnFile(w, s) PROVE IndInv'
    BY <2>2, ReturnFileStep
  <2>3. ASSUME NEW w \in Workers, SignalEnd(w) PROVE IndInv'
    BY <2>3, SignalEndStep
  <2>4. ASSUME NEW w \in Workers, UploadFails(w) PROVE IndInv'
    BY <2>4, UploadFailsStep
  <2>5. CASE UNCHANGED vars
    <3>1. UNCHANGED <<hash, level, state, rows, store, pending, deferred>>
      BY <2>5 DEF vars
    <3>2. \A l, s, w : Sent(l, s, w)' = Sent(l, s, w)
      BY <3>1, Zenon DEF Sent, PartitionIndex, MemberIndex, GroupSize
    <3>3. TypeOK' /\ RowsAtOneWorker' /\ InputInv'
      BY <3>1, Zenon DEF IndInv, TypeOK, HasFile, GroupSize, RowsAtOneWorker, InputInv
    <3>4. FileInv'
      <4>1. \A l \in Levels : \A w \in Workers : RowGroups(l, w)' = RowGroups(l, w)
        BY <3>1, SameSent, Zenon
      <4> QED BY <3>1, <4>1, Zenon DEF IndInv, FileInv, HasFile
    <3>5. SenderInv' /\ ArrivedInv'
      BY <3>1, <3>2, Zenon DEF IndInv, SenderInv, ArrivedInv, HasFile
    <3> QED BY <3>3, <3>4, <3>5 DEF IndInv
  <2> QED BY <2>1, <2>2, <2>3, <2>4, <2>5, Zenon DEF Next, Worker
<1> QED BY <1>1, <1>2, PTL DEF Spec

(* The types of the exchange are correct. *)
THEOREM TypeCorrect == Spec => []TypeOK
<1>1. IndInv => TypeOK
  BY DEF IndInv
<1> QED BY <1>1, Invariance, PTL

(* No row reaches two workers: the partitions that ConsumeUpstream writes  *)
(* are the slices that next() selects.                                     *)
THEOREM RowsAreNotDuplicated == Spec => []RowsAtOneWorker
<1>1. IndInv => RowsAtOneWorker
  BY DEF IndInv
<1> QED BY <1>1, Invariance, PTL

(* Once next() has signalled end-of-stream, no row is missing. *)
THEOREM EndOfStreamIsComplete == Spec => []EndOfStreamComplete
<1>1. IndInv => EndOfStreamComplete
  BY Zenon DEF IndInv, ArrivedInv, EndOfStreamComplete
<1> QED BY <1>1, Invariance, PTL

(* When all workers have finished an exchange, it has moved all rows. *)
LEMMA LevelMovesAllRows ==
    ASSUME IndInv, NEW l \in Levels, \A w \in Workers : level[w] > l
    PROVE  UNION {rows[w][l + 1] : w \in Workers} = UNION {rows[w][l] : w \in Workers}
<1>1. ASSUME NEW w \in Workers, NEW r \in rows[w][l + 1]
      PROVE  \E s \in Workers : r \in rows[s][l]
  <2>1. PICK s \in GroupMembers(l, w) : r \in Sent(l, s, w)
    BY <1>1 DEF IndInv, SenderInv
  <2> QED BY <2>1, MembersType DEF Sent
<1>2. ASSUME NEW s \in Workers, NEW r \in rows[s][l]
      PROVE  \E w \in Workers : r \in rows[w][l + 1]
  <2>1. r \in Rows /\ hash \in Hashes
    <3>1. rows \in [Workers -> [0 .. NumLevels -> SUBSET Rows]] /\ hash \in Hashes /\ l \in 0 .. NumLevels
      BY LevelFacts, Zenon DEF IndInv, TypeOK
    <3> QED BY <1>2, <3>1, Zenon
  <2>2. hash[l][Key[r]] \in Nat /\ GroupSize(l, s) \in Nat \ {0}
    BY <2>1, HashAssumption, OwnGroup
  <2>3. PartitionIndex(l, s, r) \in 0 .. GroupSize(l, s) - 1
    BY <2>2 DEF PartitionIndex
  <2>4. PICK w \in GroupMembers(l, s) : MemberIndex(l, w) = PartitionIndex(l, s, r)
    BY <2>3, IndexOnto
  <2>5. w \in Workers /\ s \in GroupMembers(l, w)
    BY GroupsAgree, OwnGroup
  <2>6. Sent(l, s, w) \subseteq rows[w][l + 1]
    BY <2>5, Zenon DEF IndInv, ArrivedInv
  <2> QED BY <1>2, <2>4, <2>5, <2>6 DEF Sent
<1> DEFINE new == UNION {rows[w][l + 1] : w \in Workers}
           old == UNION {rows[w][l] : w \in Workers}
<1>3. new \subseteq old
  BY <1>1
<1>4. old \subseteq new
  BY <1>2
<1> QED BY <1>3, <1>4

(* No row is lost between the input and the end of the last exchange. *)
THEOREM NoRowIsLost == Spec => []AllRowsArrive
<1>1. ASSUME IndInv PROVE AllRowsArrive
  <2> DEFINE U(l) == UNION {rows[w][l] : w \in Workers}
  <2> SUFFICES ASSUME \A w \in Workers : level[w] = NumLevels
               PROVE  U(NumLevels) = UNION {Input[w] : w \in Workers}
    BY Zenon DEF AllRowsArrive, Finished
  <2>1. U(0) = UNION {Input[w] : w \in Workers}
    BY <1>1 DEF IndInv, InputInv
  <2>2. \A l \in Levels : \A w \in Workers : level[w] > l
    BY LevelsAssumption DEF Levels
  <2>3. \A l \in Levels : U(l + 1) = U(l)
    BY <1>1, <2>2, LevelMovesAllRows
  <2> HIDE DEF U
  <2>4. CASE NumLevels = 1
    <3>1. U(0 + 1) = U(0)
      BY <2>3, <2>4 DEF Levels
    <3> QED BY <2>1, <2>4, <3>1
  <2>5. CASE NumLevels = 2
    <3>1. U(0 + 1) = U(0) /\ U(1 + 1) = U(1)
      BY <2>3, <2>5 DEF Levels
    <3> QED BY <2>1, <2>5, <3>1
  <2> QED BY <2>4, <2>5, LevelsAssumption
<1> QED BY <1>1, Invariance, PTL

----------------------------------------------------------------------------
(* The number of groups of a level of a two-level exchange is positive. *)
LEMMA SomeGroups == NumGroups \in 1 .. NumWorkers
<1> DEFINE n == NumWorkers
           S == {g \in 0 .. n : n < (g + 1) * (g + 1)}
           P(g) == g * g <= n /\ n < (g + 1) * (g + 1)
<1>1. n \in Nat \ {0}
  BY WorkersAssumption
<1> HIDE DEF n
<1>2. n \in S
  <2>1. n < (n + 1) * (n + 1)
    BY <1>1, Z3
  <2> QED BY <1>1, <2>1
<1>3. PICK g \in S : \A h \in S : g <= h
  <2>1. IsWellFoundedOn(OpToRel(<, Nat), Nat)
    BY NatLessThanWellFounded
  <2>2. S \subseteq Nat /\ S # {}
    <3>1. 0 .. n \subseteq Nat
      OBVIOUS
    <3> QED BY <1>2, <3>1, Zenon
  <2>3. PICK x \in S : \A y \in S : ~(<<y, x>> \in OpToRel(<, Nat))
    BY <2>1, <2>2, WFMin
  <2>4. \A y \in S : ~(y < x)
    BY <2>2, <2>3, Zenon DEF OpToRel
  <2> QED BY <2>2, <2>4
<1>4. g \in 0 .. n /\ n < (g + 1) * (g + 1)
  BY <1>3
<1>5. g # 0
  <2>1. ASSUME g = 0 PROVE FALSE
    <3>1. (0 + 1) * (0 + 1) = 1
      BY Z3
    <3> QED BY <1>1, <1>4, <2>1, <3>1
  <2> QED BY <2>1
<1>6. g * g <= n
  <2>1. g - 1 \in 0 .. n /\ ~(g <= g - 1) /\ (g - 1) + 1 = g
    BY <1>1, <1>4, <1>5
  <2>2. ~(n < g * g)
    BY <1>3, <2>1
  <2>3. g * g \in Nat
    BY <1>4, Z3
  <2> QED BY <1>1, <2>2, <2>3
<1>7. g \in 1 .. n /\ P(g)
  BY <1>1, <1>4, <1>5, <1>6
<1>8. NumGroups = CHOOSE h \in 1 .. n : P(h)
  BY DEF NumGroups, n
<1> HIDE DEF P
<1> QED BY <1>7, <1>8, Zenon DEF n

(* Division with remainder. *)
LEMMA Remainder ==
    ASSUME NEW a \in Nat, NEW g \in Nat \ {0}
    PROVE  /\ a \div g \in Nat /\ a % g \in 0 .. g - 1
           /\ a = g * (a \div g) + (a % g)
BY Z3

LEMMA RemainderUnique ==
    ASSUME NEW g \in Nat \ {0}, NEW i \in Nat, NEW m \in 0 .. g - 1
    PROVE  /\ g * i + m \in Nat
           /\ (g * i + m) % g = m
           /\ (g * i + m) \div g = i
<1> DEFINE a == g * i + m
           d == a \div g
           k == a % g
<1>1. g * i \in Nat /\ a \in Nat
  BY Z3
<1> HIDE DEF a
<1>2. d \in Nat /\ k \in 0 .. g - 1 /\ a = g * d + k
  BY <1>1, Remainder, Zenon
<1>3. a = g * i + m
  BY DEF a
<1> HIDE DEF d, k
<1>4. ~(d < i)
  <2> SUFFICES ASSUME d + 1 <= i PROVE FALSE
    BY <1>2
  <2>1. g * (d + 1) <= g * i
    BY <1>2, Z3
  <2>2. g * (d + 1) = g * d + g
    BY <1>2, Z3
  <2>3. g * d \in Nat
    BY <1>2, Z3
  <2> QED BY <1>1, <1>2, <1>3, <2>1, <2>2, <2>3
<1>5. ~(i < d)
  <2> SUFFICES ASSUME i + 1 <= d PROVE FALSE
    BY <1>2
  <2>1. g * (i + 1) <= g * d
    BY <1>2, Z3
  <2>2. g * (i + 1) = g * i + g
    BY Z3
  <2>3. g * d \in Nat
    BY <1>2, Z3
  <2> QED BY <1>1, <1>2, <1>3, <2>1, <2>2, <2>3
<1>6. d = i
  BY <1>2, <1>4, <1>5
<1>7. k = m
  BY <1>1, <1>2, <1>3, <1>6
<1> QED BY <1>1, <1>6, <1>7 DEF a, d, k

(* There are n numbers with remainder m below g * n + m. *)
LEMMA RemainderClass ==
    ASSUME NEW g \in Nat \ {0}, NEW m \in 0 .. g - 1, NEW n \in Nat
    PROVE  LET T == {v \in Nat : v % g = m /\ v \div g < n} IN
           IsFiniteSet(T) /\ Cardinality(T) = n
<1> DEFINE T == {v \in Nat : v % g = m /\ v \div g < n}
           S == 0 .. n - 1
           f == [i \in S |-> g * i + m]
<1>1. ASSUME NEW i \in S PROVE f[i] \in T /\ f[i] \div g = i
  <2>1. i \in Nat /\ i < n
    OBVIOUS
  <2>2. g * i + m \in Nat /\ (g * i + m) % g = m /\ (g * i + m) \div g = i
    BY <2>1, RemainderUnique
  <2> QED BY <2>1, <2>2
<1>2. f \in [S -> T]
  BY <1>1
<1>3. \A i, j \in S : f[i] = f[j] => i = j
  BY <1>1
<1>4. ASSUME NEW v \in T PROVE \E i \in S : f[i] = v
  <2>1. v \in Nat /\ v % g = m /\ v \div g < n
    OBVIOUS
  <2>2. v \div g \in Nat /\ v = g * (v \div g) + (v % g)
    BY <2>1, Remainder
  <2>3. v \div g \in S
    BY <2>1, <2>2
  <2>4. f[v \div g] = v
    BY <2>1, <2>2, <2>3
  <2> QED BY <2>3, <2>4, Zenon
<1> HIDE DEF f, T
<1>5. f \in Bijection(S, T)
  <2>1. f \in Injection(S, T)
    BY <1>2, <1>3 DEF Injection, IsInjective
  <2>2. f \in Surjection(S, T)
    BY <1>2, <1>4, Zenon DEF Surjection
  <2> QED BY <2>1, <2>2, Zenon DEF Bijection
<1>6. ExistsBijection(S, T)
  BY <1>5 DEF ExistsBijection
<1>7. IsFiniteSet(S) /\ Cardinality(S) = n
  BY FS_Interval
<1>8. IsFiniteSet(T) /\ Cardinality(T) = n
  BY <1>6, <1>7, FS_Bijection
<1> QED BY <1>8 DEF T

(* The groups of the first level have the same size: there is one level,   *)
(* or the number of groups divides the number of workers.                  *)
EqualGroups == NumLevels = 1 \/ NumWorkers % NumGroups = 0

(* Then a worker's position in its group of the first level is its group   *)
(* of the second one.                                                      *)
LEMMA FirstLevel ==
    ASSUME NumLevels = 2, NumWorkers % NumGroups = 0, NEW w \in Workers
    PROVE  /\ MemberIndex(0, w) = w \div NumGroups
           /\ GroupSize(0, w) = NumWorkers \div NumGroups
<1> DEFINE g == NumGroups
           m == w % g
           c == NumWorkers \div g
           T(n) == {v \in Nat : v % g = m /\ v \div g < n}
<1>1. g \in Nat \ {0} /\ NumWorkers \in Nat /\ NumWorkers % g = 0
  BY SomeGroups, WorkersAssumption
<1>2. w \in Nat /\ w < NumWorkers /\ \A v : v \in Workers <=> v \in Nat /\ v < NumWorkers
  BY <1>1 DEF Workers
<1> HIDE DEF g
<1>3. m \in 0 .. g - 1 /\ w \div g \in Nat
  BY <1>1, <1>2, Remainder, Zenon
<1>4. c \in Nat /\ NumWorkers = g * c
  <2>1. c \in Nat /\ NumWorkers = g * c + (NumWorkers % g) /\ g * c \in Int
    BY <1>1, Remainder
  <2> QED BY <1>1, <2>1
<1>5. GroupMembers(0, w) = {v \in Workers : v % g = m}
  <2>1. NumLevels # 1
    OBVIOUS
  <2> QED BY <2>1, Zenon DEF GroupMembers, g
<1> HIDE DEF c
<1>6. ASSUME NEW v \in Nat, NEW n \in Nat, NEW k \in 0 .. g - 1, v % g = m, k <= m
      PROVE  v < g * n + k => v \div g < n
  <2> DEFINE d == v \div g
  <2>1. d \in Nat /\ v = g * d + m
    BY <1>1, <1>6, Remainder, Zenon
  <2> HIDE DEF d, m
  <2> SUFFICES ASSUME n <= d, v < g * n + k PROVE FALSE
    BY <2>1 DEF d
  <2>2. g * n <= g * d /\ g * n \in Nat /\ g * d \in Nat
    BY <1>1, <2>1, Z3
  <2> QED BY <1>1, <1>3, <1>6, <2>1, <2>2
<1>7. ASSUME NEW v \in Nat, NEW n \in Nat, v % g = m, v \div g < n
      PROVE  v < g * n
  <2> DEFINE d == v \div g
  <2>1. d \in Nat /\ v = g * d + m /\ d + 1 <= n
    <3>1. d \in Nat /\ v = g * d + m
      BY <1>1, <1>7, Remainder, Zenon
    <3>2. d < n
      BY <1>7
    <3> HIDE DEF d
    <3> QED BY <3>1, <3>2
  <2> HIDE DEF d, m
  <2>2. g * (d + 1) <= g * n /\ g * n \in Nat /\ g * d \in Nat
    BY <1>1, <2>1, Z3
  <2>3. g * (d + 1) = g * d + g
    BY <1>1, <2>1, Z3
  <2> QED BY <1>1, <1>3, <2>1, <2>2, <2>3
<1>8. w = g * (w \div g) + m
  BY <1>1, <1>2, Remainder
<1>9. {v \in GroupMembers(0, w) : v < w} = T(w \div g)
  <2>1. ASSUME NEW v \in GroupMembers(0, w), v < w PROVE v \in T(w \div g)
    <3>1. v \in Nat /\ v % g = m
      BY <1>2, <1>5, <2>1
    <3> DEFINE n == w \div g
    <3>2. n \in Nat /\ v < g * n + m /\ m <= m
      BY <1>3, <1>8, <2>1
    <3> HIDE DEF n
    <3>3. v \div g < n
      BY <1>3, <1>6, <3>1, <3>2
    <3> QED BY <3>1, <3>3 DEF n
  <2>2. ASSUME NEW v \in T(w \div g) PROVE v \in GroupMembers(0, w) /\ v < w
    <3>1. v \in Nat /\ v % g = m /\ v \div g < w \div g
      OBVIOUS
    <3> DEFINE n == w \div g
    <3>2. n \in Nat /\ v \div g < n /\ w = g * n + m
      BY <1>3, <1>8, <3>1
    <3> HIDE DEF n
    <3>3. v < g * n
      BY <1>7, <3>1, <3>2, Zenon
    <3>4. g * n \in Nat
      BY <1>1, <3>2, Z3
    <3>5. v < w
      <4> HIDE DEF m
      <4> QED BY <1>3, <3>1, <3>2, <3>3, <3>4
    <3>6. v \in Workers
      BY <1>1, <1>2, <3>1, <3>5
    <3> QED BY <1>5, <3>1, <3>5, <3>6, Zenon
  <2> QED BY <2>1, <2>2
<1>10. GroupMembers(0, w) = T(c)
  <2>1. ASSUME NEW v \in GroupMembers(0, w) PROVE v \in T(c)
    <3>1. v \in Nat /\ v % g = m /\ v < g * c + 0 /\ 0 \in 0 .. g - 1 /\ 0 <= m
      BY <1>1, <1>2, <1>3, <1>4, <1>5
    <3>2. v \div g < c
      BY <1>4, <1>6, <3>1
    <3> QED BY <3>1, <3>2
  <2>2. ASSUME NEW v \in T(c) PROVE v \in GroupMembers(0, w)
    <3>1. v \in Nat /\ v % g = m /\ v \div g < c
      OBVIOUS
    <3>2. v < NumWorkers
      BY <1>4, <1>7, <3>1
    <3> QED BY <1>2, <1>5, <3>1, <3>2
  <2> QED BY <2>1, <2>2
<1>11. \A n \in Nat : Cardinality(T(n)) = n
  BY <1>1, <1>3, RemainderClass, Zenon
<1> HIDE DEF T
<1>12. MemberIndex(0, w) = w \div g /\ GroupSize(0, w) = c
  BY <1>3, <1>4, <1>9, <1>10, <1>11, Zenon DEF MemberIndex, GroupSize
<1> QED BY <1>12 DEF g, c

(* Where the rows of a key are after the last exchange. *)
LEMMA KeyDecides ==
    ASSUME EqualGroups, IndInv
    PROVE  SameKeySameWorker
<1>1. \A w \in Workers, l \in Levels : \A r \in rows[w][l + 1] :
          \E s \in GroupMembers(l, w) :
              /\ s \in Workers /\ r \in rows[s][l]
              /\ hash[l][Key[r]] % GroupSize(l, s) = MemberIndex(l, w)
              /\ GroupMembers(l, s) = GroupMembers(l, w)
  <2> SUFFICES ASSUME NEW w \in Workers, NEW l \in Levels, NEW r \in rows[w][l + 1]
               PROVE  \E s \in GroupMembers(l, w) :
                          /\ s \in Workers /\ r \in rows[s][l]
                          /\ hash[l][Key[r]] % GroupSize(l, s) = MemberIndex(l, w)
                          /\ GroupMembers(l, s) = GroupMembers(l, w)
    OBVIOUS
  <2>1. PICK s \in GroupMembers(l, w) : r \in Sent(l, s, w)
    BY Zenon DEF IndInv, SenderInv
  <2>2. s \in Workers /\ GroupMembers(l, s) = GroupMembers(l, w)
    BY GroupsAgree
  <2> QED BY <2>1, <2>2, Zenon DEF Sent, PartitionIndex
<1>2. SUFFICES ASSUME NEW v \in Workers, NEW w \in Workers,
                      NEW q \in rows[v][NumLevels], NEW r \in rows[w][NumLevels],
                      Key[q] = Key[r]
               PROVE  v = w
  BY Zenon DEF SameKeySameWorker
<1>3. CASE NumLevels = 1
  <2>1. 0 \in Levels /\ 0 + 1 = NumLevels
    BY <1>3 DEF Levels
  <2>2. PICK s \in GroupMembers(0, v) : hash[0][Key[q]] % GroupSize(0, s) = MemberIndex(0, v)
    BY <1>1, <2>1
  <2>3. PICK t \in GroupMembers(0, w) : hash[0][Key[r]] % GroupSize(0, t) = MemberIndex(0, w)
    BY <1>1, <2>1
  <2>4. GroupSize(0, s) = GroupSize(0, t) /\ v \in GroupMembers(0, w)
    BY <1>3, Zenon DEF GroupSize, GroupMembers
  <2> QED BY <1>2, <2>1, <2>2, <2>3, <2>4, IndexInjective
<1>4. CASE NumLevels = 2
  <2>1. 0 \in Levels /\ 1 \in Levels /\ 1 + 1 = NumLevels /\ 0 + 1 = 1
    BY <1>4 DEF Levels
  <2>2. NumWorkers % NumGroups = 0
    BY <1>4 DEF EqualGroups
  <2> DEFINE place(k) == hash[0][k] % (NumWorkers \div NumGroups)
  <2>3. ASSUME NEW u \in Workers, NEW p \in rows[u][1] PROVE u \div NumGroups = place(Key[p])
    <3>1. PICK s \in GroupMembers(0, u) :
            s \in Workers /\ hash[0][Key[p]] % GroupSize(0, s) = MemberIndex(0, u)
      BY <1>1, <2>1, <2>3
    <3> QED BY <1>4, <2>2, <3>1, FirstLevel
  <2>4. PICK s \in GroupMembers(1, v) :
          /\ s \in Workers /\ q \in rows[s][1] /\ GroupMembers(1, s) = GroupMembers(1, v)
          /\ hash[1][Key[q]] % GroupSize(1, s) = MemberIndex(1, v)
    BY <1>1, <2>1
  <2>5. PICK t \in GroupMembers(1, w) :
          /\ t \in Workers /\ r \in rows[t][1] /\ GroupMembers(1, t) = GroupMembers(1, w)
          /\ hash[1][Key[r]] % GroupSize(1, t) = MemberIndex(1, w)
    BY <1>1, <2>1
  <2>6. s \div NumGroups = t \div NumGroups
    BY <1>2, <2>3, <2>4, <2>5
  <2> HIDE DEF place
  <2>7. GroupMembers(1, s) = GroupMembers(1, t)
    <3>1. NumLevels # 1 /\ 1 # 0
      BY <1>4
    <3> QED BY <2>6, <3>1, Zenon DEF GroupMembers
  <2>8. GroupSize(1, s) = GroupSize(1, t) /\ v \in GroupMembers(1, w)
    BY <2>1, <2>4, <2>5, <2>7, OwnGroup, Zenon DEF GroupSize
  <2> QED BY <1>2, <2>1, <2>4, <2>5, <2>8, IndexInjective
<1> QED BY <1>3, <1>4, LevelsAssumption

(* Rows with the same key arrive at the same worker whenever the groups of *)
(* the first level have the same size, for any hash functions and any      *)
(* order of events.  The hypothesis is needed: five workers violate the    *)
(* property.                                                               *)
THEOREM KeysArriveTogether == EqualGroups /\ Spec => []SameKeySameWorker
<1>1. EqualGroups => EqualGroups'
  BY DEF EqualGroups
<1>2. EqualGroups /\ Spec => []EqualGroups
  BY <1>1, PTL DEF Spec
<1>3. EqualGroups /\ IndInv => SameKeySameWorker
  BY KeyDecides
<1> QED BY <1>2, <1>3, Invariance, PTL
=============================================================================
