------------------------- MODULE SharedPointerProofs -------------------------
(***************************************************************************)
(* Proofs about the reference counts of module SharedPointer, for any      *)
(* number of threads, pointers and counters: a pointer never refers to     *)
(* deleted memory, a counter counts its references, a counter without      *)
(* references is deleted by one thread, and nothing else is lost.          *)
(*                                                                         *)
(* The argument is about the copies whose counters are not incremented     *)
(* yet.  Such a copy is protected by the pointer it was copied from, which *)
(* is counted and which nobody else may modify: it is on the stack of the  *)
(* thread, or shared, or an element of memory that the thread holds.       *)
(* Likewise for a pointer that is to be moved when the old counter of its  *)
(* destination is decremented: it is not in memory that this deletes.      *)
(***************************************************************************)
EXTENDS SharedPointer, FiniteSetTheorems, TLAPS

(* No pointer refers to deleted memory or is an element of it. *)
PointersAlive ==
    \A p \in Pointers :
        /\ rc[p] # Null => rc[p] \in alive
        /\ home[p] \in Counters => home[p] \in alive

(* A pointer that was destroyed has no counter; what a thread copies to or  *)
(* decrements is its own.                                                   *)
OwnPointers ==
    /\ \A p \in Pointers : home[p] = "nowhere" => rc[p] = Null
    /\ \A t \in Threads : \A p \in dropping[t] : home[p] = t
    /\ \A t \in Threads : taking[t] # Null => home[taking[t]] = t

(* Thread t holds a reference to c other than the copy it is making. *)
HoldsElsewhere(t, c) ==
    \E p \in Pointers : p # taking[t] /\ rc[p] = c /\ home[p] \in {t, "shared"}

(* What a copy rests on until its counter is incremented. *)
Protected(t) ==
    taking[t] # Null =>
        /\ other[t] \in Pointers /\ other[t] # taking[t]
        /\ rc[other[t]] = rc[taking[t]]
        /\ \/ home[other[t]] \in {t, "shared"}
           \/ home[other[t]] \in Counters /\ HoldsElsewhere(t, home[other[t]])
        /\ target[t] # "nowhere"
        /\ target[t] \in Counters => HoldsElsewhere(t, target[t])
        /\ taking[t] \in dropping[t] => target[t] = t

CopiesProtected == \A t \in Threads : Protected(t)

(* What a move assignment rests on until it reads its argument: that is on   *)
(* the stack of the thread, or an element of memory that only this thread    *)
(* has, and that a pointer other than the destination keeps alive.           *)
MoveProtected(t) ==
    /\ taking[t] = Null /\ moving[t] = Null => other[t] = Null
    /\ moving[t] # Null =>
        /\ taking[t] = Null
        /\ other[t] \in Pointers /\ other[t] # moving[t] /\ other[t] \notin dropping[t]
        /\ home[moving[t]] = t
        /\ moving[t] \in dropping[t] \/ rc[moving[t]] = Null
        /\ \/ home[other[t]] = t
           \/ /\ home[other[t]] \in Counters
              /\ \A p \in Pointers : rc[p] = home[other[t]] => home[p] = t
              /\ \E p \in Pointers : /\ p # moving[t] /\ p \notin dropping[t]
                                     /\ rc[p] = home[other[t]]

MovesProtected == \A t \in Threads : MoveProtected(t)

(* Whoever removes the last reference is about to delete the counter. *)
ZeroDeleted ==
    \A c \in alive : count[c] = 0 => \E t \in Threads : deleting[t] = c

References ==
    /\ TypeOK
    /\ PointersAlive
    /\ ReferencesCounted
    /\ DeletedOnce
    /\ OwnPointers
    /\ CopiesProtected
    /\ MovesProtected
    /\ ZeroDeleted

----------------------------------------------------------------------------
(* The references of a counter are finitely many. *)
LEMMA CountedFinite ==
    ASSUME NEW c
    PROVE  /\ IsFiniteSet(Counted(c))
           /\ Cardinality(Counted(c)) \in Nat
           /\ Cardinality(Counted(c)) = 0 <=> Counted(c) = {}
<1>1. Counted(c) \in SUBSET Pointers
  BY Zenon DEF Counted
<1>2. IsFiniteSet(Counted(c))
  BY <1>1, ReferencesAssumption, FS_Subset, Zenon
<1> QED
  BY <1>2, FS_CardinalityType, FS_EmptySet, Zenon

(* A reference that moves from one pointer to another is still one. *)
LEMMA Replaced ==
    ASSUME NEW S, IsFiniteSet(S), NEW p \in S, NEW q, q \notin S
    PROVE  Cardinality((S \ {p}) \cup {q}) = Cardinality(S)
<1>1. IsFiniteSet(S \ {p}) /\ Cardinality(S \ {p}) = Cardinality(S) - 1
  BY FS_RemoveElement, Zenon
<1>2. Cardinality((S \ {p}) \cup {q}) = Cardinality(S \ {p}) + 1
  BY <1>1, FS_AddElement, Zenon
<1>3. Cardinality(S) \in Nat
  BY FS_CardinalityType, Zenon
<1> QED
  BY <1>1, <1>2, <1>3

(* The pointers that a thread owns, and the shared ones, are being copied  *)
(* to by nobody else.                                                      *)
LEMMA NotTaken ==
    ASSUME TypeOK, OwnPointers, NEW t \in Threads, NEW p \in Pointers,
           home[p] \notin Threads \/ (home[p] = t /\ taking[t] # p)
    PROVE  \A u \in Threads : taking[u] # p
BY ReferencesAssumption, Zenon DEF TypeOK, OwnPointers

(* The pointer that is copied has incremented its counter. *)
LEMMA OtherCounted ==
    ASSUME References, NEW t \in Threads, taking[t] # Null
    PROVE  other[t] \in Counted(rc[taking[t]])
<1>1. /\ other[t] \in Pointers /\ other[t] # taking[t]
      /\ rc[other[t]] = rc[taking[t]]
      /\ home[other[t]] \in {t, "shared"} \cup Counters
  BY Zenon DEF References, CopiesProtected, Protected
<1>2. home[other[t]] \notin Threads \/ home[other[t]] = t
  BY <1>1, ReferencesAssumption, Zenon
<1>3. \A u \in Threads : taking[u] # other[t]
  BY <1>1, <1>2, NotTaken, Zenon DEF References
<1> QED
  BY <1>1, <1>3, Zenon DEF Counted

(* A reference of the thread, or a shared one, has incremented its counter. *)
LEMMA HeldCounted ==
    ASSUME References, NEW t \in Threads, NEW c, HoldsElsewhere(t, c)
    PROVE  Counted(c) # {}
<1>1. PICK p \in Pointers : p # taking[t] /\ rc[p] = c /\ home[p] \in {t, "shared"}
  BY Zenon DEF HoldsElsewhere
<1>2. home[p] \notin Threads \/ home[p] = t
  BY <1>1, ReferencesAssumption, Zenon
<1>3. \A u \in Threads : taking[u] # p
  BY <1>1, <1>2, NotTaken, Zenon DEF References
<1> QED
  BY <1>1, <1>3, Zenon DEF Counted

(* No pointer has a counter that is zero, not even a copy in progress. *)
LEMMA ZeroUnreferenced ==
    ASSUME References, NEW c \in alive, count[c] = 0
    PROVE  /\ Counted(c) = {}
           /\ \A p \in Pointers : rc[p] # c
<1>1. Cardinality(Counted(c)) = 0
  <2>1. count[c] = Cardinality(Counted(c)) + leaked[c]
    BY Zenon DEF References, ReferencesCounted
  <2>2. leaked[c] \in Nat
    BY Zenon DEF References, TypeOK
  <2> QED
    BY <2>1, <2>2, CountedFinite
<1>2. Counted(c) = {}
  BY <1>1, CountedFinite, Zenon
<1>3. SUFFICES ASSUME NEW p \in Pointers, rc[p] = c
               PROVE  FALSE
  BY <1>2, Zenon
<1>4. PICK t \in Threads : taking[t] = p
  BY <1>2, <1>3, Zenon DEF Counted
<1>5. taking[t] # Null
  BY <1>4, ReferencesAssumption, Zenon
<1>6. other[t] \in Counted(c)
  BY <1>3, <1>4, <1>5, OtherCounted, Zenon
<1> QED
  BY <1>2, <1>6, Zenon

(* A counter that a thread is about to delete has no references. *)
LEMMA DeletedUnreferenced ==
    ASSUME References, NEW t \in Threads, deleting[t] # Null
    PROVE  /\ deleting[t] \in alive
           /\ Counted(deleting[t]) = {}
           /\ \A p \in Pointers : rc[p] # deleting[t]
<1>1. deleting[t] \in alive /\ count[deleting[t]] = 0
  BY Zenon DEF References, DeletedOnce
<1> QED
  BY <1>1, ZeroUnreferenced, Zenon

----------------------------------------------------------------------------
(* The pointers that an operation of thread u modifies are its own ones,   *)
(* new ones, and results; and the counters that they get from it are those *)
(* of pointers that no other thread has on its stack.                      *)
Own(u, p) == Movable(u, p) \/ home[p] \in {"nowhere", "result"}

Reached(u, c) == \E p \in Pointers : rc[p] = c /\ home[p] \notin Threads \ {u}

OnlyOwn(u) ==
    /\ \A p \in Pointers :
           \/ rc'[p] = rc[p] /\ home'[p] = home[p]
           \/ Own(u, p) /\ (rc'[p] \in alive => Reached(u, rc'[p]))
    /\ \A t \in Threads \ {u} :
           /\ taking'[t] = taking[t] /\ moving'[t] = moving[t]
           /\ other'[t] = other[t] /\ target'[t] = target[t]
           /\ dropping'[t] = dropping[t]

(* Such an operation leaves what the other threads copy and move protected. *)
LEMMA OthersProtected ==
    ASSUME TypeOK, PointersAlive, OwnPointers, CopiesProtected, MovesProtected,
           NEW u \in Threads, OnlyOwn(u), Protected(u)', MoveProtected(u)'
    PROVE  CopiesProtected' /\ MovesProtected'
<1>1. SUFFICES ASSUME NEW t \in Threads, t # u
               PROVE  Protected(t)' /\ MoveProtected(t)'
  BY Zenon DEF CopiesProtected, MovesProtected
<1>2. Protected(t) /\ MoveProtected(t)
  BY Zenon DEF CopiesProtected, MovesProtected
<1>3. /\ taking'[t] = taking[t] /\ moving'[t] = moving[t] /\ other'[t] = other[t]
      /\ target'[t] = target[t] /\ dropping'[t] = dropping[t]
  BY <1>1, Zenon DEF OnlyOwn
<1>4. ASSUME NEW p \in Pointers, home[p] \in {t, "shared"}
      PROVE  rc'[p] = rc[p] /\ home'[p] = home[p]
  <2>1. ~Own(u, p)
    BY <1>1, <1>4, ReferencesAssumption, Zenon DEF Own, Movable
  <2> QED
    BY <2>1, Zenon DEF OnlyOwn
<1>5. ASSUME NEW p \in Pointers, home[p] \in Counters,
             NEW x \in Pointers, rc[x] = home[p], home[x] \in {t, "shared"}
      PROVE  rc'[p] = rc[p] /\ home'[p] = home[p]
  <2>1. ~Own(u, p)
    BY <1>1, <1>5, ReferencesAssumption, Zenon DEF Own, Movable, Exclusive
  <2> QED
    BY <2>1, Zenon DEF OnlyOwn
<1>6. Protected(t)'
  <2>1. CASE taking[t] = Null
    BY <1>3, <2>1, Zenon DEF Protected
  <2>2. CASE taking[t] # Null
    <3>1. \A c : HoldsElsewhere(t, c) => HoldsElsewhere(t, c)'
      BY <1>3, <1>4, Zenon DEF HoldsElsewhere
    <3>2. /\ other[t] \in Pointers /\ other[t] # taking[t]
          /\ rc[other[t]] = rc[taking[t]]
          /\ \/ home[other[t]] \in {t, "shared"}
             \/ home[other[t]] \in Counters /\ HoldsElsewhere(t, home[other[t]])
          /\ target[t] # "nowhere"
          /\ target[t] \in Counters => HoldsElsewhere(t, target[t])
          /\ taking[t] \in dropping[t] => target[t] = t
      BY <1>2, <2>2, Zenon DEF Protected
    <3>3. rc'[other[t]] = rc[other[t]] /\ home'[other[t]] = home[other[t]]
      BY <1>4, <1>5, <3>2, Zenon DEF HoldsElsewhere
    <3>4. rc'[taking[t]] = rc[taking[t]]
      BY <1>4, <2>2, Zenon DEF TypeOK, OwnPointers
    <3> QED
      BY <1>3, <2>2, <3>1, <3>2, <3>3, <3>4, Zenon DEF Protected
  <2> QED
    BY <2>1, <2>2, Zenon
<1>7. MoveProtected(t)'
  <2>1. CASE moving[t] = Null
    BY <1>2, <1>3, <2>1, Zenon DEF MoveProtected
  <2>2. CASE moving[t] # Null
    <3>1. /\ taking[t] = Null /\ moving[t] \in Pointers
          /\ other[t] \in Pointers /\ other[t] # moving[t] /\ other[t] \notin dropping[t]
          /\ home[moving[t]] = t
          /\ moving[t] \in dropping[t] \/ rc[moving[t]] = Null
      BY <1>2, <2>2, Zenon DEF MoveProtected, TypeOK
    <3>2. rc'[moving[t]] = rc[moving[t]] /\ home'[moving[t]] = t
      BY <1>4, <3>1, Zenon
    <3>3. CASE home[other[t]] = t
      <4>1. home'[other[t]] = t
        BY <1>4, <3>1, <3>3, Zenon
      <4> QED
        BY <1>3, <2>2, <3>1, <3>2, <4>1, Zenon DEF MoveProtected
    <3>4. CASE home[other[t]] # t
      <4> DEFINE h == home[other[t]]
      <4>1. h \in Counters /\ \A x \in Pointers : rc[x] = h => home[x] = t
        BY <1>2, <2>2, <3>4, Zenon DEF MoveProtected
      <4>2. PICK x \in Pointers : x # moving[t] /\ x \notin dropping[t] /\ rc[x] = h
        BY <1>2, <2>2, <3>4, Zenon DEF MoveProtected
      <4>3. home'[other[t]] = h
        BY <1>5, <3>1, <4>1, <4>2, Zenon
      <4>4. rc'[x] = h
        BY <1>4, <4>1, <4>2, Zenon
      <4>5. ASSUME NEW y \in Pointers, rc'[y] = h
            PROVE  home'[y] = t
        <5>1. h \in alive
          BY <3>1, <4>1, Zenon DEF PointersAlive
        <5>2. ~Reached(u, h)
          BY <1>1, <4>1, Zenon DEF Reached
        <5>3. rc'[y] = rc[y] /\ home'[y] = home[y]
          BY <4>5, <5>1, <5>2, Zenon DEF OnlyOwn
        <5> QED
          BY <4>1, <4>5, <5>3, Zenon
      <4> HIDE DEF h
      <4>6. home'[other'[t]] = h
        BY <1>3, <4>3, Zenon
      <4>7. x # moving'[t] /\ x \notin dropping'[t] /\ rc'[x] = home'[other'[t]]
        BY <1>3, <4>2, <4>4, <4>6, Zenon
      <4>8. \A y \in Pointers : rc'[y] = home'[other'[t]] => home'[y] = t
        BY <4>5, <4>6, Zenon
      <4>9. /\ moving'[t] # Null /\ taking'[t] = Null /\ home'[moving'[t]] = t
            /\ other'[t] \in Pointers /\ other'[t] # moving'[t] /\ other'[t] \notin dropping'[t]
            /\ moving'[t] \in dropping'[t] \/ rc'[moving'[t]] = Null
        BY <1>3, <2>2, <3>1, <3>2, Zenon
      <4> QED
        BY <4>1, <4>6, <4>7, <4>8, <4>9, Zenon DEF MoveProtected
    <3> QED
      BY <3>3, <3>4, Zenon
  <2> QED
    BY <2>1, <2>2, Zenon
<1> QED
  BY <1>6, <1>7, Zenon

(* What a thread may copy or move is on the stack of no other one. *)
LEMMA SourceReached ==
    ASSUME NEW t \in Threads, NEW q \in Pointers, home[q] \in {t, "shared", "result"} \cup Counters
    PROVE  Reached(t, rc[q])
BY ReferencesAssumption DEF Reached

(* A thread that is not in a member function has nothing to protect. *)
LEMMA IdleProtected ==
    ASSUME References, NEW t \in Threads, Idle(t), taking'[t] = Null, moving'[t] = Null, other'[t] = other[t]
    PROVE  Protected(t)' /\ MoveProtected(t)'
<1>1. other[t] = Null
  BY Zenon DEF References, MovesProtected, MoveProtected, Idle
<1> QED
  BY <1>1, Zenon DEF Protected, MoveProtected

(* What an operation that deletes nothing leaves as it is. *)
LEMMA CountersKept ==
    ASSUME DeletedOnce, ZeroDeleted, UNCHANGED <<alive, count, deleting>>
    PROVE  DeletedOnce' /\ ZeroDeleted'
BY Zenon DEF DeletedOnce, ZeroDeleted

LEMMA CountsKept ==
    ASSUME ReferencesCounted, UNCHANGED <<alive, count, leaked>>,
           \A c \in alive : Cardinality(Counted(c))' = Cardinality(Counted(c))
    PROVE  ReferencesCounted'
BY Zenon DEF ReferencesCounted

(* A thread that is not in a member function copies to none of its pointers. *)
LEMMA IdleNotTaken ==
    ASSUME References, NEW t \in Threads, Idle(t), NEW p \in Pointers, home[p] \notin Threads \ {t}
    PROVE  \A u \in Threads : taking[u] # p
<1>1. taking[t] # p
  BY ReferencesAssumption, Zenon DEF Idle
<1> QED
  BY <1>1, NotTaken, Zenon DEF References

(* Constructing a pointer for a new counter keeps the invariant. *)
LEMMA ConstructStep ==
    ASSUME References, NEW t \in Threads, NEW p \in Pointers, NEW c \in Counters, Construct(t, p, c)
    PROVE  References'
<1> USE ReferencesAssumption
<1>1. /\ home[p] = "nowhere" /\ c \notin alive /\ Idle(t)
      /\ rc' = [rc EXCEPT ![p] = c] /\ home' = [home EXCEPT ![p] = t]
      /\ alive' = alive \cup {c} /\ count' = [count EXCEPT ![c] = 1] /\ leaked' = [leaked EXCEPT ![c] = 0]
      /\ taking' = taking /\ moving' = moving /\ other' = other /\ target' = target
      /\ dropping' = dropping /\ deleting' = deleting
  BY Zenon DEF Construct, NothingTaken
<1>2. TypeOK'
  BY <1>1, Zenon DEF References, TypeOK, Homes
<1>3. /\ rc[p] = Null /\ rc'[p] = c /\ home'[p] = t
      /\ \A x \in Pointers : x # p => rc'[x] = rc[x] /\ home'[x] = home[x]
  BY <1>1, Zenon DEF References, TypeOK, OwnPointers
<1>4. /\ count'[c] = 1 /\ leaked'[c] = 0
      /\ \A d \in alive : count'[d] = count[d] /\ leaked'[d] = leaked[d]
  BY <1>1, Zenon DEF References, TypeOK
<1>5. \A u \in Threads : taking[u] # p
  BY <1>1, IdleNotTaken, Zenon
<1>6. PointersAlive'
  BY <1>1, <1>3 DEF References, PointersAlive
<1>7. ReferencesCounted'
  <2>1. Counted(c)' = {p}
    BY <1>1, <1>3, <1>5 DEF Counted, References, PointersAlive
  <2>2. \A d \in alive : Counted(d)' = Counted(d)
    BY <1>1, <1>3, <1>5 DEF Counted, References, TypeOK
  <2>3. count'[c] = Cardinality(Counted(c)') + leaked'[c]
    BY <1>4, <2>1, FS_Singleton
  <2> QED
    BY <1>1, <1>4, <2>2, <2>3, Zenon DEF ReferencesCounted, References
<1>8. DeletedOnce'
  BY <1>1, <1>4, Zenon DEF References, DeletedOnce
<1>9. ZeroDeleted'
  BY <1>1, <1>4 DEF References, ZeroDeleted
<1>10. OwnPointers'
  BY <1>1, <1>3, <1>5 DEF References, OwnPointers, TypeOK
<1>11. CopiesProtected' /\ MovesProtected'
  <2>1. OnlyOwn(t)
    BY <1>1, <1>3, Zenon DEF OnlyOwn, Own, Movable, Reached
  <2>2. Protected(t)' /\ MoveProtected(t)'
    BY <1>1, IdleProtected, Zenon DEF Idle
  <2> QED
    BY <2>1, <2>2, OthersProtected, Zenon DEF References
<1> QED
  BY <1>2, <1>6, <1>7, <1>8, <1>9, <1>10, <1>11, Zenon DEF References

(* A copy that is not counted yet changes the references of no counter. *)
LEMMA TakenUncounted ==
    ASSUME References, NEW t \in Threads, NEW p \in Pointers, Idle(t),
           rc[p] = Null, taking' = [taking EXCEPT ![t] = p],
           \A x \in Pointers : x # p => rc'[x] = rc[x]
    PROVE  \A c \in alive : Counted(c)' = Counted(c)
<1>1. taking'[t] = p /\ \A u \in Threads : u # t => taking'[u] = taking[u]
  BY Zenon DEF References, TypeOK
<1>2. taking[t] = Null
  BY Zenon DEF Idle
<1> QED
  BY <1>1, <1>2, ReferencesAssumption DEF Counted, References, TypeOK

(* The first half of copying a pointer keeps the invariant. *)
LEMMA CopyConstructStep ==
    ASSUME References, NEW t \in Threads, NEW p \in Pointers, NEW q \in Pointers,
           NEW h \in Counters \cup {t}, CopyConstruct(t, p, q, h)
    PROVE  References'
<1> USE ReferencesAssumption
<1>1. /\ home[p] = "nowhere" /\ Idle(t) /\ Readable(t, q) /\ Constructible(t, rc[q], h)
      /\ rc' = [rc EXCEPT ![p] = rc[q]] /\ home' = [home EXCEPT ![p] = t]
      /\ alive' = alive /\ count' = count /\ leaked' = leaked
      /\ taking' = [taking EXCEPT ![t] = p] /\ moving' = moving
      /\ other' = [other EXCEPT ![t] = q]
      /\ target' = [target EXCEPT ![t] = h]
      /\ dropping' = dropping /\ deleting' = deleting
  BY Zenon DEF CopyConstruct, Take, Counting
<1>2. TypeOK'
  BY <1>1 DEF References, TypeOK, Homes
<1>3. /\ rc[p] = Null /\ rc'[p] = rc[q] /\ home'[p] = t
      /\ \A x \in Pointers : x # p => rc'[x] = rc[x] /\ home'[x] = home[x]
  BY <1>1, Zenon DEF References, TypeOK, OwnPointers
<1>4. /\ taking'[t] = p /\ other'[t] = q /\ target'[t] = h
      /\ \A u \in Threads : u # t => taking'[u] = taking[u] /\ other'[u] = other[u] /\ target'[u] = target[u]
  BY <1>1, Zenon DEF References, TypeOK
<1>5. p # q
  BY <1>1, Zenon DEF Readable
<1>6. PointersAlive'
  BY <1>1, <1>3 DEF References, PointersAlive
<1>7. ReferencesCounted'
  BY <1>1, <1>3, TakenUncounted, CountsKept, Zenon DEF References
<1>8. DeletedOnce' /\ ZeroDeleted'
  BY <1>1, CountersKept, Zenon DEF References
<1>9. OwnPointers'
  BY <1>1, <1>3, <1>4 DEF References, OwnPointers, TypeOK
<1>10. CopiesProtected' /\ MovesProtected'
  <2>1. OnlyOwn(t)
    <3>1. Own(t, p) /\ Reached(t, rc[q])
      BY <1>1, SourceReached, Zenon DEF Own, Readable
    <3> QED
      BY <1>1, <1>3, <1>4, <3>1, Zenon DEF OnlyOwn
  <2>2. \A c : Holds(t, c) => HoldsElsewhere(t, c)'
    BY <1>1, <1>3, <1>4 DEF Holds, HoldsElsewhere
  <2>3. home'[q] \in {t, "shared"} \/ (home'[q] \in Counters /\ HoldsElsewhere(t, home[q])')
    BY <1>1, <1>3, <1>5, <2>2, Zenon DEF Readable
  <2>4. home'[q] = home[q] /\ rc'[q] = rc'[p]
    BY <1>3, <1>5, Zenon
  <2>5. h # "nowhere" /\ (h \in Counters => HoldsElsewhere(t, h)')
    BY <1>1, <2>2, Zenon DEF Constructible, Exclusive
  <2>6. taking'[t] \notin dropping'[t]
    BY <1>1, Zenon DEF Idle
  <2>7. Protected(t)'
    BY <1>4, <1>5, <2>3, <2>4, <2>5, <2>6, Zenon DEF Protected, HoldsElsewhere
  <2>8. MoveProtected(t)'
    BY <1>1, <1>4, Zenon DEF MoveProtected, Idle
  <2> QED
    BY <2>1, <2>7, <2>8, OthersProtected, Zenon DEF References
<1> QED
  BY <1>2, <1>6, <1>7, <1>8, <1>9, <1>10, Zenon DEF References

(* A reference that is moved is still counted once. *)
LEMMA Moved ==
    ASSUME References, NEW p \in Pointers, NEW q \in Pointers, taking' = taking,
           rc[p] = Null, rc'[p] = rc[q], rc'[q] = Null, p # q,
           \A u \in Threads : taking[u] # p /\ taking[u] # q,
           \A x \in Pointers : x # p /\ x # q => rc'[x] = rc[x]
    PROVE  \A c \in alive : Cardinality(Counted(c))' = Cardinality(Counted(c))
<1> SUFFICES ASSUME NEW c \in alive
             PROVE  Cardinality(Counted(c))' = Cardinality(Counted(c))
  BY Zenon
<1>1. c # Null
  BY ReferencesAssumption DEF References, TypeOK
<1>2. CASE rc[q] = c
  <2>1. q \in Counted(c) /\ p \notin Counted(c)
    BY <1>1, <1>2, Zenon DEF Counted
  <2>2. Counted(c)' = (Counted(c) \ {q}) \cup {p}
    BY <1>1, <1>2, Zenon DEF Counted
  <2> QED
    BY <2>1, <2>2, CountedFinite, Replaced
<1>3. CASE rc[q] # c
  <2>1. Counted(c)' = Counted(c)
    BY <1>1, <1>3, Zenon DEF Counted
  <2> QED
    BY <2>1, Zenon
<1> QED
  BY <1>2, <1>3, Zenon

(* Moving a pointer to a new one keeps the invariant. *)
LEMMA MoveConstructStep ==
    ASSUME References, NEW t \in Threads, NEW p \in Pointers, NEW q \in Pointers,
           NEW h \in Counters \cup {t}, MoveConstruct(t, p, q, h)
    PROVE  References'
<1> USE ReferencesAssumption
<1>1. /\ home[p] = "nowhere" /\ Idle(t) /\ Movable(t, q) /\ Constructible(t, rc[q], h)
      /\ rc' = [rc EXCEPT ![p] = rc[q], ![q] = Null] /\ home' = [home EXCEPT ![p] = h]
      /\ alive' = alive /\ count' = count /\ leaked' = leaked
      /\ taking' = taking /\ moving' = moving /\ other' = other /\ target' = target
      /\ dropping' = dropping /\ deleting' = deleting
  BY Zenon DEF MoveConstruct, NothingTaken, Counting
<1>2. TypeOK'
  BY <1>1 DEF References, TypeOK, Homes
<1>3. /\ p # q /\ rc[p] = Null /\ rc'[p] = rc[q] /\ rc'[q] = Null /\ home'[p] = h /\ home'[q] = home[q]
      /\ \A x \in Pointers : x # p /\ x # q => rc'[x] = rc[x] /\ home'[x] = home[x]
  BY <1>1, ZenonT(30) DEF References, TypeOK, OwnPointers, Movable
<1>4. \A u \in Threads : taking[u] # p /\ taking[u] # q
  BY <1>1, IdleNotTaken, Zenon DEF Movable
<1>5. PointersAlive'
  <2>1. h = t \/ h \in alive
    BY <1>1, Zenon DEF Constructible
  <2>2. \A x \in Pointers : rc'[x] # Null => rc'[x] \in alive
    BY <1>3, Zenon DEF References, PointersAlive
  <2>3. \A x \in Pointers : home'[x] \in Counters => home'[x] \in alive
    BY <1>3, <2>1, Zenon DEF References, PointersAlive
  <2> QED
    BY <1>1, <2>2, <2>3, Zenon DEF PointersAlive
<1>6. ReferencesCounted'
  <2>1. \A x \in Pointers : x # p /\ x # q => rc'[x] = rc[x]
    BY <1>3, Zenon
  <2>2. taking' = taking /\ p # q /\ rc[p] = Null /\ rc'[p] = rc[q] /\ rc'[q] = Null
    BY <1>1, <1>3, Zenon
  <2> HIDE ReferencesAssumption
  <2>3. \A c \in alive : Cardinality(Counted(c))' = Cardinality(Counted(c))
    BY <1>4, <2>1, <2>2, Moved, Zenon
  <2> QED
    BY <1>1, <2>3, CountsKept, Zenon DEF References
<1>7. DeletedOnce' /\ ZeroDeleted'
  BY <1>1, CountersKept, Zenon DEF References
<1>8. OwnPointers'
  BY <1>1, <1>3, <1>4 DEF References, OwnPointers, TypeOK, Idle
<1>9. CopiesProtected' /\ MovesProtected'
  <2>1. OnlyOwn(t)
    BY <1>1, <1>3, Zenon DEF OnlyOwn, Own, Movable, Reached
  <2>2. Protected(t)' /\ MoveProtected(t)'
    BY <1>1, IdleProtected, Zenon DEF Idle
  <2> QED
    BY <2>1, <2>2, OthersProtected, Zenon DEF References
<1> QED
  BY <1>2, <1>5, <1>6, <1>7, <1>8, <1>9, Zenon DEF References

(* The first half of a copy assignment keeps the invariant: the old reference *)
(* is with the temporary.                                                     *)
LEMMA CopyAssignStep ==
    ASSUME References, NEW t \in Threads, NEW p \in Pointers, NEW q \in Pointers, NEW r \in Pointers,
           CopyAssign(t, p, q, r)
    PROVE  References'
<1> USE ReferencesAssumption
<1>1. /\ home[p] = t /\ Idle(t) /\ Readable(t, q) /\ p # q /\ home[r] = "nowhere"
      /\ rc' = [rc EXCEPT ![p] = rc[q], ![r] = rc[p]] /\ home' = [home EXCEPT ![r] = t]
      /\ alive' = alive /\ count' = count /\ leaked' = leaked
      /\ taking' = [taking EXCEPT ![t] = p] /\ moving' = moving
      /\ other' = [other EXCEPT ![t] = q]
      /\ target' = [target EXCEPT ![t] = t]
      /\ dropping' = [dropping EXCEPT ![t] = {r}] /\ deleting' = deleting
  BY Zenon DEF CopyAssign, Take, Counting
<1>2. TypeOK'
  BY <1>1 DEF References, TypeOK, Homes
<1>3. q # r /\ p # r
  BY <1>1, Zenon DEF Readable
<1>4. /\ rc[r] = Null /\ rc'[p] = rc[q] /\ rc'[r] = rc[p] /\ home'[p] = t /\ home'[r] = t
      /\ \A x \in Pointers : x # p /\ x # r => rc'[x] = rc[x] /\ home'[x] = home[x]
  BY <1>1, <1>3, ZenonT(30) DEF References, TypeOK, OwnPointers
<1>5. /\ taking'[t] = p /\ other'[t] = q /\ target'[t] = t /\ dropping'[t] = {r}
      /\ \A u \in Threads : u # t => /\ taking'[u] = taking[u] /\ other'[u] = other[u]
                                     /\ target'[u] = target[u] /\ dropping'[u] = dropping[u]
  BY <1>1, Zenon DEF References, TypeOK
<1>6. PointersAlive'
  <2>1. \A x \in Pointers : rc'[x] # Null => rc'[x] \in alive
    BY <1>4, Zenon DEF References, PointersAlive
  <2>2. \A x \in Pointers : home'[x] \in Counters => home'[x] \in alive
    BY <1>1, <1>4, Zenon DEF References, PointersAlive
  <2> QED
    BY <1>1, <2>1, <2>2, Zenon DEF PointersAlive
<1>7. ReferencesCounted'
  <2>1. \A u \in Threads : taking[u] # p /\ taking[u] # r
    BY <1>1, IdleNotTaken, Zenon
  <2>2. \A u \in Threads : u # t => taking'[u] # r
    BY <1>5, <2>1, Zenon
  <2>3. ASSUME NEW c \in alive
        PROVE  Cardinality(Counted(c))' = Cardinality(Counted(c))
    <3>1. c # Null
      BY ZenonT(30) DEF References, TypeOK
    <3>2. \A x \in Pointers : x # p =>
             ((\A u \in Threads : taking'[u] # x) <=> (\A u \in Threads : taking[u] # x))
      BY <1>1, <1>5 DEF Idle
    <3>3. CASE rc[p] = c
      <4>1. p \in Counted(c) /\ r \notin Counted(c)
        BY <1>4, <2>1, <3>1, <3>3, Zenon DEF Counted
      <4>2. Counted(c)' = (Counted(c) \ {p}) \cup {r}
        BY <1>3, <1>4, <1>5, <2>1, <3>2, <3>3 DEF Counted
      <4> QED
        BY <4>1, <4>2, CountedFinite, Replaced
    <3>4. CASE rc[p] # c
      <4>1. Counted(c)' = Counted(c)
        BY <1>4, <1>5, <3>1, <3>2, <3>4 DEF Counted
      <4> QED
        BY <4>1, Zenon
    <3> QED
      BY <3>3, <3>4, Zenon
  <2> QED
    BY <1>1, <2>3, CountsKept, Zenon DEF References
<1>8. DeletedOnce' /\ ZeroDeleted'
  BY <1>1, CountersKept, Zenon DEF References
<1>9. OwnPointers'
  <2>1. ASSUME NEW x \in Pointers, home'[x] = "nowhere" PROVE rc'[x] = Null
    <3>1. x # p /\ x # r
      BY <1>4, <2>1, Zenon
    <3>2. rc[x] = Null
      BY <1>4, <2>1, <3>1, Zenon DEF References, OwnPointers
    <3> QED
      BY <1>4, <3>1, <3>2, Zenon
  <2>2. \A u \in Threads : \A x \in dropping'[u] : home'[x] = u
    BY <1>1, <1>4, <1>5 DEF References, OwnPointers, TypeOK
  <2>3. \A u \in Threads : taking'[u] # Null => home'[taking'[u]] = u
    BY <1>1, <1>4, <1>5 DEF References, OwnPointers, TypeOK
  <2> QED
    BY <2>1, <2>2, <2>3, Zenon DEF OwnPointers
<1>10. CopiesProtected' /\ MovesProtected'
  <2>1. OnlyOwn(t)
    <3>1. Own(t, p) /\ Own(t, r) /\ Reached(t, rc[q]) /\ Reached(t, rc[p])
      BY <1>1, SourceReached, Zenon DEF Own, Movable, Readable
    <3> QED
      BY <1>1, <1>4, <1>5, <3>1, ZenonT(30) DEF OnlyOwn
  <2>2. ASSUME NEW c, Holds(t, c)
        PROVE  HoldsElsewhere(t, c)'
    <3>1. PICK x \in Pointers : rc[x] = c /\ home[x] \in {t, "shared"}
      BY <2>2, Zenon DEF Holds
    <3>2. CASE x = p
      BY <1>3, <1>4, <1>5, <3>1, <3>2, Zenon DEF HoldsElsewhere
    <3>3. CASE x # p
      <4>1. x # r
        BY <1>1, <3>1, Zenon
      <4> QED
        BY <1>4, <1>5, <3>1, <3>3, <4>1, Zenon DEF HoldsElsewhere
    <3> QED
      BY <3>2, <3>3, Zenon
  <2>3. home'[q] = home[q] /\ rc'[q] = rc'[p]
    BY <1>1, <1>3, <1>4, Zenon
  <2>4. home'[q] \in {t, "shared"} \/ (home'[q] \in Counters /\ HoldsElsewhere(t, home[q])')
    BY <1>1, <2>2, <2>3, Zenon DEF Readable
  <2>5. taking'[t] \notin dropping'[t]
    BY <1>3, <1>5, Zenon
  <2>6. Protected(t)'
    BY <1>1, <1>5, <2>3, <2>4, <2>5, ZenonT(30) DEF Protected, HoldsElsewhere
  <2>7. MoveProtected(t)'
    BY <1>1, <1>5, Zenon DEF MoveProtected, Idle
  <2> QED
    BY <2>1, <2>6, <2>7, OthersProtected, Zenon DEF References
<1> QED
  BY <1>2, <1>6, <1>7, <1>8, <1>9, <1>10, Zenon DEF References

(* The first half of a move assignment keeps the invariant: what keeps an   *)
(* element alive is not the destination, whose type is another one.         *)
LEMMA MoveAssignStep ==
    ASSUME References, NEW t \in Threads, NEW p \in Pointers, NEW q \in Pointers, MoveAssign(t, p, q)
    PROVE  References'
<1> USE ReferencesAssumption
<1>1. /\ home[p] = t /\ Idle(t) /\ Movable(t, q) /\ SameType(p, q) /\ p # q
      /\ rc' = rc /\ home' = home /\ alive' = alive /\ count' = count /\ leaked' = leaked
      /\ taking' = taking /\ moving' = [moving EXCEPT ![t] = p]
      /\ other' = [other EXCEPT ![t] = q] /\ target' = target
      /\ dropping' = [dropping EXCEPT ![t] = {p}] /\ deleting' = deleting
  BY Zenon DEF MoveAssign, Counting
<1>2. TypeOK'
  BY <1>1 DEF References, TypeOK, Homes
<1>3. /\ moving'[t] = p /\ other'[t] = q /\ dropping'[t] = {p}
      /\ \A u \in Threads : u # t => /\ moving'[u] = moving[u] /\ other'[u] = other[u]
                                     /\ dropping'[u] = dropping[u]
  BY <1>1, Zenon DEF References, TypeOK
<1>4. PointersAlive'
  BY <1>1, Zenon DEF References, PointersAlive
<1>5. ReferencesCounted'
  BY <1>1, Zenon DEF References, ReferencesCounted, Counted
<1>6. DeletedOnce' /\ ZeroDeleted'
  BY <1>1, CountersKept, Zenon DEF References
<1>7. OwnPointers'
  BY <1>1, <1>3 DEF References, OwnPointers, TypeOK
<1>8. CopiesProtected' /\ MovesProtected'
  <2>1. OnlyOwn(t)
    BY <1>1, <1>3, Zenon DEF OnlyOwn
  <2>2. Protected(t)'
    BY <1>1, Zenon DEF Protected, Idle
  <2>3. CASE home[q] = t
    <3>1. MoveProtected(t)'
      BY <1>1, <1>3, <2>3 DEF MoveProtected, Idle
    <3> QED
      BY <2>1, <2>2, <3>1, OthersProtected, Zenon DEF References
  <2>4. CASE home[q] # t
    <3>1. home[q] \in Counters /\ Exclusive(t, home[q])
      BY <1>1, <2>4, Zenon DEF Movable
    <3>2. PICK x \in Pointers : rc[x] = home[q]
      BY <3>1, Zenon DEF Exclusive, Holds
    <3>3. x # p
      <4>1. rc[p] = home[q] => Depth[rc[p]] < Depth[home[q]]
        BY <1>1, <3>1, Zenon DEF SameType
      <4>2. Depth[home[q]] \in Nat
        BY <3>1, DepthAssumption, Zenon
      <4> QED
        BY <3>2, <4>1, <4>2
    <3>4. MoveProtected(t)'
      BY <1>1, <1>3, <3>1, <3>2, <3>3 DEF MoveProtected, Idle, Exclusive
    <3> QED
      BY <2>1, <2>2, <3>4, OthersProtected, Zenon DEF References
  <2> QED
    BY <2>3, <2>4, Zenon
<1> QED
  BY <1>2, <1>4, <1>5, <1>6, <1>7, <1>8, Zenon DEF References

(* The second half of a move assignment keeps the invariant: the argument *)
(* still exists.                                                          *)
LEMMA TakeOverStep ==
    ASSUME References, NEW t \in Threads, TakeOver(t)
    PROVE  References'
<1> USE ReferencesAssumption
<1> DEFINE p == moving[t]
           q == other[t]
<1>1. /\ p # Null /\ dropping[t] = {} /\ rc' = [rc EXCEPT ![p] = rc[q], ![q] = Null] /\ home' = home
      /\ alive' = alive /\ count' = count /\ leaked' = leaked
      /\ taking' = taking /\ moving' = [moving EXCEPT ![t] = Null]
      /\ other' = [other EXCEPT ![t] = Null] /\ target' = target
      /\ dropping' = dropping /\ deleting' = deleting
  BY Zenon DEF TakeOver, Counting
<1>2. p \in Pointers /\ q \in Pointers /\ p # q /\ taking[t] = Null /\ home[p] = t /\ rc[p] = Null
  <2>1. MoveProtected(t) /\ p \in Pointers
    BY <1>1, Zenon DEF References, TypeOK, MovesProtected
  <2> QED
    BY <1>1, <2>1 DEF MoveProtected
<1>3. Movable(t, q)
  <2>1. \/ home[q] = t
        \/ /\ home[q] \in Counters
           /\ \A x \in Pointers : rc[x] = home[q] => home[x] = t
           /\ \E x \in Pointers : rc[x] = home[q]
    BY <1>1, ZenonT(30) DEF References, MovesProtected, MoveProtected
  <2> QED
    BY <2>1, Zenon DEF Movable, Exclusive, Holds
<1>4. /\ moving'[t] = Null /\ other'[t] = Null
      /\ \A u \in Threads : u # t => moving'[u] = moving[u] /\ other'[u] = other[u]
  BY <1>1, Zenon DEF References, TypeOK
<1> HIDE DEF p, q
<1>5. TypeOK'
  BY <1>1, <1>2, Zenon DEF References, TypeOK, Homes
<1>6. /\ rc'[p] = rc[q] /\ rc'[q] = Null
      /\ \A x \in Pointers : x # p /\ x # q => rc'[x] = rc[x]
  BY <1>1, <1>2, Zenon DEF References, TypeOK
<1>7. PointersAlive'
  <2>1. ASSUME NEW x \in Pointers, rc'[x] # Null
        PROVE  rc'[x] \in alive
    BY <1>2, <1>6, <2>1 DEF References, PointersAlive
  <2> QED
    BY <1>1, <2>1, Zenon DEF References, PointersAlive
<1>8. ReferencesCounted'
  <2>1. \A u \in Threads : taking[u] # p
    BY <1>2, NotTaken, Zenon DEF References
  <2>2. \A u \in Threads : taking[u] # q
    BY <1>2, <1>3, NotTaken, Zenon DEF References, Movable
  <2>3. /\ p \in Pointers /\ q \in Pointers /\ taking' = taking
        /\ p # q /\ rc[p] = Null /\ rc'[p] = rc[q] /\ rc'[q] = Null
    BY <1>1, <1>2, <1>6, Zenon
  <2>4. \A x \in Pointers : x # p /\ x # q => rc'[x] = rc[x]
    BY <1>6, Zenon
  <2> HIDE ReferencesAssumption
  <2>5. \A c \in alive : Cardinality(Counted(c))' = Cardinality(Counted(c))
    BY <2>1, <2>2, <2>3, <2>4, Moved, Zenon
  <2> QED
    BY <1>1, <2>5, CountsKept, Zenon DEF References
<1>9. DeletedOnce' /\ ZeroDeleted'
  BY <1>1, CountersKept, Zenon DEF References
<1>10. OwnPointers'
  BY <1>1, <1>2, <1>6, Zenon DEF References, OwnPointers, TypeOK
<1>11. CopiesProtected' /\ MovesProtected'
  <2>1. \A x \in Pointers : \/ rc'[x] = rc[x] /\ home'[x] = home[x]
                            \/ Movable(t, x) /\ (rc'[x] \in alive => Reached(t, rc'[x]))
    <3>1. Reached(t, rc[q])
      BY <1>2, <1>3, SourceReached, Zenon DEF Movable
    <3>2. Movable(t, p) /\ Null \notin alive
      BY <1>2, Zenon DEF Movable, References, TypeOK
    <3> QED
      BY <1>1, <1>3, <1>6, <3>1, <3>2, Zenon
  <2>2. OnlyOwn(t)
    BY <1>1, <1>4, <2>1, Zenon DEF OnlyOwn, Own
  <2>3. Protected(t)' /\ MoveProtected(t)'
    BY <1>1, <1>2, <1>4, Zenon DEF Protected, MoveProtected
  <2> QED
    BY <2>2, <2>3, OthersProtected, Zenon DEF References
<1> QED
  BY <1>5, <1>7, <1>8, <1>9, <1>10, <1>11, Zenon DEF References

(* A move assignment between pointers to the same memory keeps the invariant: *)
(* the reference that it loses is in leaked.                                  *)
LEMMA MoveAssignAliasStep ==
    ASSUME References, NEW t \in Threads, NEW p \in Pointers, NEW q \in Pointers, MoveAssignAlias(t, p, q)
    PROVE  References'
<1> USE ReferencesAssumption
<1>1. /\ home[p] = t /\ Idle(t) /\ Movable(t, q) /\ p # q /\ rc[p] # Null
      /\ rc' = [rc EXCEPT ![p] = rc[q], ![q] = Null] /\ home' = home
      /\ alive' = alive /\ count' = count /\ leaked' = [leaked EXCEPT ![rc[p]] = @ + 1]
      /\ taking' = taking /\ moving' = moving /\ other' = other /\ target' = target
      /\ dropping' = dropping /\ deleting' = deleting
  BY Zenon DEF MoveAssignAlias, NothingTaken, Counting
<1>2. TypeOK'
  BY <1>1 DEF References, TypeOK, Homes
<1>3. /\ rc'[p] = rc[q] /\ rc'[q] = Null
      /\ \A x \in Pointers : x # p /\ x # q => rc'[x] = rc[x]
  BY <1>1, Zenon DEF References, TypeOK, OwnPointers
<1>4. PointersAlive'
  <2>1. \A x \in Pointers : rc'[x] # Null => rc'[x] \in alive
    BY <1>3, Zenon DEF References, PointersAlive
  <2> QED
    BY <1>1, <2>1, Zenon DEF References, PointersAlive
<1>5. ReferencesCounted'
  <2>1. \A u \in Threads : taking[u] # p /\ taking[u] # q
    BY <1>1, IdleNotTaken, Zenon DEF Movable
  <2>2. ASSUME NEW c \in alive
        PROVE  count'[c] = Cardinality(Counted(c)') + leaked'[c]
    <3>1. c # Null /\ c \in Counters /\ leaked[c] \in Nat
      BY Zenon DEF References, TypeOK
    <3>2. count'[c] = Cardinality(Counted(c)) + leaked[c]
      BY <1>1, Zenon DEF References, ReferencesCounted
    <3>3. IsFiniteSet(Counted(c)) /\ Cardinality(Counted(c)) \in Nat
      BY CountedFinite, Zenon
    <3>4. CASE rc[p] = c
      <4>1. leaked'[c] = leaked[c] + 1
        BY <1>1, <3>1, <3>4, Zenon DEF References, TypeOK
      <4>2. p \in Counted(c)
        BY <2>1, <3>4, Zenon DEF Counted
      <4>3. CASE rc[q] = c
        <5>1. q \in Counted(c)
          BY <2>1, <4>3, Zenon DEF Counted
        <5>2. Counted(c)' = Counted(c) \ {q}
          BY <1>1, <1>3, <2>1, <3>1, <3>4, <4>3, Zenon DEF Counted
        <5>3. Cardinality(Counted(c)') = Cardinality(Counted(c)) - 1
          BY <3>3, <5>1, <5>2, FS_RemoveElement, Zenon
        <5> QED
          BY <3>1, <3>2, <3>3, <4>1, <5>3
      <4>4. CASE rc[q] # c
        <5>1. Counted(c)' = Counted(c) \ {p}
          BY <1>1, <1>3, <2>1, <3>1, <3>4, <4>4, Zenon DEF Counted
        <5>2. Cardinality(Counted(c)') = Cardinality(Counted(c)) - 1
          BY <3>3, <4>2, <5>1, FS_RemoveElement, Zenon
        <5> QED
          BY <3>1, <3>2, <3>3, <4>1, <5>2
      <4> QED
        BY <4>3, <4>4, Zenon
    <3>5. CASE rc[p] # c /\ rc[q] = c
      <4>1. leaked'[c] = leaked[c]
        BY <1>1, <3>1, <3>5, Zenon DEF References, TypeOK
      <4>2. q \in Counted(c) /\ p \notin Counted(c)
        BY <2>1, <3>5, Zenon DEF Counted
      <4>3. Counted(c)' = (Counted(c) \ {q}) \cup {p}
        BY <1>1, <1>3, <2>1, <3>1, <3>5, Zenon DEF Counted
      <4> QED
        BY <3>2, <3>3, <4>1, <4>2, <4>3, Replaced
    <3>6. CASE rc[p] # c /\ rc[q] # c
      <4>1. leaked'[c] = leaked[c]
        BY <1>1, <3>1, <3>6, Zenon DEF References, TypeOK
      <4>2. Counted(c)' = Counted(c)
        BY <1>1, <1>3, <3>1, <3>6, Zenon DEF Counted
      <4> QED
        BY <3>2, <4>1, <4>2, Zenon
    <3> QED
      BY <3>4, <3>5, <3>6, Zenon
  <2> QED
    BY <1>1, <2>2, Zenon DEF ReferencesCounted
<1>6. DeletedOnce' /\ ZeroDeleted'
  BY <1>1, CountersKept, Zenon DEF References
<1>7. OwnPointers'
  BY <1>1, <1>3, Zenon DEF References, OwnPointers, TypeOK
<1>8. CopiesProtected' /\ MovesProtected'
  <2>1. OnlyOwn(t)
    <3>1. Own(t, p) /\ Own(t, q) /\ Reached(t, rc[q])
      BY <1>1, SourceReached, Zenon DEF Own, Movable
    <3>2. Null \notin alive
      BY Zenon DEF References, TypeOK
    <3> QED
      BY <1>1, <1>3, <3>1, <3>2, Zenon DEF OnlyOwn
  <2>2. Protected(t)' /\ MoveProtected(t)'
    BY <1>1, IdleProtected, Zenon DEF Idle
  <2> QED
    BY <2>1, <2>2, OthersProtected, Zenon DEF References
<1> QED
  BY <1>2, <1>4, <1>5, <1>6, <1>7, <1>8, Zenon DEF References

(* Starting to destroy a pointer keeps the invariant. *)
LEMMA DestroyStep ==
    ASSUME References, NEW t \in Threads, NEW p \in Pointers, Destroy(t, p)
    PROVE  References'
<1> USE ReferencesAssumption
<1>1. /\ home[p] = t /\ Idle(t) /\ rc' = rc /\ home' = home
      /\ alive' = alive /\ count' = count /\ leaked' = leaked
      /\ taking' = taking /\ moving' = moving /\ other' = other /\ target' = target
      /\ dropping' = [dropping EXCEPT ![t] = {p}] /\ deleting' = deleting
  BY Zenon DEF Destroy, NothingTaken, Counting
<1>2. TypeOK'
  BY <1>1 DEF References, TypeOK, Homes
<1>3. dropping'[t] = {p} /\ \A u \in Threads : u # t => dropping'[u] = dropping[u]
  BY <1>1, Zenon DEF References, TypeOK
<1>4. PointersAlive'
  BY <1>1, Zenon DEF References, PointersAlive
<1>5. ReferencesCounted'
  BY <1>1, Zenon DEF References, ReferencesCounted, Counted
<1>6. DeletedOnce' /\ ZeroDeleted'
  BY <1>1, CountersKept, Zenon DEF References
<1>7. OwnPointers'
  BY <1>1, <1>3 DEF References, OwnPointers, TypeOK
<1>8. CopiesProtected' /\ MovesProtected'
  <2>1. OnlyOwn(t)
    BY <1>1, <1>3, Zenon DEF OnlyOwn, Own, Movable, Reached
  <2>2. Protected(t)' /\ MoveProtected(t)'
    BY <1>1, IdleProtected, Zenon DEF Idle
  <2> QED
    BY <2>1, <2>2, OthersProtected, Zenon DEF References
<1> QED
  BY <1>2, <1>4, <1>5, <1>6, <1>7, <1>8, Zenon DEF References

(* The first half of handing a result to Python keeps the invariant. *)
LEMMA ExecutePlanStep ==
    ASSUME References, NEW t \in Threads, NEW q \in Pointers, NEW r \in Pointers, ExecutePlan(t, q, r)
    PROVE  References'
<1> USE ReferencesAssumption
<1>1. /\ home[r] = "nowhere" /\ Idle(t) /\ home[q] = t /\ r # q
      /\ rc' = [rc EXCEPT ![r] = rc[q]] /\ home' = [home EXCEPT ![r] = t]
      /\ alive' = alive /\ count' = count /\ leaked' = leaked
      /\ taking' = [taking EXCEPT ![t] = r] /\ moving' = moving
      /\ other' = [other EXCEPT ![t] = q]
      /\ target' = [target EXCEPT ![t] = "result"]
      /\ dropping' = dropping /\ deleting' = deleting
  BY Zenon DEF ExecutePlan, Take, Counting
<1>2. TypeOK'
  BY <1>1, Zenon DEF References, TypeOK, Homes
<1>3. /\ rc[r] = Null /\ rc'[r] = rc[q] /\ home'[r] = t
      /\ \A x \in Pointers : x # r => rc'[x] = rc[x] /\ home'[x] = home[x]
  BY <1>1, Zenon DEF References, TypeOK, OwnPointers
<1>4. /\ taking'[t] = r /\ other'[t] = q /\ target'[t] = "result"
      /\ \A u \in Threads : u # t => taking'[u] = taking[u] /\ other'[u] = other[u] /\ target'[u] = target[u]
  BY <1>1, Zenon DEF References, TypeOK
<1>5. PointersAlive'
  BY <1>1, <1>3 DEF References, PointersAlive
<1>6. ReferencesCounted'
  <2>1. \A c \in alive : Counted(c)' = Counted(c)
    BY <1>1, <1>3, TakenUncounted, ZenonT(30)
  <2>2. \A c \in alive : Cardinality(Counted(c))' = Cardinality(Counted(c))
    BY <2>1, Zenon
  <2> QED
    BY <1>1, <2>2, CountsKept, Zenon DEF References
<1>7. DeletedOnce' /\ ZeroDeleted'
  BY <1>1, CountersKept, Zenon DEF References
<1>8. OwnPointers'
  BY <1>1, <1>3, <1>4 DEF References, OwnPointers, TypeOK
<1>9. CopiesProtected' /\ MovesProtected'
  <2>1. OnlyOwn(t)
    BY <1>1, <1>3, <1>4, Zenon DEF OnlyOwn, Own, Movable, Reached
  <2>2. home'[q] = t /\ rc'[q] = rc'[r]
    BY <1>1, <1>3, Zenon
  <2>3. taking'[t] \notin dropping'[t]
    BY <1>1, Zenon DEF Idle
  <2>4. Protected(t)'
    BY <1>1, <1>4, <2>2, <2>3, Zenon DEF Protected
  <2>5. MoveProtected(t)'
    BY <1>1, <1>4, ZenonT(30) DEF MoveProtected, Idle
  <2> QED
    BY <2>1, <2>4, <2>5, OthersProtected, Zenon DEF References
<1> QED
  BY <1>2, <1>5, <1>6, <1>7, <1>8, <1>9, Zenon DEF References

(* Taking a result back from Python keeps the invariant: its reference stays *)
(* until the pointer that was parsed is counted.                             *)
LEMMA FreeResultStep ==
    ASSUME References, NEW t \in Threads, NEW p \in Pointers, NEW r \in Pointers, FreeResult(t, p, r)
    PROVE  References'
<1> USE ReferencesAssumption
<1>1. /\ home[p] = "nowhere" /\ Idle(t) /\ home[r] = "result" /\ r # p
      /\ rc' = [rc EXCEPT ![p] = rc[r]] /\ home' = [home EXCEPT ![p] = t, ![r] = t]
      /\ alive' = alive /\ count' = count /\ leaked' = leaked
      /\ taking' = [taking EXCEPT ![t] = p] /\ moving' = moving
      /\ other' = [other EXCEPT ![t] = r]
      /\ target' = [target EXCEPT ![t] = t]
      /\ dropping' = [dropping EXCEPT ![t] = {p, r}] /\ deleting' = deleting
  BY Zenon DEF FreeResult, Take, Counting
<1>2. TypeOK'
  BY <1>1 DEF References, TypeOK, Homes
<1>3. /\ rc[p] = Null /\ rc'[p] = rc[r] /\ home'[p] = t /\ home'[r] = t
      /\ \A x \in Pointers : x # p => rc'[x] = rc[x]
      /\ \A x \in Pointers : x # p /\ x # r => home'[x] = home[x]
  BY <1>1, Zenon DEF References, TypeOK, OwnPointers
<1>4. /\ taking'[t] = p /\ other'[t] = r /\ target'[t] = t /\ dropping'[t] = {p, r}
      /\ \A u \in Threads : u # t => /\ taking'[u] = taking[u] /\ other'[u] = other[u]
                                     /\ target'[u] = target[u] /\ dropping'[u] = dropping[u]
  BY <1>1, Zenon DEF References, TypeOK
<1>5. PointersAlive'
  <2>1. \A x \in Pointers : rc'[x] # Null => rc'[x] \in alive
    BY <1>3, Zenon DEF References, PointersAlive
  <2>2. \A x \in Pointers : home'[x] \in Counters => home'[x] \in alive
    BY <1>1, <1>3, Zenon DEF References, PointersAlive
  <2> QED
    BY <1>1, <2>1, <2>2, Zenon DEF PointersAlive
<1>6. ReferencesCounted'
  BY <1>1, <1>3, TakenUncounted, CountsKept, Zenon DEF References
<1>7. DeletedOnce' /\ ZeroDeleted'
  BY <1>1, CountersKept, Zenon DEF References
<1>8. OwnPointers'
  <2>1. \A x \in Pointers : home'[x] = "nowhere" => rc'[x] = Null
    BY <1>1, <1>3 DEF References, OwnPointers
  <2>2. \A u \in Threads : \A x \in dropping'[u] : home'[x] = u
    BY <1>1, <1>3, <1>4 DEF References, OwnPointers, TypeOK
  <2>3. \A u \in Threads : taking'[u] # Null => home'[taking'[u]] = u
    BY <1>1, <1>3, <1>4 DEF References, OwnPointers, TypeOK
  <2> QED
    BY <2>1, <2>2, <2>3, Zenon DEF OwnPointers
<1>9. CopiesProtected' /\ MovesProtected'
  <2>1. OnlyOwn(t)
    <3>1. Own(t, p) /\ Own(t, r) /\ Reached(t, rc'[p]) /\ Reached(t, rc'[r])
      BY <1>1, <1>3, SourceReached, Zenon DEF Own
    <3> QED
      BY <1>1, <1>3, <1>4, <3>1, Zenon DEF OnlyOwn
  <2>2. home'[r] = t /\ rc'[r] = rc'[p]
    BY <1>1, <1>3, Zenon
  <2>3. Protected(t)'
    BY <1>1, <1>4, <2>2, Zenon DEF Protected
  <2>4. MoveProtected(t)'
    BY <1>1, <1>4, Zenon DEF MoveProtected, Idle
  <2> QED
    BY <2>1, <2>3, <2>4, OthersProtected, Zenon DEF References
<1> QED
  BY <1>2, <1>5, <1>6, <1>7, <1>8, <1>9, Zenon DEF References

(* Letting other threads read a pointer keeps the invariant. *)
LEMMA ShareStep ==
    ASSUME References, NEW t \in Threads, NEW p \in Pointers, Share(t, p)
    PROVE  References'
<1> USE ReferencesAssumption
<1>1. /\ home[p] = t /\ Idle(t) /\ rc' = rc /\ home' = [home EXCEPT ![p] = "shared"]
      /\ alive' = alive /\ count' = count /\ leaked' = leaked
      /\ taking' = taking /\ moving' = moving /\ other' = other /\ target' = target
      /\ dropping' = dropping /\ deleting' = deleting
  BY Zenon DEF Share, NothingTaken, Counting
<1>2. TypeOK'
  BY <1>1, Zenon DEF References, TypeOK, Homes
<1>3. home'[p] = "shared" /\ \A x \in Pointers : x # p => home'[x] = home[x]
  BY <1>1, Zenon DEF References, TypeOK
<1>4. PointersAlive'
  BY <1>1, <1>3 DEF References, PointersAlive
<1>5. ReferencesCounted'
  BY <1>1, Zenon DEF References, ReferencesCounted, Counted
<1>6. DeletedOnce' /\ ZeroDeleted'
  BY <1>1, CountersKept, Zenon DEF References
<1>7. OwnPointers'
  BY <1>1, <1>3 DEF References, OwnPointers, TypeOK, Idle
<1>8. CopiesProtected' /\ MovesProtected'
  <2>1. OnlyOwn(t)
    BY <1>1, <1>3, Zenon DEF OnlyOwn, Own, Movable, Reached
  <2>2. Protected(t)' /\ MoveProtected(t)'
    BY <1>1, IdleProtected, Zenon DEF Idle
  <2> QED
    BY <2>1, <2>2, OthersProtected, Zenon DEF References
<1> QED
  BY <1>2, <1>4, <1>5, <1>6, <1>7, <1>8, Zenon DEF References

(* Taking a shared pointer back when all threads have joined keeps the *)
(* invariant.                                                          *)
LEMMA UnshareStep ==
    ASSUME References, NEW t \in Threads, NEW p \in Pointers, Unshare(t, p)
    PROVE  References'
<1> USE ReferencesAssumption
<1>1. /\ home[p] = "shared" /\ (\A u \in Threads : Idle(u)) /\ rc' = rc /\ home' = [home EXCEPT ![p] = t]
      /\ alive' = alive /\ count' = count /\ leaked' = leaked
      /\ taking' = taking /\ moving' = moving /\ other' = other /\ target' = target
      /\ dropping' = dropping /\ deleting' = deleting
  BY Zenon DEF Unshare, NothingTaken, Counting
<1>2. TypeOK'
  BY <1>1, Zenon DEF References, TypeOK, Homes
<1>3. home'[p] = t /\ \A x \in Pointers : x # p => home'[x] = home[x]
  BY <1>1, Zenon DEF References, TypeOK
<1>4. PointersAlive'
  BY <1>1, <1>3 DEF References, PointersAlive
<1>5. ReferencesCounted'
  BY <1>1, Zenon DEF References, ReferencesCounted, Counted
<1>6. DeletedOnce' /\ ZeroDeleted'
  BY <1>1, CountersKept, Zenon DEF References
<1>7. OwnPointers'
  BY <1>1, <1>3, Zenon DEF References, OwnPointers, TypeOK, Idle
<1>8. CopiesProtected' /\ MovesProtected'
  BY <1>1, IdleProtected, Zenon DEF CopiesProtected, MovesProtected, Idle
<1> QED
  BY <1>2, <1>4, <1>5, <1>6, <1>7, <1>8, Zenon DEF References

----------------------------------------------------------------------------
(* Counting a copy keeps the invariant: its counter still exists, because *)
(* the pointer it was copied from is counted.                             *)
LEMMA IncrementStep ==
    ASSUME References, NEW t \in Threads, Increment(t)
    PROVE  References'
<1> USE ReferencesAssumption
<1> DEFINE p == taking[t]
<1>1. /\ p # Null
      /\ IF rc[p] = Null THEN count' = count ELSE count' = [count EXCEPT ![rc[p]] = @ + 1]
      /\ rc' = rc /\ home' = [home EXCEPT ![p] = target[t]]
      /\ alive' = alive /\ leaked' = leaked
      /\ taking' = [taking EXCEPT ![t] = Null] /\ moving' = moving
      /\ other' = [other EXCEPT ![t] = Null]
      /\ target' = [target EXCEPT ![t] = "nowhere"]
      /\ dropping' = dropping /\ deleting' = deleting
  BY Zenon DEF Increment, Take
<1>2. p \in Pointers /\ home[p] = t /\ \A u \in Threads : u # t => taking[u] # p
  BY <1>1 DEF References, TypeOK, OwnPointers
<1>3. /\ target[t] \in Homes /\ target[t] # "nowhere"
      /\ target[t] \in Counters => HoldsElsewhere(t, target[t])
      /\ p \in dropping[t] => target[t] = t
      /\ Counted(rc[p]) # {}
  BY <1>1, OtherCounted, Zenon DEF References, CopiesProtected, Protected, TypeOK
<1>4. rc[p] # Null => rc[p] \in alive /\ rc[p] \in Counters
  BY <1>2, Zenon DEF References, PointersAlive, TypeOK
<1>5. TypeOK'
  <2>1. count' \in [Counters -> Nat]
    BY <1>1, <1>4 DEF References, TypeOK
  <2> HIDE DEF p
  <2> QED
    BY <1>1, <1>2, <1>3, <2>1, Zenon DEF References, TypeOK, Homes
<1>6. home'[p] = target[t] /\ \A x \in Pointers : x # p => home'[x] = home[x]
  BY <1>1, <1>2, Zenon DEF References, TypeOK
<1>7. /\ taking'[t] = Null /\ other'[t] = Null
      /\ \A u \in Threads : u # t => taking'[u] = taking[u] /\ other'[u] = other[u] /\ target'[u] = target[u]
  BY <1>1, Zenon DEF References, TypeOK
<1>8. \A c \in alive : count'[c] = IF c = rc[p] THEN count[c] + 1 ELSE count[c]
  BY <1>1, <1>4 DEF References, TypeOK
<1> HIDE DEF p
<1>9. PointersAlive'
  <2>1. target[t] \in Counters => target[t] \in alive
    BY <1>3, Zenon DEF HoldsElsewhere, References, PointersAlive
  <2> QED
    BY <1>1, <1>2, <1>6, <2>1 DEF References, PointersAlive
<1>10. ReferencesCounted'
  <2>1. ASSUME NEW c \in alive
        PROVE  count'[c] = Cardinality(Counted(c)') + leaked'[c]
    <3>1. c # Null /\ leaked[c] \in Nat /\ leaked'[c] = leaked[c] /\ count[c] \in Nat
      BY <1>1, ZenonT(30) DEF References, TypeOK
    <3>2. count[c] = Cardinality(Counted(c)) + leaked[c]
      BY Zenon DEF References, ReferencesCounted
    <3>3. IsFiniteSet(Counted(c)) /\ Cardinality(Counted(c)) \in Nat
      BY CountedFinite, Zenon
    <3>4. CASE c = rc[p]
      <4>1. p \notin Counted(c)
        BY Zenon DEF Counted, p
      <4>2. Counted(c)' = Counted(c) \cup {p}
        BY <1>1, <1>2, <1>7, <3>4 DEF Counted, p
      <4>3. Cardinality(Counted(c)') = Cardinality(Counted(c)) + 1
        BY <3>3, <4>1, <4>2, FS_AddElement, Zenon
      <4> QED
        BY <1>8, <3>1, <3>2, <3>3, <3>4, <4>3
    <3>5. CASE c # rc[p]
      <4>1. Counted(c)' = Counted(c)
        BY <1>1, <1>2, <1>7, <3>5 DEF Counted, p
      <4> QED
        BY <1>8, <3>1, <3>2, <3>5, <4>1, Zenon
    <3> QED
      BY <3>4, <3>5, Zenon
  <2> QED
    BY <1>1, <2>1, Zenon DEF ReferencesCounted
<1>11. rc[p] \in alive => count[rc[p]] # 0
  BY <1>3, ZeroUnreferenced, Zenon
<1>12. DeletedOnce'
  BY <1>1, <1>4, <1>8, <1>11, Zenon DEF References, DeletedOnce
<1>13. ZeroDeleted'
  <2>1. ASSUME NEW c \in alive, count'[c] = 0
        PROVE  count[c] = 0
    BY <1>8, <2>1 DEF References, TypeOK
  <2> QED
    BY <1>1, <2>1, Zenon DEF References, ZeroDeleted
<1>14. OwnPointers'
  <2>1. \A x \in Pointers : home'[x] = "nowhere" => rc'[x] = Null
    BY <1>1, <1>3, <1>6, Zenon DEF References, OwnPointers
  <2>2. \A u \in Threads : \A x \in dropping'[u] : home'[x] = u
    BY <1>1, <1>2, <1>3, <1>6, SMTT(20) DEF References, OwnPointers, TypeOK
  <2>3. \A u \in Threads : taking'[u] # Null => home'[taking'[u]] = u
    BY <1>1, <1>2, <1>6, <1>7 DEF References, OwnPointers, TypeOK
  <2> QED
    BY <2>1, <2>2, <2>3, Zenon DEF OwnPointers
<1>15. CopiesProtected' /\ MovesProtected'
  <2>1. OnlyOwn(t)
    <3>1. Own(t, p) /\ Reached(t, rc[p])
      BY <1>2, SourceReached, Zenon DEF Own, Movable
    <3> QED
      BY <1>1, <1>2, <1>6, <1>7, <3>1, Zenon DEF OnlyOwn
  <2>2. moving[t] = Null
    BY <1>1, Zenon DEF p, References, MovesProtected, MoveProtected
  <2>3. Protected(t)' /\ MoveProtected(t)'
    BY <1>1, <1>7, <2>2, Zenon DEF Protected, MoveProtected
  <2> QED
    BY <2>1, <2>3, OthersProtected, Zenon DEF References
<1> QED
  BY <1>5, <1>9, <1>10, <1>12, <1>13, <1>14, <1>15, Zenon DEF References

(* Giving up one of the pointers that a thread drops leaves the argument of *)
(* its move assignment protected.                                           *)
LEMMA DroppedProtected ==
    ASSUME References, NEW t \in Threads, NEW p \in dropping[t], taking[t] = Null,
           taking' = taking, moving' = moving, other' = other, dropping'[t] = dropping[t] \ {p},
           rc'[p] = Null, home'[p] = HomeDropped(t, p),
           \A x \in Pointers : x # p => rc'[x] = rc[x] /\ home'[x] = home[x]
    PROVE  MoveProtected(t)'
<1>1. MoveProtected(t)
  BY Zenon DEF References, MovesProtected
<1>2. CASE moving[t] = Null
  BY <1>1, <1>2, Zenon DEF MoveProtected
<1>3. CASE moving[t] # Null
  <2> DEFINE q == other[t]
  <2>1. /\ q \in Pointers /\ q # moving[t] /\ q \notin dropping[t] /\ moving[t] \in Pointers
        /\ home[moving[t]] = t /\ (moving[t] \in dropping[t] \/ rc[moving[t]] = Null)
    BY <1>1, <1>3, Zenon DEF MoveProtected, References, TypeOK
  <2>2. home'[q] = home[q]
    BY <2>1, Zenon
  <2>3. home'[moving[t]] = t /\ (moving[t] \in dropping'[t] \/ rc'[moving[t]] = Null)
    BY <2>1, Zenon DEF HomeDropped
  <2>4. ASSUME home[q] # t
        PROVE  /\ home[q] \in Counters
               /\ \A x \in Pointers : rc'[x] = home[q] => home'[x] = t
               /\ \E x \in Pointers : x # moving[t] /\ x \notin dropping'[t] /\ rc'[x] = home[q]
    <3>1. home[q] \in Counters /\ \A x \in Pointers : rc[x] = home[q] => home[x] = t
      BY <1>1, <1>3, <2>4, Zenon DEF MoveProtected
    <3>2. PICK x \in Pointers : x # moving[t] /\ x \notin dropping[t] /\ rc[x] = home[q]
      BY <1>1, <1>3, <2>4, Zenon DEF MoveProtected
    <3>3. x # p /\ x \notin dropping'[t]
      BY <3>2, Zenon
    <3>4. home[q] # Null
      BY <3>1, ReferencesAssumption, Zenon
    <3> QED
      BY <3>1, <3>2, <3>3, <3>4, Zenon
  <2> HIDE DEF q
  <2> QED
    BY <1>3, <2>1, <2>2, <2>3, <2>4, Zenon DEF MoveProtected, q
<1> QED
  BY <1>2, <1>3, Zenon

(* Removing a reference keeps the invariant: it was counted, and if it was *)
(* the last one, no other thread is about to delete the counter.           *)
LEMMA DecrementStep ==
    ASSUME References, NEW t \in Threads, NEW p \in Pointers, Decrement(t, p)
    PROVE  References'
<1> USE ReferencesAssumption
<1> DEFINE d == rc[p]
<1>1. /\ taking[t] = Null /\ deleting[t] = Null /\ p \in dropping[t] /\ d # Null
      /\ count' = [count EXCEPT ![d] = @ - 1]
      /\ deleting' = [deleting EXCEPT ![t] = IF count[d] = 1 THEN d ELSE Null]
      /\ rc' = [rc EXCEPT ![p] = Null] /\ home' = [home EXCEPT ![p] = HomeDropped(t, p)]
      /\ dropping' = [dropping EXCEPT ![t] = @ \ {p}]
      /\ taking' = taking /\ moving' = moving /\ other' = other /\ target' = target
      /\ alive' = alive /\ leaked' = leaked
  BY Zenon DEF Decrement, NothingTaken
<1>2. home[p] = t /\ \A u \in Threads : taking[u] # p
  BY <1>1 DEF References, OwnPointers
<1>3. d \in alive /\ d \in Counters
  BY <1>1, Zenon DEF References, PointersAlive, TypeOK
<1>4. p \in Counted(d)
  BY <1>2, Zenon DEF Counted
<1>5. count[d] \in Nat /\ count[d] # 0
  BY <1>3, <1>4, ZeroUnreferenced, Zenon DEF References, TypeOK
<1>6. /\ rc'[p] = Null /\ home'[p] = HomeDropped(t, p)
      /\ \A x \in Pointers : x # p => rc'[x] = rc[x] /\ home'[x] = home[x]
  BY <1>1, Zenon DEF References, TypeOK
<1> HIDE DEF d
<1>7. TypeOK'
  <2>1. count[d] - 1 \in Nat
    BY <1>5
  <2>2. count' \in [Counters -> Nat]
    BY <1>1, <2>1, Zenon DEF References, TypeOK
  <2> QED
    BY <1>1, <1>3, <2>2 DEF References, TypeOK, Homes, HomeDropped
<1>8. /\ dropping'[t] = dropping[t] \ {p}
      /\ \A u \in Threads : u # t => dropping'[u] = dropping[u]
  BY <1>1, Zenon DEF References, TypeOK
<1>9. /\ deleting'[t] = IF count[d] = 1 THEN d ELSE Null
      /\ \A u \in Threads : u # t => deleting'[u] = deleting[u]
  BY <1>1, Zenon DEF References, TypeOK
<1>10. \A c \in alive : count'[c] = IF c = d THEN count[c] - 1 ELSE count[c]
  BY <1>1, <1>3, Zenon DEF References, TypeOK
<1>11. PointersAlive'
  BY <1>1, <1>6 DEF References, PointersAlive, HomeDropped
<1>12. ReferencesCounted'
  <2>1. ASSUME NEW c \in alive
        PROVE  count'[c] = Cardinality(Counted(c)') + leaked'[c]
    <3>1. c # Null /\ leaked[c] \in Nat /\ leaked'[c] = leaked[c] /\ count[c] \in Nat
      BY <1>1, ZenonT(30) DEF References, TypeOK
    <3>2. count[c] = Cardinality(Counted(c)) + leaked[c]
      BY Zenon DEF References, ReferencesCounted
    <3>3. IsFiniteSet(Counted(c)) /\ Cardinality(Counted(c)) \in Nat
      BY CountedFinite, Zenon
    <3>4. CASE c = d
      <4>1. Counted(c)' = Counted(c) \ {p}
        BY <1>1, <1>6, <3>1, <3>4, Zenon DEF Counted
      <4>2. Cardinality(Counted(c)') = Cardinality(Counted(c)) - 1
        <5>1. Cardinality(Counted(c) \ {p}) =
                IF p \in Counted(c) THEN Cardinality(Counted(c)) - 1 ELSE Cardinality(Counted(c))
          BY <3>3, FS_RemoveElement, Zenon
        <5> QED
          BY <1>4, <3>4, <4>1, <5>1, Zenon
      <4> QED
        BY <1>10, <3>1, <3>2, <3>3, <3>4, <4>2
    <3>5. CASE c # d
      <4>1. Counted(c)' = Counted(c)
        BY <1>1, <1>6, <3>1, <3>5, Zenon DEF Counted, d
      <4> QED
        BY <1>10, <3>1, <3>2, <3>5, <4>1, Zenon
    <3> QED
      BY <3>4, <3>5, Zenon
  <2> QED
    BY <1>1, <2>1, Zenon DEF ReferencesCounted
<1>13. DeletedOnce'
  <2>1. \A u \in Threads : deleting[u] # Null => deleting[u] \in alive /\ count[deleting[u]] = 0 /\ deleting[u] # d
    BY <1>5, Zenon DEF References, DeletedOnce
  <2>2. \A u \in Threads : deleting'[u] # Null => deleting'[u] \in alive /\ count'[deleting'[u]] = 0
    BY <1>3, <1>5, <1>9, <1>10, <2>1
  <2>3. \A u, v \in Threads : deleting'[u] # Null /\ deleting'[u] = deleting'[v] => u = v
    BY <1>9, <2>1 DEF References, DeletedOnce
  <2> QED
    BY <1>1, <2>2, <2>3, Zenon DEF DeletedOnce
<1>14. ZeroDeleted'
  <2>1. ASSUME NEW c \in alive, count'[c] = 0
        PROVE  \E u \in Threads : deleting'[u] = c
    <3>1. CASE c = d
      BY <1>5, <1>9, <1>10, <2>1, <3>1
    <3>2. CASE c # d
      <4>1. c # Null /\ count[c] = 0
        BY <1>10, <2>1, <3>2 DEF References, TypeOK
      <4>2. PICK u \in Threads : deleting[u] = c
        BY <4>1, Zenon DEF References, ZeroDeleted
      <4> QED
        BY <1>1, <1>9, <4>1, <4>2, Zenon
    <3> QED
      BY <3>1, <3>2, Zenon
  <2> QED
    BY <1>1, <2>1, Zenon DEF ZeroDeleted
<1>15. OwnPointers'
  <2>1. \A x \in Pointers : home'[x] = "nowhere" => rc'[x] = Null
    BY <1>6, Zenon DEF References, OwnPointers
  <2>2. \A u \in Threads : \A x \in dropping'[u] : home'[x] = u
    BY <1>2, <1>6, <1>8, SMTT(20) DEF References, OwnPointers, TypeOK
  <2>3. \A u \in Threads : taking'[u] # Null => home'[taking'[u]] = u
    BY <1>1, <1>2, <1>6 DEF References, OwnPointers, TypeOK
  <2> QED
    BY <2>1, <2>2, <2>3, Zenon DEF OwnPointers
<1>16. CopiesProtected' /\ MovesProtected'
  <2>1. OnlyOwn(t)
    <3>1. Own(t, p) /\ Null \notin alive
      BY <1>2, Zenon DEF Own, Movable, References, TypeOK
    <3> QED
      BY <1>1, <1>6, <1>8, <3>1, Zenon DEF OnlyOwn
  <2>2. Protected(t)'
    BY <1>1, Zenon DEF Protected
  <2>3. MoveProtected(t)'
    BY <1>1, <1>6, <1>8, DroppedProtected, ZenonT(30)
  <2> QED
    BY <2>1, <2>2, <2>3, OthersProtected, Zenon DEF References
<1> QED
  BY <1>7, <1>11, <1>12, <1>13, <1>14, <1>15, <1>16, Zenon DEF References

(* Destroying a nullptr keeps the invariant. *)
LEMMA DecrementNullStep ==
    ASSUME References, NEW t \in Threads, NEW p \in Pointers, DecrementNull(t, p)
    PROVE  References'
<1> USE ReferencesAssumption
<1>1. /\ taking[t] = Null /\ p \in dropping[t] /\ rc[p] = Null
      /\ rc' = rc /\ home' = [home EXCEPT ![p] = HomeDropped(t, p)]
      /\ dropping' = [dropping EXCEPT ![t] = @ \ {p}]
      /\ taking' = taking /\ moving' = moving /\ other' = other /\ target' = target
      /\ alive' = alive /\ count' = count /\ leaked' = leaked /\ deleting' = deleting
  BY Zenon DEF DecrementNull, NothingTaken, Counting
<1>2. home[p] = t
  BY <1>1, Zenon DEF References, OwnPointers
<1>3. home'[p] = HomeDropped(t, p) /\ \A x \in Pointers : x # p => home'[x] = home[x]
  BY <1>1, Zenon DEF References, TypeOK
<1>4. TypeOK'
  BY <1>1 DEF References, TypeOK, Homes, HomeDropped
<1>5. /\ dropping'[t] = dropping[t] \ {p}
      /\ \A u \in Threads : u # t => dropping'[u] = dropping[u]
  BY <1>1, Zenon DEF References, TypeOK
<1>6. PointersAlive'
  BY <1>1, <1>3 DEF References, PointersAlive, HomeDropped
<1>7. ReferencesCounted'
  BY <1>1, ZenonT(30) DEF References, ReferencesCounted, Counted
<1>8. DeletedOnce' /\ ZeroDeleted'
  BY <1>1, CountersKept, Zenon DEF References
<1>9. OwnPointers'
  BY <1>1, <1>2, <1>3, <1>5, SMTT(20) DEF References, OwnPointers, TypeOK
<1>10. CopiesProtected' /\ MovesProtected'
  <2>1. OnlyOwn(t)
    <3>1. Own(t, p) /\ Null \notin alive
      BY <1>2, Zenon DEF Own, Movable, References, TypeOK
    <3> QED
      BY <1>1, <1>3, <1>5, <3>1, Zenon DEF OnlyOwn
  <2>2. Protected(t)'
    BY <1>1, Zenon DEF Protected
  <2>3. MoveProtected(t)'
    BY <1>1, <1>3, <1>5, DroppedProtected, Zenon
  <2> QED
    BY <2>1, <2>2, <2>3, OthersProtected, Zenon DEF References
<1> QED
  BY <1>4, <1>6, <1>7, <1>8, <1>9, <1>10, Zenon DEF References

(* Deleting a counter keeps the invariant: no pointer has it, and no thread *)
(* is copying one of the elements of its memory.                            *)
LEMMA DeleteStep ==
    ASSUME References, NEW t \in Threads, Delete(t)
    PROVE  References'
<1> USE ReferencesAssumption
<1> DEFINE d == deleting[t]
           E == Elements(d)
<1>1. /\ d # Null /\ alive' = alive \ {d}
      /\ home' = [x \in Pointers |-> IF x \in E THEN t ELSE home[x]]
      /\ dropping' = [dropping EXCEPT ![t] = @ \cup E]
      /\ deleting' = [deleting EXCEPT ![t] = Null]
      /\ rc' = rc /\ count' = count /\ leaked' = leaked
      /\ taking' = taking /\ moving' = moving /\ other' = other /\ target' = target
  BY Zenon DEF Delete, NothingTaken
<1>2. d \in alive /\ d \in Counters /\ Counted(d) = {} /\ \A x \in Pointers : rc[x] # d
  BY <1>1, DeletedUnreferenced, Zenon DEF References, TypeOK
<1>3. E \subseteq Pointers /\ \A x \in Pointers : x \in E <=> home[x] = d
  BY Zenon DEF Elements
<1> HIDE DEF E, d
<1>4. \A x \in Pointers : home'[x] = IF x \in E THEN t ELSE home[x]
  BY <1>1, Zenon
<1>5. TypeOK'
  BY <1>1, <1>3, Zenon DEF References, TypeOK, Homes
<1>6. /\ dropping'[t] = dropping[t] \cup E
      /\ \A u \in Threads : u # t => dropping'[u] = dropping[u]
  BY <1>1, Zenon DEF References, TypeOK
<1>7. deleting'[t] = Null /\ \A u \in Threads : u # t => deleting'[u] = deleting[u]
  BY <1>1, Zenon DEF References, TypeOK
<1>8. \A u \in Threads : u # t /\ deleting[u] # Null => deleting[u] # d
  BY Zenon DEF References, DeletedOnce, d
<1>9. PointersAlive'
  BY <1>1, <1>2, <1>3, <1>4, Zenon DEF References, PointersAlive
<1>10. ReferencesCounted'
  BY <1>1, Zenon DEF References, ReferencesCounted, Counted
<1>11. DeletedOnce'
  BY <1>1, <1>7, <1>8 DEF References, DeletedOnce
<1>12. ZeroDeleted'
  <2>1. ASSUME NEW c \in alive, c # d, count[c] = 0
        PROVE  \E u \in Threads : deleting'[u] = c
    <3>1. PICK u \in Threads : deleting[u] = c
      BY <2>1, Zenon DEF References, ZeroDeleted
    <3> QED
      BY <1>7, <2>1, <3>1, Zenon DEF d
  <2> QED
    BY <1>1, <2>1, Zenon DEF ZeroDeleted
<1>13. OwnPointers'
  <2>1. \A x \in Pointers : home'[x] = "nowhere" => rc'[x] = Null
    BY <1>1, <1>4, Zenon DEF References, OwnPointers
  <2>2. \A u \in Threads : \A x \in dropping'[u] : home'[x] = u
    BY <1>2, <1>3, <1>4, <1>6, SMTT(20) DEF References, OwnPointers, TypeOK
  <2>3. \A u \in Threads : taking'[u] # Null => home'[taking'[u]] = u
    BY <1>1, <1>2, <1>3, <1>4 DEF References, OwnPointers, TypeOK
  <2> QED
    BY <2>1, <2>2, <2>3, Zenon DEF OwnPointers
<1>14. CopiesProtected'
  <2>1. SUFFICES ASSUME NEW u \in Threads, taking[u] # Null
                 PROVE  Protected(u)'
    BY <1>1, Zenon DEF CopiesProtected, Protected
  <2>2. /\ other[u] \in Pointers /\ other[u] # taking[u]
        /\ rc[other[u]] = rc[taking[u]]
        /\ \/ home[other[u]] \in {u, "shared"}
           \/ home[other[u]] \in Counters /\ HoldsElsewhere(u, home[other[u]])
        /\ target[u] # "nowhere"
        /\ target[u] \in Counters => HoldsElsewhere(u, target[u])
        /\ taking[u] \in dropping[u] => target[u] = u
    BY <2>1, Zenon DEF References, CopiesProtected, Protected
  <2>3. home[other[u]] # d
    BY <1>2, <2>2, HeldCounted, Zenon
  <2>4. home'[other[u]] = home[other[u]]
    BY <1>3, <1>4, <2>2, <2>3, Zenon
  <2>5. \A c : HoldsElsewhere(u, c) => HoldsElsewhere(u, c)'
    BY <1>1, <1>2, <1>3, <1>4, Zenon DEF HoldsElsewhere
  <2>6. taking[u] \notin E
    BY <1>2, <1>3, <2>1 DEF References, OwnPointers, TypeOK
  <2>7. taking[u] \in dropping'[u] => target[u] = u
    BY <1>6, <2>2, <2>6, Zenon
  <2> QED
    BY <1>1, <2>1, <2>2, <2>4, <2>5, <2>7, Zenon DEF Protected
<1>15. MovesProtected'
  <2>1. SUFFICES ASSUME NEW u \in Threads
                 PROVE  MoveProtected(u)'
    BY Zenon DEF MovesProtected
  <2>2. MoveProtected(u)
    BY Zenon DEF References, MovesProtected
  <2>3. CASE moving[u] = Null
    BY <1>1, <2>2, <2>3, Zenon DEF MoveProtected
  <2>4. CASE moving[u] # Null
    <3> DEFINE q == other[u]
    <3>1. /\ taking[u] = Null /\ q \in Pointers /\ q # moving[u] /\ q \notin dropping[u]
          /\ moving[u] \in Pointers /\ home[moving[u]] = u
          /\ (moving[u] \in dropping[u] \/ rc[moving[u]] = Null)
      BY <2>2, <2>4, ZenonT(30) DEF MoveProtected, References, TypeOK
    <3>2. home[q] # d
      <4>1. home[q] = u \/ \E x \in Pointers : rc[x] = home[q]
        BY <2>2, <2>4, Zenon DEF MoveProtected
      <4> QED
        BY <1>2, <4>1
    <3>3. q \notin E /\ home'[q] = home[q] /\ q \notin dropping'[u]
      BY <1>3, <1>4, <1>6, <3>1, <3>2, Zenon
    <3>4. home'[moving[u]] = u /\ (moving[u] \in dropping'[u] \/ rc'[moving[u]] = Null)
      <4>1. moving[u] \notin E
        BY <1>2, <1>3, <3>1
      <4> QED
        BY <1>1, <1>4, <1>6, <3>1, <4>1, Zenon
    <3>5. ASSUME home[q] # u
          PROVE  /\ home[q] \in Counters
                 /\ \A x \in Pointers : rc'[x] = home[q] => home'[x] = u
                 /\ \E x \in Pointers : x # moving[u] /\ x \notin dropping'[u] /\ rc'[x] = home[q]
      <4>1. home[q] \in Counters /\ \A x \in Pointers : rc[x] = home[q] => home[x] = u
        BY <2>2, <2>4, <3>5, Zenon DEF MoveProtected
      <4>2. PICK x \in Pointers : x # moving[u] /\ x \notin dropping[u] /\ rc[x] = home[q]
        BY <2>2, <2>4, <3>5, Zenon DEF MoveProtected
      <4>3. \A y \in Pointers : home[y] = u => y \notin E /\ home'[y] = u
        BY <1>2, <1>3, <1>4
      <4>4. x \notin dropping'[u]
        BY <1>6, <4>1, <4>2, <4>3, Zenon
      <4> QED
        BY <1>1, <4>1, <4>2, <4>3, <4>4, Zenon
    <3> HIDE DEF q
    <3> QED
      BY <1>1, <2>4, <3>1, <3>3, <3>4, <3>5, Zenon DEF MoveProtected, q
  <2> QED
    BY <2>3, <2>4, Zenon
<1> QED
  BY <1>5, <1>9, <1>10, <1>11, <1>12, <1>13, <1>14, <1>15, Zenon DEF References

----------------------------------------------------------------------------
(* The invariant holds when the program starts: there are no pointers. *)
LEMMA ReferencesInit == Init => References
<1> SUFFICES ASSUME Init
             PROVE  References
  BY Zenon
<1> USE ReferencesAssumption DEF Init
<1>1. TypeOK
  BY Zenon DEF TypeOK, Homes
<1>2. PointersAlive /\ ReferencesCounted
  BY Zenon DEF PointersAlive, ReferencesCounted
<1>3. DeletedOnce /\ ZeroDeleted
  BY Zenon DEF DeletedOnce, ZeroDeleted
<1>4. OwnPointers /\ CopiesProtected /\ MovesProtected
  BY Zenon DEF OwnPointers, CopiesProtected, Protected, MovesProtected, MoveProtected
<1> QED
  BY <1>1, <1>2, <1>3, <1>4, Zenon DEF References

(* Every step of every thread keeps it. *)
LEMMA ReferencesStep == References /\ [Next]_vars => References'
<1>1. SUFFICES ASSUME References, [Next]_vars
               PROVE  References'
  BY ZenonT(30)
<1>2. CASE UNCHANGED vars
  <2>1. TypeOK' /\ PointersAlive'
    BY <1>1, <1>2, ZenonT(30) DEF vars, References, TypeOK, PointersAlive
  <2>2. ReferencesCounted'
    BY <1>1, <1>2, ZenonT(30) DEF vars, References, ReferencesCounted, Counted
  <2>3. DeletedOnce' /\ ZeroDeleted'
    BY <1>1, <1>2, ZenonT(30) DEF vars, References, DeletedOnce, ZeroDeleted
  <2>4. OwnPointers'
    BY <1>1, <1>2, ZenonT(30) DEF vars, References, OwnPointers
  <2>5. CopiesProtected'
    BY <1>1, <1>2, SMTT(20) DEF vars, References, CopiesProtected, Protected, HoldsElsewhere
  <2>6. MovesProtected'
    BY <1>1, <1>2, SMTT(20) DEF vars, References, MovesProtected, MoveProtected
  <2> QED
    BY <2>1, <2>2, <2>3, <2>4, <2>5, <2>6, Zenon DEF References
<1>3. CASE Next
  <2>1. PICK t \in Threads :
            \/ Operation(t)
            \/ Increment(t)
            \/ \E p \in Pointers : Decrement(t, p) \/ DecrementNull(t, p)
            \/ Delete(t)
            \/ TakeOver(t)
    BY <1>3, Zenon DEF Next
  <2>2. CASE Operation(t)
    BY ZenonT(30), <1>1, <2>2, ConstructStep, CopyConstructStep, MoveConstructStep, CopyAssignStep, MoveAssignStep,
       MoveAssignAliasStep, DestroyStep, ExecutePlanStep, FreeResultStep, ShareStep, UnshareStep
       DEF Operation
  <2>3. CASE Increment(t)
    BY <1>1, <2>3, IncrementStep, Zenon
  <2>4. CASE \E p \in Pointers : Decrement(t, p) \/ DecrementNull(t, p)
    BY <1>1, <2>4, DecrementStep, DecrementNullStep, Zenon
  <2>5. CASE Delete(t)
    BY <1>1, <2>5, DeleteStep, Zenon
  <2>6. CASE TakeOver(t)
    BY <1>1, <2>6, TakeOverStep, Zenon
  <2> QED
    BY <2>1, <2>2, <2>3, <2>4, <2>5, <2>6, Zenon
<1> QED
  BY <1>1, <1>2, <1>3, Zenon

(* References is an invariant of the reference counts. *)
LEMMA ReferencesInvariant == Spec => []References
<1> QED
  BY ReferencesInit, ReferencesStep, PTL DEF Spec

(* The state keeps its type. *)
THEOREM TypeCorrect == Spec => []TypeOK
<1>1. References => TypeOK
  BY Zenon DEF References
<1> QED
  BY <1>1, ReferencesInvariant, PTL

(* No pointer refers to deleted memory or is an element of it, whatever the *)
(* threads do and however many they are: not even a copy whose counter is   *)
(* not incremented yet.  And the argument of a move assignment still exists *)
(* when it is read, although the old counter is decremented before: the     *)
(* types of the memory nest (DepthAssumption), so that the argument is not  *)
(* in the memory that this deletes.                                         *)
THEOREM PointersValid == Spec => []NoDanglingPointer
<1>1. ASSUME References
      PROVE  NoDanglingPointer
  <2>1. ASSUME NEW t \in Threads, other[t] # Null
        PROVE  home[other[t]] \in {t, "shared"} \cup alive
    <3>1. CASE taking[t] # Null
      <4>1. other[t] \in Pointers /\ home[other[t]] \in {t, "shared"} \cup Counters
        BY <1>1, <3>1, Zenon DEF References, CopiesProtected, Protected
      <4> QED
        BY <1>1, <4>1, Zenon DEF References, PointersAlive
    <3>2. CASE moving[t] # Null
      <4>1. other[t] \in Pointers /\ home[other[t]] \in {t} \cup Counters
        BY <1>1, <3>2, Zenon DEF References, MovesProtected, MoveProtected
      <4> QED
        BY <1>1, <4>1, Zenon DEF References, PointersAlive
    <3> QED
      BY <1>1, <2>1, <3>1, <3>2, Zenon DEF References, MovesProtected, MoveProtected
  <2> QED
    BY <1>1, <2>1, Zenon DEF References, PointersAlive, NoDanglingPointer
<1> QED
  BY <1>1, ReferencesInvariant, PTL

(* A counter is the number of the references to it, those lost included; so *)
(* the assertion of RefCounter::Decrement never fails.                      *)
THEOREM CountsExact == Spec => []ReferencesCounted
<1>1. References => ReferencesCounted
  BY Zenon DEF References
<1> QED
  BY <1>1, ReferencesInvariant, PTL

(* A counter is deleted by one thread, and only when it has no references. *)
THEOREM DeletionUnique == Spec => []DeletedOnce
<1>1. References => DeletedOnce
  BY Zenon DEF References
<1> QED
  BY <1>1, ReferencesInvariant, PTL

(* Memory that nothing refers to does not outlive the member function that *)
(* removed the last reference, unless a move assignment lost one.          *)
THEOREM NothingLeaks == Spec => []Reclaimed
<1>1. ASSUME References
      PROVE  Reclaimed
  <2>1. SUFFICES ASSUME \A t \in Threads : Idle(t), NEW c \in alive, leaked[c] = 0
                 PROVE  \E p \in Pointers : rc[p] = c
    BY Zenon DEF Reclaimed
  <2>2. c # Null
    BY <1>1, ReferencesAssumption, ZenonT(30) DEF References, TypeOK
  <2>3. count[c] # 0
    BY <1>1, <2>1, <2>2, Zenon DEF References, ZeroDeleted, Idle
  <2>4. Cardinality(Counted(c)) # 0
    <3>1. Cardinality(Counted(c)) \in Nat
      BY CountedFinite, Zenon
    <3> QED
      BY <1>1, <2>1, <2>3, <3>1 DEF References, ReferencesCounted
  <2>5. Counted(c) # {}
    BY <2>4, CountedFinite, Zenon
  <2> QED
    BY <2>5, Zenon DEF Counted
<1> QED
  BY <1>1, ReferencesInvariant, PTL

=============================================================================
