---------------------------- MODULE SharedPointer ----------------------------
(***************************************************************************)
(* The reference counts of the memory that plans, operators and Python     *)
(* share (runtime/jit/memory/shared_pointer.hpp).  Threads construct,      *)
(* assign and destroy SharedPointers, which may themselves be elements of  *)
(* memory that is counted.  A result that is handed to Python keeps a      *)
(* reference that is no SharedPointer, until FreeResult.                   *)
(*                                                                         *)
(* Changing the fields of a SharedPointer, changing a counter and deleting *)
(* a counter are steps of their own.  Only the counters are atomic: other  *)
(* threads may read a SharedPointer only while nobody modifies it.         *)
(*                                                                         *)
(* Pointers have types, and types nest: the elements of the memory of a    *)
(* pointer are of types of smaller depth.  The tuple types of plans are    *)
(* built this way and none contains a SharedPointer to itself.             *)
(***************************************************************************)
EXTENDS Integers, FiniteSets

CONSTANTS Threads, Pointers, Counters,
          Pointee,   \* the memory that a counter stands for
          Depth,     \* the nesting of the type of that memory
          Null,      \* nullptr
          MaxLeaked  \* bound: references that move assignments lose

ASSUME ReferencesAssumption ==
    /\ IsFiniteSet(Pointers)
    /\ Null \notin Pointers \cup Counters
    /\ Threads \cap Counters = {}
    /\ {"nowhere", "shared", "result"} \cap (Threads \cup Counters) = {}
ASSUME DepthAssumption == Depth \in [Counters -> Nat]
ASSUME LeakedAssumption == MaxLeaked \in Nat

VARIABLES
    rc,       \* ref_counter_ of each pointer
    home,     \* where it is: with a thread, shared by all, in the memory of a counter, with a result
    alive,    \* the counters that are allocated
    count,    \* counter_
    leaked,   \* references that no pointer holds any more, not part of the code's state
    taking,   \* the pointer whose counter a thread is about to increment
    moving,   \* the pointer that a thread is about to move another one to
    other,    \* the argument of the member function: what is copied or moved
    target,   \* where it is when the copy is complete
    dropping, \* the pointers whose counters a thread is about to decrement
    deleting  \* the counter that a thread is about to delete

vars == <<rc, home, alive, count, leaked, taking, moving, other, target, dropping, deleting>>

Homes == Threads \cup Counters \cup {"nowhere", "shared", "result"}

Init ==
    /\ rc = [p \in Pointers |-> Null]
    /\ home = [p \in Pointers |-> "nowhere"]
    /\ alive = {}
    /\ count = [c \in Counters |-> 0]
    /\ leaked = [c \in Counters |-> 0]
    /\ taking = [t \in Threads |-> Null]
    /\ moving = [t \in Threads |-> Null]
    /\ other = [t \in Threads |-> Null]
    /\ target = [t \in Threads |-> "nowhere"]
    /\ dropping = [t \in Threads |-> {}]
    /\ deleting = [t \in Threads |-> Null]

----------------------------------------------------------------------------
(* A thread that is not in a member function of SharedPointer. *)
Idle(t) == taking[t] = Null /\ moving[t] = Null /\ dropping[t] = {} /\ deleting[t] = Null

Holds(t, c) == \E p \in Pointers : rc[p] = c /\ home[p] \in {t, "shared"}

(* The pointers that thread t may copy: its own ones, those that are shared, *)
(* and the elements of the memory that these point to.                       *)
Readable(t, p) == home[p] \in {t, "shared"} \/ (home[p] \in Counters /\ Holds(t, home[p]))

(* All pointers to the memory of counter c are on the stack of thread t. *)
Exclusive(t, c) == Holds(t, c) /\ \A p \in Pointers : rc[p] = c => home[p] = t

(* The pointers that thread t may move from: it modifies them. *)
Movable(t, p) == home[p] = t \/ (home[p] \in Counters /\ Exclusive(t, home[p]))

(* Where thread t may construct a pointer with counter c: on its stack, or  *)
(* as an element of memory that only t has, and whose type contains that of *)
(* the pointer.                                                             *)
Constructible(t, c, h) ==
    \/ h = t
    \/ /\ h \in alive
       /\ Exclusive(t, h)
       /\ c # Null => Depth[c] < Depth[h]

(* Increment() of a pointer that was copied from q follows. *)
Take(t, p, q, h) ==
    /\ taking' = [taking EXCEPT ![t] = p]
    /\ other' = [other EXCEPT ![t] = q]
    /\ target' = [target EXCEPT ![t] = h]
    /\ UNCHANGED moving

NothingTaken == UNCHANGED <<taking, moving, other, target>>

Counting == <<alive, count>>

(* SharedPointer(ref_counter) for a new counter, which no other thread sees *)
(* before it is incremented.                                                *)
Construct(t, p, c) ==
    /\ Idle(t) /\ home[p] = "nowhere" /\ c \notin alive
    /\ rc' = [rc EXCEPT ![p] = c]
    /\ home' = [home EXCEPT ![p] = t]
    /\ alive' = alive \cup {c}
    /\ count' = [count EXCEPT ![c] = 1]
    /\ leaked' = [leaked EXCEPT ![c] = 0]
    /\ NothingTaken
    /\ UNCHANGED <<dropping, deleting>>

(* SharedPointer(const SharedPointer&) and as(), as well as the element-wise *)
(* copies with which operators fill memory.                                  *)
CopyConstruct(t, p, q, h) ==
    /\ Idle(t) /\ home[p] = "nowhere" /\ Readable(t, q) /\ Constructible(t, rc[q], h)
    /\ rc' = [rc EXCEPT ![p] = rc[q]]
    /\ home' = [home EXCEPT ![p] = t]
    /\ Take(t, p, q, h)
    /\ UNCHANGED <<leaked, dropping, deleting, Counting>>

(* Mutant: the pointer that is moved from keeps its counter. *)
MoveConstructKeep(t, p, q, h) ==
    /\ Idle(t) /\ home[p] = "nowhere" /\ Movable(t, q) /\ Constructible(t, rc[q], h)
    /\ rc' = [rc EXCEPT ![p] = rc[q]]
    /\ home' = [home EXCEPT ![p] = h]
    /\ NothingTaken
    /\ UNCHANGED <<leaked, dropping, deleting, Counting>>

(* SharedPointer(SharedPointer&&) and into() *)
MoveConstruct(t, p, q, h) ==
    /\ Idle(t) /\ home[p] = "nowhere" /\ Movable(t, q) /\ Constructible(t, rc[q], h)
    /\ rc' = [rc EXCEPT ![p] = rc[q], ![q] = Null]
    /\ home' = [home EXCEPT ![p] = h]
    /\ NothingTaken
    /\ UNCHANGED <<leaked, dropping, deleting, Counting>>

(* Mutant: the old counter is not decremented. *)
CopyAssignLosing(t, p, q, r) ==
    /\ Idle(t) /\ home[p] = t /\ Readable(t, q) /\ p # q /\ home[r] = "nowhere"
    /\ rc' = [rc EXCEPT ![p] = rc[q]]
    /\ Take(t, p, q, t)
    /\ UNCHANGED <<home, leaked, dropping, deleting, Counting>>

(* operator=(const SharedPointer&): r is the temporary with the old counter. *)
CopyAssign(t, p, q, r) ==
    /\ Idle(t) /\ home[p] = t /\ Readable(t, q) /\ p # q /\ home[r] = "nowhere"
    /\ rc' = [rc EXCEPT ![p] = rc[q], ![r] = rc[p]]
    /\ home' = [home EXCEPT ![r] = t]
    /\ Take(t, p, q, t)
    /\ dropping' = [dropping EXCEPT ![t] = {r}]
    /\ UNCHANGED <<leaked, deleting, Counting>>

PointerOf(p) == IF rc[p] = Null THEN Null ELSE Pointee[rc[p]]

(* What p points to may be of the type of what q points to: an element q is *)
(* not in memory that p keeps alive.                                        *)
SameType(p, q) == rc[p] # Null /\ home[q] \in Counters => Depth[rc[p]] < Depth[home[q]]

(* operator=(SharedPointer&&): if the pointers differ, the counter of p is   *)
(* decremented, which may delete memory, and only then is q read.            *)
MoveAssign(t, p, q) ==
    /\ Idle(t) /\ home[p] = t /\ Movable(t, q) /\ SameType(p, q)
    /\ PointerOf(p) # PointerOf(q)
    /\ moving' = [moving EXCEPT ![t] = p]
    /\ other' = [other EXCEPT ![t] = q]
    /\ dropping' = [dropping EXCEPT ![t] = {p}]
    /\ UNCHANGED <<rc, home, leaked, taking, target, deleting, Counting>>

(* The rest of operator=, after Decrement(): the two calls of std::exchange. *)
TakeOver(t) ==
    LET p == moving[t]
        q == other[t]
    IN  /\ p # Null /\ dropping[t] = {} /\ deleting[t] = Null
        /\ rc' = [rc EXCEPT ![p] = rc[q], ![q] = Null]
        /\ moving' = [moving EXCEPT ![t] = Null]
        /\ other' = [other EXCEPT ![t] = Null]
        /\ UNCHANGED <<home, leaked, taking, target, dropping, deleting, Counting>>

(* Between two pointers to the same memory nothing is decremented. *)
MoveAssignAlias(t, p, q) ==
    /\ Idle(t) /\ home[p] = t /\ Movable(t, q) /\ p # q
    /\ rc[p] # Null /\ PointerOf(p) = PointerOf(q)
    /\ leaked[rc[p]] < MaxLeaked
    /\ rc' = [rc EXCEPT ![p] = rc[q], ![q] = Null]
    /\ leaked' = [leaked EXCEPT ![rc[p]] = @ + 1]
    /\ NothingTaken
    /\ UNCHANGED <<home, dropping, deleting, Counting>>

(* ~SharedPointer *)
Destroy(t, p) ==
    /\ Idle(t) /\ home[p] = t
    /\ dropping' = [dropping EXCEPT ![t] = {p}]
    /\ NothingTaken
    /\ UNCHANGED <<rc, home, leaked, deleting, Counting>>

(* ExecutePlan increments the counters of the result before it writes their *)
(* addresses to the string that it returns: r is the reference of Python.   *)
ExecutePlan(t, q, r) ==
    /\ Idle(t) /\ home[q] = t /\ rc[q] # Null /\ home[r] = "nowhere"
    /\ rc' = [rc EXCEPT ![r] = rc[q]]
    /\ home' = [home EXCEPT ![r] = t]
    /\ Take(t, r, q, "result")
    /\ UNCHANGED <<leaked, dropping, deleting, Counting>>

(* Mutant: parsing the string does not increment the counter. *)
FreeResultUncounted(t, p, r) ==
    /\ Idle(t) /\ home[r] = "result" /\ home[p] = "nowhere"
    /\ rc' = [rc EXCEPT ![p] = rc[r]]
    /\ home' = [home EXCEPT ![p] = t, ![r] = t]
    /\ dropping' = [dropping EXCEPT ![t] = {p, r}]
    /\ NothingTaken
    /\ UNCHANGED <<leaked, deleting, Counting>>

(* FreeResult parses the string, which constructs a SharedPointer p with the *)
(* counter of the result, decrements the counter and destroys p.             *)
FreeResult(t, p, r) ==
    /\ Idle(t) /\ home[r] = "result" /\ home[p] = "nowhere"
    /\ rc' = [rc EXCEPT ![p] = rc[r]]
    /\ home' = [home EXCEPT ![p] = t, ![r] = t]
    /\ Take(t, p, r, t)
    /\ dropping' = [dropping EXCEPT ![t] = {p, r}]
    /\ UNCHANGED <<leaked, deleting, Counting>>

(* A thread starts others that read its pointer, and joins them. *)
Share(t, p) ==
    /\ Idle(t) /\ home[p] = t
    /\ home' = [home EXCEPT ![p] = "shared"]
    /\ NothingTaken
    /\ UNCHANGED <<rc, leaked, dropping, deleting, Counting>>

Unshare(t, p) ==
    /\ \A u \in Threads : Idle(u)
    /\ home[p] = "shared"
    /\ home' = [home EXCEPT ![p] = t]
    /\ NothingTaken
    /\ UNCHANGED <<rc, leaked, dropping, deleting, Counting>>

----------------------------------------------------------------------------
(* Increment of values and pointers; a nullptr has nothing to count. *)
Increment(t) ==
    LET p == taking[t] IN
    /\ p # Null
    /\ IF rc[p] = Null THEN count' = count ELSE count' = [count EXCEPT ![rc[p]] = @ + 1]
    /\ home' = [home EXCEPT ![p] = target[t]]
    /\ Take(t, Null, Null, "nowhere")
    /\ UNCHANGED <<rc, alive, leaked, dropping, deleting>>

(* A pointer that is decremented is destroyed, unless it is assigned to; *)
(* what its fields hold then is overwritten before they are read.        *)
HomeDropped(t, p) == IF p = moving[t] THEN t ELSE "nowhere"

(* Mutant: the old counter may be decremented first. *)
DecrementFirst(t, p) ==
    /\ deleting[t] = Null /\ p \in dropping[t] /\ p # taking[t]
    /\ rc[p] # Null
    /\ count' = [count EXCEPT ![rc[p]] = @ - 1]
    /\ deleting' = [deleting EXCEPT ![t] = IF count[rc[p]] = 1 THEN rc[p] ELSE Null]
    /\ rc' = [rc EXCEPT ![p] = Null]
    /\ home' = [home EXCEPT ![p] = HomeDropped(t, p)]
    /\ dropping' = [dropping EXCEPT ![t] = @ \ {p}]
    /\ NothingTaken
    /\ UNCHANGED <<alive, leaked>>

(* Mutant: a counter with one reference left is deleted as well. *)
DecrementEarly(t, p) ==
    /\ taking[t] = Null /\ deleting[t] = Null /\ p \in dropping[t]
    /\ rc[p] # Null
    /\ count' = [count EXCEPT ![rc[p]] = @ - 1]
    /\ deleting' = [deleting EXCEPT ![t] = IF count[rc[p]] <= 2 THEN rc[p] ELSE Null]
    /\ rc' = [rc EXCEPT ![p] = Null]
    /\ home' = [home EXCEPT ![p] = HomeDropped(t, p)]
    /\ dropping' = [dropping EXCEPT ![t] = @ \ {p}]
    /\ NothingTaken
    /\ UNCHANGED <<alive, leaked>>

(* RefCounter::Decrement, one fetch_sub: whoever removes the last reference *)
(* deletes the counter.                                                     *)
Decrement(t, p) ==
    /\ taking[t] = Null /\ deleting[t] = Null /\ p \in dropping[t]
    /\ rc[p] # Null
    /\ count' = [count EXCEPT ![rc[p]] = @ - 1]
    /\ deleting' = [deleting EXCEPT ![t] = IF count[rc[p]] = 1 THEN rc[p] ELSE Null]
    /\ rc' = [rc EXCEPT ![p] = Null]
    /\ home' = [home EXCEPT ![p] = HomeDropped(t, p)]
    /\ dropping' = [dropping EXCEPT ![t] = @ \ {p}]
    /\ NothingTaken
    /\ UNCHANGED <<alive, leaked>>

DecrementNull(t, p) ==
    /\ taking[t] = Null /\ deleting[t] = Null /\ p \in dropping[t]
    /\ rc[p] = Null
    /\ home' = [home EXCEPT ![p] = HomeDropped(t, p)]
    /\ dropping' = [dropping EXCEPT ![t] = @ \ {p}]
    /\ NothingTaken
    /\ UNCHANGED <<rc, leaked, deleting, Counting>>

Elements(c) == {p \in Pointers : home[p] = c}

(* delete ref_counter: the destructor destroys the elements of the memory. *)
Delete(t) ==
    LET c == deleting[t] IN
    /\ c # Null
    /\ alive' = alive \ {c}
    /\ home' = [p \in Pointers |-> IF p \in Elements(c) THEN t ELSE home[p]]
    /\ dropping' = [dropping EXCEPT ![t] = @ \cup Elements(c)]
    /\ deleting' = [deleting EXCEPT ![t] = Null]
    /\ NothingTaken
    /\ UNCHANGED <<rc, count, leaked>>

Operation(t) ==
    \/ \E p \in Pointers, c \in Counters : Construct(t, p, c)
    \/ \E p, q \in Pointers, h \in Counters \cup {t} :
          CopyConstruct(t, p, q, h) \/ MoveConstruct(t, p, q, h)
    \/ \E p, q, r \in Pointers : CopyAssign(t, p, q, r)
    \/ \E p, q \in Pointers : MoveAssign(t, p, q) \/ MoveAssignAlias(t, p, q)
    \/ \E p \in Pointers : Destroy(t, p)
    \/ \E q, r \in Pointers : ExecutePlan(t, q, r) \/ FreeResult(t, q, r)
    \/ \E p \in Pointers : Share(t, p) \/ Unshare(t, p)

Next ==
    \E t \in Threads :
        \/ Operation(t)
        \/ Increment(t)
        \/ \E p \in Pointers : Decrement(t, p) \/ DecrementNull(t, p)
        \/ Delete(t)
        \/ TakeOver(t)

Spec == Init /\ [][Next]_vars

----------------------------------------------------------------------------
TypeOK ==
    /\ rc \in [Pointers -> Counters \cup {Null}]
    /\ home \in [Pointers -> Homes]
    /\ alive \subseteq Counters
    /\ count \in [Counters -> Nat]
    /\ leaked \in [Counters -> Nat]
    /\ taking \in [Threads -> Pointers \cup {Null}]
    /\ moving \in [Threads -> Pointers \cup {Null}]
    /\ other \in [Threads -> Pointers \cup {Null}]
    /\ target \in [Threads -> Homes]
    /\ dropping \in [Threads -> SUBSET Pointers]
    /\ deleting \in [Threads -> Counters \cup {Null}]

(* No SharedPointer, and no result that Python holds, refers to memory that  *)
(* was deleted, nor is one an element of such memory.  A copy is included    *)
(* from the moment at which it has the address of the counter: nobody        *)
(* deletes the counter before the copy has incremented it.  The argument of  *)
(* a member function exists until the function has read it, even where       *)
(* Decrement() comes first.                                                  *)
NoDanglingPointer ==
    /\ \A p \in Pointers :
          /\ rc[p] # Null => rc[p] \in alive
          /\ home[p] \in Counters => home[p] \in alive
    /\ \A t \in Threads : other[t] # Null => home[other[t]] \in {t, "shared"} \cup alive

(* The pointers that have incremented counter c. *)
Counted(c) == {p \in Pointers : rc[p] = c /\ \A t \in Threads : taking[t] # p}

(* The counter is the number of its references, apart from those that were  *)
(* lost; the assertion of Decrement, "old_value > 0", follows.              *)
ReferencesCounted == \A c \in alive : count[c] = Cardinality(Counted(c)) + leaked[c]

(* A counter without references is deleted by one thread, and only such a   *)
(* counter is: the destructor asserts "counter_.load() == 0".               *)
DeletedOnce ==
    /\ \A t \in Threads : deleting[t] # Null => deleting[t] \in alive /\ count[deleting[t]] = 0
    /\ \A t, u \in Threads : deleting[t] # Null /\ deleting[t] = deleting[u] => t = u

(* While no thread is in a member function, memory that no pointer and no    *)
(* result refers to is deleted, unless a move assignment lost a reference.   *)
Reclaimed ==
    (\A t \in Threads : Idle(t)) =>
        \A c \in alive : leaked[c] = 0 => \E p \in Pointers : rc[p] = c
=============================================================================
