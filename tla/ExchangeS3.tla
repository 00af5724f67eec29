----------------------------- MODULE ExchangeS3 -----------------------------
(***************************************************************************)
(* The exchange through files on S3 (runtime/src/operators/exchange_s3.cpp)*)
(* on all workers.  A worker partitions the rows of its upstream by a hash *)
(* of their key, one partition for each member of its group, writes them   *)
(* as the row groups of one file, and reads its own row group of the file  *)
(* of each member.  With two levels (optimize/two_level_exchange.cpp) a    *)
(* second exchange, among other groups, consumes what the first returns.   *)
(*                                                                         *)
(* A row is a model value.  S3 is external: an object is there as soon as  *)
(* the request that puts it succeeds, and not before.                      *)
(***************************************************************************)
EXTENDS Integers, FiniteSets, Slices

CONSTANTS NumWorkers, \* the degree of parallelism ($DOP)
          NumLevels,  \* one or two exchanges
          Rows,       \* the rows of the input
          Key,        \* the key of each row
          Input,      \* the rows of upstream at each worker
          Hashes,     \* what the hash functions of the levels may be
          MaxThreads, \* threads that a worker can start
          Unreliable  \* the workers whose upload may fail

Workers == 0 .. NumWorkers - 1
Levels  == 0 .. NumLevels - 1

ASSUME WorkersAssumption == NumWorkers \in Nat \ {0}
ASSUME LevelsAssumption == NumLevels \in {1, 2}
ASSUME InputAssumption ==
    /\ Input \in [Workers -> SUBSET Rows]
    /\ \A v, w \in Workers : v # w => Input[v] \cap Input[w] = {}
ASSUME HashAssumption == \A h \in Hashes : \A l \in Levels, r \in Rows : h[l][Key[r]] \in Nat
ASSUME ThreadsAssumption == MaxThreads \in Nat

VARIABLES
    hash,     \* the hash function of each level, one seed each
    level,    \* the exchange whose next() a worker is in
    state,    \* "consume" while no result is pending or returned, then "poll"; or "failed"
    rows,     \* rows[w][l]: the rows that the upstream of exchange l returned at w
    store,    \* store[l][w]: the row groups of the file that w wrote for exchange l
    pending,  \* pending_results_, by the sender that each one waits for
    deferred  \* those of them that no thread executes

vars == <<hash, level, state, rows, store, pending, deferred>>

----------------------------------------------------------------------------
(* static_cast<size_t>(sqrt(num_workers)) *)
NumGroups == CHOOSE g \in 1 .. NumWorkers : g * g <= NumWorkers /\ NumWorkers < (g + 1) * (g + 1)

(* Mutant: the groups of the first level are used on both. *)
GroupMembersSame(l, w) ==
    IF NumLevels = 1 THEN Workers ELSE {v \in Workers : v % NumGroups = w % NumGroups}

(* ComputeGroupMembers: the group of worker w in exchange l. *)
GroupMembers(l, w) ==
    IF NumLevels = 1 THEN Workers
    ELSE IF l = 0 THEN {v \in Workers : v % NumGroups = w % NumGroups}
    ELSE {v \in Workers : v \div NumGroups = w \div NumGroups}

GroupSize(l, w) == Cardinality(GroupMembers(l, w))

(* The vector of members is ascending: where w is in it. *)
MemberIndex(l, w) == Cardinality({v \in GroupMembers(l, w) : v < w})

(* The partition of a row at worker w, which is its row group in the file. *)
PartitionIndex(l, w, r) == hash[l][Key[r]] % GroupSize(l, w)

(* The row groups of the file that w writes, one for each partition. *)
RowGroups(l, w) ==
    [i \in 0 .. GroupSize(l, w) - 1 |-> {r \in rows[w][l] : PartitionIndex(l, w, r) = i}]

HasFile(l, w) == store[l][w] # <<>>

(* Mutant: all row groups of the file are read. *)
AllRows(l, s, w) == UNION {store[l][s][g] : g \in DOMAIN store[l][s]}

(* What the Parquet scan returns to w for the file of s: the slice from    *)
(* i to i + 1 out of group_size_ of its row groups.                        *)
RowsFor(l, s, w) ==
    LET file  == store[l][s]
        count == Cardinality(DOMAIN file)
        i     == MemberIndex(l, w) IN
    UNION {file[g] : g \in Slice(i, i + 1, count, GroupSize(l, w))}

----------------------------------------------------------------------------
Init ==
    /\ hash \in Hashes
    /\ level = [w \in Workers |-> 0]
    /\ state = [w \in Workers |-> "consume"]
    /\ rows = [w \in Workers |-> [l \in 0 .. NumLevels |-> IF l = 0 THEN Input[w] ELSE {}]]
    /\ store = [l \in Levels |-> [w \in Workers |-> <<>>]]
    /\ pending = [w \in Workers |-> {}]
    /\ deferred = [w \in Workers |-> {}]

(* std::async with the default policy starts a thread for a task, or leaves*)
(* the task to whoever waits for it if no more threads can be started.     *)
(* The first MaxThreads tasks get one; a later one may, if others are done.*)
Deferrable(l, w) ==
    {s \in GroupMembers(l, w) : Cardinality({v \in GroupMembers(l, w) : v < s}) >= MaxThreads}

(* Mutant: the file is written but not uploaded. *)
ConsumeWithoutUpload(w) ==
    /\ state[w] = "consume" /\ level[w] \in Levels
    /\ state' = [state EXCEPT ![w] = "poll"]
    /\ pending' = [pending EXCEPT ![w] = GroupMembers(level[w], w)]
    /\ UNCHANGED <<hash, level, rows, store, deferred>>

(* Mutant: a task is started for the other members only. *)
ConsumeUpstreamOthers(w) ==
    LET l == level[w] IN
    /\ state[w] = "consume" /\ l \in Levels
    /\ store' = [store EXCEPT ![l][w] = RowGroups(l, w)]
    /\ pending' = [pending EXCEPT ![w] = GroupMembers(l, w) \ {w}]
    /\ \E d \in SUBSET Deferrable(l, w) : deferred' = [deferred EXCEPT ![w] = d \ {w}]
    /\ state' = [state EXCEPT ![w] = "poll"]
    /\ UNCHANGED <<hash, level, rows>>

(* The first call of next(): upstream is consumed, the file is written and *)
(* uploaded, and a task is started for each member of the group.           *)
ConsumeUpstream(w) ==
    LET l == level[w] IN
    /\ state[w] = "consume" /\ l \in Levels
    /\ store' = [store EXCEPT ![l][w] = RowGroups(l, w)]
    /\ pending' = [pending EXCEPT ![w] = GroupMembers(l, w)]
    /\ \E d \in SUBSET Deferrable(l, w) : deferred' = [deferred EXCEPT ![w] = d]
    /\ state' = [state EXCEPT ![w] = "poll"]
    /\ UNCHANGED <<hash, level, rows>>

(* The upload fails: an exception ends the worker. *)
UploadFails(w) ==
    /\ state[w] = "consume" /\ level[w] \in Levels
    /\ w \in Unreliable
    /\ state' = [state EXCEPT ![w] = "failed"]
    /\ UNCHANGED <<hash, level, rows, store, pending, deferred>>

(* WaitForFile has found the object of sender s, next() finds the result   *)
(* ready and returns the file, and its rows are read.  Since a task sees   *)
(* the object with a delay, any of those that are there can be the first.  *)
ReturnFile(w, s) ==
    LET l == level[w] IN
    /\ state[w] = "poll"
    /\ s \in pending[w] \ deferred[w]
    /\ HasFile(l, s)
    /\ pending' = [pending EXCEPT ![w] = @ \ {s}]
    /\ rows' = [rows EXCEPT ![w][l + 1] = @ \cup RowsFor(l, s, w)]
    /\ UNCHANGED <<hash, level, state, store, deferred>>

(* Mutant: end-of-stream is signalled when no result is ready. *)
SignalEndEarly(w) ==
    /\ state[w] = "poll"
    /\ \A s \in pending[w] : ~HasFile(level[w], s)
    /\ level' = [level EXCEPT ![w] = @ + 1]
    /\ state' = [state EXCEPT ![w] = "consume"]
    /\ pending' = [pending EXCEPT ![w] = {}]
    /\ UNCHANGED <<hash, rows, store, deferred>>

(* Mutant: the next exchange starts as if it were polling already. *)
SignalEndPolling(w) ==
    /\ state[w] = "poll"
    /\ pending[w] = {}
    /\ level' = [level EXCEPT ![w] = @ + 1]
    /\ UNCHANGED <<hash, state, rows, store, pending, deferred>>

(* All results are returned: next() signals end-of-stream. *)
SignalEnd(w) ==
    /\ state[w] = "poll"
    /\ pending[w] = {}
    /\ level' = [level EXCEPT ![w] = @ + 1]
    /\ state' = [state EXCEPT ![w] = "consume"]
    /\ UNCHANGED <<hash, rows, store, pending, deferred>>

Finished(w) == level[w] = NumLevels

Worker(w) == ConsumeUpstream(w) \/ (\E s \in Workers : ReturnFile(w, s)) \/ SignalEnd(w)

Next == \E w \in Workers : Worker(w) \/ UploadFails(w)

Spec == Init /\ [][Next]_vars

FairSpec == Spec /\ \A w \in Workers : WF_vars(Worker(w))

----------------------------------------------------------------------------
(* The types; results are pending only from members of the group of the    *)
(* exchange that is polled, and deferred tasks are among them.             *)
TypeOK ==
    /\ hash \in Hashes
    /\ level \in [Workers -> 0 .. NumLevels]
    /\ state \in [Workers -> {"consume", "poll", "failed"}]
    /\ rows \in [Workers -> [0 .. NumLevels -> SUBSET Rows]]
    /\ DOMAIN store = Levels
    /\ \A l \in Levels :
          /\ DOMAIN store[l] = Workers
          /\ \A w \in Workers : HasFile(l, w) => store[l][w] \in [0 .. GroupSize(l, w) - 1 -> SUBSET Rows]
    /\ pending \in [Workers -> SUBSET Workers]
    /\ deferred \in [Workers -> SUBSET Workers]
    /\ \A w \in Workers :
          /\ state[w] = "poll" => level[w] \in Levels /\ pending[w] \subseteq GroupMembers(level[w], w)
          /\ state[w] # "poll" => pending[w] = {}
          /\ deferred[w] \subseteq pending[w]

(* An exchange never hands the same row to two workers: the partitions in  *)
(* which the senders write agree with the slices in which receivers read.  *)
RowsAtOneWorker ==
    \A l \in 0 .. NumLevels : \A v, w \in Workers : v # w => rows[v][l] \cap rows[w][l] = {}

(* The rows of worker s that exchange l sends to worker w. *)
Sent(l, s, w) == {r \in rows[s][l] : PartitionIndex(l, s, r) = MemberIndex(l, w)}

(* When next() of an exchange has signalled end-of-stream at a worker, the *)
(* worker has every row that any member of its group had for it, although  *)
(* workers proceed at their own pace and some may have failed since.       *)
EndOfStreamComplete ==
    \A w \in Workers, l \in Levels : level[w] > l =>
        \A s \in GroupMembers(l, w) : HasFile(l, s) /\ Sent(l, s, w) \subseteq rows[w][l + 1]

(* The inductive invariant of the proofs.  No exchange changes the input;  *)
InputInv == \A w \in Workers : rows[w][0] = Input[w]

(* a file is written when upstream is consumed, from rows that do not      *)
(* change any more;                                                        *)
FileInv ==
    \A w \in Workers, l \in Levels : HasFile(l, w) => level[w] >= l /\ store[l][w] = RowGroups(l, w)

(* a row that arrived was sent by a member of the group; *)
SenderInv ==
    \A w \in Workers, l \in Levels : \A r \in rows[w][l + 1] :
        \E s \in GroupMembers(l, w) : HasFile(l, s) /\ r \in Sent(l, s, w)

(* a result that is not pending any more has brought all rows of its       *)
(* sender.                                                                 *)
ArrivedInv ==
    \A w \in Workers, l \in Levels :
        level[w] > l \/ (level[w] = l /\ state[w] = "poll") =>
            /\ HasFile(l, w)
            /\ \A s \in GroupMembers(l, w) :
                  level[w] > l \/ s \notin pending[w] => HasFile(l, s) /\ Sent(l, s, w) \subseteq rows[w][l + 1]

IndInv == TypeOK /\ RowsAtOneWorker /\ InputInv /\ FileInv /\ SenderInv /\ ArrivedInv

(* No row of the input is lost on its way through the exchanges. *)
AllRowsArrive ==
    (\A w \in Workers : Finished(w)) =>
        UNION {rows[w][NumLevels] : w \in Workers} = UNION {Input[w] : w \in Workers}

(* What the operators above the exchange, a ReduceByKey or a Join, rely    *)
(* on: rows with the same key arrive at the same worker.                   *)
SameKeySameWorker ==
    \A v, w \in Workers : v # w =>
        \A q \in rows[v][NumLevels], r \in rows[w][NumLevels] : Key[q] # Key[r]

(* All workers reach the end of the plan if no upload fails. *)
Termination ==
    [](\A w \in Workers : state[w] # "failed") => <>(\A w \in Workers : Finished(w))
=============================================================================
