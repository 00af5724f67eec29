----------------------------- MODULE ParquetScan -----------------------------
(***************************************************************************)
(* The Parquet scan (runtime/src/operators/parquet_scan_impl.cpp): three   *)
(* iterators on top of each other.  ParquetFileOperator opens the files    *)
(* its upstream names, ParquetRowGroupOperator selects row groups of each, *)
(* and ParquetScanOperatorImpl returns their rows in batches.  Three       *)
(* threads share the state of the first one:                               *)
(*   - the upstream fetcher puts the names of the files into file_infos_;  *)
(*   - the metadata fetcher opens them and puts handles into file_handles_;*)
(*   - the main thread, in next(), takes the handles.                      *)
(*                                                                         *)
(* All but one of the critical sections of mutex_ are single steps.  The   *)
(* metadata fetcher holds it from the check of the condition it waits for  *)
(* until it waits.                                                         *)
(***************************************************************************)
EXTENDS Integers, Sequences, Slices

CONSTANTS Inputs,     \* what upstream may return: a set of sequences of files
          Ranges,     \* the range predicates on the column, records of lo and hi
          BatchSize,  \* rows of a batch (batch_size_)
          MaxPending  \* row groups read ahead (max_pending_column_readers_)

(* A file is a sequence of row groups, each the sequence of its values,    *)
(* and the range of slices to be scanned.                                  *)
IsFile(f) ==
    /\ f.groups \in Seq(Seq(Int))
    /\ f.slices \in Nat \ {0}
    /\ f.from \in 0 .. f.slices /\ f.to \in 0 .. f.slices

ASSUME InputsAssumption ==
    \A input \in Inputs :
        /\ Len(input) \in Nat /\ DOMAIN input = 1 .. Len(input)
        /\ \A i \in DOMAIN input : IsFile(input[i])
ASSUME SizesAssumption == BatchSize \in Nat \ {0} /\ MaxPending \in Nat \ {0}

VARIABLES
    files,      \* the files that upstream returns
    upstream,   \* upstream fetcher: "fetch", "notify" or "done"
    fed,        \* files upstream has returned
    completed,  \* has_upstream_completed_
    fetcher,    \* metadata fetcher
    infos,      \* file_infos_
    opened,     \* the file it is opening, if any
    handles,    \* file_handles_
    prefetched, \* has_prefetching_completed_
    main,       \* where the main thread is in next()
    groups,     \* interesting_row_groups_ from row_group_index_ on, which are in ascending order
    pending,    \* pending_column_readers_, the oldest first
    current,    \* rows of the current row group that are left
    out         \* the rows returned

fileVars == <<upstream, fed, completed, fetcher, infos, opened, handles, prefetched>>
scanVars == <<main, groups, pending, current, out>>
vars     == <<files, fileVars, scanVars>>

Init ==
    /\ files \in Inputs
    /\ upstream = "fetch"
    /\ fed = 0
    /\ completed = FALSE
    /\ fetcher = "ready"
    /\ infos = <<>>
    /\ opened = <<>>
    /\ handles = <<>>
    /\ prefetched = FALSE
    /\ main = "next"
    /\ groups = {}
    /\ pending = <<>>
    /\ current = <<>>
    /\ out = <<>>

----------------------------------------------------------------------------
(* ParquetFileOperator *)

MutexFree == fetcher # "blocking"

(* notify_one wakes the metadata fetcher if it waits. *)
Notified == IF fetcher = "waiting" THEN "ready" ELSE fetcher

(* Mutant: the name is queued without the mutex and not announced. *)
UpstreamFileUnnotified ==
    /\ upstream = "fetch"
    /\ fed < Len(files)
    /\ fed' = fed + 1
    /\ infos' = Append(infos, fed + 1)
    /\ UNCHANGED <<files, upstream, completed, fetcher, opened, handles, prefetched, scanVars>>

(* Upstream returns the name of a file. *)
UpstreamFile ==
    /\ upstream = "fetch"
    /\ fed < Len(files)
    /\ MutexFree
    /\ fed' = fed + 1
    /\ infos' = Append(infos, fed + 1)
    /\ fetcher' = Notified
    /\ UNCHANGED <<files, upstream, completed, opened, handles, prefetched, scanVars>>

(* Upstream returns None; the flag is set without the mutex... *)
UpstreamCompleted ==
    /\ upstream = "fetch"
    /\ fed = Len(files)
    /\ completed' = TRUE
    /\ upstream' = "notify"
    /\ UNCHANGED <<files, fed, fetcher, infos, opened, handles, prefetched, scanVars>>

(* ... and so is the notification that follows. *)
NotifyCompleted ==
    /\ upstream = "notify"
    /\ upstream' = "done"
    /\ fetcher' = Notified
    /\ UNCHANGED <<files, fed, completed, infos, opened, handles, prefetched, scanVars>>

(* Mutant: the flag alone ends prefetching. *)
TakeInfoUnlessCompleted ==
    /\ fetcher = "ready"
    /\ \/ /\ infos # <<>> /\ ~completed
          /\ opened' = <<Head(infos)>>
          /\ infos' = Tail(infos)
          /\ fetcher' = "opening"
       \/ /\ completed
          /\ fetcher' = "finishing"
          /\ UNCHANGED <<infos, opened>>
       \/ /\ infos = <<>> /\ ~completed
          /\ fetcher' = "blocking"
          /\ UNCHANGED <<infos, opened>>
    /\ UNCHANGED <<files, upstream, fed, completed, handles, prefetched, scanVars>>

(* FetchMetaData takes a name, finds that there will be no more of them,   *)
(* or is about to wait.                                                    *)
TakeInfo ==
    /\ fetcher = "ready"
    /\ \/ /\ infos # <<>>
          /\ opened' = <<Head(infos)>>
          /\ infos' = Tail(infos)
          /\ fetcher' = "opening"
       \/ /\ infos = <<>> /\ completed
          /\ fetcher' = "finishing"
          /\ UNCHANGED <<infos, opened>>
       \/ /\ infos = <<>> /\ ~completed
          /\ fetcher' = "blocking"
          /\ UNCHANGED <<infos, opened>>
    /\ UNCHANGED <<files, upstream, fed, completed, handles, prefetched, scanVars>>

(* file_infos_cv_.wait releases the mutex... *)
WaitForInfo ==
    /\ fetcher = "blocking"
    /\ fetcher' = "waiting"
    /\ UNCHANGED <<files, upstream, fed, completed, infos, opened, handles, prefetched, scanVars>>

(* ... and may return without a notification. *)
SpuriousWakeup ==
    /\ fetcher = "waiting"
    /\ fetcher' = "ready"
    /\ UNCHANGED <<files, upstream, fed, completed, infos, opened, handles, prefetched, scanVars>>

PushHandle ==
    /\ fetcher = "opening"
    /\ handles' = handles \o opened
    /\ opened' = <<>>
    /\ fetcher' = "ready"
    /\ UNCHANGED <<files, upstream, fed, completed, infos, prefetched, scanVars>>

FinishPrefetching ==
    /\ fetcher = "finishing"
    /\ prefetched' = TRUE
    /\ fetcher' = "done"
    /\ UNCHANGED <<files, upstream, fed, completed, infos, opened, handles, scanVars>>

(* Mutant: an empty queue is taken for the end. *)
WaitForFileHandlesOnce ==
    /\ main = "wait"
    /\ MutexFree
    /\ main' = "check"
    /\ UNCHANGED <<files, fileVars, groups, pending, current, out>>

(* next() polls until there is a handle or prefetching has completed... *)
WaitForFileHandles ==
    /\ main = "wait"
    /\ MutexFree
    /\ handles # <<>> \/ prefetched
    /\ main' = "check"
    /\ UNCHANGED <<files, fileVars, groups, pending, current, out>>

(* ... and tells the two cases apart. *)
AreAllFilesProcessed ==
    /\ main = "check"
    /\ MutexFree
    /\ main' = IF handles = <<>> /\ prefetched THEN "take" ELSE "pop"
    /\ UNCHANGED <<files, fileVars, groups, pending, current, out>>

----------------------------------------------------------------------------
(* ParquetRowGroupOperator *)

(* Whether the statistics of a row group overlap a range predicate.  Those *)
(* of an empty one are not set, but its rows do not matter.                *)
EvaluateRangePredicates(g) ==
    Ranges = {} \/ g = <<>> \/
        \E p \in Ranges : (\E i \in DOMAIN g : p.lo <= g[i]) /\ (\E i \in DOMAIN g : p.hi >= g[i])

(* The row groups of file n to be scanned, as pairs of file and index. *)
InterestingRowGroups(n) ==
    LET f == files[n] IN
    {<<n, i>> : i \in {i \in DOMAIN f.groups :
                          /\ EvaluateRangePredicates(f.groups[i])
                          /\ i - 1 \in Slice(f.from, f.to, Len(f.groups), f.slices)}}

PopHandle ==
    /\ main = "pop"
    /\ MutexFree
    /\ handles # <<>>
    /\ groups' = InterestingRowGroups(Head(handles))
    /\ handles' = Tail(handles)
    /\ main' = "fill"
    /\ UNCHANGED <<files, upstream, fed, completed, fetcher, infos, opened, prefetched,
                   pending, current, out>>

----------------------------------------------------------------------------
(* ParquetScanOperatorImpl *)

(* The rows of a row group. *)
Rows(x) == [i \in DOMAIN files[x[1]].groups[x[2]] |-> <<x[1], x[2], i>>]

(* A row group without batches left: read ahead first. *)
StartFill ==
    /\ main = "next"
    /\ current = <<>>
    /\ main' = "fill"
    /\ UNCHANGED <<files, fileVars, groups, pending, current, out>>

(* The current file has no row groups left. *)
NextFile ==
    /\ main = "fill"
    /\ groups = {}
    /\ main' = "wait"
    /\ UNCHANGED <<files, fileVars, groups, pending, current, out>>

(* Mutant: the whole file is read ahead. *)
AddPendingUnbounded ==
    \E x \in groups :
        /\ main = "fill"
        /\ \A y \in groups : x[2] <= y[2]
        /\ pending' = IF Rows(x) = <<>> THEN pending ELSE Append(pending, x)
        /\ groups' = groups \ {x}
        /\ main' = IF groups' = {} /\ pending' # <<>> THEN "take" ELSE "fill"
        /\ UNCHANGED <<files, fileVars, current, out>>

(* Reading ahead takes the row group at row_group_index_, skips it if it   *)
(* is empty, and stops at MaxPending.                                      *)
AddPending ==
    \E x \in groups :
        /\ main = "fill"
        /\ \A y \in groups : x[2] <= y[2]
        /\ pending' = IF Rows(x) = <<>> THEN pending ELSE Append(pending, x)
        /\ groups' = groups \ {x}
        /\ main' = IF Rows(x) # <<>> /\ Len(pending') >= MaxPending THEN "take" ELSE "fill"
        /\ UNCHANGED <<files, fileVars, current, out>>

(* Mutant: the newest row group becomes the current one. *)
TakeNewest ==
    /\ main = "take"
    /\ pending # <<>>
    /\ current' = Rows(pending[Len(pending)])
    /\ pending' = SubSeq(pending, 1, Len(pending) - 1)
    /\ main' = "next"
    /\ UNCHANGED <<files, fileVars, groups, out>>

(* The oldest row group becomes the current one... *)
TakePending ==
    /\ main = "take"
    /\ pending # <<>>
    /\ current' = Rows(Head(pending))
    /\ pending' = Tail(pending)
    /\ main' = "next"
    /\ UNCHANGED <<files, fileVars, groups, out>>

(* ... and None is returned if there is none. *)
SignalEnd ==
    /\ main = "take"
    /\ pending = <<>>
    /\ main' = "end"
    /\ UNCHANGED <<files, fileVars, groups, pending, current, out>>

(* A batch of the current row group is returned. *)
ReturnBatch ==
    LET n == IF Len(current) < BatchSize THEN Len(current) ELSE BatchSize IN
    /\ main = "next"
    /\ current # <<>>
    /\ out' = out \o SubSeq(current, 1, n)
    /\ current' = SubSeq(current, n + 1, Len(current))
    /\ UNCHANGED <<files, fileVars, main, groups, pending>>

(* close() joins the fetchers. *)
Close ==
    /\ main = "end"
    /\ fetcher = "done"
    /\ upstream = "done"
    /\ main' = "closed"
    /\ UNCHANGED <<files, fileVars, groups, pending, current, out>>

UpstreamFetcher == UpstreamFile \/ UpstreamCompleted \/ NotifyCompleted
MetadataFetcher == TakeInfo \/ WaitForInfo \/ PushHandle \/ FinishPrefetching
Main ==
    \/ WaitForFileHandles \/ AreAllFilesProcessed \/ PopHandle
    \/ StartFill \/ NextFile \/ AddPending \/ TakePending \/ SignalEnd \/ ReturnBatch \/ Close

Next == UpstreamFetcher \/ MetadataFetcher \/ SpuriousWakeup \/ Main

Spec == Init /\ [][Next]_vars

(* Threads are scheduled fairly; a condition variable need not wake up a   *)
(* thread that is not notified.                                            *)
FairSpec == Spec /\ WF_vars(UpstreamFetcher) /\ WF_vars(MetadataFetcher) /\ WF_vars(Main)

----------------------------------------------------------------------------
(* Types of the state, and that reading ahead is bounded. *)
TypeOK ==
    /\ files \in Inputs
    /\ upstream \in {"fetch", "notify", "done"}
    /\ fed \in 0 .. Len(files)
    /\ completed \in BOOLEAN
    /\ fetcher \in {"ready", "blocking", "waiting", "opening", "finishing", "done"}
    /\ infos \in Seq(DOMAIN files) /\ opened \in Seq(DOMAIN files) /\ handles \in Seq(DOMAIN files)
    /\ prefetched \in BOOLEAN
    /\ main \in {"next", "fill", "wait", "check", "pop", "take", "end", "closed"}
    /\ Len(pending) \in 0 .. MaxPending

(* The assertion of next(): a file that is not the last one has its handle *)
(* in the queue when the main thread takes it, although the three critical *)
(* sections of next() may be interleaved with those of the fetchers.       *)
HandleAvailable == main = "pop" => handles # <<>>

(* Row r precedes q in the files. *)
Before(r, q) ==
    \/ r[1] < q[1]
    \/ r[1] = q[1] /\ r[2] < q[2]
    \/ r[1] = q[1] /\ r[2] = q[2] /\ r[3] < q[3]

(* Rows are returned in the order of the files, none of them twice, and    *)
(* none of a row group outside the slices of this worker.                  *)
ScanOrdered ==
    \A i \in DOMAIN out :
        LET f == files[out[i][1]] IN
        /\ \A j \in 1 .. i - 1 : Before(out[j], out[i])
        /\ out[i][2] - 1 \in Slice(f.from, f.to, Len(f.groups), f.slices)

(* A row that the query wants: in the slices of this worker, and with a    *)
(* value in one of the ranges.                                             *)
Wanted(n, g, i) ==
    LET f == files[n] IN
    /\ g - 1 \in Slice(f.from, f.to, Len(f.groups), f.slices)
    /\ Ranges = {} \/ \E p \in Ranges : p.lo <= f.groups[g][i] /\ f.groups[g][i] <= p.hi

(* When the end is signalled, every wanted row has been returned: none is  *)
(* lost to pruning, to reading ahead or to an early end of prefetching.    *)
ScanComplete ==
    main \in {"end", "closed"} =>
        \A n \in DOMAIN files : \A g \in DOMAIN files[n].groups :
            \A i \in DOMAIN files[n].groups[g] :
                Wanted(n, g, i) => \E k \in DOMAIN out : out[k] = <<n, g, i>>

(* The workers that scan the slices of a file share its row groups: each   *)
(* row group is in the slice of exactly one of them.                       *)
SlicesPartition ==
    \A n \in DOMAIN files :
        LET f == files[n] IN
        \A g \in 0 .. Len(f.groups) - 1 :
            \E k \in 0 .. f.slices - 1 :
                \A l \in 0 .. f.slices - 1 :
                    g \in Slice(l, l + 1, Len(f.groups), f.slices) <=> l = k

(* "Spawned in a separate thread to supply the file handles as soon as     *)
(* they are in": a file that upstream has returned gets its handle, even   *)
(* if upstream returns nothing else.                                       *)
Handled(n) == fed - Len(infos) - Len(opened) >= n
FilesSupplied == \A n \in 1 .. 2 : fed >= n ~> Handled(n)

(* "Signal end of stream if no pending row group left": a scan ends. *)
EndSignalled == <>(main = "end")
=============================================================================
