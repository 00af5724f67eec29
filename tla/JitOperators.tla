---------------------------- MODULE JitOperators ----------------------------
(***************************************************************************)
(* The operators of generated code (generate/src/code_gen/operators/): an  *)
(* object per statement of a function over tuples, with its own state, and *)
(* the methods open(), next() and close() that call those of its upstreams.*)
(*                                                                         *)
(* A frame is the state of one call of such a function: the objects by     *)
(* their variables, and the failures (exceptions and failed assertions) so *)
(* far. A method takes a frame and an object and returns the frame after   *)
(* the call; next() returns a tuple as well: none or one (Optional).       *)
(* Every call of the function constructs its objects anew.                 *)
(***************************************************************************)
EXTENDS PlanEval, CodeGen

CONSTANTS
    MaxColumnSize,   \* max_column_size_ of MaterializeColumnChunksOperator
    RowGroupSize     \* target_num_rows_per_row_group of the Parquet writer

ASSUME MaxColumnSize \in Nat \ {0} /\ RowGroupSize \in Nat \ {0}

None == <<>>
Some(t) == <<t>>

St(s, k) == s.objs[k].st
Extra(s, k) == s.objs[k].extra
Up(s, k, p) == s.objs[k].ups[p]
Put(s, k, st) == [s EXCEPT !.objs[k].st = st]
Fail(s, what) == [s EXCEPT !.failed = @ \cup {what}]
Returns(s, t) == [s |-> s, t |-> t]

\* The call of a virtual method; which code it runs depends on the class (see "The classes").
RECURSIVE Call(_, _, _)
open(s, k) == Call("open", s, k)
next(s, k) == Call("next", s, k)
close(s, k) == Call("close", s, k)

OpenUps(s, k) == Fold(LAMBDA acc, u : open(acc, u), s, s.objs[k].ups)
CloseUps(s, k) == Fold(LAMBDA acc, u : close(acc, u), s, s.objs[k].ups)
OpenUp(s, k, p) == open(s, Up(s, k, p))
NextUp(s, k, p) == next(s, Up(s, k, p))
CloseUp(s, k, p) == close(s, Up(s, k, p))

\* All the tuples of upstream u up to the first empty result.
RECURSIVE Drain(_, _)
Drain(s, u) ==
    LET r == next(s, u)
        rest == Drain(r.s, u)
    IN  IF r.t = None THEN [s |-> r.s, ts |-> <<>>] ELSE [s |-> rest.s, ts |-> r.t \o rest.ts]

\* The next element of an object's container.
NextElement(s, k) ==
    LET st == St(s, k)
    IN  IF st.it > Len(st.container) THEN Returns(s, None)
        ELSE Returns(Put(s, k, [st EXCEPT !.it = @ + 1]), Some(st.container[st.it]))

(***************************************************************************)
(* Sources                                                                 *)
(***************************************************************************)
ConstantTupleOpen(s, k) == Put(s, k, [St(s, k) EXCEPT !.has_returned = FALSE])
ConstantTupleNext(s, k) ==
    Returns(Put(s, k, [St(s, k) EXCEPT !.has_returned = TRUE]),
            IF St(s, k).has_returned THEN None ELSE St(s, k).tuple)

\* RowScan and ColumnScan: the array (of a tuple of columns: of its rows) in values,
\* its positions from current to last.
ScanOpen(s, k) == Put(OpenUp(s, k, 1), k, [current |-> 0, last |-> 0, values |-> Array(<<>>)])

BuildResultTuple(st, add_index) ==
    (IF add_index THEN <<st.current>> ELSE <<>>) \o st.values.rows[st.current - st.values.off + 1]

RECURSIVE ScanNext(_, _, _)
ScanNext(s, k, columns) ==
    LET st == St(s, k)
        r == NextUp(s, k, 1)
        values == IF columns THEN ZipColumns(r.t[1]) ELSE r.t[1][1]
        loaded == [current |-> values.off, last |-> values.off + Len(values.rows),
                   values |-> values]
    IN  IF st.current < st.last
        THEN Returns(Put(s, k, [st EXCEPT !.current = @ + 1]),
                     Some(BuildResultTuple(st, Extra(s, k))))
        ELSE IF r.t = None THEN r ELSE ScanNext(Put(r.s, k, loaded), k, columns)

RowScanNext(s, k) == ScanNext(s, k, FALSE)
ColumnScanNext(s, k) == ScanNext(s, k, TRUE)

RangeSourceOpen(s, k) ==
    LET r == NextUp(OpenUp(s, k, 1), k, 1)
        st == IF r.t = None THEN [St(s, k) EXCEPT !.current = St(s, k).to]
              ELSE [current |-> r.t[1][1], to |-> r.t[1][2], step |-> r.t[1][3]]
    IN  CloseUp(Put(r.s, k, st), k, 1)

RangeSourceNext(s, k) ==
    LET st == St(s, k)
    IN  IF st.current >= st.to THEN Returns(s, None)
        ELSE Returns(Put(s, k, [st EXCEPT !.current = @ + st.step]), Some(<<st.current>>))

ExpandPatternOpen(s, k) ==
    LET r == NextUp(OpenUp(s, k, 1), k, 1)
        known == Put(r.s, k, [pattern |-> r.t[1][1]])
    IN  OpenUp(CloseUp(known, k, 1), k, 2)

ExpandPatternNext(s, k) ==
    LET r == NextUp(s, k, 2)
    IN  IF r.t = None THEN r ELSE Returns(r.s, Some(<<St(s, k).pattern[r.t[1][1] + 1]>>))

\* The row groups of one file slice after the other, as ParquetScan shows of the
\* threads that read them.
RECURSIVE ParquetScanNext(_, _)
ParquetScanNext(s, k) ==
    LET st == St(s, k)
        r == NextUp(s, k, 1)
        chunks == EvalParquetScan(r.t, Extra(s, k))
    IN  IF st.it <= Len(st.container) THEN NextElement(s, k)
        ELSE IF r.t = None THEN r
        ELSE ParquetScanNext(Put(r.s, k, [container |-> chunks, it |-> 1]), k)

(***************************************************************************)
(* Operators that pass tuples on                                           *)
(***************************************************************************)
CallFunctor(f, t) ==
    CASE f.functor = "llvm" -> [p \in DOMAIN f.of |-> EvalField(f.of[p], t)]
      [] f.functor = "cpp" ->
            <<Len(ComputeGroupMembers([num |-> t[1], level |-> t[2]], t[3], t[4]))>>
      [] f.functor = "positions" -> [p \in DOMAIN f.of |-> t[f.of[p] + 1]]

MapNext(s, k) ==
    LET r == NextUp(s, k, 1)
    IN  IF r.t = None THEN r ELSE Returns(r.s, Some(CallFunctor(Extra(s, k), r.t[1])))

\* Whether a tuple of upstream 1 passes the operator.
Matches(s, k, t) == WithKey(St(s, k).build_table, t[1])
FilterPasses(s, k, t) == EvalPredicate(Extra(s, k), t)
AntiJoinPasses(s, k, t) == Matches(s, k, t) = <<>>
SemiJoinPasses(s, k, t) == Matches(s, k, t) # <<>>
AntiJoinPredicatedPasses(s, k, t) ==
    \A i \in DOMAIN Matches(s, k, t) : ~EvalPredicate(Extra(s, k), t \o Matches(s, k, t)[i])

Passes(s, k, t) ==
    CASE s.objs[k].class = "FilterOperator" -> FilterPasses(s, k, t)
      [] s.objs[k].class = "AntiJoinOperator" -> AntiJoinPasses(s, k, t)
      [] s.objs[k].class = "SemiJoinOperator" -> SemiJoinPasses(s, k, t)
      [] s.objs[k].class = "AntiJoinPredicatedOperator" -> AntiJoinPredicatedPasses(s, k, t)

\* next() of the operators that pass on some tuples of upstream 1 as they are.
RECURSIVE NextPassing(_, _)
NextPassing(s, k) ==
    LET r == NextUp(s, k, 1)
    IN  IF r.t = None \/ Passes(s, k, r.t[1]) THEN r ELSE NextPassing(r.s, k)

EnsureSingleTupleNext(s, k) ==
    LET first == NextUp(s, k, 1)
        second == NextUp(first.s, k, 1)
    IN  IF first.t = None THEN first
        ELSE Returns(IF second.t = None THEN second.s
                     ELSE Fail(second.s, "Found several tuples where a single one was expected"),
                     first.t)

AssertOpen(s, k) ==
    LET checked == IF St(s, k).is_open THEN Fail(s, "open: assert(!is_open_)") ELSE s
    IN  OpenUp(Put(checked, k, [is_open |-> TRUE]), k, 1)

AssertNext(s, k) ==
    NextUp(IF St(s, k).is_open THEN s ELSE Fail(s, "next: assert(is_open_)"), k, 1)

AssertClose(s, k) ==
    LET checked == IF St(s, k).is_open THEN s ELSE Fail(s, "close: assert(is_open_)")
    IN  CloseUp(Put(checked, k, [is_open |-> FALSE]), k, 1)

\* FetchNextFromUpstream asks every upstream, also behind one that has ended.
ZipNext(s, k) ==
    LET all == Fold(LAMBDA acc, u : LET r == next(acc.s, u)
                                    IN  [s |-> r.s, ts |-> Append(acc.ts, r.t)],
                    [s |-> s, ts |-> <<>>], s.objs[k].ups)
    IN  Returns(all.s, IF \A i \in DOMAIN all.ts : all.ts[i] # None
                       THEN Some(Concat([i \in DOMAIN all.ts |-> all.ts[i][1]])) ELSE None)

\* The left upstream is closed and opened again for every tuple of the right one.
CartesianOpen(s, k) ==
    LET r == NextUp(OpenUps(s, k), k, 2)
    IN  Put(r.s, k, [currentTuple |-> r.t])

RECURSIVE CartesianNext(_, _)

\* Mutant: the left upstream is opened again without being closed.
CartesianNextNoClose(s, k) ==
    LET left == NextUp(s, k, 1)
        right == NextUp(left.s, k, 2)
        again == OpenUp(Put(right.s, k, [currentTuple |-> right.t]), k, 1)
    IN  IF left.t # None /\ St(s, k).currentTuple # None
        THEN Returns(left.s, Some(left.t[1] \o St(s, k).currentTuple[1]))
        ELSE IF right.t # None THEN CartesianNext(again, k)
        ELSE Returns(Put(right.s, k, [currentTuple |-> None]), None)

CartesianNext(s, k) ==
    LET left == NextUp(s, k, 1)
        right == NextUp(left.s, k, 2)
        again == OpenUp(CloseUp(Put(right.s, k, [currentTuple |-> right.t]), k, 1), k, 1)
    IN  IF left.t # None /\ St(s, k).currentTuple # None
        THEN Returns(left.s, Some(left.t[1] \o St(s, k).currentTuple[1]))
        ELSE IF right.t # None THEN CartesianNext(again, k)
        ELSE Returns(Put(right.s, k, [currentTuple |-> None]), None)

(***************************************************************************)
(* Joins: a hash table of one side, which is built once                    *)
(***************************************************************************)
BuildTable(s, k, side) ==
    LET opened == OpenUps(s, k)
        in == Drain(opened, Up(s, k, side))
    IN  IF St(s, k).build_table # <<>> THEN opened
        ELSE Put(in.s, k, [St(s, k) EXCEPT !.build_table = in.ts])

JoinOpen(s, k) ==
    LET built == BuildTable(s, k, 1)
    IN  IF St(s, k).build_table # <<>> THEN built
        ELSE Put(built, k, [St(built, k) EXCEPT !.left_matches = <<>>])

\* left_matches holds the results between the two iterators over the matches.
RECURSIVE JoinNext(_, _)
JoinNext(s, k) ==
    LET st == St(s, k)
        n == Extra(s, k)
        r == NextUp(s, k, 2)
        matches == EvalJoin(st.build_table, r.t, n)
    IN  IF st.left_matches # <<>>
        THEN Returns(Put(s, k, [st EXCEPT !.left_matches = Tail(@)]), Some(Head(st.left_matches)))
        ELSE IF r.t = None THEN r
        ELSE JoinNext(Put(r.s, k, [st EXCEPT !.left_matches = matches]), k)

AntiJoinOpen(s, k) == BuildTable(s, k, 2)

(***************************************************************************)
(* Operators that consume their input in open(): their containers are      *)
(* never emptied, except by Partition                                      *)
(***************************************************************************)
Consume(s, k, add(_, _)) ==
    LET in == Drain(OpenUp(s, k, 1), Up(s, k, 1))
    IN  Put(in.s, k, [container |-> Fold(add, St(s, k).container, in.ts), it |-> 1])

SortOpen(s, k) ==
    LET in == Drain(OpenUp(s, k, 1), Up(s, k, 1))
    IN  Put(in.s, k, [container |-> EvalSort(St(s, k).container \o in.ts), it |-> 1])

\* The first num_elements tuples are all inserted, a later one only in place of a
\* smaller one; equal keys stay in the order of their insertion.
InsertGreatest(c, t) ==
    SelectSeq(c, LAMBDA u : u[1] >= t[1]) \o <<t>> \o SelectSeq(c, LAMBDA u : u[1] < t[1])

TopKOpen(s, k) ==
    LET in == Drain(OpenUp(s, k, 1), Up(s, k, 1))
        n == Min({Len(in.ts), Extra(s, k)})
        filled == Fold(InsertGreatest, St(s, k).container, SubSeq(in.ts, 1, n))
        replace(c, t) == IF t[1] > Last(c)[1] THEN InsertGreatest(Front(c), t) ELSE c
        kept == IF filled = <<>> THEN <<>>
                ELSE Fold(replace, filled, SubSeq(in.ts, n + 1, Len(in.ts)))
    IN  Put(in.s, k, [container |-> kept, it |-> 1])

\* The entry of t's key combined with t, or a new entry.
Emplace(func, table, t) ==
    LET at == {i \in DOMAIN table : table[i][1] = t[1]}
    IN  IF at = {} THEN Append(table, t)
        ELSE [i \in DOMAIN table |->
                  IF i \in at THEN <<t[1]>> \o Combine(func, Tail(table[i]), Tail(t)) ELSE table[i]]

ReduceByKeyOpen(s, k) == Consume(s, k, LAMBDA c, t : Emplace(Extra(s, k), c, t))

\* The entries present in the vector from min to max, by their index.
ReduceByIndexOpen(s, k) ==
    LET conf == Extra(s, k)
        in == Drain(OpenUp(s, k, 1), Up(s, k, 1))
        ok == \A i \in DOMAIN in.ts : in.ts[i][1] \in conf.min..conf.max
        filled == Fold(LAMBDA c, t : Emplace(conf.func, c, t), St(s, k).container, in.ts)
    IN  IF ok THEN Put(in.s, k, [container |-> EvalSort(filled), it |-> 1])
        ELSE Fail(in.s, "vector::at")

GroupByOpen(s, k) ==
    LET in == Drain(OpenUp(s, k, 1), Up(s, k, 1))
    IN  IF St(s, k).container # <<>> THEN s
        ELSE CloseUp(Put(in.s, k, [container |-> EvalGroupBy(in.ts), it |-> 1]), k, 1)

PartitionOpen(s, k) ==
    LET conf == NextUp(OpenUp(s, k, 2), k, 2)
        asked == NextUp(conf.s, k, 2)
        in == Drain(OpenUp(CloseUp(asked.s, k, 2), k, 1), Up(s, k, 1))
        partitions == EvalPartition(in.ts, conf.t[1][1], Extra(s, k))
    IN  CloseUp(Put(in.s, k, [container |-> partitions, it |-> 1]), k, 1)

ReduceByKeyGroupedOpen(s, k) ==
    LET r == NextUp(OpenUp(s, k, 1), k, 1)
    IN  Put(r.s, k, [lastTuple |-> r.t])

RECURSIVE CombineGroup(_, _, _)

\* Mutant: the first tuple of the next group is lost.
CombineGroupLost(s, k, res) ==
    LET r == NextUp(s, k, 1)
        lost == NextUp(r.s, k, 1)
    IN  IF r.t # None /\ r.t[1][1] = res[1]
        THEN CombineGroup(r.s, k, <<res[1]>> \o Combine(Extra(s, k), Tail(res), Tail(r.t[1])))
        ELSE Returns(Put(lost.s, k, [lastTuple |-> lost.t]), Some(res))

\* Combines the tuples with the key of res and remembers the first one with another.
CombineGroup(s, k, res) ==
    LET r == NextUp(s, k, 1)
    IN  IF r.t # None /\ r.t[1][1] = res[1]
        THEN CombineGroup(r.s, k, <<res[1]>> \o Combine(Extra(s, k), Tail(res), Tail(r.t[1])))
        ELSE Returns(Put(r.s, k, [lastTuple |-> r.t]), Some(res))

ReduceByKeyGroupedNext(s, k) ==
    IF St(s, k).lastTuple = None THEN Returns(s, None)
    ELSE CombineGroup(s, k, St(s, k).lastTuple[1])

(***************************************************************************)
(* Operators that consume their input in next()                            *)
(***************************************************************************)
Reopen(s, k) == Put(s, k, [St(s, k) EXCEPT !.has_returned = FALSE])

\* The only result, made of all the tuples of the upstream.
Single(s, k, result(_)) ==
    LET in == Drain(OpenUp(Put(s, k, [has_returned |-> TRUE]), k, 1), Up(s, k, 1))
    IN  IF St(s, k).has_returned THEN Returns(s, None)
        ELSE Returns(CloseUp(in.s, k, 1), result(in.ts))

ReduceNext(s, k) == Single(s, k, LAMBDA ts : EvalReduce(ts, Extra(s, k)))
MaterializeRowVectorNext(s, k) == Single(s, k, EvalMaterializeRowVector)

\* Up to n tuples of upstream 1; the end of the stream is asked for unless n came.
RECURSIVE Take(_, _, _)
Take(s, k, n) ==
    LET r == NextUp(s, k, 1)
        rest == Take(r.s, k, n - 1)
    IN  IF n = 0 THEN [s |-> s, ts |-> <<>>]
        ELSE IF r.t = None THEN [s |-> r.s, ts |-> <<>>]
        ELSE [s |-> rest.s, ts |-> r.t \o rest.ts]

MaterializeColumnChunksNext(s, k) ==
    LET in == Take(s, k, MaxColumnSize)
    IN  Returns(in.s, EvalMaterializeColumnChunks(in.ts))

\* The rows of the batches are written as row groups of at least RowGroupSize rows;
\* a batch without rows ends the loop when no rows are left to be written.
RECURSIVE WriteRowGroups(_, _, _, _)
WriteRowGroups(s, k, group, file) ==
    LET r == NextUp(s, k, 1)
        grown == IF r.t = None THEN group ELSE group \o ZipColumns(r.t[1]).rows
    IN  IF grown = <<>> THEN [s |-> r.s, file |-> file]
        ELSE IF Len(grown) >= RowGroupSize \/ r.t = None
        THEN WriteRowGroups(r.s, k, <<>>, Append(file, grown))
        ELSE WriteRowGroups(r.s, k, grown, file)

MaterializeParquetNext(s, k) ==
    LET conf == NextUp(OpenUp(s, k, 2), k, 2)
        asked == NextUp(conf.s, k, 2)
        written == WriteRowGroups(OpenUp(CloseUp(asked.s, k, 2), k, 1), k, <<>>, <<>>)
    IN  IF St(s, k).has_returned THEN Returns(s, None)
        ELSE Returns(Put(CloseUp(written.s, k, 1), k, [has_returned |-> TRUE]),
                     Some(<<written.file, 0, 1, 1>>))

(***************************************************************************)
(* Slices                                                                  *)
(***************************************************************************)
SplitOpen(s, k) ==
    LET dop == NextUp(OpenUp(s, k, 2), k, 2)
        asked == NextUp(dop.s, k, 2)
        opened == OpenUp(CloseUp(asked.s, k, 2), k, 1)
    IN  Put(opened, k, [num_slices |-> dop.t[1][1], tuple |-> None, slice |-> dop.t[1][1]])

\* A slice of the current tuple, or the first one of the next tuple.
SplitNext(s, k, cut(_, _, _)) ==
    LET st == St(s, k)
        r == NextUp(s, k, 1)
        at(f, tuple, slice) ==
            Returns(Put(f, k, [st EXCEPT !.tuple = tuple, !.slice = slice + 1]),
                    Some(cut(tuple[1], slice, st.num_slices)))
    IN  IF st.slice < st.num_slices THEN at(s, st.tuple, st.slice)
        ELSE IF r.t = None THEN r ELSE at(r.s, r.t, 0)

SplitRowDataNext(s, k) ==
    SplitNext(s, k, LAMBDA t, slice, n : <<SplitArray(t[1], n, slice)>>)
SplitColumnDataNext(s, k) ==
    SplitNext(s, k, LAMBDA t, slice, n : [c \in DOMAIN t |-> SplitArray(t[c], n, slice)])
SplitRangeNext(s, k) ==
    SplitNext(s, k, LAMBDA t, slice, n :
        <<ComputeStartIndex(t, slice, n), ComputeEndIndex(t, slice, n), t[3]>>)

(***************************************************************************)
(* Operators that call a nested function                                   *)
(***************************************************************************)
RECURSIVE ExecuteTuples(_, _)

\* The call of a nested function for one tuple: its result, and its failures.
CallInner(s, k, t) ==
    LET call == ExecuteTuples(Extra(s, k), <<Some(t)>>)
    IN  Returns([s EXCEPT !.failed = @ \cup call.failed], call.t)

NestedMapNext(s, k) ==
    LET r == NextUp(s, k, 1)
    IN  IF r.t = None THEN r ELSE CallInner(r.s, k, r.t[1])

\* The results by the order of the inputs: every task has its own place in the list.
MaterializeUpstream(s, k) ==
    LET in == Drain(OpenUp(s, k, 1), Up(s, k, 1))
        calls == Fold(LAMBDA acc, t : LET r == CallInner(acc.s, k, t)
                                      IN  [s |-> r.s, ts |-> Append(acc.ts, r.t)],
                      [s |-> in.s, ts |-> <<>>], in.ts)
    IN  CloseUp(Put(calls.s, k, [container |-> calls.ts, it |-> 1]), k, 1)

ParallelMapOmpOpen(s, k) == Put(s, k, [St(s, k) EXCEPT !.it = 1])

RECURSIVE NextResult(_, _)
NextResult(s, k) ==
    LET r == NextElement(s, k)
    IN  IF r.t # None /\ r.t[1] = None THEN NextResult(r.s, k)
        ELSE Returns(r.s, IF r.t = None THEN None ELSE r.t[1])

ParallelMapOmpNext(s, k) ==
    NextResult(IF St(s, k).container = <<>> THEN MaterializeUpstream(s, k) ELSE s, k)

\* The workers run the plan together (as PlanEval defines it); a worker without a
\* result is skipped, in next() or when the results are stored.
ProcessComputeResult(s, k) ==
    LET in == Drain(s, Up(s, k, 1))
    IN  Put(in.s, k, [container |-> EvalTogether(Extra(s, k), in.ts), it |-> 1])

LambdaMaterializeResult(s, k) ==
    LET in == Drain(s, Up(s, k, 1))
    IN  Put(in.s, k, [container |-> SelectSeq(EvalTogether(Extra(s, k), in.ts),
                                              LAMBDA r : r # None), it |-> 1])

ConcurrentExecuteProcessNext(s, k) ==
    NextResult(IF St(s, k).container = <<>> THEN ProcessComputeResult(s, k) ELSE s, k)

ConcurrentExecuteLambdaNext(s, k) ==
    NextResult(IF St(s, k).container = <<>> THEN LambdaMaterializeResult(s, k) ELSE s, k)

(***************************************************************************)
(* The classes                                                             *)
(***************************************************************************)
Containers == {"SortOperator", "TopKOperator", "ReduceByKeyOperator", "ReduceByIndexOperator",
               "GroupByOperator", "PartitionOperator", "ParquetScanOperator",
               "ParallelMapOmpOperator", "ConcurrentExecuteProcessOperator",
               "ConcurrentExecuteLambdaOperator"}

OpenMethod(s, k) ==
    LET class == s.objs[k].class
    IN  CASE class = "ConstantTupleOperator" -> ConstantTupleOpen(s, k)
          [] class \in {"RowScanOperator", "ColumnScanOperator"} -> ScanOpen(s, k)
          [] class = "RangeSourceOperator" -> RangeSourceOpen(s, k)
          [] class = "ExpandPatternOperator" -> ExpandPatternOpen(s, k)
          [] class = "AssertCorrectOpenNextCloseOperator" -> AssertOpen(s, k)
          [] class = "CartesianOperator" -> CartesianOpen(s, k)
          [] class = "JoinOperator" -> JoinOpen(s, k)
          [] class \in {"AntiJoinOperator", "AntiJoinPredicatedOperator", "SemiJoinOperator"} ->
                AntiJoinOpen(s, k)
          [] class = "SortOperator" -> SortOpen(s, k)
          [] class = "TopKOperator" -> TopKOpen(s, k)
          [] class = "ReduceByKeyOperator" -> ReduceByKeyOpen(s, k)
          [] class = "ReduceByIndexOperator" -> ReduceByIndexOpen(s, k)
          [] class = "ReduceByKeyGroupedOperator" -> ReduceByKeyGroupedOpen(s, k)
          [] class = "GroupByOperator" -> GroupByOpen(s, k)
          [] class = "PartitionOperator" -> PartitionOpen(s, k)
          [] class \in {"ReduceOperator", "MaterializeRowVectorOperator"} -> Reopen(s, k)
          [] class = "MaterializeParquetOperator" -> s
          [] class \in {"SplitRowDataOperator", "SplitColumnDataOperator",
                        "SplitRangeOperator"} -> SplitOpen(s, k)
          [] class = "ParallelMapOmpOperator" -> ParallelMapOmpOpen(s, k)
          [] OTHER -> OpenUps(s, k)

CloseMethod(s, k) ==
    LET class == s.objs[k].class
    IN  CASE class \in {"ConstantTupleOperator", "RangeSourceOperator", "GroupByOperator",
                        "PartitionOperator", "ReduceOperator", "MaterializeRowVectorOperator",
                        "MaterializeParquetOperator", "ParallelMapOmpOperator"} -> s
          [] class = "ExpandPatternOperator" -> CloseUp(s, k, 2)
          [] class = "AssertCorrectOpenNextCloseOperator" -> AssertClose(s, k)
          [] class \in {"SplitRowDataOperator", "SplitColumnDataOperator",
                        "SplitRangeOperator"} -> CloseUp(s, k, 1)
          [] OTHER -> CloseUps(s, k)

NextMethod(s, k) ==
    LET class == s.objs[k].class
    IN  CASE class = "ConstantTupleOperator" -> ConstantTupleNext(s, k)
          [] class = "RowScanOperator" -> RowScanNext(s, k)
          [] class = "ColumnScanOperator" -> ColumnScanNext(s, k)
          [] class = "RangeSourceOperator" -> RangeSourceNext(s, k)
          [] class = "ExpandPatternOperator" -> ExpandPatternNext(s, k)
          [] class = "ParquetScanOperator" -> ParquetScanNext(s, k)
          [] class = "MapOperator" -> MapNext(s, k)
          [] class \in {"FilterOperator", "AntiJoinOperator", "AntiJoinPredicatedOperator",
                        "SemiJoinOperator"} -> NextPassing(s, k)
          [] class = "EnsureSingleTupleOperator" -> EnsureSingleTupleNext(s, k)
          [] class = "AssertCorrectOpenNextCloseOperator" -> AssertNext(s, k)
          [] class = "ZipOperator" -> ZipNext(s, k)
          [] class = "CartesianOperator" -> CartesianNext(s, k)
          [] class = "JoinOperator" -> JoinNext(s, k)
          [] class = "ReduceByKeyGroupedOperator" -> ReduceByKeyGroupedNext(s, k)
          [] class = "ReduceOperator" -> ReduceNext(s, k)
          [] class = "MaterializeRowVectorOperator" -> MaterializeRowVectorNext(s, k)
          [] class = "MaterializeColumnChunksOperator" -> MaterializeColumnChunksNext(s, k)
          [] class = "MaterializeParquetOperator" -> MaterializeParquetNext(s, k)
          [] class = "SplitRowDataOperator" -> SplitRowDataNext(s, k)
          [] class = "SplitColumnDataOperator" -> SplitColumnDataNext(s, k)
          [] class = "SplitRangeOperator" -> SplitRangeNext(s, k)
          [] class = "NestedMapOperator" -> NestedMapNext(s, k)
          [] class = "ParallelMapOmpOperator" -> ParallelMapOmpNext(s, k)
          [] class = "ConcurrentExecuteProcessOperator" -> ConcurrentExecuteProcessNext(s, k)
          [] class = "ConcurrentExecuteLambdaOperator" -> ConcurrentExecuteLambdaNext(s, k)
          [] OTHER -> NextElement(s, k)

Call(method, s, k) ==
    CASE method = "open" -> OpenMethod(s, k)
      [] method = "next" -> NextMethod(s, k)
      [] method = "close" -> CloseMethod(s, k)

\* The members of an object after its construction, as far as they have a value.
Constructed(stmt, params) ==
    CASE stmt.class = "ConstantTupleOperator" ->
            [has_returned |-> FALSE,
             tuple |-> IF stmt.extra.input THEN params[stmt.extra.values[1] + 1]
                       ELSE Some([i \in DOMAIN stmt.extra.values |->
                                      ConstantValue(stmt.extra.values[i], 0)])]
      [] stmt.class = "RangeSourceOperator" -> [current |-> 0, to |-> 0, step |-> 0]
      [] stmt.class = "AssertCorrectOpenNextCloseOperator" -> [is_open |-> FALSE]
      [] stmt.class = "JoinOperator" -> [build_table |-> <<>>, left_matches |-> <<>>]
      [] stmt.class \in {"AntiJoinOperator", "AntiJoinPredicatedOperator", "SemiJoinOperator"} ->
            [build_table |-> <<>>]
      [] stmt.class \in {"ReduceOperator", "MaterializeRowVectorOperator",
                         "MaterializeParquetOperator"} -> [has_returned |-> FALSE]
      [] stmt.class \in Containers -> [container |-> <<>>, it |-> 1]
      [] OTHER -> <<>>

MakeObject(stmt, params) ==
    [class |-> stmt.class, extra |-> stmt.extra, ups |-> stmt.ups,
     st |-> Constructed(stmt, params)]

\* The destructors check that nothing is left open.
LeftOpen(s) ==
    IF \E k \in DOMAIN s.objs : /\ s.objs[k].class = "AssertCorrectOpenNextCloseOperator"
                                /\ s.objs[k].st.is_open
    THEN {"destructor: assert(!is_open_)"} ELSE {}

\* What the generated function returns, after close() and the destructors.
Returned(result, closed) == [t |-> result.t, failed |-> closed.failed \cup LeftOpen(closed)]
CloseSink(result, sink) == Returned(result, close(result.s, sink))

\* The generated function: params[p + 1] is its argument for port p.
ExecuteTuples(f, params) ==
    LET objs == Fold(LAMBDA acc, stmt : acc @@ (stmt.var :> MakeObject(stmt, params)),
                     <<>>, f.body)
    IN  CloseSink(next(open([objs |-> objs, failed |-> {}], f.sink), f.sink), f.sink)

=============================================================================
