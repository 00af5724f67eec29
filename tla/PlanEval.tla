------------------------------ MODULE PlanEval ------------------------------
(***************************************************************************)
(* What a plan computes: the stream of tuples every operator delivers when *)
(* it is opened once, as the templates in generate/src/code_gen/operators  *)
(* and the operators of runtime/src/operators produce it.                  *)
(*                                                                         *)
(* A stream is a sequence of tuples, a tuple a sequence of values. A value *)
(* is a number, an array [off, rows] (the offset of its first row in the   *)
(* vector it is a view of, and its rows) or, for a string, the file it     *)
(* names: the sequence of its row groups, each a sequence of rows. A       *)
(* pattern is the sequence of the files it expands to.                     *)
(*                                                                         *)
(* The workers of a ConcurrentExecute are evaluated together, since an     *)
(* exchange carries tuples between them: a stream of a plan is a function  *)
(* from its workers 1..n to sequences. The order in which a hash table     *)
(* delivers its entries is that of their insertion.                        *)
(***************************************************************************)
EXTENDS PlanTypes

CONSTANTS
    MurmurHash2(_, _),   \* the hash of a key under a seed, a natural number
    NumThreads,          \* OMP_NUM_THREADS
    NumWorkers           \* JITQ_PROCESS_NUM_WORKERS, JITQ_LAMBDA_NUM_WORKERS

ASSUME NumThreads \in Nat \ {0} /\ NumWorkers \in Nat \ {0}

(***************************************************************************)
(* Functions of the user                                                   *)
(***************************************************************************)
Total(args, t) == Fold(LAMBDA acc, i : acc + t[i + 1], 0, args)

EvalField(e, t) ==
    CASE e.fn = "arg" -> t[e.args[1] + 1]
      [] e.fn \in {"sum", "captured"} -> Total(e.args, t) + e.val
      [] e.fn = "mod" -> Total(e.args, t) % e.val

EvalPredicate(p, t) ==
    CASE p.fn = "lt" -> Total(p.args, t) < p.val
      [] p.fn = "ge" -> Total(p.args, t) >= p.val

Combine(func, a, b) ==
    [i \in DOMAIN a |-> IF func = "sum" THEN a[i] + b[i] ELSE Max({a[i], b[i]})]

(***************************************************************************)
(* Operators that work on their own input only                             *)
(***************************************************************************)
Array(rows) == [off |-> 0, rows |-> rows]

Scan(array, add_index) ==
    [i \in DOMAIN array.rows |->
        (IF add_index THEN <<array.off + i - 1>> ELSE <<>>) \o array.rows[i]]

\* A tuple of columns as the array of its rows, and back.
ZipColumns(t) ==
    [off |-> t[1].off,
     rows |-> [j \in DOMAIN t[1].rows |-> [i \in DOMAIN t |-> t[i].rows[j][1]]]]

Columns(rows, width) ==
    [i \in 1..width |-> Array([j \in DOMAIN rows |-> <<rows[j][i]>>])]

EvalRowScan(s, add_index) == FlatMap(LAMBDA t : Scan(t[1], add_index), s)
EvalColumnScan(s, add_index) == FlatMap(LAMBDA t : Scan(ZipColumns(t), add_index), s)

\* Only the first tuple of the input is read.
EvalRangeSource(s) ==
    IF s = <<>> THEN <<>>
    ELSE LET from == s[1][1]
             to == s[1][2]
             step == s[1][3]
         IN  IF from >= to THEN <<>>
             ELSE [i \in 1..((to - from + step - 1) \div step) |-> <<from + (i - 1) * step>>]

EvalFilter(s, pred) == SelectSeq(s, LAMBDA t : EvalPredicate(pred, t))
EvalMap(s, func) ==
    [i \in DOMAIN s |-> [p \in DOMAIN func |-> EvalField(func[p], s[i])]]
EvalProjection(s, positions) ==
    [i \in DOMAIN s |-> [p \in DOMAIN positions |-> s[i][positions[p] + 1]]]

\* The right input is the outer loop.
EvalCartesian(left, right) ==
    FlatMap(LAMBDA r : [i \in DOMAIN left |-> left[i] \o r], right)

FirstKeys(s) ==
    Fold(LAMBDA acc, t : IF t[1] \in ToSet(acc) THEN acc ELSE Append(acc, t[1]), <<>>, s)

WithKey(s, key) == SelectSeq(s, LAMBDA t : t[1] = key)

\* The left input is in the hash table, the right one is streamed.
EvalJoin(left, right, n) ==
    FlatMap(LAMBDA r :
        LET matches == SelectSeq(left, LAMBDA l : SubSeq(l, 1, n) = SubSeq(r, 1, n))
        IN  [i \in DOMAIN matches |-> matches[i] \o SubSeq(r, n + 1, Len(r))], right)

EvalAntiJoin(left, right) == SelectSeq(left, LAMBDA l : WithKey(right, l[1]) = <<>>)
EvalSemiJoin(left, right) == SelectSeq(left, LAMBDA l : WithKey(right, l[1]) # <<>>)
EvalAntiJoinPredicated(left, right, pred) ==
    SelectSeq(left, LAMBDA l : \A i \in DOMAIN WithKey(right, l[1]) :
                                   ~EvalPredicate(pred, l \o WithKey(right, l[1])[i]))

EvalReduce(s, func) ==
    IF s = <<>> THEN <<>> ELSE <<Fold(LAMBDA a, b : Combine(func, a, b), s[1], Tail(s))>>

EvalReduceByKey(s, func) ==
    LET keys == FirstKeys(s)
        values(k) == [i \in DOMAIN WithKey(s, k) |-> Tail(WithKey(s, k)[i])]
    IN  [i \in DOMAIN keys |-> <<keys[i]>> \o EvalReduce(values(keys[i]), func)[1]]

\* Only neighbours with the same key are combined.
EvalReduceByKeyGrouped(s, func) ==
    Fold(LAMBDA acc, t :
             IF acc # <<>> /\ Last(acc)[1] = t[1]
             THEN [acc EXCEPT ![Len(acc)] = <<t[1]>> \o Combine(func, Tail(@), Tail(t))]
             ELSE Append(acc, t), <<>>, s)

\* By the index, from the smallest to the largest.
EvalReduceByIndex(s, arg) ==
    LET reduced == EvalReduceByKey(s, arg.func)
        present == SortedBy(ToSet(FirstKeys(s)), <)
    IN  IF Assert(\A i \in DOMAIN present : present[i] \in arg.min..arg.max, "at(key)")
        THEN [i \in DOMAIN present |-> WithKey(reduced, present[i])[1]] ELSE <<>>

EvalGroupBy(s) ==
    LET keys == FirstKeys(s)
    IN  [i \in DOMAIN keys |->
            <<keys[i], Array([j \in DOMAIN WithKey(s, keys[i]) |-> <<WithKey(s, keys[i])[j][2]>>])>>]

\* A tuple goes behind the ones that are smaller or, as it is stable, equal.
EvalSort(s) ==
    Fold(LAMBDA acc, t : SelectSeq(acc, LAMBDA u : u[1] <= t[1]) \o <<t>>
                         \o SelectSeq(acc, LAMBDA u : u[1] > t[1]), <<>>, s)

\* The n greatest from the greatest on, the earliest ones of those that are equal.
EvalTopK(s, n) ==
    LET descending == Fold(LAMBDA acc, t : SelectSeq(acc, LAMBDA u : u[1] >= t[1]) \o <<t>>
                                           \o SelectSeq(acc, LAMBDA u : u[1] < t[1]), <<>>, s)
    IN  SubSeq(descending, 1, Min({n, Len(s)}))

EvalZip(ss) ==
    IF Assert(ss # <<>>, "a Zip without inputs never ends")
    THEN [j \in 1..Min({Len(ss[i]) : i \in DOMAIN ss}) |->
             Concat([i \in DOMAIN ss |-> ss[i][j]])]
    ELSE <<>>

EvalEnsureSingleTuple(s) ==
    IF Assert(Len(s) <= 1, "Found several tuples where a single one was expected")
    THEN s ELSE <<>>

\* One array, also of no rows; one chunk of columns, unless there are no rows.
EvalMaterializeRowVector(s) == << <<Array(s)>> >>
EvalMaterializeColumnChunks(s) == IF s = <<>> THEN <<>> ELSE <<Columns(s, Len(s[1]))>>

(***************************************************************************)
(* Partitions and slices                                                   *)
(***************************************************************************)
EvalPartition(s, fanout, seed) ==
    [p \in 1..fanout |->
        <<p - 1, Array(SelectSeq(s, LAMBDA t : MurmurHash2(t[1], seed) % fanout = p - 1))>>]

ComputeFirstIndex(size, slice, n) == (slice * size) \div n

SplitArray(a, n, slice) ==
    LET first == ComputeFirstIndex(Len(a.rows), slice, n)
        last == ComputeFirstIndex(Len(a.rows), slice + 1, n)
    IN  [off |-> a.off + first, rows |-> SubSeq(a.rows, first + 1, last)]

\* All columns of a slice have the bounds of the first one.
EvalSplitData(s, n) ==
    FlatMap(LAMBDA t : [i \in 1..n |-> [c \in DOMAIN t |-> SplitArray(t[c], n, i - 1)]], s)

ComputeStartIndex(t, slice, n) ==
    t[1] + ((slice * ((t[2] - t[1]) \div t[3])) \div n) * t[3]

\* Mutant: the last slice ends at a multiple of the step like the others.
ComputeEndIndexOfFullSteps(t, slice, n) == ComputeStartIndex(t, slice + 1, n)

ComputeEndIndex(t, slice, n) ==
    IF slice + 1 = n THEN t[2] ELSE ComputeStartIndex(t, slice + 1, n)

EvalSplitRange(s, n) ==
    FlatMap(LAMBDA t : [i \in 1..n |-> <<ComputeStartIndex(t, i - 1, n),
                                         ComputeEndIndex(t, i - 1, n), t[3]>>], s)

(***************************************************************************)
(* Files                                                                   *)
(***************************************************************************)
EvalExpandPattern(pattern, s) == [i \in DOMAIN s |-> <<pattern[1][1][s[i][1] + 1]>>]

\* The row groups of the slices [from, to) of n slices of the file.
RowGroups(t) ==
    SubSeq(t[1], ComputeFirstIndex(Len(t[1]), t[2], t[4]) + 1,
           ComputeFirstIndex(Len(t[1]), t[3], t[4]))

EvalParquetScan(s, width) ==
    FlatMap(LAMBDA t : [i \in DOMAIN RowGroups(t) |-> Columns(RowGroups(t)[i], width)], s)

\* The file is written also if there are no rows, then without a row group.
EvalMaterializeParquet(s) ==
    LET rows == FlatMap(LAMBDA t : ZipColumns(t).rows, s)
    IN  << <<IF rows = <<>> THEN <<>> ELSE <<rows>>, 0, 1, 1>> >>

(***************************************************************************)
(* Exchanges between the workers; ins[w] is the input of worker w.         *)
(***************************************************************************)
SquareRoot(n) == Max({r \in 0..n : r * r <= n})

ComputeGroupMembers(levels, dop, wid) ==
    LET groups == SquareRoot(dop)
        together(i) == CASE levels.num = 1 -> TRUE
                         [] levels.level = 0 -> i % groups = wid % groups
                         [] OTHER -> i \div groups = wid \div groups
    IN  SortedBy({i \in 0..dop - 1 : together(i)}, <)

EvalExchangeTcp(ins, levels, w) ==
    LET senders == ComputeGroupMembers(levels, Len(ins), w - 1)
        sent(s) == SelectSeq(ins[s + 1], LAMBDA t :
                       ComputeGroupMembers(levels, Len(ins), s)[t[1] + 1] = w - 1)
    IN  FlatMap(LAMBDA s : [i \in DOMAIN sent(s) |-> Tail(sent(s)[i])], senders)

\* The file a worker writes: one row group per member of its group.
ExchangeFile(s, group_size) ==
    [p \in 1..group_size |->
        FlatMap(LAMBDA t : IF t[1] = p - 1 THEN ZipColumns(Tail(t)).rows ELSE <<>>, s)]

EvalExchangeS3(ins, levels, dop, w) ==
    LET members == ComputeGroupMembers(levels, dop, w - 1)
        me == CHOOSE i \in DOMAIN members : members[i] = w - 1
    IN  [i \in DOMAIN members |->
            <<ExchangeFile(ins[members[i] + 1], Len(members)), me - 1, me, Len(members)>>]

(***************************************************************************)
(* Plans                                                                   *)
(***************************************************************************)

\* The value the generated code computes for a field of a constant tuple.
ConstantValue(v, wid) ==
    CASE v.var = "" -> v.val
      [] v.var = "omp_get_num_threads()" -> NumThreads
      [] v.var = "num_workers()" -> NumWorkers
      [] v.var = "worker_id()" -> wid
      [] v.var = "result-pattern" -> [i \in 1..NumWorkers |-> <<>>]

\* The stream of an operator without inner plan from the streams of its inputs.
EvalOperator(op, in, wid) ==
    CASE op.name = "constant_tuple" -> <<[i \in DOMAIN op.arg |-> ConstantValue(op.arg[i], wid)]>>
      [] op.name = "row_scan" -> EvalRowScan(in[1], op.arg)
      [] op.name = "column_scan" -> EvalColumnScan(in[1], op.arg)
      [] op.name = "range_source" -> EvalRangeSource(in[1])
      [] op.name = "filter" -> EvalFilter(in[1], op.arg)
      [] op.name = "map" -> EvalMap(in[1], op.arg)
      [] op.name = "map_cpp" ->
            [i \in DOMAIN in[1] |->
                LET t == in[1][i]
                IN  <<Len(ComputeGroupMembers([num |-> t[1], level |-> t[2]], t[3], t[4]))>>]
      [] op.name = "projection" -> EvalProjection(in[1], op.arg)
      [] op.name = "cartesian" -> EvalCartesian(in[1], in[2])
      [] op.name = "join" -> EvalJoin(in[1], in[2], op.arg)
      [] op.name = "antijoin" -> EvalAntiJoin(in[1], in[2])
      [] op.name = "semijoin" -> EvalSemiJoin(in[1], in[2])
      [] op.name = "antijoin_predicated" -> EvalAntiJoinPredicated(in[1], in[2], op.arg)
      [] op.name = "reduce" -> EvalReduce(in[1], op.arg)
      [] op.name = "reduce_by_key" -> EvalReduceByKey(in[1], op.arg)
      [] op.name = "reduce_by_key_grouped" -> EvalReduceByKeyGrouped(in[1], op.arg)
      [] op.name = "reduce_by_index" -> EvalReduceByIndex(in[1], op.arg)
      [] op.name = "groupby" -> EvalGroupBy(in[1])
      [] op.name = "sort" -> EvalSort(in[1])
      [] op.name = "topk" -> EvalTopK(in[1], op.arg)
      [] op.name = "zip" -> EvalZip(in)
      [] op.name = "ensure_single_tuple" -> EvalEnsureSingleTuple(in[1])
      [] op.name = "assert_correct_open_next_close" -> in[1]
      [] op.name = "materialize_row_vector" -> EvalMaterializeRowVector(in[1])
      [] op.name = "materialize_column_chunks" -> EvalMaterializeColumnChunks(in[1])
      [] op.name = "materialize_parquet_file" -> EvalMaterializeParquet(in[1])
      [] op.name = "partition" -> EvalPartition(in[1], in[2][1][1], op.arg)
      [] op.name \in {"split_row_data", "split_column_data"} ->
            EvalSplitData(in[1], in[2][1][1])
      [] op.name = "split_range" -> EvalSplitRange(in[1], in[2][1][1])
      [] op.name = "expand_pattern" -> EvalExpandPattern(in[1], in[2])
      [] op.name = "parquet_scan" -> EvalParquetScan(in[1], Len(op.type))

First(s) == SubSeq(s, 1, Min({1, Len(s)}))

\* params[w][p + 1] is what worker w gets at port p: no tuple or one. The result is
\* the stream of the plan's output for every worker.
RECURSIVE EvalPlan(_, _)

\* The results of a plan for tuples ts, each on its own (a functor of the plan).
EvalEach(plan, ts) ==
    [i \in DOMAIN ts |-> First(EvalPlan(plan, << << <<ts[i]>> >> >>)[1])]

\* The results of workers that run the plan together, one tuple each.
EvalTogether(plan, ts) ==
    LET outs == EvalPlan(plan, [i \in DOMAIN ts |-> << <<ts[i]>> >>])
    IN  [i \in DOMAIN ts |-> First(outs[i])]

\* Up to the first empty result: it looks like the end of the stream.
NonEmptyPrefix(ss) ==
    Concat(SubSeq(ss, 1, Min({i - 1 : i \in {j \in DOMAIN ss : ss[j] = <<>>}} \cup {Len(ss)})))

\* All workers' streams of operator k; streams holds those of its inputs.
EvalVertex(d, k, params, streams) ==
    LET op == d.ops[k]
        workers == DOMAIN params
        in(w) == [p \in 1..op.ins |-> streams[predecessor(d, k, p - 1)][w]]
        firsts(outs) == [w \in workers |-> First(outs[w])]
    IN  CASE op.name = "parameter_lookup" ->
                [w \in workers |-> params[w][input_port(d, k) + 1]]
          [] op.name = "pipeline" ->
                firsts(EvalPlan(inner_dag(op), [w \in workers |-> in(w)]))
          [] op.name = "compiled_pipeline" ->
                firsts(EvalPlan(op.arg, [w \in workers |-> in(w)]))
          [] op.name = "nested_map" ->
                [w \in workers |-> NonEmptyPrefix(EvalEach(inner_dag(op), in(w)[1]))]
          [] op.name \in {"parallel_map", "parallel_map_omp"} ->
                [w \in workers |-> Concat(EvalEach(inner_dag(op), in(w)[1]))]
          [] op.name \in {"concurrent_execute_process", "concurrent_execute_lambda"} ->
                [w \in workers |-> Concat(EvalTogether(inner_dag(op), in(w)[1]))]
          [] op.name = "exchange_tcp" ->
                [w \in workers |-> EvalExchangeTcp([v \in workers |-> in(v)[1]], op.arg, w)]
          [] op.name = "exchange_s3" ->
                [w \in workers |-> EvalExchangeS3([v \in workers |-> in(v)[1]], op.arg,
                                                  in(w)[2][1][1], w)]
          [] OTHER -> [w \in workers |-> EvalOperator(op, in(w), w - 1)]

\* The streams of all operators of the plan.
Streams(d, params) ==
    Fold(LAMBDA acc, k : acc @@ (k :> EvalVertex(d, k, params, acc)),
         <<>>, InReverseTopologicalOrder(d))

EvalPlan(d, params) ==
    CHOOSE r \in {Streams(d, p)[output(d).op] : p \in {q \in {params} : q = q}} : TRUE

\* The result of a query of the given type as a bag, since its order is not specified:
\* the rows of the array or of the file it returns, or its only tuple.
BagOfRows(out, type) ==
    LET rows == CASE IsArray(type[1]) -> FlatMap(LAMBDA t : t[1].rows, out)
                  [] type = FileSlice -> FlatMap(LAMBDA t : Concat(t[1]), out)
                  [] OTHER -> out
    IN  [r \in ToSet(rows) |-> Cardinality({i \in DOMAIN rows : rows[i] = r})]

\* The parameters of the only worker that runs the outermost plan.
Params(inputs) == <<[i \in DOMAIN inputs |-> <<inputs[i]>>]>>

Result(d, inputs, type) == BagOfRows(EvalPlan(d, Params(inputs))[1], type)

=============================================================================
