--------------------------- MODULE ParallelPasses ---------------------------
(***************************************************************************)
(* The passes for the target omp: parallelize cuts the input of every scan *)
(* into one slice per thread and moves the operators behind the scan into  *)
(* a ParallelMap, parallelize_omp makes the ParallelMap an OpenMP loop.    *)
(***************************************************************************)
EXTENDS LocalPasses

DegreeOfParallelism == DAGConstantTuple(<<Var("$DOP")>>, <<[kind |-> "long", elem |-> <<>>]>>)

MakeSplitOperator(op) ==
    CASE op.name = "column_scan" -> DAGSplitColumnData
      [] op.name = "row_scan" -> DAGSplitRowData
      [] op.name = "range_source" -> DAGSplitRange

\* A plan that consists of a parameter lookup and the given operators behind it.
ChainPlan(ops) ==
    LET d == AddChain(EmptyDag, NoOperator, <<DAGParameterLookup(<<>>)>> \o ops)
    IN  set_output(set_input(d, 0, 1, 0), d.last, 0)

\* The source operator moves into a new ParallelMap behind a split of its input.
\* The split gets key d.last + 1, the constant + 2, the ParallelMap + 3.
StartParallelMap(d, source) ==
    LET in == in_flow(d, source, 0)
        out == out_flow(d, source)
        split == d.last + 1
        dop == d.last + 2
        pop == d.last + 3
        added == AddChain(AddOperator(RemoveFlow(RemoveFlow(d, in), out),
                                      MakeSplitOperator(d.ops[source])),
                          NoOperator, <<DegreeOfParallelism>>)
        map == AddOperator(added, WithInner(DAGParallelMap, ChainPlan(<<d.ops[source]>>)))
        fed == AddFlow(AddFlow(RemoveOperator(map, source), in.src, 0, split, 0), dop, 0, split, 1)
    IN  AddFlow(AddFlow(fed, split, in.srcPort, pop, 0), pop, 0, out.dst, out.dstPort)

\* The operator behind pop becomes the last one of its inner plan.
MoveIntoMap(d, pop) ==
    LET k == successor(d, pop)
        out == out_flow(d, k)
        cut == RemoveOperator(RemoveFlow(RemoveFlow(d, out_flow(d, pop)), out), k)
    IN  InInner(AddFlow(cut, pop, 0, out.dst, out.dstPort), pop,
                LAMBDA i : AddOutput(i, d.ops[k]))

\* Every thread reduces its slice to one tuple; the reduction in the outer plan
\* stays.
PreReduce(d, pop) ==
    InInner(d, pop, LAMBDA i : AddOutput(AddOutput(i, DAGReduce(d.ops[successor(d, pop)].arg)),
                                         DAGEnsureSingleTuple))

\* The inner plan partitions its output into one partition per thread.
PartitionOutput(i) ==
    LET parted == AddOutput(i, DAGPartition(0))
    IN  AddFlow(AddOperator(parted, DegreeOfParallelism), parted.last + 1, 0, parted.last, 1)

\* Every thread reduces and partitions its slice, a second ParallelMap reduces the
\* partitions of one key range that all threads produced.
ReduceByKeyInMap(d, pop) ==
    LET k == successor(d, pop)
        red == d.ops[k]
        out == out_flow(d, k)
        pre == [DAGOperator(red.name, 1, red.arg) EXCEPT !.type = <<>>]
        cut == RemoveOperator(RemoveFlow(RemoveFlow(d, out_flow(d, pop)), out), k)
        next == WithInner(DAGParallelMap, ChainPlan(<<DAGRowScan(FALSE), DAGRowScan(FALSE), red>>))
        grown == AddChain(cut, pop, <<DAGGroupBy, DAGProjection(<<1>>), next>>)
    IN  InInner(AddFlow(grown, grown.last, 0, out.dst, out.dstPort), pop,
                LAMBDA i : PartitionOutput(AddOutput(i, pre)))

\* A partitioning and its fan-out move into the inner plan.
MovePartitionIntoMap(d, pop) ==
    LET k == successor(d, pop)
        fanout == in_flow(d, k, 1)
        out == out_flow(d, k)
        cut == RemoveFlows(d, <<out_flow(d, pop), fanout, out>>)
        left == RemoveOperator(RemoveOperator(cut, k), fanout.src)
        moved(i) == LET parted == AddOutput(i, d.ops[k])
                    IN  AddFlow(AddOperator(parted, d.ops[fanout.src]), parted.last + 1, 0,
                                parted.last, 1)
    IN  InInner(AddFlow(left, pop, 0, out.dst, out.dstPort), pop, moved)

\* The existing reader e of the inner plan's input reads it through a projection.
ProjectInput(i, e, positions) ==
    add_input(InsertInto(i, out_flow(i, e.op), DAGProjection(positions)), 0, e.op, 0)

\* The pattern of an ExpandPattern reaches the inner plan as an extra field of its
\* input tuple.
MoveExpandPatternIntoMap(d, pop) ==
    LET k == successor(d, pop)
        toMap == in_flow(d, pop, 0)
        toPattern == in_flow(d, k, 0)
        out == out_flow(d, k)
        cut == RemoveOperator(RemoveFlows(d, <<toMap, out_flow(d, pop), toPattern, out>>), k)
        both == AddFlow(AddFlow(AddOperator(cut, DAGCartesian), toPattern.src, toPattern.srcPort,
                                NextKey(d), 0), toMap.src, toMap.srcPort, NextKey(d), 1)
        outer == AddFlow(AddFlow(both, NextKey(d), 0, pop, 0), pop, 0, out.dst, out.dstPort)
        moved(i) ==
            LET pattern == i.last + 1
                grown == AddChain(AddOperator(i, d.ops[k]), NoOperator,
                                  <<DAGParameterLookup(<<>>), DAGProjection(<<0>>)>>)
                fed == AddFlow(AddFlow(grown, grown.last, 0, pattern, 0),
                               output(i).op, output(i).opPort, pattern, 1)
                left == set_output(set_input(fed, 0, pattern + 1, 0), pattern, 0)
            IN  Fold(LAMBDA acc, e : ProjectInput(acc, e, <<1, 2, 3>>), left, i.inputs)
    IN  InInner(outer, pop, moved)

\* The plan that joins one pair of partitions.
JoinPlan(num_keys) ==
    LET side(d, p) == AddChain(d, NoOperator, <<DAGParameterLookup(<<>>), DAGProjection(<<p>>),
                                                DAGRowScan(FALSE), DAGRowScan(FALSE)>>)
        both == AddOperator(side(side(EmptyDag, 0), 1), DAGJoin(num_keys))
    IN  set_output(add_input(add_input(AddFlow(AddFlow(both, 4, 0, 9, 0), 8, 0, 9, 1),
                                       0, 1, 0), 0, 5, 0), 9, 0)

\* Both sides are partitioned by the key; the outer join pairs the partitions of
\* the same number, a second ParallelMap joins each pair.
JoinInMap(d, pop) ==
    LET this == out_flow(d, pop)
        k == this.dst
        other == in_flow(d, k, 1 - this.dstPort)
        out == out_flow(d, k)
        cut == RemoveFlows(d, <<this, other, out>>)
        mine == AddAfter(cut, pop, DAGGroupBy)
        part == mine.last + 1
        theirs == AddChain(mine, NoOperator, <<DAGPartition(0), DAGGroupBy>>)
        dop == AddOperator(theirs, DegreeOfParallelism)
        fed == AddFlow(AddFlow(dop, other.src, other.srcPort, part, 0), dop.last, 0, part, 1)
        joined == AddFlow(AddFlow(fed, mine.last, 0, k, this.dstPort),
                          theirs.last, 0, k, other.dstPort)
        next == WithInner(DAGParallelMap, JoinPlan(d.ops[k].arg))
        grown == AddChain([joined EXCEPT !.ops[k].arg = 1], k, <<DAGProjection(<<1, 2>>), next>>)
    IN  InInner(AddFlow(grown, grown.last, 0, out.dst, out.dstPort), pop, PartitionOutput)

\* A ParallelMap whose plan may produce several tuples materializes them, and they
\* are scanned behind it.
FinishMap(d, pop) ==
    IF IsSingleTupleProducer(inner_dag(d.ops[pop]).ops[output(inner_dag(d.ops[pop])).op])
    THEN d
    ELSE InInner(InsertInto(d, out_flow(d, pop), DAGRowScan(FALSE)), pop,
                 LAMBDA i : AddOutput(i, DAGMaterializeRowVector))

\* The loop that extends one ParallelMap: the plan, and the maps still to extend.
RECURSIVE ExtendMap(_, _)
ExtendMap(s, pop) ==
    LET next == IF out_degree(s.d, pop) = 1 THEN s.d.ops[successor(s.d, pop)].name ELSE "none"
        go(d) == ExtendMap([s EXCEPT !.d = d], pop)
        stop(d) == [s EXCEPT !.d = FinishMap(d, pop)]
        stopAndStart(d) == [d |-> FinishMap(d, pop), maps |-> Append(s.maps, d.last)]
    IN  CASE next \in {"filter", "map", "parquet_scan", "column_scan"} ->
                go(MoveIntoMap(s.d, pop))
          [] next = "reduce" -> stop(PreReduce(s.d, pop))
          [] next \in {"reduce_by_key", "reduce_by_key_grouped"} ->
                stopAndStart(ReduceByKeyInMap(s.d, pop))
          [] next = "partition" -> go(MovePartitionIntoMap(s.d, pop))
          [] next = "expand_pattern" -> go(MoveExpandPatternIntoMap(s.d, pop))
          [] next = "join" -> stopAndStart(JoinInMap(s.d, pop))
          [] OTHER -> stop(s.d)

RECURSIVE ExtendMaps(_)
ExtendMaps(s) ==
    IF s.maps = <<>> THEN s.d
    ELSE ExtendMaps(ExtendMap([s EXCEPT !.maps = Tail(@)], Head(s.maps)))

\* Every source that no ParallelMap has swallowed starts a new one.
Parallelize(d) ==
    Fold(LAMBDA acc, source :
             IF source \notin DOMAIN acc.ops THEN acc
             ELSE LET started == StartParallelMap(acc, source)
                  IN  ExtendMaps([d |-> started, maps |-> <<started.last>>]),
         d, SelectSeq(InReverseTopologicalOrder(d), LAMBDA k : IsSourceOperator(d.ops[k])))

\* A variable of the constant tuples of a plan and of its inner plans gets a value.
Specialize(op, var, value) ==
    IF op.name = "constant_tuple"
    THEN [op EXCEPT !.arg = [i \in DOMAIN @ |-> IF @[i].var = var THEN value ELSE @[i]]]
    ELSE op

RECURSIVE ParallelizeOmp(_)
ParallelizeOmp(d) ==
    Fold(LAMBDA acc, k :
             LET op == Specialize(acc.ops[k], "$DOP", Var("omp_get_num_threads()"))
                 new == IF op.name = "parallel_map" THEN ReplaceOperator(acc, k, DAGParallelMapOmp)
                        ELSE [acc EXCEPT !.ops[k] = op]
             IN  IF has_inner_dag(op) THEN InInner(new, k, ParallelizeOmp) ELSE new,
         d, InTopologicalOrder(d))

=============================================================================
