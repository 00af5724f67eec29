------------------------- MODULE DistributedPasses -------------------------
(***************************************************************************)
(* The passes for the targets process and lambda: parallelize_concurrent   *)
(* moves the plan into ConcurrentExecute operators and merges them, single *)
(* inout gives each one input and one output, the exchange passes replace  *)
(* the logical exchanges, and the operator is specialized to processes or  *)
(* Lambda functions.                                                       *)
(***************************************************************************)
EXTENDS ParallelPasses

IsParallizationSeed(op) ==
    op.name \in {"antijoin", "antijoin_predicated", "cartesian", "expand_pattern", "join",
                 "range_source", "reduce", "reduce_by_key", "semijoin", "topk"}

Param == DAGParameterLookup(<<>>)

(***************************************************************************)
(* A seed moves into a ConcurrentExecute of its own. Each operator returns *)
(* the plan in which the new ConcurrentExecute has the key NextKey(d).     *)
(***************************************************************************)

\* A seed k with two inputs: input p passes through the operators wraps[p + 1].
SeedTwoInputs(d, k, wraps) ==
    LET pop == NextKey(d)
        left == in_flow(d, k, 0)
        right == in_flow(d, k, 1)
        out == out_flow(d, k)
        params == AddOperator(AddOperator(EmptyDag, Param), Param)
        lookups == set_input(set_input(params, 0, 1, 0), 1, 2, 0)
        wrapped(i, p) == IF wraps[p] = <<>> THEN i ELSE AddAfter(i, p, wraps[p][1])
        inner == AddOperator(wrapped(wrapped(lookups, 1), 2), d.ops[k])
        end(p) == IF wraps[p] = <<>> THEN p
                  ELSE CHOOSE e \in DOMAIN inner.ops : \E i \in DOMAIN inner.flows :
                           inner.flows[i].src = p /\ inner.flows[i].dst = e
        plan == set_output(AddFlow(AddFlow(inner, end(1), 0, inner.last, 0),
                                   end(2), 0, inner.last, 1), inner.last, 0)
        cut == RemoveFlows(AddOperator(d, WithInner(DAGConcurrentExecute(2, 1), plan)),
                           <<left, right, out>>)
        fed == AddFlow(AddFlow(RemoveOperator(cut, k), left.src, 0, pop, 0), right.src, 0, pop, 1)
    IN  AddFlow(fed, pop, 0, out.dst, out.dstPort)

SeedRange(d, k) ==
    LET pop == NextKey(d)
        in == in_flow(d, k, 0)
        out == out_flow(d, k)
        added == Fold(AddOperator, d, <<WithInner(DAGConcurrentExecute(1, 1), ChainPlan(<<d.ops[k]>>)),
                                        MakeSplitOperator(d.ops[k]), DegreeOfParallelism>>)
        cut == RemoveOperator(RemoveFlows(added, <<in, out>>), k)
        fed == AddFlow(AddFlow(cut, in.src, in.srcPort, pop + 1, 0), pop + 2, 0, pop + 1, 1)
    IN  AddFlow(AddFlow(fed, pop + 1, 0, pop, 0), pop, 0, out.dst, out.dstPort)

\* The workers run inner on their share of the input of k, which stays outside.
SeedBefore(d, k, inner) ==
    LET pop == NextKey(d)
        in == in_flow(d, k, 0)
        cut == RemoveFlow(AddOperator(d, WithInner(DAGConcurrentExecute(1, 1), inner)), in)
    IN  AddFlow(AddFlow(cut, in.src, 0, pop, 0), pop, 0, k, 0)

SeedReduce(d, k) ==
    LET ops == Fold(AddOperator, EmptyDag, <<Param, DAGEnsureSingleTuple, DAGReduce(d.ops[k].arg)>>)
    IN  SeedBefore(d, k, set_output(set_input(AddFlow(AddFlow(ops, 1, 0, 3, 0), 3, 0, 2, 0),
                                              0, 1, 0), 2, 0))

SeedTopK(d, k) == SeedBefore(d, k, ChainPlan(<<DAGTopK(d.ops[k].arg)>>))

SeedReduceByKey(d, k) ==
    LET pop == NextKey(d)
        in == in_flow(d, k, 0)
        out == out_flow(d, k)
        ops == Fold(AddOperator, EmptyDag, <<d.ops[k], Param, DAGExchange,
                                             DAGReduceByKey(d.ops[k].arg)>>)
        inner == AddFlow(AddFlow(AddFlow(ops, 2, 0, 1, 0), 1, 0, 3, 0), 3, 0, 4, 0)
        added == AddOperator(d, WithInner(DAGConcurrentExecute(1, 1),
                                          set_output(set_input(inner, 0, 2, 0), 4, 0)))
        cut == RemoveOperator(RemoveFlows(added, <<in, out>>), k)
    IN  AddFlow(AddFlow(cut, in.src, 0, pop, 0), pop, 0, out.dst, out.dstPort)

HandleSeedOperator(d, k) ==
    LET name == d.ops[k].name
    IN  CASE name = "cartesian" -> SeedTwoInputs(d, k, << <<>>, <<DAGBroadcast>> >>)
          [] name = "expand_pattern" -> SeedTwoInputs(d, k, << <<DAGBroadcast>>, <<>> >>)
          [] name \in {"antijoin", "antijoin_predicated", "join", "semijoin"} ->
                SeedTwoInputs(d, k, << <<DAGExchange>>, <<DAGExchange>> >>)
          [] name = "range_source" -> SeedRange(d, k)
          [] name = "reduce" -> SeedReduce(d, k)
          [] name = "reduce_by_key" -> SeedReduceByKey(d, k)
          [] name = "topk" -> SeedTopK(d, k)

(***************************************************************************)
(* A ConcurrentExecute takes in the operators behind it.                   *)
(***************************************************************************)

\* The reader at the end of flow f moves into a ConcurrentExecute of its own.
SplitReader(d, f) ==
    LET pop == NextKey(d)
        out == out_flow(d, f.dst)
        ops == AddOperator(AddOperator(EmptyDag, d.ops[f.dst]), Param)
        inner == set_output(set_input(AddFlow(ops, 2, 0, 1, 0), 0, 2, 0), 1, 0)
        added == AddOperator(RemoveFlow(d, out), WithInner(DAGConcurrentExecute(1, 1), inner))
    IN  AddFlow(AddFlow(RemoveOperator(added, f.dst), f.src, f.srcPort, pop, 0),
                pop, 0, out.dst, out.dstPort)

\* Whether the only reader of pop can move into it.
CanMoveIn(d, k) ==
    /\ d.ops[k].name \in {"filter", "column_scan", "map", "materialize_row_vector", "parquet_scan"}
    /\ ~is_output(d, k)
    /\ ~(out_degree(d, k) = 1 /\ d.ops[successor(d, k)].name = "ensure_single_tuple")

MoveIn(d, pop, k) ==
    LET outs == out_flows(d, k)
        cut == RemoveOperator(RemoveFlows(d, <<out_flow(d, pop)>> \o outs), k)
        linked == Fold(LAMBDA acc, f : AddFlow(acc, pop, 0, f.dst, f.dstPort), cut, outs)
    IN  InInner(linked, pop, LAMBDA i : AddOutput(i, d.ops[k]))

RECURSIVE ExpandConcurrentExecutor(_, _)
ExpandConcurrentExecutor(d, pop) ==
    IF out_degree(d, pop) > 1
    THEN LET outs == out_flows(d, pop)
             split == Fold(SplitReader, RemoveFlows(d, outs), outs)
         IN  Fold(ExpandConcurrentExecutor, split, [i \in DOMAIN outs |-> d.last + i])
    ELSE IF CanMoveIn(d, successor(d, pop))
         THEN ExpandConcurrentExecutor(MoveIn(d, pop, successor(d, pop)), pop)
         ELSE d

Seeds(d) == SelectSeq(Operators(d), LAMBDA k : IsParallizationSeed(d.ops[k]))

SeedAndExpand(d, k) == ExpandConcurrentExecutor(HandleSeedOperator(d, k), NextKey(d))

(***************************************************************************)
(* MergeParallelOperators: a ConcurrentExecute swallows the ones it reads. *)
(* The loop's state is the plan and the queue of operators to look at.     *)
(***************************************************************************)

IsConcurrentExecute(d, k) == d.ops[k].name = "concurrent_execute"

InitialQueue(d) == SelectSeq(InTopologicalOrder(d), LAMBDA k : IsConcurrentExecute(d, k))

\* Mutant: any other reader of the result is taken for a cycle.
HasOtherReaders(d, pop, others) == others # <<>>

\* Merging other into pop would create a cycle if a reader of other comes before
\* pop; the topological order (consumers first) stands in for reachability.
WouldCreateCycle(d, pop, others) ==
    LET order == InTopologicalOrder(d)
        position(k) == CHOOSE i \in DOMAIN order : order[i] = k
    IN  \E i \in DOMAIN others : position(pop) < position(others[i].dst)

\* The input that flow f feeds is replaced by what other wrote to it.
ConnectInbetween(inner, f, source) ==
    LET tip == SelectSeq(inner.inputs, LAMBDA e : e.port = f.dstPort)[1]
        flow == out_flow(inner, tip.op)
        cut == RemoveOperator(RemoveFlow(reset_input(inner, f.dstPort), flow), tip.op)
    IN  AddFlow(cut, source.op, source.opPort, flow.dst, flow.dstPort)

\* The ports of pop that the inputs ins of other get: first those that become free.
MergedPort(d, pop, between, i) ==
    LET free == SortedBy({between[j].dstPort : j \in DOMAIN between}, <)
    IN  IF i <= Len(free) THEN free[i]
        ELSE Len(inner_dag(d.ops[pop]).inputs) - Len(between) + i - 1

\* The plan of pop with that of other in front of it.
MergePlans(d, pop, other, between, others) ==
    LET from == inner_dag(d.ops[other])
        to == inner_dag(d.ops[pop])
        keys == Operators(from)
        new(k) == to.last + (CHOOSE i \in DOMAIN keys : keys[i] = k)
        outs == [i \in DOMAIN from.outputs |-> [from.outputs[i] EXCEPT !.op = new(@)]]
        ins == in_flows(d, other)
        moved == Fold(LAMBDA acc, k : AddOperator(acc, from.ops[k]), to, keys)
        wired == Fold(LAMBDA acc, f : AddFlow(acc, new(f.src), f.srcPort, new(f.dst), f.dstPort),
                      moved, from.flows)
        joined == Fold(LAMBDA acc, f : ConnectInbetween(acc, f, outs[f.srcPort + 1]),
                       wired, between)
        inner == Fold(LAMBDA acc, i : set_input(acc, MergedPort(d, pop, between, i),
                                                new(from.inputs[ins[i].dstPort + 1].op), 0),
                      joined, [i \in DOMAIN ins |-> i])
        extra == [i \in DOMAIN others |-> outs[others[i].srcPort + 1]]
    IN  [inner EXCEPT !.outputs = @ \o extra]

\* The plan around them: pop reads what other has read, and is read by its readers.
MergeFlows(d, pop, other, between, others) ==
    LET ins == in_flows(d, other)
        outPort(i) == d.ops[pop].outs + i - 1
        grown == [d EXCEPT !.ops[pop].ins = @ + d.ops[other].ins - Len(between),
                           !.ops[pop].outs = @ + Len(others)]
        fed == Fold(LAMBDA acc, i : AddFlow(RemoveFlow(acc, ins[i]), ins[i].src, ins[i].srcPort,
                                            pop, MergedPort(d, pop, between, i)),
                    grown, [i \in DOMAIN ins |-> i])
        cut == RemoveFlows(fed, between)
        rest == Fold(LAMBDA acc, i : AddFlow(RemoveFlow(acc, others[i]), pop, outPort(i),
                                             others[i].dst, others[i].dstPort),
                     cut, [i \in DOMAIN others |-> i])
    IN  RemoveOperator(rest, other)

\* The plan in which pop has swallowed other.
MergeInto(d, pop, other) ==
    LET between == SelectSeq(out_flows(d, other), LAMBDA f : f.dst = pop)
        others == SelectSeq(out_flows(d, other), LAMBDA f : f.dst # pop)
    IN  [MergeFlows(d, pop, other, between, others) EXCEPT
             !.ops[pop].inner = <<MergePlans(d, pop, other, between, others)>>]

\* One iteration of the loops for the first operator pop of the queue: it swallows a
\* ConcurrentExecute that feeds it and stays first as long as there may be another one, is
\* put back, or is done. An operator that has been swallowed is skipped.
MergeNext(s) ==
    LET pop == Head(s.pops)
        ins == SelectSeq(in_flows(s.d, pop), LAMBDA f : IsConcurrentExecute(s.d, f.src))
        other == ins[1].src
        others == SelectSeq(out_flows(s.d, other), LAMBDA f : f.dst # pop)
    IN  CASE pop \notin DOMAIN s.d.ops \/ ins = <<>> -> [s EXCEPT !.pops = Tail(@)]
          [] pop \in DOMAIN s.d.ops /\ ins # <<>> ->
                IF WouldCreateCycle(s.d, pop, others)
                THEN [s EXCEPT !.pops = Append(Tail(@), pop)]
                ELSE [s EXCEPT !.d = MergeInto(@, pop, other)]

(***************************************************************************)
(* The rest of parallelize_concurrent                                      *)
(***************************************************************************)

\* A constant that a ConcurrentExecute broadcasts moves into its plan instead.
DontBroadcastConstant(d, k) ==
    LET outer == out_flow(d, k)
        pop == outer.dst
        inner == inner_dag(d.ops[pop])
        param == SelectSeq(inner.inputs, LAMBDA e : e.port = outer.dstPort)[1].op
        bcast == successor(inner, param)
        out == out_flow(inner, bcast)
        moved == [AddOperator(inner, d.ops[k]) EXCEPT
                      !.inputs = SelectSeq(@, LAMBDA e : e.op # param)]
        cut == RemoveOperator(RemoveOperator(RemoveFlows(moved,
                   <<out, in_flow(inner, bcast, 0)>>), param), bcast)
        left == RemoveOperator(RemoveFlow(d, outer), k)
    IN  IF ~IsConcurrentExecute(d, pop) THEN d
        ELSE IF inner.ops[bcast].name # "broadcast" THEN d
        ELSE set_inner_dag([left EXCEPT !.ops[pop].ins = @ - 1], pop,
                           AddFlow(cut, moved.last, 0, out.dst, out.dstPort))

\* From the output of a plan back over filters and maps.
RECURSIVE TrailingChain(_, _)
TrailingChain(i, ks) ==
    IF i.ops[Last(ks)].name \in {"filter", "map"}
    THEN TrailingChain(i, Append(ks, predecessor(i, Last(ks), 0)))
    ELSE ks

\* A plan that ends with Exchange -> ReduceByKey [-> Filter | Map]*: the exchange is
\* dropped and the operators behind it run in the outer plan.
DontParallelizeFinalReduceByKey(d, pop) ==
    LET inner == inner_dag(d.ops[pop])
        chain == TrailingChain(inner, <<output(inner).op>>)
        rbk == Last(chain)
        exch == predecessor(inner, rbk, 0)
        links == [i \in 1..Len(chain) - 1 |-> in_flow(inner, chain[i], 0)]
        in == in_flow(inner, exch, 0)
        cut == RemoveFlows(set_output(inner, in.src, in.srcPort),
                           <<in, out_flow(inner, exch)>> \o links)
        stay == Fold(RemoveOperator, cut, Append(chain, exch))
        out == out_flow(d, pop)
        moved == Fold(LAMBDA acc, k : AddOperator(acc, inner.ops[k]),
                      RemoveFlow(set_inner_dag(d, pop, stay), out), chain)
        linked == Fold(LAMBDA acc, i : AddFlow(acc, d.last + i + 1, 0, d.last + i, 0),
                       moved, [i \in DOMAIN links |-> i])
    IN  IF inner.ops[rbk].name # "reduce_by_key" THEN d
        ELSE IF inner.ops[exch].name # "exchange" THEN d
        ELSE AddFlow(AddFlow(linked, pop, 0, d.last + Len(chain), 0),
                     d.last + 1, 0, out.dst, out.dstPort)

OperatorsNamed(d, name) == SelectSeq(Operators(d), LAMBDA k : d.ops[k].name = name)

FinishParallelizeConcurrent(d) ==
    LET local == Fold(DontBroadcastConstant, d, OperatorsNamed(d, "constant_tuple"))
    IN  Fold(DontParallelizeFinalReduceByKey, local, OperatorsNamed(local, "concurrent_execute"))

(***************************************************************************)
(* parallelize_concurrent_single_inout                                     *)
(***************************************************************************)

\* The columns of a Parquet file that holds rows of the given type.
ColumnsOf(type) == [i \in DOMAIN type |-> ArrayOf(<<type[i]>>)]

ReadsBroadcast(inner, e) == inner.ops[successor(inner, e.op)].name = "broadcast"

\* The input tuple is the concatenation of the former inputs: each is projected out
\* of it. acc holds the plan and the width of the fields handed out so far.
ProjectFormerInput(acc, e) ==
    LET out == out_flow(acc.d, e.op)
        width == Len(acc.d.ops[e.op].type)
        positions == [i \in 1..width |-> acc.prefix + i - 1]
        direct == add_input(RemoveFlow(acc.d, out), 0, e.op, 0)
        next == IF ReadsBroadcast(acc.d, e) THEN out_flow(acc.d, out.dst) ELSE out
        bare == IF ReadsBroadcast(acc.d, e)
                THEN RemoveOperator(RemoveFlow(direct, next), out.dst) ELSE direct
        linked == AddAfter(bare, e.op, DAGProjection(positions))
    IN  [d |-> AddFlow(linked, linked.last, 0, next.dst, next.dstPort),
         prefix |-> acc.prefix + width]

ResultPattern == DAGConstantTuple(<<Var("result-pattern")>>, <<Str>>)
WorkerId == DAGConstantTuple(<<Var("$WID")>>, <<Long>>)

\* Every worker writes its output to a file of its own.
MaterializeToFile(inner) ==
    LET ops == Fold(AddOperator, inner, <<ResultPattern, DAGExpandPattern, WorkerId,
                                          DAGMaterializeColumnChunks, DAGMaterializeParquet>>)
        pattern == inner.last + 1
        expand == inner.last + 2
        wid == inner.last + 3
        columns == inner.last + 4
        file == inner.last + 5
        out == output(inner)
        fed == AddFlow(AddFlow(ops, out.op, out.opPort, columns, 0), columns, 0, file, 0)
        named == AddFlow(AddFlow(AddFlow(fed, pattern, 0, expand, 0), wid, 0, expand, 1),
                         expand, 0, file, 1)
    IN  set_output(named, file, 0)

SingleInout(d, pop) ==
    LET inner == inner_dag(d.ops[pop])
        bcasts == SelectSeq(inner.inputs, LAMBDA e : ReadsBroadcast(inner, e))
        parts == SelectSeq(inner.inputs, LAMBDA e : ~ReadsBroadcast(inner, e))
        source(e) == in_flow(d, pop, e.port)
        zipped(acc, es) ==
            LET zip == AddOperator(acc, DAGZip(Len(es)))
            IN  Fold(LAMBDA a, i : AddFlow(a, source(es[i]).src, source(es[i]).srcPort,
                                           zip.last, i - 1), zip, [i \in DOMAIN es |-> i])
        parted == zipped(RemoveFlows(d, in_flows(d, pop)), parts)
        both == zipped(parted, bcasts)
        cart == AddOperator(both, DAGCartesian)
        fed == AddFlow(AddFlow(AddFlow(cart, parted.last, 0, cart.last, 0),
                               both.last, 0, cart.last, 1), cart.last, 0, pop, 0)
        projected == Fold(ProjectFormerInput, [d |-> [inner EXCEPT !.inputs = <<>>], prefix |-> 0],
                          parts \o bcasts).d
        new == set_inner_dag([fed EXCEPT !.ops[pop].ins = 1], pop, MaterializeToFile(projected))
        out == out_flow(d, pop)
        scan == AddChain(RemoveFlow(new, out), pop,
                         <<DAGParquetScan(ColumnsOf(d.ops[pop].type)), DAGColumnScan(FALSE)>>)
    IN  AddFlow(scan, scan.last, 0, out.dst, out.dstPort)

ParallelizeConcurrentSingleInout(d) ==
    Fold(SingleInout, d, OperatorsNamed(d, "concurrent_execute"))

(***************************************************************************)
(* Exchanges                                                               *)
(***************************************************************************)

\* Applies change to the plan of every ConcurrentExecute.
InEveryExecute(d, change(_)) ==
    Fold(LAMBDA acc, k : InInner(acc, k, change), d, OperatorsNamed(d, "concurrent_execute"))

\* The operator k of a plan is replaced by a chain of operators.
ReplaceByChain(i, k, ops) ==
    LET in == in_flow(i, k, 0)
        out == out_flow(i, k)
        added == AddChain(RemoveOperator(RemoveFlows(i, <<in, out>>), k), in.src, ops)
    IN  AddFlow(added, added.last, 0, out.dst, out.dstPort)

TwoLevelExchange(d) ==
    InEveryExecute(d, LAMBDA i :
        Fold(LAMBDA acc, k : ReplaceByChain(acc, k, <<DAGPartitionedExchange(2, 0),
                                                      DAGPartitionedExchange(2, 1)>>),
             i, OperatorsNamed(i, "exchange")))

\* A one-level exchange is a partitioned exchange of one level.
OneLevel(i) ==
    Fold(LAMBDA acc, k : ReplaceOperator(acc, k, [DAGPartitionedExchange(1, 0) EXCEPT
                                                      !.type = acc.ops[k].type]),
         i, OperatorsNamed(i, "exchange"))

\* (partition id, array of arrays of rows) -> (partition id, one array per column)
PartitionToColumns ==
    LET ops == Fold(AddOperator, EmptyDag,
                    <<Param, DAGProjection(<<0>>), Param, DAGProjection(<<1>>), DAGRowScan(FALSE),
                      DAGRowScan(FALSE), DAGMaterializeColumnChunks, DAGCartesian,
                      DAGMaterializeRowVector>>)
        flows == << <<1, 2, 0>>, <<2, 8, 0>>, <<3, 4, 0>>, <<4, 5, 0>>, <<5, 6, 0>>, <<6, 7, 0>>,
                    <<7, 8, 1>>, <<8, 9, 0>> >>
        wired == Fold(LAMBDA acc, f : AddFlow(acc, f[1], 0, f[2], f[3]), ops, flows)
    IN  set_output(add_input(set_input(wired, 0, 1, 0), 0, 3, 0), 9, 0)

GroupSize(levels) ==
    DAGConstantTuple(<<Val(levels.num), Val(levels.level), Var("$DOP"), Var("$WID")>>,
                     <<Long, Long, Long, Long>>)

\* A partitioned exchange becomes: partition by the key into the groups of the level,
\* gather each group's rows in columns, exchange them by the given operators.
LowerExchange(i, k, seed, exchange, configs, scans) ==
    LET in == in_flow(i, k, 0)
        out == out_flow(i, k)
        part == i.last + 1
        ops == Fold(AddOperator, i,
                    <<DAGPartition(seed), GroupSize(i.ops[k].arg),
                      DAGMapCpp("ComputeGroupSizeTuple", <<Long>>), DAGGroupBy,
                      WithInner(DAGNestedMap, PartitionToColumns), DAGRowScan(FALSE), exchange>>
                    \o configs \o scans)
        exch == i.last + 7
        chain == <<part, part + 3, part + 4, part + 5>>
                 \o [j \in 1..1 + Len(scans) |->
                        IF j = 1 THEN exch ELSE exch + Len(configs) + j - 1]
        cut == RemoveOperator(RemoveFlows(ops, <<in, out>>), k)
        fed == AddFlow(AddFlow(AddFlow(cut, in.src, in.srcPort, part, 0), part + 1, 0, part + 2, 0),
                       part + 2, 0, part, 1)
        linked == Fold(LAMBDA acc, j : AddFlow(acc, chain[j], 0, chain[j + 1], 0),
                       fed, [j \in 1..Len(chain) - 1 |-> j])
        set == Fold(LAMBDA acc, c : AddFlow(acc, exch + c, 0, exch, c),
                    linked, [c \in DOMAIN configs |-> c])
    IN  AddFlow(set, Last(chain), 0, out.dst, out.dstPort)

ExchangeTcpPass(d) ==
    InEveryExecute(d, LAMBDA i :
        Fold(LAMBDA acc, k : LowerExchange(acc, k, 0, DAGExchangeTcp(acc.ops[k].arg), <<>>,
                                           <<DAGColumnScan(FALSE)>>),
             OneLevel(i), OperatorsNamed(OneLevel(i), "partitioned_exchange")))

\* kSeeds: the levels of an exchange hash with different seeds.
ExchangeS3Pass(d) ==
    InEveryExecute(d, LAMBDA i :
        Fold(LAMBDA acc, k : LowerExchange(acc, k, acc.ops[k].arg.level + 1,
                                           DAGExchangeS3(acc.ops[k].arg),
                                           <<DegreeOfParallelism, WorkerId>>,
                                           <<DAGParquetScan(ColumnsOf(acc.ops[k].type)),
                                             DAGColumnScan(FALSE)>>),
             OneLevel(i), OperatorsNamed(OneLevel(i), "partitioned_exchange")))

(***************************************************************************)
(* parallelize_process and parallelize_lambda                              *)
(***************************************************************************)

RECURSIVE SpecializeWorkers(_)
SpecializeWorkers(d) ==
    Fold(LAMBDA acc, k :
             LET op == Specialize(Specialize(acc.ops[k], "$DOP", Var("num_workers()")),
                                  "$WID", Var("worker_id()"))
                 new == [acc EXCEPT !.ops[k] = op]
             IN  IF has_inner_dag(op) THEN InInner(new, k, SpecializeWorkers) ELSE new,
         d, InTopologicalOrder(d))

ParallelizeProcess(d) ==
    SpecializeWorkers(Fold(LAMBDA acc, k : ReplaceOperator(acc, k, DAGConcurrentExecuteProcess),
                           d, OperatorsNamed(d, "concurrent_execute")))

ParallelizeLambda(d) ==
    SpecializeWorkers(Fold(LAMBDA acc, k : ReplaceOperator(acc, k, DAGConcurrentExecuteLambda),
                           d, OperatorsNamed(d, "concurrent_execute")))

=============================================================================
