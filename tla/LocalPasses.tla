---------------------------- MODULE LocalPasses ----------------------------
(***************************************************************************)
(* The passes of the optimizer that work for every target                  *)
(* (generate/src/optimize/): each is a function from plans to plans. A     *)
(* failing assertion of a pass stops the evaluation; the checks of type    *)
(* inference and Verify are predicates of PlanTypes.                       *)
(***************************************************************************)
EXTENDS PlanTypes

\* Connects the targets of flows to port 0 of k instead of to their sources.
Reroute(d, flows, k) ==
    Fold(LAMBDA acc, f : AddFlow(RemoveFlow(acc, f), k, 0, f.dst, f.dstPort), d, flows)

(***************************************************************************)
(* materialize_multiple_reads: a result with several readers is            *)
(* materialized, and every reader scans it on its own.                     *)
(***************************************************************************)
MultipleReads(d) ==
    SelectSeq(Operators(d), LAMBDA k : /\ d.ops[k].name # "materialize_row_vector"
                                       /\ out_degree(d, k) > 1)

\* A row scan of mat in place of the flow f.
ScanInstead(d, mat, f) ==
    LET scan == NextKey(d)
        added == AddOperator(RemoveFlow(d, f), DAGRowScan(FALSE))
    IN  AddFlow(AddFlow(added, mat, 0, scan, 0), scan, 0, f.dst, f.dstPort)

MaterializeMultipleReads(d) ==
    Fold(LAMBDA acc, k :
                 LET mat == NextKey(acc)
                     added == AddFlow(AddOperator(acc, DAGMaterializeRowVector), k, 0, mat, 0)
                 IN  Fold(LAMBDA a, f : ScanInstead(a, mat, f), added, out_flows(acc, k)),
             d, MultipleReads(d))

(***************************************************************************)
(* attribute_id_tracking: fields that carry the same value share an        *)
(* attribute id. The id of a new field is <<operator, position>>.          *)
(***************************************************************************)

\* The positions of the output that the function writes argument i to unchanged
\* (ComputeOutputPositions), and whether it uses argument i for anything else.
ComputeOutputPositions(func, i) == {p \in DOMAIN func : func[p] = Arg(i)}
ComputeIsArgumentRead(func, i) == \E p \in DOMAIN func : func[p].fn # "arg" /\ i \in ToSet(func[p].args)

OwnAttrs(d, k) == [i \in DOMAIN d.ops[k].type |-> <<k, i>>]
Attrs(d, k) == IF d.ops[k].attrs = <<>> THEN OwnAttrs(d, k) ELSE d.ops[k].attrs

\* MoveFields: the fields of attribute from become fields of attribute to.
MoveFields(d, to, from) ==
    [d EXCEPT !.ops = [k \in DOMAIN @ |->
        [@[k] EXCEPT !.attrs = [i \in DOMAIN @ |-> IF @[i] = from THEN to ELSE @[i]]]]]

SetAttrs(d, k, attrs) == [d EXCEPT !.ops[k].attrs = attrs]

TrackJoin(d, k) ==
    LET left == predecessor(d, k, 0)
        right == predecessor(d, k, 1)
        moved == MoveFields(d, d.ops[left].attrs[1], d.ops[right].attrs[1])
        rest == moved.ops[right].attrs
    IN  SetAttrs(moved, k, moved.ops[left].attrs \o SubSeq(rest, d.ops[k].arg + 1, Len(rest)))

TrackMap(d, k) ==
    LET in == d.ops[predecessor(d, k, 0)].attrs
        from(p) == {i \in DOMAIN in : p \in ComputeOutputPositions(d.ops[k].arg, i - 1)}
    IN  SetAttrs(d, k, [p \in DOMAIN d.ops[k].attrs |->
                            IF from(p) = {} THEN d.ops[k].attrs[p] ELSE in[Max(from(p))]])

TrackOperator(d, k) ==
    LET op == d.ops[k]
        in(p) == d.ops[predecessor(d, k, p)].attrs
    IN  CASE op.name = "filter" -> SetAttrs(d, k, in(0))
          [] op.name = "cartesian" -> SetAttrs(d, k, in(0) \o in(1))
          [] op.name = "join" -> TrackJoin(d, k)
          [] op.name = "map" -> TrackMap(d, k)
          [] op.name \in {"reduce_by_key", "reduce_by_key_grouped"} ->
                [d EXCEPT !.ops[k].attrs[1] = in(0)[1]]
          [] OTHER -> d

\* DetermineReadSetVisitor.
ReadSet(d, k) ==
    LET op == d.ops[k]
        in == d.ops[predecessor(d, k, 0)].attrs
    IN  CASE op.name = "filter" -> {in[i + 1] : i \in ToSet(op.arg.args)}
          [] op.name = "join" -> {op.attrs[1]}
          [] op.name = "map" -> {in[i] : i \in {j \in DOMAIN in :
                                                   ComputeIsArgumentRead(op.arg, j - 1)}}
          [] op.name \in {"reduce", "reduce_by_key", "reduce_by_key_grouped"} -> ToSet(op.attrs)
          [] OTHER -> {}

AttributeIdTracking(d) ==
    LET named == [d EXCEPT !.ops = [k \in DOMAIN @ |-> [@[k] EXCEPT !.attrs = Attrs(d, k)]]]
        tracked == Fold(TrackOperator, named, InReverseTopologicalOrder(d))
    IN  [tracked EXCEPT !.ops = [k \in DOMAIN @ |-> [@[k] EXCEPT !.reads = ReadSet(tracked, k)]]]

(***************************************************************************)
(* simple_predicate_move_around: every filter moves up while its fields    *)
(* exist, and from there down into every branch that still has them.       *)
(***************************************************************************)

\* Whether k outputs all the attributes that the filter reads (HasInOutput).
HasInOutput(d, k, reads) == reads \subseteq ToSet(d.ops[k].attrs)

RECURSIVE Tip(_, _, _)
Tip(d, k, reads) ==
    IF out_degree(d, k) = 1 /\ HasInOutput(d, successor(d, k), reads)
    THEN Tip(d, successor(d, k), reads) ELSE k

\* Where the filter ends up: below k if no predecessor of k has its fields.
RECURSIVE PushDown(_, _, _)
PushDown(d, k, reads) ==
    LET into == {f.src : f \in {g \in ToSet(in_flows(d, k)) :
                                   /\ d.ops[k].name \notin {"row_scan", "range_source"}
                                   /\ HasInOutput(d, g.src, reads)}}
    IN  IF into = {} THEN {k} ELSE UNION {PushDown(d, p, reads) : p \in into}

\* AdjustFilterSignature: the predicate reads its fields where pred has them.
AdjustFilterSignature(d, filter, pred) ==
    LET in == d.ops[pred].attrs
        new_pos(i) == Min({p \in DOMAIN in : in[p] = filter.attrs[i + 1]}) - 1
    IN  [filter.arg EXCEPT !.args = [j \in DOMAIN @ |-> new_pos(@[j])]]

InsertFilterAfter(d, filter, pred) ==
    LET filt == NextKey(d)
        out == out_flow(d, pred)
        copy == [filter EXCEPT !.arg = AdjustFilterSignature(d, filter, pred),
                               !.type = d.ops[pred].type, !.attrs = d.ops[pred].attrs,
                               !.props = d.ops[pred].props]
        added == AddOperator(RemoveFlow(d, out), copy)
    IN  AddFlow(AddFlow(added, filt, 0, out.dst, out.dstPort), pred, 0, filt, 0)

Bypass(d, k) ==
    LET in == in_flow(d, k, 0)
        out == out_flow(d, k)
    IN  AddFlow(RemoveFlow(RemoveFlow(d, in), out), in.src, in.srcPort, out.dst, out.dstPort)

MoveFilter(d, k) ==
    LET filter == d.ops[k]
        places == PushDown(d, Tip(d, k, filter.reads), filter.reads)
        pred == predecessor(d, k, 0)
        keep == pred \in places
        base == IF keep THEN d ELSE Bypass(d, k)
        moved == Fold(LAMBDA acc, p : InsertFilterAfter(acc, filter, p),
                          base, SortedBy(places \ {pred}, <))
    IN  IF keep THEN moved ELSE RemoveOperator(moved, k)

SimplePredicateMoveAround(d) ==
    Fold(MoveFilter, d, SelectSeq(Operators(d), LAMBDA k : d.ops[k].name = "filter"))

(***************************************************************************)
(* determine_sortedness and grouped_reduce_by_key: what is known of the    *)
(* order of each field, and reductions that rely on it.                    *)
(***************************************************************************)
NoProps(d, k) == [i \in DOMAIN d.ops[k].type |-> {}]

\* Mutant: the left input is taken for the outer loop.
CartesianPropsLeft(left, right) ==
    [i \in DOMAIN left |-> (IF "unique" \in left[i] THEN {"grouped"} ELSE {})
                           \cup (left[i] \cap {"sorted"})]
    \o [i \in DOMAIN right |-> right[i] \cap {"sorted"}]

CartesianProps(left, right) ==
    [i \in DOMAIN left |-> {}]
    \o [i \in DOMAIN right |-> (IF "unique" \in right[i] THEN {"grouped"} ELSE {})
                               \cup (right[i] \cap {"sorted"})]

\* Field i of the right input is taken to be field |left| + i - 1 of the output
\* (counting from 0), also when the join has more than one key; what the code
\* then stores behind the last field is not kept.
JoinProps(left, right, num_keys) ==
    LET leftUnique == "unique" \in left[1]
        rightUnique == "unique" \in right[1]
        gained == IF leftUnique THEN "unique" ELSE "grouped"
    IN  [i \in DOMAIN left |->
             IF leftUnique /\ rightUnique THEN left[i] \cap {"unique"} ELSE {}]
        \o [i \in 1..Len(right) - num_keys |->
             IF rightUnique /\ "unique" \in right[i + 1] THEN {gained} ELSE {}]

\* The field keeps the properties of the first input field with the same attribute.
MapProps(d, k) ==
    LET pred == predecessor(d, k, 0)
        same(p) == {i \in DOMAIN d.ops[pred].type : Attrs(d, pred)[i] = Attrs(d, k)[p]}
    IN  [p \in DOMAIN d.ops[k].type |->
             IF same(p) = {} THEN {} ELSE d.ops[pred].props[Min(same(p))]]

OperatorProps(d, k) ==
    LET op == d.ops[k]
        in(p) == d.ops[predecessor(d, k, p)].props
        none == NoProps(d, k)
    IN  CASE op.name = "cartesian" -> CartesianProps(in(0), in(1))
          [] op.name \in {"column_scan", "row_scan"} ->
                IF op.arg THEN [none EXCEPT ![1] = {"unique", "sorted"}] ELSE none
          [] op.name = "filter" -> in(0)
          [] op.name = "join" -> JoinProps(in(0), in(1), op.arg)
          [] op.name = "map" -> MapProps(d, k)
          [] op.name = "range_source" -> [i \in DOMAIN none |-> {"unique", "sorted"}]
          [] op.name = "reduce_by_key" -> [none EXCEPT ![1] = {"unique"}]
          [] op.name = "reduce_by_key_grouped" -> [none EXCEPT ![1] = in(0)[1] \cup {"unique"}]
          [] OTHER -> none

DetermineSortedness(d) ==
    LET cleared == [d EXCEPT !.ops = [k \in DOMAIN @ |-> [@[k] EXCEPT !.props = NoProps(d, k)]]]
        derived == Fold(LAMBDA acc, k : [acc EXCEPT !.ops[k].props = OperatorProps(acc, k)],
                            cleared, InReverseTopologicalOrder(d))
        implied(p) == IF p = {} THEN {} ELSE p \cup {"grouped"}
    IN  [derived EXCEPT !.ops = [k \in DOMAIN @ |->
            [@[k] EXCEPT !.props = [i \in DOMAIN @ |-> implied(@[i])]]]]

GroupedReductions(d) ==
    SelectSeq(Operators(d), LAMBDA k : /\ d.ops[k].name = "reduce_by_key"
                                       /\ "grouped" \in d.ops[predecessor(d, k, 0)].props[1])

GroupedReduceByKey(d) ==
    Fold(LAMBDA acc, k :
                 LET op == acc.ops[k]
                     new == NextKey(acc)
                     in == in_flow(acc, k, 0)
                     out == out_flow(acc, k)
                     added == AddOperator(acc, [DAGReduceByKeyGrouped(op.arg) EXCEPT
                                  !.type = op.type, !.attrs = op.attrs, !.props = op.props])
                     cut == RemoveFlow(RemoveFlow(added, out), in)
                 IN  RemoveOperator(AddFlow(AddFlow(cut, new, 0, out.dst, out.dstPort),
                                            in.src, in.srcPort, new, 0), k),
             d, GroupedReductions(d))

(***************************************************************************)
(* create_pipelines: the plan is cut into tree-shaped pipelines that end in *)
(* a driver and hand their result over as one tuple.                       *)
(***************************************************************************)
IsDriver(d, k) ==
    \/ out_degree(d, k) > 1
    \/ /\ IsPipelineDriver(d.ops[k])
       /\ ~(out_degree(d, k) = 1 /\ IsPipelineDriver(d.ops[successor(d, k)]))

\* The in-flows of k, about to become operator at of the inner plan.
Pending(d, k, at) ==
    [i \in DOMAIN in_flows(d, k) |-> [in_flows(d, k)[i] EXCEPT !.dst = at]]

\* A state of the loop over the pending in-flows: the outer plan, the pipeline's
\* plan and the flows that enter it.
RECURSIVE MoveUpstream(_, _)
MoveUpstream(s, pop) ==
    IF s.pending = <<>> THEN s
    ELSE LET f == Last(s.pending)
             rest == Front(s.pending)
             at == NextKey(s.inner)
             port == s.outer.ops[pop].ins
             param == set_input(AddOperator(s.inner, DAGParameterLookup(<<>>)), port, at, 0)
             cut == RemoveFlows(s.outer, in_flows(s.outer, f.src))
             moved == MoveOperator(cut, s.inner, f.src)
             next == IF IsPipelinePredecessor(s.outer.ops[f.src])
                     THEN [outer |-> AddFlow([s.outer EXCEPT !.ops[pop].ins = @ + 1],
                                             f.src, f.srcPort, pop, port),
                           inner |-> AddFlow(param, at, 0, f.dst, f.dstPort),
                           pending |-> rest]
                     ELSE [outer |-> moved.from,
                           inner |-> AddFlow(moved.to, at, f.srcPort, f.dst, f.dstPort),
                           pending |-> rest \o Pending(s.outer, f.src, at)]
         IN  MoveUpstream(next, pop)

\* A pipeline whose last operator may produce several tuples ends in a
\* materialization, which the readers of the pipeline scan.
MaterializePipeline(d, pop, inner) ==
    LET mat == NextKey(inner)
        scan == NextKey(d)
        grown == AddFlow(AddOperator(inner, DAGMaterializeRowVector), output(inner).op, 0, mat, 0)
        outer == set_inner_dag(AddOperator(d, DAGRowScan(FALSE)), pop, set_output(grown, mat, 0))
    IN  AddFlow(Reroute(outer, out_flows(d, pop), scan), pop, 0, scan, 0)

CreatePipeline(d, driver) ==
    LET pop == NextKey(d)
        added == AddOperator(d, DAGPipeline(0))
        ended == IF output(d).op = driver THEN set_output(added, pop, 0) ELSE added
        cut == RemoveFlows(Reroute(ended, out_flows(d, driver), pop), in_flows(d, driver))
        moved == MoveOperator(cut, EmptyDag, driver)
        done == MoveUpstream([outer |-> moved.from,
                              inner |-> set_output(moved.to, NextKey(EmptyDag), 0),
                              pending |-> Pending(d, driver, NextKey(EmptyDag))], pop)
    IN  CASE ~Assert(IsTree(done.inner), "create_pipelines: IsTree") -> d
          [] IsSingleTupleProducer(d.ops[driver]) -> set_inner_dag(done.outer, pop, done.inner)
          [] OTHER -> MaterializePipeline(done.outer, pop, done.inner)

CreatePipelines(d) ==
    LET drivers == SelectSeq(InReverseTopologicalOrder(d), LAMBDA k : IsDriver(d, k))
    IN  IF Assert(output(d).op \in ToSet(drivers), "create_pipelines: output is no driver")
        THEN Fold(CreatePipeline, d, drivers) ELSE d

(***************************************************************************)
(* assert_correct_open_next_close: a checking operator behind every        *)
(* operator of every pipeline.                                             *)
(***************************************************************************)
AddAssertions(d) ==
    Fold(LAMBDA acc, k :
                 LET aop == NextKey(acc)
                     added == AddOperator(acc, DAGAssertCorrectOpenNextClose)
                     behind == AddFlow(Reroute(added, out_flows(acc, k), aop), k, 0, aop, 0)
                 IN  IF output(acc).op = k THEN set_output(behind, aop, output(acc).opPort)
                     ELSE behind,
             d, Operators(d))

RECURSIVE AssertCorrectOpenNextClose(_)
AssertCorrectOpenNextClose(d) ==
    [d EXCEPT !.ops = [k \in DOMAIN @ |->
        CASE ~has_inner_dag(@[k]) -> @[k]
          [] @[k].name = "pipeline" ->
                WithInner(@[k], AssertCorrectOpenNextClose(AddAssertions(inner_dag(@[k]))))
          [] OTHER -> WithInner(@[k], AssertCorrectOpenNextClose(inner_dag(@[k])))]]

(***************************************************************************)
(* canonicalize: ids and the order of everything follow from the shape of  *)
(* the plan. A label is the string of the ports along the longest path to  *)
(* an output and from an input, as the sequence of its characters; ports   *)
(* have up to two digits.                                                  *)
(***************************************************************************)
Hash == 35
Underscore == 95
Port(p) == <<Hash>> \o (IF p < 10 THEN <<48 + p>> ELSE <<48 + (p \div 10), 48 + (p % 10)>>)

\* The common prefix of length n, then the end of a or a smaller character.
StringLess(a, b) ==
    \E n \in 0..Min({Len(a), Len(b) - 1}) :
        /\ SubSeq(a, 1, n) = SubSeq(b, 1, n)
        /\ n = Len(a) \/ a[n + 1] < b[n + 1]

MaxString(strings) ==
    Fold(LAMBDA a, b : IF StringLess(a, b) THEN b ELSE a, <<>>, strings)

OutgoingPathLabels(d) ==
    Fold(LAMBDA labels, k :
                 labels @@ (k :> MaxString([i \in DOMAIN out_flows(d, k) |->
                     LET f == out_flows(d, k)[i]
                     IN  labels[f.dst] \o Port(f.srcPort) \o Port(f.dstPort)])),
             <<>>, InTopologicalOrder(d))

IncomingPathLabels(d) ==
    Fold(LAMBDA labels, k :
                 labels @@ (k :> MaxString([i \in DOMAIN in_flows(d, k) |->
                     LET f == in_flows(d, k)[i]
                     IN  labels[f.src] \o Port(f.srcPort) \o Port(f.dstPort)])),
             <<>>, InReverseTopologicalOrder(d))

UniqueLabels(d) ==
    LET in == IncomingPathLabels(d)
        out == OutgoingPathLabels(d)
    IN  [k \in DOMAIN d.ops |-> in[k] \o <<Underscore>> \o out[k]]

\* The operators in the order of their labels, which have to be different.
VertexOrder(d) ==
    LET labels == UniqueLabels(d)
    IN  IF Assert(\A j, k \in DOMAIN labels : labels[j] = labels[k] => j = k,
                  "canonicalize: two operators have the same label")
        THEN SortedBy(DOMAIN labels, LAMBDA j, k : StringLess(labels[j], labels[k])) ELSE <<>>

FlowLess(f, g) ==
    \/ f.src < g.src
    \/ f.src = g.src /\ f.srcPort < g.srcPort
    \/ f.src = g.src /\ f.srcPort = g.srcPort /\ f.dst < g.dst
    \/ f.src = g.src /\ f.srcPort = g.srcPort /\ f.dst = g.dst /\ f.dstPort < g.dstPort

\* The plan rebuilt with its operators in the given order: the moves out of the plan
\* and back give every operator a new key, its id is its position.
Rebuild(d, order) ==
    LET key(k) == d.last + (CHOOSE i \in DOMAIN order : order[i] = k)
        renamed(f) == [f EXCEPT !.src = key(@), !.dst = key(@)]
    IN  [ops |-> [j \in d.last + 1..d.last + Len(order) |->
                      [d.ops[order[j - d.last]] EXCEPT !.id = j - d.last - 1]],
         flows |-> SortedBy({renamed(d.flows[i]) : i \in DOMAIN d.flows}, FlowLess),
         inputs |-> [i \in DOMAIN d.inputs |-> [d.inputs[i] EXCEPT !.op = key(@)]],
         outputs |-> [i \in DOMAIN d.outputs |-> [d.outputs[i] EXCEPT !.op = key(@)]],
         last |-> d.last + Len(order)]

\* The readers of one input by id and port, the inputs by their first reader.
ReaderLess(inner, e, f) ==
    \/ inner.ops[e.op].id < inner.ops[f.op].id
    \/ inner.ops[e.op].id = inner.ops[f.op].id /\ e.opPort < f.opPort

FirstReader(inner, p) ==
    CHOOSE e \in ToSet(inner.inputs) :
        /\ e.port = p
        /\ \A f \in ToSet(inner.inputs) : f.port = p => ~ReaderLess(inner, f, e)

\* The input ports of k in their new order.
PortOrder(d, k) ==
    LET inner == inner_dag(d.ops[k])
    IN  SortedBy(0..d.ops[k].ins - 1, LAMBDA p, q :
            ReaderLess(inner, FirstReader(inner, p), FirstReader(inner, q)))

OrderInputs(d, k) ==
    LET order == PortOrder(d, k)
        inner == inner_dag(d.ops[k])
        at(p) == CHOOSE i \in DOMAIN order : order[i] = p
        readers == SortedBy({[e EXCEPT !.port = at(@) - 1] : e \in ToSet(inner.inputs)},
                            LAMBDA e, f : \/ e.port < f.port
                                          \/ e.port = f.port /\ ReaderLess(inner, e, f))
        sources == [i \in DOMAIN order |-> in_flow(d, k, order[i])]
        cut == RemoveFlows(d, in_flows(d, k))
    IN  Fold(LAMBDA acc, i : AddFlow(acc, sources[i].src, sources[i].srcPort, k, i - 1),
                 set_inner_dag(cut, k, [inner EXCEPT !.inputs = readers]),
                 [i \in DOMAIN order |-> i])

RECURSIVE Canonicalize(_)
Canonicalize(d) ==
    LET ordered == Fold(LAMBDA acc, k :
                        OrderInputs(set_inner_dag(acc, k, Canonicalize(inner_dag(acc.ops[k]))), k),
                        d, SelectSeq(Operators(d), LAMBDA k : has_inner_dag(d.ops[k])))
    IN  Rebuild(ordered, VertexOrder(ordered))

=============================================================================
