-------------------------------- MODULE Dag --------------------------------
(***************************************************************************)
(* The plan graph of the back end (dag/dag.hpp, dag/src/dag.cpp): the      *)
(* operators of a query plan, the flows between their ports, the input and *)
(* output ports of the plan, and the plans nested in operators.            *)
(*                                                                         *)
(* A plan is a value: a record with                                        *)
(*   ops      operator key -> operator (its vertex and its properties); the*)
(*            key is the id AddOperator gave the operator, so the order of *)
(*            keys is the order of the vertices;                           *)
(*   flows    the edges, in the order of their insertion;                  *)
(*   inputs   the multimap from plan ports to the tips reading them;       *)
(*   outputs  the map from plan ports to the tips written to them;         *)
(*   last     the largest id ever given out: operator_ids_ never shrinks.  *)
(* An operator's own field id is a second thing: ReplaceOperator and       *)
(* Canonicalize change it and leave operator_ids_ alone.                   *)
(* Ports and field positions are counted from 0, as in the code.           *)
(***************************************************************************)
EXTENDS Integers, Sequences, FiniteSets, TLC, SequencesExt, FiniteSetsExt

(***************************************************************************)
(* Operators                                                               *)
(***************************************************************************)

\* An operator as its constructor leaves it: class, number of input and output
\* ports, parameters, and the properties the passes attach to it (id, output
\* type, attribute ids and physical properties of the fields, read set, inner
\* plan: none or one).
DAGOperator(name, ins, arg) ==
    [name |-> name, ins |-> ins, outs |-> 1, arg |-> arg, id |-> 0, type |-> <<>>,
     attrs |-> <<>>, props |-> <<>>, reads |-> {}, inner |-> <<>>]

IsInstanceOf(op, names) == op.name \in names

IsPipelineDriver(op) ==
    IsInstanceOf(op, {"materialize_parquet_file", "materialize_row_vector", "ensure_single_tuple",
                      "groupby", "parallel_map", "parallel_map_omp"})

IsPipelinePredecessor(op) == IsInstanceOf(op, {"parameter_lookup", "pipeline"})

IsSingleTupleProducer(op) ==
    IsInstanceOf(op, {"materialize_parquet_file", "materialize_row_vector",
                      "ensure_single_tuple", "reduce"})

IsSourceOperator(op) == IsInstanceOf(op, {"column_scan", "row_scan", "range_source"})

(***************************************************************************)
(* The graph                                                               *)
(***************************************************************************)

EmptyDag == [ops |-> <<>>, flows |-> <<>>, inputs |-> <<>>, outputs |-> <<>>, last |-> 0]

\* The key the next operator added to d gets.
NextKey(d) == d.last + 1

\* FoldLeft, first over one half of s and then over the other: it keeps TLC's stack short.
\* The bound variables make TLC evaluate every intermediate result once, and in full.
Fold(op(_, _), base, s) ==
    LET RECURSIVE over(_, _, _)
        over(acc, lo, hi) ==
            IF lo = hi THEN op(acc, s[lo])
            ELSE CHOOSE r \in {over(a, (lo + hi) \div 2 + 1, hi) :
                               a \in {over(acc, lo, (lo + hi) \div 2)}} : r = r
    IN  IF s = <<>> THEN base
        ELSE CHOOSE r \in {over(b, 1, Len(s)) : b \in {base}} : r = r

FlatMap(f(_), s) == Fold(LAMBDA acc, x : acc \o f(x), <<>>, s)
Concat(ss) == FlatMap(LAMBDA s : s, ss)

\* The elements of a finite set in the total order less.
SortedBy(S, less(_, _)) ==
    LET ranked == {<<Cardinality({y \in S : less(y, x)}), x>> : x \in S}
    IN  <<>> \o [i \in 1..Cardinality(S) |-> (CHOOSE p \in ranked : p[1] = i - 1)[2]]

\* The keys of d in the order of the vertices.
Operators(d) == SortedBy(DOMAIN d.ops, <)

AddOperatorAs(d, op, id) ==
    [d EXCEPT !.ops = @ @@ (id :> [op EXCEPT !.id = id]), !.last = Max({@, id})]

AddOperator(d, op) == AddOperatorAs(d, op, NextKey(d))

\* The vertex keeps its edges and its inner plan; nobody gives the new operator
\* an id.
ReplaceOperator(d, k, op) == [d EXCEPT !.ops[k] = [op EXCEPT !.inner = d.ops[k].inner]]

Touches(f, k) == f.src = k \/ f.dst = k

\* The assertions under which RemoveOperator may be called.
IsIsolated(d, k) ==
    /\ \A i \in DOMAIN d.flows : ~Touches(d.flows[i], k)
    /\ \A i \in DOMAIN d.inputs : d.inputs[i].op # k
    /\ \A i \in DOMAIN d.outputs : d.outputs[i].op # k

RemoveOperator(d, k) ==
    IF Assert(IsIsolated(d, k), "RemoveOperator of an operator that is still used")
    THEN [d EXCEPT !.ops = [o \in DOMAIN @ \ {k} |-> @[o]]]
    ELSE d

Flow(src, srcPort, dst, dstPort) ==
    [src |-> src, srcPort |-> srcPort, dst |-> dst, dstPort |-> dstPort]

in_flows(d, k) == SelectSeq(d.flows, LAMBDA f : f.dst = k)
out_flows(d, k) == SelectSeq(d.flows, LAMBDA f : f.src = k)
in_degree(d, k) == Len(in_flows(d, k))
out_degree(d, k) == Len(out_flows(d, k))

\* The only flow into port p of k (the assertion of in_flow(op, port)).
in_flow(d, k, p) ==
    LET into == SelectSeq(in_flows(d, k), LAMBDA f : f.dstPort = p)
    IN  IF Assert(Len(into) = 1, <<"in_flow", d.ops[k].name, p>>) THEN into[1] ELSE <<>>

\* The only flow out of k (the assertion of out_flow(op)).
out_flow(d, k) ==
    LET from == out_flows(d, k)
    IN  IF Assert(Len(from) = 1, <<"out_flow", d.ops[k].name>>) THEN from[1] ELSE <<>>

predecessor(d, k, p) == in_flow(d, k, p).src
successor(d, k) == out_flow(d, k).dst

\* depth_first_search over n vertices, from the roots along next: the vertices in the order
\* in which they are finished. A step goes on to the first unseen vertex next to the top of
\* the stack, or finishes the top; an empty stack starts with the next root.
DepthFirst(roots, next(_), n) ==
    LET step(s) ==
            LET top == Last(s.stack)
                seen == ToSet(s.stack) \cup ToSet(s.finished)
                unseen == SelectSeq(IF s.stack = <<>> THEN roots ELSE next(top),
                                    LAMBDA k : k \notin seen)
            IN  CASE unseen # <<>> -> [s EXCEPT !.stack = Append(@, unseen[1])]
                  [] unseen = <<>> /\ s.stack # <<>> ->
                        [stack |-> Front(s.stack), finished |-> Append(s.finished, top)]
                  [] OTHER -> s
    IN  Fold(LAMBDA s, i : step(s), [stack |-> <<>>, finished |-> <<>>],
             [i \in 1..2 * n |-> i]).finished

\* ApplyInTopologicalOrder: consumers before producers, since topological_sort writes a
\* vertex when it is finished.
InTopologicalOrder(d) ==
    DepthFirst(Operators(d),
               LAMBDA k : [i \in DOMAIN out_flows(d, k) |-> out_flows(d, k)[i].dst],
               Cardinality(DOMAIN d.ops))

\* ApplyInReverseTopologicalOrder: producers before consumers.
InReverseTopologicalOrder(d) == Reverse(InTopologicalOrder(d))

RECURSIVE Reachable(_, _)
Reachable(d, ks) ==
    LET more == ks \cup {d.flows[i].dst : i \in {j \in DOMAIN d.flows : d.flows[j].src \in ks}}
    IN  IF more = ks THEN ks ELSE Reachable(d, more)

\* The search for a back edge starts from every vertex once one vertex has no
\* in-flow; without such a vertex it does not start at all.
HasCycle(d) ==
    /\ \E k \in DOMAIN d.ops : in_degree(d, k) = 0
    /\ \E i \in DOMAIN d.flows : d.flows[i].src \in Reachable(d, {d.flows[i].dst})

AddFlow(d, src, srcPort, dst, dstPort) ==
    LET grown == [d EXCEPT !.flows = Append(@, Flow(src, srcPort, dst, dstPort))]
    IN  IF Assert(~HasCycle(grown), "AddFlow made a cycle") THEN grown ELSE d

RemoveFlow(d, f) == [d EXCEPT !.flows = Remove(@, f)]

RemoveFlows(d, fs) == Fold(RemoveFlow, d, fs)

\* No operator with two readers and one root. (The breadth-first search that is to
\* find further components follows the out-flows of the root, which has none, and
\* colours every vertex before it starts.)
IsTree(d) ==
    /\ \A k \in DOMAIN d.ops : out_degree(d, k) <= 1
    /\ Cardinality({k \in DOMAIN d.ops : out_degree(d, k) = 0}) = 1

(***************************************************************************)
(* Inner plans, inputs and outputs                                         *)
(***************************************************************************)

has_inner_dag(op) == op.inner # <<>>
inner_dag(op) == op.inner[1]
WithInner(op, inner) == [op EXCEPT !.inner = <<inner>>]

set_inner_dag(d, k, inner) == [d EXCEPT !.ops[k].inner = <<inner>>]

Input(port, k, opPort) == [port |-> port, op |-> k, opPort |-> opPort]

\* The multimap keeps its entries sorted by port, equal ports in the order of
\* their insertion.
add_input(d, port, k, opPort) ==
    [d EXCEPT !.inputs = SelectSeq(@, LAMBDA e : e.port <= port)
                         \o <<Input(port, k, opPort)>>
                         \o SelectSeq(@, LAMBDA e : e.port > port)]

reset_input(d, port) == [d EXCEPT !.inputs = SelectSeq(@, LAMBDA e : e.port # port)]

set_input(d, port, k, opPort) == add_input(reset_input(d, port), port, k, opPort)

num_in_ports(d) == Cardinality({d.inputs[i].port : i \in DOMAIN d.inputs})

inputs_of(d, k) == SelectSeq(d.inputs, LAMBDA e : e.op = k)

\* The only input that k reads (the assertion of input(op)).
input_port(d, k) ==
    LET e == inputs_of(d, k)
    IN  IF Assert(Len(e) = 1, <<"input_port", d.ops[k].name>>) THEN e[1].port ELSE 0

\* outputs[p + 1] is what the plan writes to its port p.
output(d) ==
    IF Assert(Len(d.outputs) = 1, "output() of a plan with several outputs")
    THEN d.outputs[1] ELSE <<>>

set_output(d, k, opPort) ==
    IF Assert(Len(d.outputs) <= 1, "set_output(op) of a plan with several outputs")
    THEN [d EXCEPT !.outputs = <<[op |-> k, opPort |-> opPort]>>] ELSE d

set_output_port(d, port, k, opPort) ==
    [d EXCEPT !.outputs = [i \in 1..Max({Len(@), port + 1}) |->
                               IF i = port + 1 THEN [op |-> k, opPort |-> opPort] ELSE @[i]]]

is_output(d, k) == \E i \in DOMAIN d.outputs : d.outputs[i].op = k

\* The operator leaves from and joins to with its inner plan and a fresh id.
MoveOperator(from, to, k) ==
    [from |-> RemoveOperator(from, k), to |-> AddOperator(to, from.ops[k])]

(***************************************************************************)
(* The combinations of these calls that the passes repeat                  *)
(***************************************************************************)

\* A new operator that reads operator k, or none if k is NoOperator.
NoOperator == -1
AddAfter(d, k, op) ==
    LET added == AddOperator(d, op)
    IN  IF k = NoOperator THEN added ELSE AddFlow(added, k, 0, NextKey(d), 0)

\* A chain of new operators behind k; the key of the i-th is d.last + i.
AddChain(d, k, ops) ==
    Fold(LAMBDA acc, i : AddAfter(acc, IF i = 1 THEN k ELSE acc.last, ops[i]),
         d, [i \in DOMAIN ops |-> i])

\* A new operator behind the output of d, which becomes the output.
AddOutput(d, op) == set_output(AddAfter(d, output(d).op, op), NextKey(d), 0)

\* A new operator in the middle of the flow f.
InsertInto(d, f, op) ==
    AddFlow(AddFlow(AddOperator(RemoveFlow(d, f), op), f.src, f.srcPort, NextKey(d), 0),
            NextKey(d), 0, f.dst, f.dstPort)

\* Applies change to the inner plan of k.
InInner(d, k, change(_)) == set_inner_dag(d, k, change(inner_dag(d.ops[k])))

=============================================================================
