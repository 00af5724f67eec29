-------------------------------- MODULE Rdd --------------------------------
(***************************************************************************)
(* The front end (python/jitq/rdd.py, jitq_context.py): a query is a graph *)
(* of RDD objects, which is written as a JSON document and parsed into a   *)
(* plan by the back end.                                                   *)
(*                                                                         *)
(* A heap is the sequence of the RDD objects a program has created, an     *)
(* object is named by its index. A method that creates an object returns   *)
(* the heap with the object at its end. An object has its class's NAME,    *)
(* its parents, its arguments, its output type (as the flat tuple that     *)
(* make_flat_tuple writes) and, for a parameter, its value. A constructor  *)
(* that raises leaves the type TypeError.                                  *)
(***************************************************************************)
EXTENDS PlanTypes

RDD(name, parents, arg, type) ==
    [op |-> name, parents |-> parents, arg |-> arg, type |-> type, value |-> <<>>]

New(h, rdd) == Append(h, rdd)
TypeOf(h, k) == h[k].type

(***************************************************************************)
(* Constructors of sources                                                 *)
(***************************************************************************)
ParameterLookup(type, value) == [RDD("parameter_lookup", <<>>, <<>>, type) EXCEPT !.value = value]

ConstantTuple(values) ==
    RDD("constant_tuple", <<>>, [i \in DOMAIN values |-> Val(values[i])],
        [i \in DOMAIN values |-> Long])

WithIndex(add_index, type) == (IF add_index THEN <<Long>> ELSE <<>>) \o type

RowScan(h, k, add_index) ==
    RDD("row_scan", <<k>>, add_index,
        Checked(Len(TypeOf(h, k)) = 1 /\ IsArray(TypeOf(h, k)[1]),
                WithIndex(add_index, TypeOf(h, k)[1].elem)))

ColumnScan(h, k, add_index) ==
    RDD("column_scan", <<k>>, add_index,
        Checked(\A i \in DOMAIN TypeOf(h, k) : IsArray(TypeOf(h, k)[i]),
                WithIndex(add_index, [i \in DOMAIN TypeOf(h, k) |-> TypeOf(h, k)[i].elem[1]])))

ParquetScan(k, type) == RDD("parquet_scan", <<k>>, <<>>, [i \in DOMAIN type |-> ArrayOf(<<type[i]>>)])

\* The constructor of Range creates its parent, a parameter with the bounds.
RangeRdd(h, from, to, step) ==
    New(New(h, ParameterLookup(<<Long, Long, Long>>, <<from, to, step>>)),
        RDD("range_source", <<Len(h) + 1>>, <<>>, <<Long>>))

\* So does that of ExpandPattern: a parameter with the pattern, and a range.
ExpandPattern(h, pattern, first, last) ==
    LET parents == RangeRdd(New(h, ParameterLookup(<<Str>>, <<pattern>>)), first, last, 1)
    IN  New(parents, RDD("expand_pattern", <<Len(h) + 1, Len(parents)>>, <<>>, <<Str>>))

(***************************************************************************)
(* Constructors of operators                                               *)
(***************************************************************************)
EnsureSingleTuple(h, k) == RDD("ensure_single_tuple", <<k>>, <<>>, TypeOf(h, k))

Map(k, func) == RDD("map", <<k>>, func, [i \in DOMAIN func |-> Long])

Filter(h, k, pred) == RDD("filter", <<k>>, pred, TypeOf(h, k))

MaterializeRowVector(h, k) == RDD("materialize_row_vector", <<k>>, <<>>, <<ArrayOf(TypeOf(h, k))>>)

MaterializeColumnVector(h, k) ==
    RDD("materialize_column_chunks", <<k>>, <<>>,
        [i \in DOMAIN TypeOf(h, k) |-> ArrayOf(<<TypeOf(h, k)[i]>>)])

MaterializeParquetFile(k, conf) == RDD("materialize_parquet_file", <<k, conf>>, <<>>, FileSlice)

SameKeys(left, right, n) ==
    Len(left) >= n /\ Len(right) >= n /\ \A i \in 1..n : left[i] = right[i]

Join(h, l, r, num_keys) ==
    RDD("join", <<l, r>>, num_keys,
        Checked(num_keys > 0 /\ SameKeys(TypeOf(h, l), TypeOf(h, r), num_keys),
                TypeOf(h, l) \o SubSeq(TypeOf(h, r), num_keys + 1, Len(TypeOf(h, r)))))

AntiJoin(h, l, r) ==
    RDD("antijoin", <<l, r>>, <<>>, Checked(SameKeys(TypeOf(h, l), TypeOf(h, r), 1), TypeOf(h, l)))

AntiJoinPredicated(h, l, r, func) ==
    RDD("antijoin_predicated", <<l, r>>, func,
        Checked(SameKeys(TypeOf(h, l), TypeOf(h, r), 1), TypeOf(h, l)))

SemiJoin(h, l, r) ==
    RDD("semijoin", <<l, r>>, <<>>, Checked(SameKeys(TypeOf(h, l), TypeOf(h, r), 1), TypeOf(h, l)))

Cartesian(h, l, r) == RDD("cartesian", <<l, r>>, <<>>, TypeOf(h, l) \o TypeOf(h, r))

ZipRdd(h, l, r) == RDD("zip", <<l, r>>, <<>>, TypeOf(h, l) \o TypeOf(h, r))

TopK(h, k, num_elements) ==
    RDD("topk", <<k>>, num_elements, Checked(num_elements > 0, TypeOf(h, k)))

Sort(h, k) == RDD("sort", <<k>>, <<>>, TypeOf(h, k))

Reduce(h, k, func) == RDD("reduce", <<k>>, func, TypeOf(h, k))

ReduceByKey(h, k, func) ==
    RDD("reduce_by_key", <<k>>, func, Checked(Len(TypeOf(h, k)) > 1, TypeOf(h, k)))

ReduceByIndex(h, k, func, min_idx, max_idx) ==
    RDD("reduce_by_index", <<k>>, [func |-> func, min |-> min_idx, max |-> max_idx],
        Checked(Len(TypeOf(h, k)) > 1, TypeOf(h, k)))

(***************************************************************************)
(* Methods. Those of the context create sources, an action creates the     *)
(* operators at the end of the plan that it executes.                      *)
(***************************************************************************)
collection(h, type, rows, add_index) ==
    LET parent == New(h, ParameterLookup(<<ArrayOf(type)>>, <<[off |-> 0, rows |-> rows]>>))
    IN  New(parent, RowScan(parent, Len(parent), add_index))

\* The collection of a data frame: one array per column.
data_frame(h, type, rows, add_index) ==
    LET column(i) == [off |-> 0, rows |-> [j \in DOMAIN rows |-> <<rows[j][i]>>]]
        parent == New(h, ParameterLookup([i \in DOMAIN type |-> ArrayOf(<<type[i]>>)],
                                         [i \in DOMAIN type |-> column(i)]))
    IN  New(parent, ColumnScan(parent, Len(parent), add_index))

read_parquet(h, pattern, type, first, last) ==
    LET files == ExpandPattern(h, pattern, first, last)
        slice == New(files, ConstantTuple(<<0, 1, 1>>))
        slices == New(slice, Cartesian(slice, Len(files), Len(slice)))
        scan == New(slices, ParquetScan(Len(slices), type))
    IN  New(scan, ColumnScan(scan, Len(scan), FALSE))

collect(h, k) ==
    LET rows == New(h, MaterializeRowVector(h, k))
    IN  New(rows, EnsureSingleTuple(rows, Len(rows)))

reduce(h, k, func) ==
    LET reduced == New(h, Reduce(h, k, func))
    IN  New(reduced, EnsureSingleTuple(reduced, Len(reduced)))

count(h, k) == reduce(New(h, Map(k, <<Sum(<<>>, 1)>>)), Len(h) + 1, "sum")

to_parquet(h, k, conf) ==
    LET columns == New(h, MaterializeColumnVector(h, k))
        param == New(columns, ParameterLookup(<<Str>>, <<conf>>))
        file == New(param, MaterializeParquetFile(Len(columns), Len(param)))
    IN  New(file, EnsureSingleTuple(file, Len(file)))

(***************************************************************************)
(* Traversals                                                              *)
(***************************************************************************)

\* Visitor: the objects below sink, parents first, each once.
Visited(h, sink) == DepthFirst(<<sink>>, LAMBDA k : h[k].parents, Len(h))

\* The position of object k in the order of a traversal, from 0.
IdOf(order, k) == (CHOOSE i \in DOMAIN order : order[i] = k) - 1

write_dag(h, sink) ==
    LET order == Visited(h, sink)
    IN  [i \in DOMAIN order |->
            LET rdd == h[order[i]]
            IN  [op |-> rdd.op, arg |-> rdd.arg, type |-> rdd.type, id |-> i - 1,
                 predecessors |-> [p \in DOMAIN rdd.parents |-> IdOf(order, rdd.parents[p])]]]

\* The parameters of the plan, in the order of their ports.
get_inputs(h, sink) == SelectSeq(Visited(h, sink), LAMBDA k : h[k].op = "parameter_lookup")

input_values(h, sink) ==
    [i \in DOMAIN get_inputs(h, sink) |-> h[get_inputs(h, sink)[i]].value]

\* get_final_dict without its cache.
FinalDict(h, sink) ==
    LET order == Visited(h, sink)
        inputs == get_inputs(h, sink)
    IN  [operators |-> write_dag(h, sink),
         outputs |-> <<IdOf(order, sink)>>,
         inputs |-> [n \in DOMAIN inputs |-> IdOf(order, inputs[n])]]

(***************************************************************************)
(* The back end reads the document (dag.cpp)                               *)
(***************************************************************************)
\* The number of input ports of the operator classes the front end knows.
NumInPorts(o) ==
    CASE o.op \in {"parameter_lookup", "constant_tuple"} -> 0
      [] o.op \in {"antijoin", "antijoin_predicated", "cartesian", "expand_pattern", "join",
                   "materialize_parquet_file", "semijoin"} -> 2
      [] o.op = "zip" -> Len(o.predecessors)
      [] OTHER -> 1

MakeDAGOperator(o) == [DAGOperator(o.op, NumInPorts(o), o.arg) EXCEPT !.type = o.type]

FromJson(dict) ==
    LET ops == Fold(LAMBDA acc, o : AddOperatorAs(acc, MakeDAGOperator(o), o.id),
                    EmptyDag, dict.operators)
        wired == Fold(LAMBDA acc, o :
                     Fold(LAMBDA a, p : AddFlow(a, o.predecessors[p], 0, o.id, p - 1),
                          acc, [p \in DOMAIN o.predecessors |-> p]), ops, dict.operators)
        ended == Fold(LAMBDA acc, i : set_output_port(acc, i - 1, dict.outputs[i], 0),
                      wired, [i \in DOMAIN dict.outputs |-> i])
    IN  Fold(LAMBDA acc, n : add_input(acc, n - 1, dict.inputs[n], 0),
             ended, [n \in DOMAIN dict.inputs |-> n])

=============================================================================
