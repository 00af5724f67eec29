------------------------------ MODULE PlanTypes ------------------------------
(***************************************************************************)
(* The output types of operators (optimize/type_inference.cpp) and the     *)
(* structural checks on plans (optimize/verify.cpp). A tuple type is the   *)
(* sequence of its field types; an exception of the code is TypeError.     *)
(***************************************************************************)
EXTENDS DagOperators

Long == [kind |-> "long", elem |-> <<>>]
Str == [kind |-> "string", elem |-> <<>>]
ArrayOf(tuple) == [kind |-> "array", elem |-> tuple]
TypeError == <<[kind |-> "error", elem |-> <<>>]>>

IsAtomic(t) == t.kind \in {"long", "string"}
IsArray(t) == t.kind = "array"
IsColumn(t) == IsArray(t) /\ Len(t.elem) = 1

\* The type t, provided the code's checks pass.
Checked(ok, t) == IF ok THEN t ELSE TypeError

FileSlice == <<Str, Long, Long, Long>>

AntiJoinType(left, right) ==
    Checked(left # <<>> /\ right # <<>> /\ IsAtomic(left[1]) /\ IsAtomic(right[1]), left)

CartesianType(left, right) == left \o right

ColumnScanType(in, add_index) ==
    Checked(in # <<>> /\ \A i \in DOMAIN in : IsColumn(in[i]),
            (IF add_index THEN <<Long>> ELSE <<>>) \o [i \in DOMAIN in |-> in[i].elem[1]])

RowScanType(in, add_index) ==
    Checked(Len(in) = 1 /\ IsArray(in[1]),
            (IF add_index THEN <<Long>> ELSE <<>>) \o in[1].elem)

\* The type of an operator that runs an inner plan.
InnerOutputType(op) == inner_dag(op).ops[output(inner_dag(op)).op].type

ConcurrentExecuteProcessType(in, op) ==
    Checked(\A i \in DOMAIN in : ~IsArray(in[i]), InnerOutputType(op))

ExchangeTcpType(in) ==
    Checked(Len(in) > 1 /\ in[1] = Long /\ \A i \in 2..Len(in) : IsArray(in[i]), Tail(in))

GroupByType(in) == Checked(in[1] = Long, <<Long, ArrayOf(<<in[2]>>)>>)

ExpandPatternType(left, right) == Checked(left = <<Str>> /\ right = <<Long>>, <<Str>>)

JoinType(left, right, num_keys) ==
    Checked(/\ left # <<>> /\ right # <<>>
            /\ \A i \in 1..num_keys : IsAtomic(left[i]) /\ IsAtomic(right[i]),
            left \o SubSeq(right, num_keys + 1, Len(right)))

MaterializeColumnChunksType(in) == [i \in DOMAIN in |-> ArrayOf(<<in[i]>>)]

MaterializeParquetType(in, conf) ==
    Checked(conf[1] = Str /\ \A i \in DOMAIN in : IsColumn(in[i]) /\ IsAtomic(in[i].elem[1]),
            FileSlice)

ParquetScanType(in, own) == Checked(in = FileSlice, own)

PartitionType(in, conf) == Checked(conf = <<Long>>, <<Long, ArrayOf(in)>>)

ProjectionType(in, positions) ==
    Checked(\A i \in DOMAIN positions : positions[i] < Len(in),
            [i \in DOMAIN positions |-> in[positions[i] + 1]])

RangeType(in) ==
    Checked(Len(in) = 3 /\ IsAtomic(in[1]) /\ \A i \in 1..3 : in[i] = in[1], <<in[1]>>)

ReduceByKeyType(in) == Checked(IsAtomic(in[1]), in)

SemiJoinType(left, right) ==
    Checked(left # <<>> /\ right # <<>> /\ IsAtomic(left[1]) /\ IsAtomic(right[1]), left)

ZipType(ins) == Concat(ins)

\* The visitor that picks the rule by the operator's class.
ComputeOutputType(d, k) ==
    LET op == d.ops[k]
        in(p) == d.ops[predecessor(d, k, p)].type
    IN  CASE op.name \in {"antijoin", "antijoin_predicated"} -> AntiJoinType(in(0), in(1))
          [] op.name = "semijoin" -> SemiJoinType(in(0), in(1))
          [] op.name = "cartesian" -> CartesianType(in(0), in(1))
          [] op.name = "column_scan" -> ColumnScanType(in(0), op.arg)
          [] op.name = "row_scan" -> RowScanType(in(0), op.arg)
          [] op.name = "concurrent_execute_process" -> ConcurrentExecuteProcessType(in(0), op)
          [] op.name \in {"concurrent_execute", "concurrent_execute_lambda", "nested_map",
                          "parallel_map", "parallel_map_omp", "pipeline"} -> InnerOutputType(op)
          [] op.name \in {"compiled_pipeline", "constant_tuple", "map", "map_cpp",
                          "parameter_lookup"} -> op.type
          [] op.name = "exchange_s3" -> FileSlice
          [] op.name = "exchange_tcp" -> ExchangeTcpType(in(0))
          [] op.name = "groupby" -> GroupByType(in(0))
          [] op.name = "expand_pattern" -> ExpandPatternType(in(0), in(1))
          [] op.name = "join" -> JoinType(in(0), in(1), op.arg)
          [] op.name = "materialize_column_chunks" -> MaterializeColumnChunksType(in(0))
          [] op.name = "materialize_parquet_file" -> MaterializeParquetType(in(0), in(1))
          [] op.name = "materialize_row_vector" -> <<ArrayOf(in(0))>>
          [] op.name = "parquet_scan" -> ParquetScanType(in(0), op.type)
          [] op.name = "partition" -> PartitionType(in(0), in(1))
          [] op.name = "projection" -> ProjectionType(in(0), op.arg)
          [] op.name = "range_source" -> RangeType(in(0))
          [] op.name \in {"reduce_by_key", "reduce_by_key_grouped", "reduce_by_index"} ->
                ReduceByKeyType(in(0))
          [] op.name = "zip" -> ZipType([i \in 1..op.ins |-> in(i - 1)])
          [] OTHER -> in(0)

\* Mutant: the inner plan keeps the types it had.
KeepInnerGraphInputTypes(d, k) == d

\* SetInnerGraphInputTypes: the operators that read a port of the inner plan of k
\* get the type of what flows into that port.
SetInnerGraphInputTypes(d, k) ==
    IF ~has_inner_dag(d.ops[k]) THEN d
    ELSE set_inner_dag(d, k,
             Fold(LAMBDA i, e :
                          [i EXCEPT !.ops[e.op].type = d.ops[predecessor(d, k, e.port)].type],
                      inner_dag(d.ops[k]), inner_dag(d.ops[k]).inputs))

\* A recomputed output tuple has fresh attribute ids and no properties.
RecomputeOutputType(d, k) ==
    [d EXCEPT !.ops[k].type = ComputeOutputType(d, k), !.ops[k].attrs = <<>>,
              !.ops[k].props = <<>>]

RECURSIVE TypeInference(_)
TypeInference(d) ==
    Fold(LAMBDA acc, k :
                 LET entered == SetInnerGraphInputTypes(acc, k)
                     op == entered.ops[k]
                 IN  RecomputeOutputType(
                         IF has_inner_dag(op)
                         THEN set_inner_dag(entered, k, TypeInference(inner_dag(op)))
                         ELSE entered, k),
             d, InReverseTopologicalOrder(d))

\* TypeInference with only_check_: whether no operator throws.
RECURSIVE TypeCheck(_)
TypeCheck(d) ==
    \A k \in DOMAIN d.ops :
        /\ d.ops[k].type = ComputeOutputType(d, k)
        /\ d.ops[k].type # TypeError
        /\ has_inner_dag(d.ops[k]) => TypeCheck(inner_dag(d.ops[k]))

(***************************************************************************)
(* Structural checks: whether Verify does not throw.                       *)
(***************************************************************************)
RECURSIVE VerifyDag(_)

VerifyOperator(d, k) ==
    LET op == d.ops[k]
        from(p) == SelectSeq(out_flows(d, k), LAMBDA f : f.srcPort = p)
    IN  /\ in_degree(d, k) = op.ins
        /\ ~is_output(d, k) => /\ \A p \in 0..op.outs - 1 : from(p) # <<>>
                               /\ \A i \in DOMAIN out_flows(d, k) :
                                      out_flows(d, k)[i].srcPort < op.outs
        /\ has_inner_dag(op) => /\ num_in_ports(inner_dag(op)) = op.ins
                                /\ Len(inner_dag(op).outputs) = op.outs
                                /\ VerifyDag(inner_dag(op))

VerifyDag(d) == d.outputs # <<>> /\ \A k \in DOMAIN d.ops : VerifyOperator(d, k)

=============================================================================
