------------------------------ MODULE CodeGen ------------------------------
(***************************************************************************)
(* The code generator (generate/src/code_gen/): what it writes for a plan  *)
(* of pipelines. A generated function over tuples is a list of statements  *)
(* "auto var = makeClass(&upstream, ..., extra)"; the generated plan is a  *)
(* list of tasks, one per pipeline, that OpenMP may start as soon as the   *)
(* variables they depend on are there. Names of variables are the keys of  *)
(* the operators; types, includes and the text of functors are left out.   *)
(***************************************************************************)
EXTENDS PlanTypes

Stmt(class, extra) == [class |-> class, extra |-> extra]

(***************************************************************************)
(* CodeGenVisitor: the class and the extra arguments for every operator    *)
(***************************************************************************)
visit_AntiJoin(op) == Stmt("AntiJoinOperator", <<>>)
visit_AntiJoinPredicated(op) == Stmt("AntiJoinPredicatedOperator", op.arg)
visit_AssertCorrectOpenNextClose(op) == Stmt("AssertCorrectOpenNextCloseOperator", <<>>)
visit_RowScan(op) == Stmt("RowScanOperator", op.arg)
visit_ConcurrentExecuteLambda(op) == Stmt("ConcurrentExecuteLambdaOperator", inner_dag(op))
visit_ConcurrentExecuteProcess(op) == Stmt("ConcurrentExecuteProcessOperator", inner_dag(op))
visit_ConstantTuple(op) == Stmt("ConstantTupleOperator", [input |-> FALSE, values |-> op.arg])
visit_ColumnScan(op) == Stmt("ColumnScanOperator", op.arg)
visit_GroupBy(op) == Stmt("GroupByOperator", <<>>)
visit_Map(op) == Stmt("MapOperator", [functor |-> "llvm", of |-> op.arg])
visit_MapCpp(op) == Stmt("MapOperator", [functor |-> "cpp", of |-> op.arg])
visit_MaterializeColumnChunks(op) == Stmt("MaterializeColumnChunksOperator", <<>>)
visit_MaterializeParquet(op) == Stmt("MaterializeParquetOperator", <<>>)
visit_MaterializeRowVector(op) == Stmt("MaterializeRowVectorOperator", <<>>)
visit_NestedMap(op, inner_plan) == Stmt("NestedMapOperator", inner_plan)
visit_ParameterLookup(d, k) ==
    Stmt("ConstantTupleOperator", [input |-> TRUE, values |-> <<input_port(d, k)>>])
visit_Partition(op) == Stmt("PartitionOperator", op.arg)
visit_Projection(op) == Stmt("MapOperator", [functor |-> "positions", of |-> op.arg])
visit_Reduce(op) == Stmt("ReduceOperator", op.arg)
visit_Range(op) == Stmt("RangeSourceOperator", <<>>)
visit_EnsureSingleTuple(op) == Stmt("EnsureSingleTupleOperator", <<>>)
visit_ExchangeS3(op) == Stmt("ExchangeS3Operator", op.arg)
visit_ExchangeTcp(op) == Stmt("ExchangeTcpOperator", op.arg)
visit_ExpandPattern(op) == Stmt("ExpandPatternOperator", <<>>)
visit_Filter(op) == Stmt("FilterOperator", op.arg)
visit_Join(op) == Stmt("JoinOperator", op.arg)
visit_Cartesian(op) == Stmt("CartesianOperator", <<>>)
visit_ParallelMapOmp(op, inner_plan) == Stmt("ParallelMapOmpOperator", inner_plan)
visit_ParquetScan(op) == Stmt("ParquetScanOperator", Len(op.type))
visit_SemiJoin(op) == Stmt("SemiJoinOperator", <<>>)
visit_SplitColumnData(op) == Stmt("SplitColumnDataOperator", <<>>)
visit_SplitRowData(op) == Stmt("SplitRowDataOperator", <<>>)
visit_SplitRange(op) == Stmt("SplitRangeOperator", <<>>)
visit_reduce_by_key(op, operator_name) == Stmt(operator_name, op.arg)
visit_ReduceByIndex(op) == Stmt("ReduceByIndexOperator", op.arg)
visit_TopK(op) == Stmt("TopKOperator", op.arg)
visit_Sort(op) == Stmt("SortOperator", <<>>)
visit_Zip(op) == Stmt("ZipOperator", <<>>)

\* The operators for which a plan over tuples cannot be generated: the visitor
\* throws for pipelines and for every class without a method.
NoTemplate == Stmt("throw", <<>>)

RECURSIVE GenerateExecuteTuples(_)

\* Visitor::Visit, the dispatch on the class of the operator.
VisitOperator(d, k) ==
    LET op == d.ops[k]
    IN  CASE op.name = "antijoin" -> visit_AntiJoin(op)
          [] op.name = "antijoin_predicated" -> visit_AntiJoinPredicated(op)
          [] op.name = "assert_correct_open_next_close" -> visit_AssertCorrectOpenNextClose(op)
          [] op.name = "row_scan" -> visit_RowScan(op)
          [] op.name = "concurrent_execute_lambda" -> visit_ConcurrentExecuteLambda(op)
          [] op.name = "concurrent_execute_process" -> visit_ConcurrentExecuteProcess(op)
          [] op.name = "constant_tuple" -> visit_ConstantTuple(op)
          [] op.name = "column_scan" -> visit_ColumnScan(op)
          [] op.name = "groupby" -> visit_GroupBy(op)
          [] op.name = "map" -> visit_Map(op)
          [] op.name = "map_cpp" -> visit_MapCpp(op)
          [] op.name = "materialize_column_chunks" -> visit_MaterializeColumnChunks(op)
          [] op.name = "materialize_parquet_file" -> visit_MaterializeParquet(op)
          [] op.name = "materialize_row_vector" -> visit_MaterializeRowVector(op)
          [] op.name = "nested_map" -> visit_NestedMap(op, GenerateExecuteTuples(inner_dag(op)))
          [] op.name = "parameter_lookup" -> visit_ParameterLookup(d, k)
          [] op.name = "partition" -> visit_Partition(op)
          [] op.name = "projection" -> visit_Projection(op)
          [] op.name = "reduce" -> visit_Reduce(op)
          [] op.name = "range_source" -> visit_Range(op)
          [] op.name = "ensure_single_tuple" -> visit_EnsureSingleTuple(op)
          [] op.name = "exchange_s3" -> visit_ExchangeS3(op)
          [] op.name = "exchange_tcp" -> visit_ExchangeTcp(op)
          [] op.name = "expand_pattern" -> visit_ExpandPattern(op)
          [] op.name = "filter" -> visit_Filter(op)
          [] op.name = "join" -> visit_Join(op)
          [] op.name = "cartesian" -> visit_Cartesian(op)
          [] op.name = "parallel_map_omp" ->
                visit_ParallelMapOmp(op, GenerateExecuteTuples(inner_dag(op)))
          [] op.name = "parquet_scan" -> visit_ParquetScan(op)
          [] op.name = "semijoin" -> visit_SemiJoin(op)
          [] op.name = "split_column_data" -> visit_SplitColumnData(op)
          [] op.name = "split_row_data" -> visit_SplitRowData(op)
          [] op.name = "split_range" -> visit_SplitRange(op)
          [] op.name = "reduce_by_key" -> visit_reduce_by_key(op, "ReduceByKeyOperator")
          [] op.name = "reduce_by_key_grouped" ->
                visit_reduce_by_key(op, "ReduceByKeyGroupedOperator")
          [] op.name = "reduce_by_index" -> visit_ReduceByIndex(op)
          [] op.name = "topk" -> visit_TopK(op)
          [] op.name = "sort" -> visit_Sort(op)
          [] op.name = "zip" -> visit_Zip(op)
          [] OTHER -> NoTemplate

\* emitOperatorMake: the upstreams come first, in the order of the ports.
emitOperatorMake(d, k) ==
    LET stmt == VisitOperator(d, k)
    IN  [var |-> k, class |-> stmt.class, extra |-> stmt.extra,
         ups |-> [p \in 1..d.ops[k].ins |-> predecessor(d, k, p - 1)]]

\* A function over tuples: its statements in the order of the visits, its sink, and
\* the parameter ports it has, one for every port of the plan that is read. The
\* readers of one port have one type.
GenerateExecuteTuples(d) ==
    LET order == InReverseTopologicalOrder(d)
    IN  IF Assert(\A i, j \in DOMAIN d.inputs :
                      /\ d.inputs[i].opPort = 0
                      /\ d.inputs[i].port = d.inputs[j].port =>
                             d.ops[d.inputs[i].op].type = d.ops[d.inputs[j].op].type,
                  "GenerateExecuteTuples: inputs")
        THEN [body |-> [i \in DOMAIN order |-> emitOperatorMake(d, order[i])],
              sink |-> output(d).op,
              params |-> SortedBy({d.inputs[i].port : i \in DOMAIN d.inputs}, <)]
        ELSE <<>>

\* The function over values calls it with one argument for every input of the plan.
GenerateExecuteValues(d) ==
    [tuples |-> GenerateExecuteTuples(d),
     args |-> [i \in DOMAIN d.inputs |-> d.inputs[i].port]]

\* A parameter and a pipeline as the body of the generated plan declares them; the
\* pipeline is a task that waits for the results it reads.
GeneratePipeline(d, k) ==
    IF d.ops[k].name = "parameter_lookup"
    THEN [result |-> k, input |-> <<input_port(d, k)>>, reads |-> <<>>, plan |-> <<>>]
    ELSE [result |-> k, input |-> <<>>,
          reads |-> [p \in 1..in_degree(d, k) |-> predecessor(d, k, p - 1)],
          plan |-> <<GenerateExecuteValues(inner_dag(d.ops[k]))>>]

GenerateExecutePipelines(d) ==
    LET order == InReverseTopologicalOrder(d)
    IN  [tasks |-> [i \in DOMAIN order |-> GeneratePipeline(d, order[i])],
         result |-> output(d).op]

\* Whether the generator throws nowhere: parameters and pipelines at the top level,
\* operators with a template below.
RECURSIVE HasTemplates(_)
HasTemplates(d) ==
    \A k \in DOMAIN d.ops :
        /\ VisitOperator(d, k).class # NoTemplate.class
        /\ d.ops[k].name \in {"nested_map", "parallel_map_omp"} =>
               HasTemplates(inner_dag(d.ops[k]))

CanGenerate(d) ==
    \A k \in DOMAIN d.ops :
        \/ d.ops[k].name = "parameter_lookup"
        \/ d.ops[k].name = "pipeline" /\ HasTemplates(inner_dag(d.ops[k]))

(***************************************************************************)
(* The pass code_gen: the plan becomes one operator that calls the library *)
(* compiled from it.                                                       *)
(***************************************************************************)

\* Clear keeps the largest id given out.
Clear(d) == [EmptyDag EXCEPT !.last = d.last]

CodeGenPass(d) ==
    LET pipeline == [DAGCompiledPipeline(0, d) EXCEPT !.type = d.ops[output(d).op].type]
        pop == NextKey(d)
        called == Fold(LAMBDA acc, i :
                      LET param == NextKey(acc)
                          added == AddOperator([acc EXCEPT !.ops[pop].ins = @ + 1],
                                       DAGParameterLookup(d.ops[d.inputs[i].op].type))
                      IN  add_input(AddFlow(added, param, 0, pop, i - 1),
                                    d.inputs[i].port, param, i - 1),
                  AddOperator(Clear(d), pipeline), [i \in DOMAIN d.inputs |-> i])
    IN  Fold(LAMBDA acc, i : set_output_port(acc, i - 1, pop, i - 1),
             called, [i \in DOMAIN d.outputs |-> i])

=============================================================================
