---------------------------- MODULE DagOperators ----------------------------
(***************************************************************************)
(* The operator classes of dag/include/dag/operators/: name, number of     *)
(* input ports, parameters. The functions users pass to an operator (LLVM  *)
(* code in the program) are expressions here:                              *)
(*   map        one expression per output field: Arg(i) is input field i,  *)
(*              Sum(args, c) the sum of the fields args and the constant c,*)
(*              Mod(args, c) that of the fields modulo c, and              *)
(*              Captured(args, c) their sum and a variable of the enclosing*)
(*              function that had the value c when the query was built;    *)
(*   predicate  [fn, args, val]: compares the sum of some fields with val; *)
(*   reduction  "sum" or "max", field by field, both associative and       *)
(*              commutative as rdd.py requires.                            *)
(***************************************************************************)
EXTENDS Dag

Arg(i) == [fn |-> "arg", args |-> <<i>>, val |-> 0]
Sum(args, c) == [fn |-> "sum", args |-> args, val |-> c]
Mod(args, c) == [fn |-> "mod", args |-> args, val |-> c]
Captured(args, c) == [fn |-> "captured", args |-> args, val |-> c]

\* A value of a constant tuple: a number, a file name, or a name that a later pass
\* or the generated code replaces by a number.
Val(n) == [var |-> "", val |-> n]
Var(name) == [var |-> name, val |-> 0]

DAGAntiJoin == DAGOperator("antijoin", 2, <<>>)
DAGAntiJoinPredicated(pred) == DAGOperator("antijoin_predicated", 2, pred)
DAGAssertCorrectOpenNextClose == DAGOperator("assert_correct_open_next_close", 1, <<>>)
DAGBroadcast == DAGOperator("broadcast", 1, <<>>)
DAGCartesian == DAGOperator("cartesian", 2, <<>>)
DAGColumnScan(add_index) == DAGOperator("column_scan", 1, add_index)
DAGCompiledPipeline(ins, library) == DAGOperator("compiled_pipeline", ins, library)
DAGConcurrentExecute(ins, outs) ==
    [DAGOperator("concurrent_execute", ins, <<>>) EXCEPT !.outs = outs]
DAGConcurrentExecuteLambda == DAGOperator("concurrent_execute_lambda", 1, <<>>)
DAGConcurrentExecuteProcess == DAGOperator("concurrent_execute_process", 1, <<>>)
DAGConstantTuple(values, type) ==
    [DAGOperator("constant_tuple", 0, values) EXCEPT !.type = type]
DAGEnsureSingleTuple == DAGOperator("ensure_single_tuple", 1, <<>>)
DAGExchange == DAGOperator("exchange", 1, <<>>)
DAGExchangeS3(levels) == DAGOperator("exchange_s3", 3, levels)
DAGExchangeTcp(levels) == DAGOperator("exchange_tcp", 1, levels)
DAGExpandPattern == DAGOperator("expand_pattern", 2, <<>>)
DAGFilter(pred) == DAGOperator("filter", 1, pred)
DAGGroupBy == DAGOperator("groupby", 1, <<>>)
DAGJoin(num_keys) == DAGOperator("join", 2, num_keys)
DAGMap(func, type) == [DAGOperator("map", 1, func) EXCEPT !.type = type]
DAGMapCpp(function_name, type) ==
    [DAGOperator("map_cpp", 1, function_name) EXCEPT !.type = type]
DAGMaterializeColumnChunks == DAGOperator("materialize_column_chunks", 1, <<>>)
DAGMaterializeParquet == DAGOperator("materialize_parquet_file", 2, <<>>)
DAGMaterializeRowVector == DAGOperator("materialize_row_vector", 1, <<>>)
DAGNestedMap == DAGOperator("nested_map", 1, <<>>)
DAGParallelMap == DAGOperator("parallel_map", 1, <<>>)
DAGParallelMapOmp == DAGOperator("parallel_map_omp", 1, <<>>)
DAGParameterLookup(type) == [DAGOperator("parameter_lookup", 0, <<>>) EXCEPT !.type = type]
DAGParquetScan(type) == [DAGOperator("parquet_scan", 1, <<>>) EXCEPT !.type = type]
DAGPartition(seed) == DAGOperator("partition", 2, seed)
DAGPartitionedExchange(num_levels, level_num) ==
    DAGOperator("partitioned_exchange", 1, [num |-> num_levels, level |-> level_num])
DAGPipeline(ins) == DAGOperator("pipeline", ins, <<>>)
DAGProjection(positions) == DAGOperator("projection", 1, positions)
DAGRange == DAGOperator("range_source", 1, <<>>)
DAGReduce(func) == DAGOperator("reduce", 1, func)
DAGReduceByIndex(func, min, max) ==
    DAGOperator("reduce_by_index", 1, [func |-> func, min |-> min, max |-> max])
DAGReduceByKey(func) == DAGOperator("reduce_by_key", 1, func)
DAGReduceByKeyGrouped(func) == DAGOperator("reduce_by_key_grouped", 1, func)
DAGRowScan(add_index) == DAGOperator("row_scan", 1, add_index)
DAGSemiJoin == DAGOperator("semijoin", 2, <<>>)
DAGSort == DAGOperator("sort", 1, <<>>)
DAGSplitColumnData == DAGOperator("split_column_data", 2, <<>>)
DAGSplitRange == DAGOperator("split_range", 2, <<>>)
DAGSplitRowData == DAGOperator("split_row_data", 2, <<>>)
DAGTopK(num_elements) == DAGOperator("topk", 1, num_elements)
DAGZip(ins) == DAGOperator("zip", ins, <<>>)

=============================================================================
