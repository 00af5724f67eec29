----------------------------- MODULE Optimizer -----------------------------
(***************************************************************************)
(* The optimizer (generate/src/optimize/optimizer.cpp): the list of passes *)
(* of a target, run one after the other on the plan of a query. A step is  *)
(* one pass; the loop that merges ConcurrentExecute operators takes a step *)
(* per round, and the passes on the plan of a ConcurrentExecute are steps  *)
(* of their own. add_always_inline only sets an attribute of functions,    *)
(* which are abstract here, and is left out.                               *)
(***************************************************************************)
EXTENDS DistributedPasses, CodeGen, PlanEval, Rdd

CONSTANT Jobs   \* records [query, config]: query = [heap, sink], the RDD objects and the
                \* one to be executed; config = [target, two_level, assert_correct]

VARIABLES
    job,        \* the job
    asked,      \* of the query: the inputs it is executed with, the type and the rows of its result
    plan,       \* the plan in its current form
    todo,       \* the passes to be run: records [pass, at], at a ConcurrentExecute or none
    pops,       \* the operators parallelize_concurrent has still to look at
    thrown      \* the pass that has thrown, or ""

optimizerVars == <<job, asked, plan, todo, pops, thrown>>

QueryPlan(query) == FromJson(FinalDict(query.heap, query.sink))

\* The rows are those that the plan computes as the front end has written it.
Asked(query, d) ==
    LET inputs == input_values(query.heap, query.sink)
        type == TypeOf(query.heap, query.sink)
    IN  [inputs |-> inputs, type |-> type, rows |-> Result(d, inputs, type)]

(***************************************************************************)
(* The pipeline of transformations. GenerateExecutable asks for level 2 of *)
(* optimization and for code, which activates all of the optional passes.  *)
(***************************************************************************)
Inferred == <<"type_inference", "verify">>
Unchanged == <<"type_check", "verify">>

TransformationsBefore ==
    Unchanged
    \o <<"materialize_multiple_reads">> \o Inferred
    \o <<"attribute_id_tracking">> \o Unchanged
    \o <<"simple_predicate_move_around">> \o Unchanged

TransformationsOmp == <<"parallelize">> \o Inferred \o <<"parallelize_omp">> \o Inferred

TransformationsProcess(config) ==
    <<"parallelize_concurrent">> \o Inferred
    \o <<"parallelize_concurrent_single_inout">> \o Inferred
    \o (IF config.two_level THEN <<"two_level_exchange">> \o Inferred ELSE <<>>)
    \o <<IF config.target = "process/s3" THEN "exchange_s3" ELSE "exchange_tcp">> \o Inferred
    \o <<"parallelize_process">> \o Inferred
    \o <<"compile_inner_plans">> \o Inferred

TransformationsLambda(config) ==
    <<"parallelize_concurrent">> \o Inferred
    \o <<"parallelize_concurrent_single_inout">> \o Inferred
    \o (IF config.two_level THEN <<"two_level_exchange">> \o Inferred ELSE <<>>)
    \o <<"exchange_s3">> \o Inferred
    \o <<"parallelize_lambda">> \o Inferred
    \o <<"compile_inner_plans">> \o Inferred

TransformationsFor(config) ==
    CASE config.target = "singlecore" -> <<>>
      [] config.target = "omp" -> TransformationsOmp
      [] config.target \in {"process/s3", "process/tcp"} -> TransformationsProcess(config)
      [] config.target = "lambda" -> TransformationsLambda(config)

TransformationsAfter(config) ==
    <<"attribute_id_tracking">> \o Unchanged
    \o <<"determine_sortedness">> \o Unchanged
    \o <<"grouped_reduce_by_key">> \o Unchanged
    \o <<"create_pipelines", "type_inference", "determine_sortedness", "verify">>
    \o (IF config.assert_correct THEN <<"assert_correct_open_next_close">> \o Inferred ELSE <<>>)
    \o <<"canonicalize", "verify">>
    \o <<"code_gen", "type_inference", "canonicalize", "verify">>

Transformations(config) ==
    TransformationsBefore \o TransformationsFor(config) \o TransformationsAfter(config)

\* The configuration of the nested optimizer.
NestedConfig(config) == [config EXCEPT !.target = "singlecore"]

At(passes, k) == [i \in DOMAIN passes |-> [pass |-> passes[i], at |-> k]]

(***************************************************************************)
(* One pass                                                                *)
(***************************************************************************)
RunPass(pass, d) ==
    CASE pass = "type_inference" -> TypeInference(d)
      [] pass = "materialize_multiple_reads" -> MaterializeMultipleReads(d)
      [] pass = "attribute_id_tracking" -> AttributeIdTracking(d)
      [] pass = "simple_predicate_move_around" -> SimplePredicateMoveAround(d)
      [] pass = "parallelize" -> Parallelize(d)
      [] pass = "parallelize_omp" -> ParallelizeOmp(d)
      [] pass = "parallelize_concurrent_single_inout" -> ParallelizeConcurrentSingleInout(d)
      [] pass = "two_level_exchange" -> TwoLevelExchange(d)
      [] pass = "exchange_s3" -> ExchangeS3Pass(d)
      [] pass = "exchange_tcp" -> ExchangeTcpPass(d)
      [] pass = "parallelize_process" -> ParallelizeProcess(d)
      [] pass = "parallelize_lambda" -> ParallelizeLambda(d)
      [] pass = "determine_sortedness" -> DetermineSortedness(d)
      [] pass = "grouped_reduce_by_key" -> GroupedReduceByKey(d)
      [] pass = "create_pipelines" -> CreatePipelines(d)
      [] pass = "assert_correct_open_next_close" -> AssertCorrectOpenNextClose(d)
      [] pass = "canonicalize" -> Canonicalize(d)
      [] pass = "code_gen" -> CodeGenPass(d)
      [] OTHER -> d

\* Whether the pass throws on d; TypeInference throws where it finds no type.
Throws(pass, d) ==
    CASE pass = "type_check" -> ~TypeCheck(d)
      [] pass = "verify" -> ~VerifyDag(d)
      [] pass = "type_inference" -> ~TypeCheck(TypeInference(d))
      [] pass = "code_gen" -> ~CanGenerate(d)
      [] OTHER -> FALSE

PlanAt(at) == IF at = NoOperator THEN plan ELSE inner_dag(plan.ops[at])
PutAt(at, d) == IF at = NoOperator THEN d ELSE set_inner_dag(plan, at, d)

(***************************************************************************)
(* Steps                                                                   *)
(***************************************************************************)
InitOptimizer ==
    /\ job \in Jobs
    /\ plan = QueryPlan(job.query)
    /\ asked = Asked(job.query, plan)
    /\ todo = At(Transformations(job.config), NoOperator)
    /\ pops = <<>>
    /\ thrown = ""

Current(passes) == todo # <<>> /\ Head(todo).pass \in passes

RunTransformation ==
    /\ todo # <<>>
    /\ Head(todo).pass \notin {"parallelize_concurrent", "seed_parallel_operators",
                               "merge_parallel_operators", "compile_inner_plans"}
    /\ LET pass == Head(todo).pass
           at == Head(todo).at
       IN  IF Throws(pass, PlanAt(at))
           THEN thrown' = pass /\ todo' = <<>> /\ UNCHANGED plan
           ELSE /\ plan' = PutAt(at, RunPass(pass, PlanAt(at)))
                /\ todo' = Tail(todo)
                /\ UNCHANGED thrown
    /\ UNCHANGED <<job, asked, pops>>

\* parallelize_concurrent: a round per seed, a round per pair of operators to be merged.
StartSeeding ==
    /\ Current({"parallelize_concurrent"})
    /\ pops' = Seeds(plan)
    /\ todo' = At(<<"seed_parallel_operators", "merge_parallel_operators">>, NoOperator) \o Tail(todo)
    /\ UNCHANGED <<job, asked, plan, thrown>>

SeedRound ==
    /\ Current({"seed_parallel_operators"})
    /\ pops # <<>>
    /\ plan' = SeedAndExpand(plan, Head(pops))
    /\ pops' = Tail(pops)
    /\ UNCHANGED <<job, asked, todo, thrown>>

StartMerging ==
    /\ Current({"seed_parallel_operators"})
    /\ pops = <<>>
    /\ pops' = InitialQueue(plan)
    /\ todo' = Tail(todo)
    /\ UNCHANGED <<job, asked, plan, thrown>>

MergeRound ==
    /\ Current({"merge_parallel_operators"})
    /\ pops # <<>>
    /\ \E s \in {MergeNext([d |-> plan, pops |-> pops])} : plan' = s.d /\ pops' = s.pops
    /\ UNCHANGED <<job, asked, todo, thrown>>

FinishMerging ==
    /\ Current({"merge_parallel_operators"})
    /\ pops = <<>>
    /\ plan' = FinishParallelizeConcurrent(plan)
    /\ todo' = Tail(todo)
    /\ UNCHANGED <<job, asked, pops, thrown>>

\* A nested optimizer runs on the plan of every ConcurrentExecute, upstream first.
CompileInnerPlans ==
    /\ Current({"compile_inner_plans"})
    /\ LET executes == SelectSeq(InReverseTopologicalOrder(plan), LAMBDA k : plan.ops[k].name
                           \in {"concurrent_execute_process", "concurrent_execute_lambda"})
           nested(k) == At(Transformations(NestedConfig(job.config)), k)
       IN  /\ Assert(\A i \in DOMAIN executes :
                         LET inner == inner_dag(plan.ops[executes[i]])
                         IN  IsSingleTupleProducer(inner.ops[output(inner).op]),
                     "compile_inner_plans: IsSingleTupleProducer")
           /\ todo' = FlatMap(nested, executes) \o Tail(todo)
    /\ UNCHANGED <<job, asked, plan, pops, thrown>>

NextOptimizer ==
    \/ RunTransformation
    \/ StartSeeding
    \/ SeedRound
    \/ StartMerging
    \/ MergeRound
    \/ FinishMerging
    \/ CompileInnerPlans

(***************************************************************************)
(* What the optimizer promises                                             *)
(***************************************************************************)

\* Whether the operators of the plan are all physical: between parallelize_concurrent
\* or parallelize and the pass that picks the workers or threads they are not.
RECURSIVE IsExecutable(_)
IsExecutable(d) ==
    \A k \in DOMAIN d.ops :
        LET op == d.ops[k]
        IN  /\ op.name \notin {"concurrent_execute", "broadcast", "exchange",
                               "partitioned_exchange", "parallel_map"}
            /\ op.name = "constant_tuple" =>
                   \A i \in DOMAIN op.arg : op.arg[i].var \notin {"$DOP", "$WID"}
            /\ has_inner_dag(op) => IsExecutable(inner_dag(op))

\* Every executable and typed form the plan takes on its way through the passes computes the
\* rows that the query asks for (each as often as in the query's plan): the passes
\* for the target, the exchanges between the workers, the compiled plans.
ResultPreserved ==
    IsExecutable(plan) /\ ~Current({"type_inference"}) =>
        Result(plan, asked.inputs, asked.type) = asked.rows

\* What determine_sortedness says of a field is true of the tuples the operator
\* delivers: the pass grouped_reduce_by_key and later ones build on it.
Sorted(s, i) == \A m, n \in DOMAIN s : m < n => s[m][i] <= s[n][i]
Unique(s, i) == \A m, n \in DOMAIN s : s[m][i] = s[n][i] => m = n
Grouped(s, i) ==
    \A m, n, l \in DOMAIN s : m < n /\ n < l /\ s[m][i] = s[l][i] => s[n][i] = s[m][i]

PropertiesTrue ==
    IsExecutable(plan) /\ ~Current({"type_inference"}) =>
        LET streams == Streams(plan, Params(asked.inputs))
        IN  \A k \in DOMAIN plan.ops : \A i \in DOMAIN plan.ops[k].props :
                LET props == plan.ops[k].props[i]
                IN  /\ "sorted" \in props => Sorted(streams[k][1], i)
                    /\ "unique" \in props => Unique(streams[k][1], i)
                    /\ "grouped" \in props => Grouped(streams[k][1], i)

\* A query of the front end passes the checks between the passes: no pass leaves
\* behind a plan that the next one, or the code generator, does not accept.
NoPassThrows == thrown = ""

=============================================================================
