----------------------------- MODULE Execution -----------------------------
(***************************************************************************)
(* A query from the front end to its result: the optimizer runs the passes *)
(* for the target, and the generated plan is executed. The plan is a set   *)
(* of tasks, one per pipeline, that OpenMP starts in any order in which    *)
(* the results a task reads are there; a task constructs the operators of  *)
(* its pipeline and pulls its result out of the sink.                      *)
(***************************************************************************)
EXTENDS Optimizer, JitOperators

VARIABLES
    library,    \* the generated plan, once it is loaded: its tasks and the result it returns
    results,    \* the results of the tasks that have run, by their variables: no tuple or one
    failed      \* exceptions and failed assertions of operators

vars == <<job, asked, plan, todo, pops, thrown, library, results, failed>>

NotLoaded == [tasks |-> <<>>, result |-> NoOperator]

\* The generated main function takes the inputs of the plan by their ports; the
\* function of a pipeline is called with what the task reads.
Argument(task) == Some(asked.inputs[task.input[1] + 1])

RunPipeline(task) ==
    LET f == task.plan[1]
        args == [i \in DOMAIN f.args |-> results[task.reads[f.args[i] + 1]]]
        params == [p \in 1..(Max(ToSet(f.tuples.params) \cup {0}) + 1) |->
                       args[CHOOSE i \in DOMAIN f.tuples.params : f.tuples.params[i] = p - 1]]
    IN  IF Assert(Len(f.args) = Len(f.tuples.params), "the generated code does not compile")
        THEN ExecuteTuples(f.tuples, params) ELSE <<>>

Init == InitOptimizer /\ library = NotLoaded /\ results = <<>> /\ failed = {}

Optimize == NextOptimizer /\ UNCHANGED <<library, results, failed>>

\* The optimized plan is one operator that calls the library made from the plan it
\* replaces.
LoadPlan ==
    /\ todo = <<>> /\ thrown = "" /\ library.result = NoOperator
    /\ library' = GenerateExecutePipelines(plan.ops[output(plan).op].arg)
    /\ UNCHANGED <<optimizerVars, results, failed>>

LookupParameter ==
    /\ \E i \in DOMAIN library.tasks :
           LET task == library.tasks[i]
           IN  /\ task.result \notin DOMAIN results
               /\ task.input # <<>>
               /\ results' = results @@ (task.result :> Argument(task))
    /\ UNCHANGED <<optimizerVars, library, failed>>

ExecuteTask ==
    /\ \E i \in DOMAIN library.tasks :
           LET task == library.tasks[i]
           IN  /\ task.result \notin DOMAIN results
               /\ task.input = <<>>
               /\ ToSet(task.reads) \subseteq DOMAIN results
               /\ \E call \in {RunPipeline(task)} :
                      /\ results' = results @@ (task.result :> call.t)
                      /\ failed' = failed \cup call.failed
    /\ UNCHANGED <<optimizerVars, library>>

Executed ==
    /\ library.result # NoOperator
    /\ \A i \in DOMAIN library.tasks : library.tasks[i].result \in DOMAIN results

Ended == Executed \/ thrown # ""

Done == Ended /\ UNCHANGED vars

Next == Optimize \/ LoadPlan \/ LookupParameter \/ ExecuteTask \/ Done

\* Optimizer and tasks do not stop before they have finished. (Stated by the steps
\* instead of by WF_vars(Next): some step is possible in every unfinished state.)
Fairness == []<>Ended \/ []<><<~Ended>>_vars

Spec == Init /\ [][Next]_vars /\ Fairness

ResultOfTasks == BagOfRows(results[library.result], asked.type)

\* What the generated operators compute, with the state they keep between open, next
\* and close, and in whatever order OpenMP runs the tasks, is the result of the query.
ExecutionCorrect == Executed => ResultOfTasks = asked.rows

\* No operator throws, and none is used out of turn: open, next and close of every
\* operator between two assertions alternate as assert_correct_open_next_close checks.
NoOperatorFails == failed = {}

\* Every query comes to an end: the merge loop of parallelize_concurrent puts operators
\* back into its queue, and every task gets what it waits for.
QueryTerminates == <>Ended

=============================================================================
