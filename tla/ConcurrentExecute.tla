--------------------------- MODULE ConcurrentExecute ---------------------------
(***************************************************************************)
(* The operators that run an inner plan once per input tuple, each in a    *)
(* runner process (operators/concurrent_execute_process.cpp) or in a       *)
(* Lambda function (operators/concurrent_execute_lambda.cpp), and deliver  *)
(* the results one by one. Runners are processes of their own. Those of    *)
(* plans that exchange rows wait for each other, without limit if one of   *)
(* them is gone; what they exchange is modelled in ExchangeService and     *)
(* ExchangeS3, the query on Lambda in Serverless.                          *)
(***************************************************************************)
EXTENDS Integers, Sequences, FiniteSets, Functions

CONSTANTS Inputs,     \* the streams of inputs that upstream may deliver
          MaxNexts    \* bound: number of calls of next()

\* An input makes its plan return a value or None, or is larger than a pipe holds.
Kinds == {"value", "none", "large"}

ASSUME InputsAssumption == Inputs \subseteq Seq(Kinds)
ASSUME NextsAssumption == MaxNexts \in Nat

None == 0

\* What is left of the output of a runner that fails.
Garbage == -1

VARIABLES target,     \* which of the operators it is
          exchanging, \* whether the inner plan exchanges rows between its workers
          upstream,   \* the inputs
          consumed,   \* how many of them were consumed
          pc,         \* where the operator is: between calls, or inside of next()
          runners,    \* the runner processes, in the order they were started
          results,    \* results_, as input number or None
          resultIt,   \* how many of them result_it_ has passed
          delivered,  \* what next() has returned
          nexts       \* the number of calls of next()

vars == <<target, exchanging, upstream, consumed, pc, runners, results, resultIt, delivered, nexts>>

\* What the inner plan returns for input i.
Result(i) == IF upstream[i] = "none" THEN None ELSE i

Init ==
    /\ target \in {"process", "lambda"}
    /\ exchanging \in BOOLEAN
    /\ upstream \in Inputs
    /\ consumed = 0
    /\ pc = "closed"
    /\ runners = <<>>
    /\ results = <<>>
    /\ resultIt = 0
    /\ delivered = <<>>
    /\ nexts = 0

Open ==
    /\ pc = "closed"
    /\ pc' = "open"
    /\ UNCHANGED <<target, exchanging, upstream, consumed, runners, results, resultIt, delivered, nexts>>

\* A call of next() computes the results if there are none: again, if all calls before
\* reported the end without a result.
CallNext ==
    /\ pc = "open"
    /\ nexts < MaxNexts
    /\ nexts' = nexts + 1
    /\ pc' = IF results = <<>> THEN "computing" ELSE "delivering"
    /\ UNCHANGED <<target, exchanging, upstream, consumed, runners, results, resultIt, delivered>>

Runner(i, eof) == [input |-> i, eof |-> eof, cut |-> upstream[i] = "large", exit |-> "none"]

\* A bug: the pipe to stdin outlives the loop.
SpawnRunnerPipeOpen ==
    /\ pc = "computing" /\ target = "process"
    /\ consumed < Len(upstream)
    /\ consumed' = consumed + 1
    /\ runners' = Append(runners, Runner(consumed + 1, FALSE))
    /\ UNCHANGED <<target, exchanging, upstream, pc, results, resultIt, delivered, nexts>>

\* One iteration of the loop in ComputeResult: a runner is started and its input is
\* written as far as the pipe takes it. The end of the iteration destroys the pipe, so
\* that the runner sees the end of its input and of the rest, if any, nothing.
SpawnRunner ==
    /\ pc = "computing" /\ target = "process"
    /\ consumed < Len(upstream)
    /\ consumed' = consumed + 1
    /\ runners' = Append(runners, Runner(consumed + 1, TRUE))
    /\ UNCHANGED <<target, exchanging, upstream, pc, results, resultIt, delivered, nexts>>

\* The runner (tools/runner/src/main.cpp) reads its input up to the end and runs the
\* plan; it fails if the input is cut off, or for reasons of its own.
RunnerExits(r) ==
    /\ runners[r].exit = "none"
    /\ runners[r].eof
    /\ \E exit \in {"ok", "failed"} :
          /\ runners[r].cut => exit = "failed"
          /\ runners' = [runners EXCEPT ![r].exit = exit]
    /\ UNCHANGED <<target, exchanging, upstream, consumed, pc, results, resultIt, delivered, nexts>>

Spawned == pc = "computing" /\ target = "process" /\ consumed = Len(upstream)

\* An exception in ComputeResult: the destructors of the children terminate the runners.
Throw ==
    /\ pc' = "thrown"
    /\ runners' = [r \in DOMAIN runners |->
                     [runners[r] EXCEPT !.exit = IF @ = "none" THEN "terminated" ELSE @]]
    /\ UNCHANGED <<target, exchanging, upstream, results, resultIt, delivered, nexts>>

\* The runner is not found, or the file with the plan cannot be written.
SetUpFails ==
    /\ pc = "computing" /\ target = "process" /\ runners = <<>>
    /\ Throw
    /\ UNCHANGED consumed

\* A process cannot be started.
SpawnFails ==
    /\ pc = "computing" /\ target = "process"
    /\ consumed < Len(upstream)
    /\ consumed' = consumed + 1
    /\ Throw

\* The handler of a write whose pipe is gone throws in ios.run().
WriteFails ==
    /\ Spawned
    /\ \E r \in DOMAIN runners : runners[r].cut
    /\ Throw
    /\ UNCHANGED consumed

\* A bug: the exit codes are not looked at.
FailedRunnersUnchecked == {}

\* A bug: only the exit code of the last runner is looked at.
FailedRunnersLast == {r \in DOMAIN runners : r = Len(runners) /\ runners[r].exit = "failed"}

FailedRunners == {r \in DOMAIN runners : runners[r].exit = "failed"}

Output(r) == IF runners[r].exit = "ok" THEN Result(runners[r].input) ELSE Garbage

\* ios.run() returns when the output of all runners has ended. The loop behind it waits
\* for the runners in order and collects their output.
CollectResults ==
    /\ Spawned
    /\ \A r \in DOMAIN runners : runners[r].exit # "none"
    /\ results' = results \o [r \in DOMAIN runners |-> Output(r)]
    /\ pc' = IF FailedRunners = {} THEN "delivering" ELSE "thrown"
    /\ resultIt' = IF FailedRunners = {} THEN 0 ELSE resultIt
    /\ runners' = IF FailedRunners = {} THEN <<>> ELSE runners
    /\ UNCHANGED <<target, exchanging, upstream, consumed, delivered, nexts>>

\* The orders in which the outputs of the workers in S can arrive.
Orders(S) == Bijection(1 .. Cardinality(S), S)

\* MaterializeResult: all inputs, none of them when it is called again, are given to
\* Driver.run_query, which returns the outputs in the order they arrived, or raises, as
\* may the constructor of Driver. None is dropped.
MaterializeResult ==
    /\ pc = "computing" /\ target = "lambda"
    /\ consumed' = Len(upstream)
    /\ \/ /\ \E arrived \in Orders({i \in consumed + 1 .. Len(upstream) : Result(i) # None}) :
                results' = results \o arrived
          /\ resultIt' = 0
          /\ pc' = "delivering"
       \/ /\ pc' = "thrown"
          /\ UNCHANGED <<results, resultIt>>
    /\ UNCHANGED <<target, exchanging, upstream, runners, delivered, nexts>>

\* A bug: None is taken for the end of the results.
DeliverUpToNone ==
    /\ pc = "delivering"
    /\ LET k == resultIt + 1
       IN  IF k > Len(results) \/ results[k] = None
           THEN /\ resultIt' = Len(results)
                /\ UNCHANGED delivered
           ELSE /\ resultIt' = k
                /\ delivered' = Append(delivered, results[k])
    /\ pc' = "open"
    /\ UNCHANGED <<target, exchanging, upstream, consumed, runners, results, nexts>>

\* The results that result_it_ has not passed, without None.
Remaining == {k \in resultIt + 1 .. Len(results) : results[k] # None}

\* The rest of next(): the next result that is not None, or the end.
Deliver ==
    /\ pc = "delivering"
    /\ \/ /\ Remaining = {}
          /\ resultIt' = Len(results)
          /\ UNCHANGED delivered
       \/ \E k \in Remaining :
             /\ \A l \in Remaining : k <= l
             /\ resultIt' = k
             /\ delivered' = Append(delivered, results[k])
    /\ pc' = "open"
    /\ UNCHANGED <<target, exchanging, upstream, consumed, runners, results, nexts>>

Close ==
    /\ pc = "open"
    /\ pc' = "done"
    /\ UNCHANGED <<target, exchanging, upstream, consumed, runners, results, resultIt, delivered, nexts>>

ComputeResult ==
    \/ SetUpFails \/ SpawnRunner \/ SpawnFails \/ WriteFails \/ CollectResults
    \/ MaterializeResult

Next ==
    \/ Open \/ CallNext \/ ComputeResult \/ Deliver \/ Close
    \/ \E r \in DOMAIN runners : RunnerExits(r)

\* The operator's thread runs, and a runner that has its input ends, unless it waits for
\* other runners: an exchange waits for all workers, and has no time limit.
Fairness ==
    /\ WF_vars(ComputeResult \/ Deliver)
    /\ WF_vars(~exchanging /\ \E r \in DOMAIN runners : RunnerExits(r))

Spec == Init /\ [][Next]_vars /\ Fairness

-----------------------------------------------------------------------------
(* Properties *)

\* The inputs whose plan returns a value.
Expected == {i \in DOMAIN upstream : upstream[i] # "none"}

\* next() delivers the result of every input whose plan returns one, exactly once, before
\* it reports the end, and nothing else: no output of a runner that failed, and from
\* runner processes in the order of the inputs and without leaving one out.
DeliveredExact ==
    /\ target = "process" =>
          \A k \in DOMAIN delivered :
              {delivered[j] : j \in 1 .. k - 1} = {i \in Expected : i < delivered[k]}
    /\ IsInjective(delivered) /\ Range(delivered) \subseteq Expected
    /\ pc \in {"open", "done"} /\ nexts > Len(delivered) => Range(delivered) = Expected

\* Both operators are iterators over the results: their consumers see nothing of runners,
\* functions and None, and an exception only while there was no result. A call that comes
\* after the end computes again if there were no results, and so may throw.
Iterator == INSTANCE AbstractIterator WITH
    expected <- Expected,
    ordered <- target = "process",
    state <- CASE pc = "closed" -> "closed"
               [] pc = "done" -> "done"
               [] pc = "thrown" -> "failed"
               [] OTHER -> IF nexts - (IF pc = "open" THEN 0 ELSE 1) > Len(delivered)
                           THEN "ended" ELSE "open"
ImplementsIterator == Iterator!Spec

\* Runners that may wait for each other forever. An input that does not fit a pipe ends
\* their call all the same, because the failed write throws in ios.run().
MayWait ==
    target = "process" /\ exchanging /\ \A i \in DOMAIN upstream : upstream[i] # "large"

\* A call of next() ends, with the results or with an exception, whichever runners fail,
\* unless runners wait for each other.
ComputeEnds == pc = "computing" /\ ~MayWait ~> pc # "computing"

\* "Throw if some runner has failed": the failure of any runner, at any time relative to
\* the others, makes the call of next() that started it throw.
RunnerFailureThrows ==
    (\E r \in DOMAIN runners : runners[r].exit = "failed") /\ ~MayWait ~> pc = "thrown"
=============================================================================
