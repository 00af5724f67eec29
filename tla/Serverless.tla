------------------------------ MODULE Serverless ------------------------------
(***************************************************************************)
(* A query on AWS Lambda: the driver (python/jitq/serverless/driver.py)    *)
(* invokes one function per worker, the functions (aws_lambda/handler.py)  *)
(* invoke the rest of their range, run the plan and send one message to a  *)
(* queue all queries share, and the driver collects the messages until it  *)
(* has one of every worker or loses patience.                              *)
(*                                                                         *)
(* Time is counted in units longer than one round of polling the queue.    *)
(* Lambda and SQS are external: an accepted event starts at any later      *)
(* time, a function that fails is started again after RetryDelay, at most  *)
(* MaxAttempts times in all, and a message whose deletion comes after its  *)
(* visibility timeout is received once more.                               *)
(***************************************************************************)
EXTENDS Integers, FiniteSets

CONSTANTS NumWorkers,       \* the number of workers of each query, in the order they are run
          DirectLimit,      \* up to that many workers, the driver invokes all (200)
          StartupMaxDelay,  \* a function that starts later gives up (20 s)
          FunctionTimeout,  \* Lambda kills a function that runs longer (100 s)
          Reserve,          \* the runner must end that long before (5 s)
          LogPatience,      \* the driver waits that long for the next log file (10 s)
          RetryDelay,       \* time before Lambda starts a failed function again (60 s)
          MaxAttempts,      \* number of times Lambda starts a function that fails
          LastStart,        \* bound: no query starts later
          InvokeTime,       \* bound: invoking the functions takes no longer
          MaxFaults         \* bound: number of faults in a behaviour

VARIABLES now,          \* the clock
          driver,       \* the state of each query's Driver.run_query
          events,       \* invocations accepted by Lambda and not yet started
          running,      \* functions being executed
          resultQueue,  \* messages in the SQS result queue
          dlq,          \* events Lambda has given up on
          logs,         \* the workers of each query whose log is in S3
          faulty,       \* the queries in which something has gone wrong
          budget,       \* the number of faults that may still happen
          invoked       \* how many times each worker of each query was invoked

Queries == DOMAIN NumWorkers

ASSUME NumWorkersAssumption == \A q \in Queries : NumWorkers[q] \in Nat

\* The queries are numbered in the order they are run.
ASSUME QueriesAssumption == Queries \subseteq Nat \ {0}

ASSUME DirectLimitAssumption == DirectLimit \in Nat

\* What Lambda starts again is late: what keeps a worker from invoking others twice.
ASSUME DelayAssumption ==
    StartupMaxDelay \in Nat /\ RetryDelay \in Nat /\ StartupMaxDelay < RetryDelay

ASSUME TimeoutAssumption == FunctionTimeout \in Nat /\ Reserve \in Nat

vars == <<now, driver, events, running, resultQueue, dlq, logs, faulty, budget, invoked>>

workers(q) == 0 .. NumWorkers[q] - 1

\* The input of worker w of query q; a plan's output is identified with its input.
inputs(q, w) == <<q, w>>

CeilSqrt(n) == CHOOSE k \in 0..n : k * k >= n /\ \A j \in 0 .. k - 1 : j * j < n

CeilDiv(a, b) == (a + b - 1) \div b

\* The ranges [r[1], r[2]) of workers: the first one is invoked by the driver
\* and invokes the others.
worker_ranges(n) ==
    LET size == IF n > DirectLimit THEN CeilSqrt(n) ELSE 1
        num  == CeilDiv(n, size)
    IN  {<<(i * n) \div num, ((i + 1) * n) \div num>> : i \in 0 .. num - 1}

Event(q, w, input, invocations) ==
    [query |-> q, worker |-> w, input |-> input, invocations |-> invocations,
     attempt |-> 1, ready |-> now]

\* The first worker of a range takes its own input and those of the others.
RangeEvent(q, r) ==
    Event(q, r[1], inputs(q, r[1]), {<<w, inputs(q, w)>> : w \in r[1] + 1 .. r[2] - 1})

\* A bug: the event is copied before the invocations are popped.
InvocationEventUnpopped(e, inv) == Event(e.query, inv[1], inv[2], e.invocations)

\* The copy of its event a function sends on; its own invocations were popped.
InvocationEvent(e, inv) == Event(e.query, inv[1], inv[2], {})

Message(e, kind) ==
    [query |-> e.query, worker |-> e.worker, again |-> FALSE,
     body |-> [kind |-> kind, input |-> e.input]]

Count(q, ws) ==
    invoked' = [invoked EXCEPT ![q] = [w \in DOMAIN @ |-> IF w \in ws THEN @[w] + 1 ELSE @[w]]]

\* n things go wrong in query q. A function that starts late is no fault.
AddFaults(q, n) ==
    /\ n <= budget
    /\ budget' = budget - n
    /\ faulty' = IF n > 0 THEN faulty \cup {q} ELSE faulty

Init ==
    /\ now = 0
    /\ driver = [q \in Queries |->
                    [pc |-> "idle", startedAt |-> 0, since |-> 0, todo |-> {},
                     messages |-> [w \in {} |-> {}], deadletters |-> FALSE, downloaded |-> {}]]
    /\ events = {}
    /\ running = {}
    /\ resultQueue = {}
    /\ dlq = {}
    /\ logs = [q \in Queries |-> {}]
    /\ faulty = {}
    /\ budget = MaxFaults
    /\ invoked = [q \in Queries |-> [w \in workers(q) |-> 0]]

-----------------------------------------------------------------------------
(* The driver *)

Ended(q) == driver[q].pc \in {"returned", "raised"}

\* A new Driver starts run_query; the query id is the time it starts at. A process has
\* one query at a time.
StartQuery(q) ==
    /\ driver[q].pc = "idle"
    /\ \A p \in 1 .. q - 1 : Ended(p)
    /\ now <= LastStart
    /\ driver' = [driver EXCEPT ![q].pc = "invoking", ![q].startedAt = now,
                                ![q].todo = worker_ranges(NumWorkers[q])]
    /\ UNCHANGED <<now, events, running, resultQueue, dlq, logs, faulty, budget, invoked>>

\* One call of run_lambda, on a thread of the pool, that Lambda accepts.
InvokeRange(q) ==
    /\ driver[q].pc = "invoking"
    /\ \E r \in driver[q].todo :
          /\ driver' = [driver EXCEPT ![q].todo = @ \ {r}]
          /\ events' = events \cup {RangeEvent(q, r)}
          /\ Count(q, {r[1]})
    /\ UNCHANGED <<now, running, resultQueue, dlq, logs, faulty, budget>>

\* A call of run_lambda raises: the remaining calls are cancelled unless a thread
\* has already begun them, and the exception leaves run_query.
InvokeFails(q) ==
    /\ driver[q].pc = "invoking"
    /\ \E r \in driver[q].todo : \E begun \in SUBSET (driver[q].todo \ {r}) :
          /\ AddFaults(q, 1)
          /\ driver' = [driver EXCEPT ![q].todo = {}, ![q].pc = "raised"]
          /\ events' = events \cup {RangeEvent(q, b) : b \in begun}
          /\ Count(q, {b[1] : b \in begun})
    /\ UNCHANGED <<now, running, resultQueue, dlq, logs>>

\* start_workers returns and fetch_results notes the time.
StartFetch(q) ==
    /\ driver[q].pc = "invoking"
    /\ driver[q].todo = {}
    /\ driver' = [driver EXCEPT ![q].pc = "fetching", ![q].since = now]
    /\ UNCHANGED <<now, events, running, resultQueue, dlq, logs, faulty, budget, invoked>>

\* A bug: the time a function may take to start is not waited for.
FetchTimeoutNoDelay == FunctionTimeout

FetchTimeout == FunctionTimeout + StartupMaxDelay

Expired(q) == now > driver[q].since + FetchTimeout

Fetching(q) ==
    /\ driver[q].pc = "fetching"
    /\ Cardinality(DOMAIN driver[q].messages) < NumWorkers[q]
    /\ ~Expired(q)

\* The messages of a batch the driver of q keeps, one per worker: the last one.
Accepted(q, batch) ==
    LET mine == {m \in batch : m.query = q}
        senders == {m.worker : m \in mine}
    IN  {a \in [senders -> {m.body : m \in mine}] :
            \A w \in senders : \E m \in mine : m.worker = w /\ m.body = a[w]}

\* A message replaces an earlier one of the same worker.
Merged(new, old) ==
    [w \in DOMAIN new \cup DOMAIN old |-> IF w \in DOMAIN new THEN new[w] ELSE old[w]]

\* One round of fetch_message_batch on all threads: a batch is received and
\* deleted, except for the messages whose visibility timeout ends before.
\* Messages of other queries are discarded.
Fetch(q) ==
    /\ Fetching(q)
    /\ \E batch \in SUBSET resultQueue \ {{}} :
       \E late \in SUBSET {m \in batch : ~m.again} :
       \E accepted \in Accepted(q, batch) :
          /\ driver' = [driver EXCEPT ![q].messages = Merged(accepted, @)]
          /\ resultQueue' = (resultQueue \ batch) \cup {[m EXCEPT !.again = TRUE] : m \in late}
    /\ UNCHANGED <<now, events, running, dlq, logs, faulty, budget, invoked>>

\* A bug: after the timeout, the loop is continued rather than left.
EndFetchAll(q) ==
    /\ driver[q].pc = "fetching"
    /\ Cardinality(DOMAIN driver[q].messages) >= NumWorkers[q]
    /\ driver' = [driver EXCEPT ![q].pc = "logs", ![q].since = now, ![q].deadletters = TRUE]
    /\ UNCHANGED <<now, events, running, resultQueue, dlq, logs, faulty, budget, invoked>>

\* fetch_results returns what it has: all messages, or those before the timeout.
\* run_query then submits fetch_deadletters and goes on to download the log files.
EndFetch(q) ==
    /\ driver[q].pc = "fetching"
    /\ ~Fetching(q)
    /\ driver' = [driver EXCEPT ![q].pc = "logs", ![q].since = now, ![q].deadletters = TRUE]
    /\ UNCHANGED <<now, events, running, resultQueue, dlq, logs, faulty, budget, invoked>>

\* fetch_deadletters deletes what it receives until it receives an empty batch.
FetchDeadletters(q) ==
    /\ driver[q].deadletters
    /\ dlq' = {}
    /\ driver' = [driver EXCEPT ![q].deadletters = FALSE]
    /\ UNCHANGED <<now, events, running, resultQueue, logs, faulty, budget, invoked>>

DownloadingLogs(q) ==
    /\ driver[q].pc = "logs"
    /\ Cardinality(driver[q].downloaded) < NumWorkers[q]
    /\ now <= driver[q].since + LogPatience

\* One listing of the bucket finds new log files; the patience starts anew.
DownloadLogs(q) ==
    /\ DownloadingLogs(q)
    /\ ~(logs[q] \subseteq driver[q].downloaded)
    /\ driver' = [driver EXCEPT ![q].downloaded = logs[q], ![q].since = now]
    /\ UNCHANGED <<now, events, running, resultQueue, dlq, logs, faulty, budget, invoked>>

\* A bug: the outputs are returned without counting them.
OutcomeUncounted(q) ==
    LET ms == driver[q].messages
    IN  IF \E w \in DOMAIN ms : ms[w].kind = "exception" THEN "raised" ELSE "closing"

\* What extract_results and the assertion behind it make of the messages.
Outcome(q) ==
    LET ms == driver[q].messages
    IN  IF \E w \in DOMAIN ms : ms[w].kind = "exception" THEN "raised"
        ELSE IF Cardinality(DOMAIN ms) # NumWorkers[q] THEN "raised" ELSE "closing"

ExtractResults(q) ==
    /\ driver[q].pc = "logs"
    /\ ~DownloadingLogs(q)
    /\ driver' = [driver EXCEPT ![q].pc = Outcome(q)]
    /\ UNCHANGED <<now, events, running, resultQueue, dlq, logs, faulty, budget, invoked>>

\* executor.shutdown() waits for fetch_deadletters.
Return(q) ==
    /\ driver[q].pc = "closing"
    /\ ~driver[q].deadletters
    /\ driver' = [driver EXCEPT ![q].pc = "returned"]
    /\ UNCHANGED <<now, events, running, resultQueue, dlq, logs, faulty, budget, invoked>>

-----------------------------------------------------------------------------
(* The functions *)

\* Lambda starts the function of event e again, or moves e to the dead letters.
FunctionError(e, others) ==
    IF e.attempt < MaxAttempts
    THEN /\ events' = others \cup {[e EXCEPT !.attempt = @ + 1, !.ready = now + RetryDelay]}
         /\ UNCHANGED dlq
    ELSE /\ events' = others
         /\ dlq' = dlq \cup {e}

\* _return_result: the message is sent, or the exception is only logged.
ReturnResult(e, kind, n) ==
    \/ resultQueue' = resultQueue \cup {Message(e, kind)} /\ AddFaults(e.query, n)
    \/ UNCHANGED resultQueue /\ AddFaults(e.query, n + 1)

Late(e) == now - driver[e.query].startedAt > StartupMaxDelay

\* A function starts in time, and goes on to run().
StartFunction(e) ==
    /\ now >= e.ready
    /\ ~Late(e)
    /\ running' = running \cup {[event |-> e, since |-> now, pc |-> "invoking",
                                  todo |-> e.invocations, reported |-> FALSE]}
    /\ events' = events \ {e}
    /\ UNCHANGED <<now, driver, resultQueue, dlq, logs, faulty, budget, invoked>>

\* A function starts too late: it reports the exception, and then fails in
\* _finalize, since it has no S3 client yet.
StartLate(e) ==
    /\ now >= e.ready
    /\ Late(e)
    /\ resultQueue' = resultQueue \cup {Message(e, "exception")}
    /\ faulty' = faulty \cup {e.query}
    /\ FunctionError(e, events \ {e})
    /\ UNCHANGED <<now, driver, running, logs, budget, invoked>>

Move(f, g) == running' = (running \ {f}) \cup {g}

\* One call of _invoke_worker, on a thread of the function's pool.
InvokeWorker(f) ==
    /\ f.pc = "invoking"
    /\ \E inv \in f.todo :
          /\ events' = events \cup {InvocationEvent(f.event, inv)}
          /\ Move(f, [f EXCEPT !.todo = @ \ {inv}])
          /\ Count(f.event.query, {inv[1]})
    /\ UNCHANGED <<now, driver, resultQueue, dlq, logs, faulty, budget>>

\* A call of _invoke_worker raises. The calls that have begun are completed.
InvokeWorkerFails(f) ==
    /\ f.pc = "invoking"
    /\ \E inv \in f.todo : \E begun \in SUBSET (f.todo \ {inv}) :
          /\ ReturnResult(f.event, "exception", 1)
          /\ events' = events \cup {InvocationEvent(f.event, b) : b \in begun}
          /\ Count(f.event.query, {b[1] : b \in begun})
    /\ Move(f, [f EXCEPT !.todo = {}, !.pc = "finalizing", !.reported = TRUE])
    /\ UNCHANGED <<now, driver, dlq, logs>>

RunnerLimit(f) == f.since + FunctionTimeout - Reserve

\* The runner has computed the result, which is sent.
RunRunner(f) ==
    /\ f.pc = "invoking"
    /\ f.todo = {}
    /\ now <= RunnerLimit(f)
    /\ ReturnResult(f.event, "output", 0)
    /\ Move(f, [f EXCEPT !.pc = "finalizing"])
    /\ UNCHANGED <<now, driver, events, dlq, logs, invoked>>

\* The runner fails or takes too long.
RunnerFails(f) ==
    /\ f.pc = "invoking"
    /\ f.todo = {}
    /\ ReturnResult(f.event, "exception", 1)
    /\ Move(f, [f EXCEPT !.pc = "finalizing", !.reported = TRUE])
    /\ UNCHANGED <<now, driver, events, dlq, logs, invoked>>

\* _finalize uploads the log, and the function returns.
Finalize(f) ==
    /\ f.pc = "finalizing"
    /\ logs' = [logs EXCEPT ![f.event.query] = @ \cup {f.event.worker}]
    /\ running' = running \ {f}
    /\ UNCHANGED <<now, driver, events, resultQueue, dlq, faulty, budget, invoked>>

\* _finalize raises. Behind a result, the exception is reported and _finalize
\* called again; behind an exception, the function fails.
FinalizeFails(f) ==
    /\ f.pc = "finalizing"
    /\ IF f.reported
       THEN /\ AddFaults(f.event.query, 1)
            /\ FunctionError(f.event, events)
            /\ running' = running \ {f}
            /\ UNCHANGED resultQueue
       ELSE /\ ReturnResult(f.event, "exception", 1)
            /\ Move(f, [f EXCEPT !.reported = TRUE])
            /\ UNCHANGED <<events, dlq>>
    /\ UNCHANGED <<now, driver, logs, invoked>>

\* Lambda kills the function: it ran too long, or took too much memory.
Kill(f) ==
    /\ AddFaults(f.event.query, 1)
    /\ running' = running \ {f}
    /\ FunctionError(f.event, events)
    /\ UNCHANGED <<now, driver, resultQueue, logs, invoked>>

-----------------------------------------------------------------------------
\* Time passes while some query runs or may start. A unit is longer than a round of
\* polling; functions are killed, runners stopped, and the driver goes on, in time.
Tick ==
    /\ \E q \in Queries : ~Ended(q) /\ (driver[q].pc = "idle" => q > 1 /\ now < LastStart)
    /\ \A f \in running : now < IF f.pc = "invoking" THEN RunnerLimit(f) ELSE f.since + FunctionTimeout
    /\ \A q \in Queries :
          /\ driver[q].pc = "invoking" => now < driver[q].startedAt + InvokeTime
          /\ driver[q].pc = "fetching" => /\ Fetching(q)
                                          /\ ~\E m \in resultQueue : m.query = q /\ ~m.again
          /\ driver[q].pc = "logs" => DownloadingLogs(q)
          /\ driver[q].pc # "closing" /\ ~driver[q].deadletters
    /\ now' = now + 1
    /\ UNCHANGED <<driver, events, running, resultQueue, dlq, logs, faulty, budget, invoked>>

RunQuery(q) ==
    \/ InvokeRange(q) \/ InvokeFails(q) \/ StartFetch(q) \/ Fetch(q) \/ EndFetch(q)
    \/ FetchDeadletters(q) \/ DownloadLogs(q) \/ ExtractResults(q) \/ Return(q)

Start(e) == StartFunction(e) \/ StartLate(e)

RunFunction(f) ==
    \/ InvokeWorker(f) \/ InvokeWorkerFails(f) \/ RunRunner(f) \/ RunnerFails(f)
    \/ Finalize(f) \/ FinalizeFails(f) \/ Kill(f)

Next ==
    \/ \E q \in Queries : StartQuery(q) \/ RunQuery(q)
    \/ \E e \in events : Start(e)
    \/ \E f \in running : RunFunction(f)
    \/ Tick

\* The threads of a driver run, functions do not run for ever, and time passes.
Fairness ==
    /\ \A q \in Queries : WF_vars(RunQuery(q))
    /\ WF_vars(\E f \in running : RunFunction(f))
    /\ WF_vars(Tick)

Spec == Init /\ [][Next]_vars /\ Fairness

-----------------------------------------------------------------------------
(* Properties *)

\* A query that returns has exactly one output of each of its workers, computed by
\* that worker from its own input and for this query: whatever messages of earlier,
\* concurrent or repeated functions are in the shared queue (driver.fetch_results,
\* extract_results and the assertion in run_query).
ReturnedComplete ==
    \A q \in Queries : driver[q].pc = "returned" =>
        driver[q].messages = [w \in workers(q) |-> [kind |-> "output", input |-> inputs(q, w)]]

\* A query fails only for a reason: a fault of one of its functions or a function that did
\* not start in time, and never because of messages an earlier query left behind. The
\* driver's timeout alone, function timeout plus the delay handler.py accepts, never
\* cuts off a function that started in time.
RaiseJustified ==
    \A q \in Queries : driver[q].pc = "raised" =>
        \/ q \in faulty
        \/ \E e \in events : e.query = q /\ Late(e)

\* Each worker is invoked at most once: the ranges are disjoint, a function that was
\* itself invoked by a worker invokes nobody (handler._handle_invocations pops the
\* invocations), and a function Lambda starts again finds that it is late.
InvokedOnce == \A q \in Queries : \A w \in workers(q) : invoked[q][w] <= 1

\* run_query ends, with its outputs or an exception, whatever happens to the functions
\* and to their messages.
QueryEnds == \A q \in Queries : driver[q].pc = "invoking" ~> Ended(q)
=============================================================================
