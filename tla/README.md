# A TLA+ model of JITQ

JITQ compiles a query, written against a Python front end, into a program of
composed iterators and runs it on one or many workers: on a machine, as several
processes, or as serverless functions that exchange data over TCP or S3. This
directory holds TLA+ specifications of the parts of the system whose
correctness depends on interleavings, on arithmetic at boundaries or on long
sequences of calls, the TLC models that check them on small instances, and
proofs, checked by TLAPS, of the properties that matter most.

Source paths below are relative to `src/backend/src/` unless they start with
`src/`. `PROJECT.json` maps every definition to the lines it models.

## The system

| Part | Where | State and operations | What makes it hard |
|---|---|---|---|
| TCP exchange service | `runtime/src/net/tcp/exchange_service.*` | registered exchanges with a source channel and a counter, a sink channel per host; StartExchange, SendMessage, ReceiveMessage, FinishExchange, destructor; sender, acceptor and receiver fibers | several exchanges share one connection; registration races with the first message; the last end-of-stream closes the source; shutdown while others still send |
| TCP exchange operator | `runtime/src/operators/exchange_tcp.*` | iterator, and a thread that consumes upstream | blocks the thread the fibers run on |
| S3 exchange operator | `runtime/src/operators/exchange_s3.*` | groups of workers, files found by polling | two levels of groups when the worker count is not a square; a reader that never gives up |
| Parquet scan | `runtime/src/operators/parquet_scan_impl.*` | queues of names and handles, two threads, reading ahead | a mutex and a condition variable, slices by rounded fractions |
| Parquet materialization | `runtime/src/operators/materialize_parquet_impl.*` | row groups of a file that is being written | partial last row group |
| Concurrent execution (process, Lambda) | `runtime/src/operators/concurrent_execute_*`, `tools/runner` | child processes and the pipes of their results | one of several children fails, an input that does not fit its pipe |
| JIT memory | `runtime/include/runtime/jit/memory` | reference counts that cross the ABI of the generated code | assignments between aliases |
| Plan DAG and optimizer | `dag/src`, `generate/src/optimize` | operators, flows, inputs and outputs; rewriting passes | passes that rely on what an earlier one established |
| Code generator, JIT operators | `generate/src/code_gen` | tasks and about forty open/next/close iterators | reopening, ordering, empty inputs, slices |
| Plan execution | `runtime/src/execute_plan.cpp` | loaded plans, tasks that depend on each other | tasks start in any order their dependencies allow |
| Serverless driver and worker | `src/python/jitq/serverless` | queues of invocations and results | duplicates, late results, retries, timeouts |
| Python front end | `src/python/jitq` | a DAG of RDD objects; caches of documents and plans | shared subplans, a cache keyed by a hash |
| Fibers on asio, AWS clients, file systems | `runtime/src/fibers`, `runtime/src/aws`, `runtime/src/filesystem` | | see *Not modelled* |

How they interact: the front end writes the document of a query (`Rdd`) unless
it is cached (`Session`); the optimizer turns it into a plan for a target
(`Optimizer`), the generated program executes it (`Execution`). On several
workers, one operator of the plan runs an inner plan per worker
(`ConcurrentExecute`), on Lambda by a query of its own (`Serverless`), and the
inner plans exchange rows (`ExchangeService`, `ExchangeS3`) and read slices of
files (`ParquetScan`). `Execution` composes all of it, with the exchanges and
the start of workers taken as what the other modules show them to be: a
function of what all workers send.

`PROJECT.json` lists the hazards of each part at the line where they bite.

## Modules

### The TCP exchange: `AbstractExchange`, `ExchangeService`

`AbstractExchange` says what the clients of an exchange rely on: each worker
sends one finite stream to each worker, the messages of a stream are received
in order and once, and the end of an exchange is signalled to a worker only
when all streams that lead to it have ended and are drained.

`ExchangeService` models the service and the operator that drives it, on all
hosts:

| Variable | Code |
|---|---|
| `ip` | the call of the plan (`open`, `next`, `close` of an exchange) that the main fiber is in |
| `thread` | the consume thread of an operator: what it pushes next |
| `sent`, `got` | messages of a stream that were sent, were received (counted, not part of the code's state) |
| `sink`, `conn`, `wire` | `sinks_`, the state of a sender fiber, the bytes in the socket |
| `receiver`, `held` | the state of a receiver fiber, the payload it is about to push |
| `registered`, `source`, `closed`, `remaining` | `exchanges_` and its entries |
| `eos`, `phase` | the exchanges whose end was signalled; the life cycle of the singleton |

Each action is what a fiber or a thread does between two points at which
another one can run: `Open`, `StartConsumeUpstream`, `ReceiveMessage`,
`ReceiveEndOfStream`, `Close`, `CloseSinks`, `CloseAcceptor`, `Stop` for the
main fiber, `Upstream`, `SendPayload`, `SendEndStream` for the consume threads,
`Connect`, `SenderWrite`, `SenderReturn` for the senders and `Accept`,
`ReadMessage`, `PushPayload`, `ReceiverReturn` for the receivers. All fibers of
a process share one thread, so they run only while the main fiber waits in a
fiber operation (`FibersRun`). Joining a `std::thread` in `close()` is no fiber
operation. A payload is its number in its stream; its Parquet encoding is left
out. A refused connection is retried, as in the code. Connections do not break
otherwise: the code throws then, and nothing handles it.

### The Parquet scan: `Slices`, `ParquetScan`

`ParquetScan` models the three iterators of the scan. The upstream fetcher
(`UpstreamFile`, `UpstreamCompleted`, `NotifyCompleted`) and the metadata
fetcher (`TakeInfo`, `WaitForInfo`, `SpuriousWakeup`, `PushHandle`,
`FinishPrefetching`) are threads; `next()` of the file operator is
`WaitForFileHandles`, `AreAllFilesProcessed`, `PopHandle`, and the rest of the
main thread reads ahead (`StartFill`, `NextFile`, `AddPending`), takes a row
group (`TakePending`, `SignalEnd`) and returns batches (`ReturnBatch`).
Critical sections of `mutex_` are single steps, except for the one of the
metadata fetcher, which is split where `UpstreamCompleted` and
`NotifyCompleted` can fall: they do not take the mutex. The reads of
`has_upstream_completed_`, a plain `bool`, see the last write; the loop cannot
keep the flag in a register, since `wait` is an opaque call. A file has one
column; its row groups are sequences of integers. `Slices` holds the arithmetic
that divides n items among s slices.

### The S3 exchange: `ExchangeS3`

`ExchangeS3` models one or two levels of exchange operators on all workers, as
the optimizer stacks them.

| Variable | Code |
|---|---|
| `level` | the exchange whose `next()` a worker is in; the second one consumes what the first returned |
| `state` | `"consume"` while `pending_results_` and `returned_results_` are empty, then `"poll"`; `"failed"` after an exception |
| `rows` | what the upstream of each exchange returned |
| `hash` | the hash function of each level, chosen once: the levels have different seeds |
| `store` | the objects on S3: the row groups of the file of a worker |
| `pending`, `deferred` | `pending_results_` by sender, and those of them that no thread executes |

`ConsumeUpstream` partitions the rows, uploads the file and starts a task for
each member of the group, `UploadFails` is the exception instead, `ReturnFile`
takes a result that is ready and `SignalEnd` is the empty optional at the end.
A task is ready at some time after its file exists, so the polling of tasks and
of `wait_for` needs no state of its own. S3 is external: an object is visible
once the request that puts it succeeds. The list of names that a task computes,
the Parquet encoding and the pauses between polls are left out.

### Reference-counted memory: `SharedPointer`

`SharedPointer` models the pointers that operators, plans and Python share.
`rc` and `home` are the counter of a pointer and where it is: with a thread,
readable by all threads, an element of counted memory, or the reference that a
result keeps while Python has it. `alive` and `count` are the counters. The
special members are the actions `Construct`, `CopyConstruct`, `MoveConstruct`,
`CopyAssign`, `MoveAssign`, `MoveAssignAlias` and `Destroy`. A move assignment
between pointers to different memory has two halves, as in the code:
`MoveAssign` gives up the old memory, and `TakeOver` reads the argument only
after whatever this deletes was deleted. `moving` and `other` are the
destination and the argument in between. The argument is on the stack or an
element of memory that only pointers on this stack refer to (`Movable`); the
destination is on the stack. `as()` and `into()` are copies and moves. `ExecutePlan` and `FreeResult` hand a result out
and take it back. These actions change fields only. What they have to count is
left in `taking`, `dropping` and `deleting`, and `Increment`, `Decrement` and
`Delete` are steps of their own, between which other threads run. `Delete` also
destroys the elements of the memory, as the destructor of `FreeRefCounter`
does; their order is left open. Elements have a smaller type than the memory
they are in (`Depth`), so that there are no cycles: `code_gen.cpp:685` defines
the struct of an array's items before the struct that has a `SharedPointer` to
them. `SameType` is what this means for an assignment; see *Known limits*.
`leaked` counts references
that no pointer holds any more; it is not part of the code's state. Results
without a counter do not occur: operators allocate also for empty results.

### A query from the front end to its result: `Dag` to `Execution`

These modules are pure functions up to `Optimizer`, whose state is a plan and
the passes still to run, and `Execution`, whose state is also the tasks that
have been executed.

| Module | Models |
|---|---|
| `Dag`, `DagOperators`, `PlanTypes` | the plan graph and its operations (`dag.cpp`), the operator classes, type inference and `verify.cpp` |
| `Rdd` | the classes of `rdd.py` and `jitq_context.py`, and the document they write, parsed into a plan |
| `LocalPasses`, `ParallelPasses`, `DistributedPasses` | the optimizer passes for all targets, for OpenMP, and for processes and Lambda, each from plan to plan |
| `Optimizer` | the list of passes of each target (`optimizer.cpp`), one step per pass or round of merging |
| `PlanEval` | the sequence of tuples every operator delivers: the reference |
| `CodeGen`, `JitOperators` | what the generator writes for a pipeline, and `open`, `next`, `close` of each operator template, with their assertions |
| `Execution` | the generated plan: OpenMP starts any task whose dependencies are there; a task constructs its operators and pulls the result out |

Functions that users pass are expressions over fields (`DagOperators`); values
are numbers, arrays and files. The name of a file stands for its row groups. A
failing assertion or an exception of the code is a value (`TypeError`, a
failure of a frame), so that a property can speak of it.

### Queries on Lambda: `Serverless`

The driver of each query (`StartQuery`, `InvokeRange`, `StartFetch`, `Fetch`,
`EndFetch`, `FetchDeadletters`, `DownloadLogs`, `ExtractResults`, `Return`), the
functions (`StartFunction`, `StartLate`, `InvokeWorker`, `RunRunner`,
`Finalize`), the failures of either (`InvokeFails`, `InvokeWorkerFails`,
`RunnerFails`, `FinalizeFails`, `Kill`) and a clock (`Tick`). `events` and
`running` are the invocations Lambda has accepted and the functions it
executes, `resultQueue` and `dlq` the queues that all queries share. Lambda and
SQS are external: an event starts at any later time, a function that fails is
started again, and a message whose deletion comes too late is received again.
`Tick` waits for what the program does in less than a unit of time (a round of
polling, a function's timeout), and never for Lambda. The queries of a process
run one after the other.

### Workers of a plan: `AbstractIterator`, `ConcurrentExecute`

`AbstractIterator` is what the consumer of the operator relies on: the results
of all inputs, each once, on processes in the order of the inputs; an
exception comes only while no result was delivered. `ConcurrentExecute` models
both operators: on the first `next()` the inputs are taken, the runners are
started and fed, and their outputs are collected in the order of the inputs;
then one result per call is delivered. While there are no results, every call
computes again, also after the end was reported, and may throw (`SetUpFails`,
`MaterializeResult`). A process cannot be started (`SpawnFails`), a runner can
fail (`RunnerExits`), and an input may be larger than the pipe holds
(`WriteFails`). `exchanging` says whether the plans exchange rows, in which case
runners wait for each other and need not end.

### The caches of the front end: `Session`

`Session` models a program that builds queries and executes them in one
context: the documents cached under a hash (`rdd.py`), the plans cached under
the document (`c_executor.py`) and the registry of the back end. The hash is
modelled by what is hashed, so that no property depends on collisions.

## Runs

| Run | Instance | Shows |
|---|---|---|
| `ExchangeOne` | two hosts, one exchange, one payload to each host | types, completeness of the end of a stream, clean shutdown, refinement of `AbstractExchange`, termination |
| `ExchangeJoin` | two hosts, two exchanges as below a join, channels of one slot | the exchange is always found, is never registered again after `FinishExchange`, no payload is refused by a closed channel, the inductive invariant `IndInv` of the proofs |
| `ExchangeCloseDeadlock` | three payloads to one host | *violated*: `close()` can wait forever |
| `ParquetScan` | no, one or two files out of 12, sliced and filtered | types and bounded reading ahead, the assertion of `next()`, order and completeness of the rows, slices partition the row groups, handles are supplied |
| `ParquetScanEnd` | one file | *violated*: the end of the scan may never be signalled |
| `ExchangeS3TwoLevels` | four workers, two levels, all hash functions of two keys, one worker whose uploads may fail | types, each row arrives at one worker, completeness at the end of an exchange and of the plan, a key is at one worker, termination |
| `ExchangeS3FiveWorkers` | five workers, two levels | *violated*: the rows of a key end at several workers |
| `SharedPointer` | two threads, four pointers, three counters, memory with elements | no dangling pointer or argument, exact counters, one deletion, no leak other than the one of an aliasing move |
| `Execution` | 20 queries that between them use every rule of the optimizer, each for the targets that accept it, two threads, four workers | every pass keeps the result and states true properties, none throws; the tasks compute the result of the query in any order, no operator asserts, and all ends |
| `Serverless` | a query of two workers, one of which invokes the other, and one of one worker; one fault anywhere, late starts, one redelivery of each message | complete results or a reason, each worker invoked once, every query ends |
| `ConcurrentExecute` | all streams of up to three inputs, plans that exchange rows or do not | each result once, refinement of `AbstractIterator`; unless runners wait for each other, every call ends and throws if any runner failed |
| `PlanCache` | collections, maps and joins, nine objects | *violated*: a query executes the plan of another one |

### Bounds

Two hosts are the smallest number with a remote and a local stream to
each host, and in which the end of one stream can overtake the payloads of
another one. Two exchanges are what share a connection. Channels of one slot
make every push wait at some point; the liveness runs use two or three slots so
that a message and the end of its stream fit, or do not fit, by choice of the
number of payloads. In the scan, three or four row groups are more than
`MaxPending`, batches of two rows leave a partial one, and the slices do not
divide the row groups. `BatchSize` and `MaxPending` are constants of the model;
the code has 2^15 and 2. Four workers are the smallest number with two levels
of more than one member each, five the smallest one whose groups differ in
size. Four pointers are enough for an assignment from an element of the memory
that the overwritten pointer keeps alive: the two pointers, the element and the
temporary. Memory with elements and two counters for elements are enough for a
move assignment whose argument is an element while the old memory is deleted.
`MaxLeaked` bounds how often a reference is lost.

In `Execution` the inputs have up to five rows with repeated keys, so that with
two threads, four workers, columns of two rows and row groups of two rows
(`MaxColumnSize`, `RowGroupSize`) slices and partitions are uneven or empty and
filters drop everything. The hash function spreads the keys differently under
different seeds. In `Serverless` the delays keep the order of those of the code
(a retry comes after the accepted delay, a function takes longer than it may be
late, the driver waits for both); `LastStart`, `InvokeTime` and `MaxFaults`
bound when a query starts, how long its invocations take and how many faults
there are. Two workers with `DirectLimit = 1` is the smallest query in which a
worker invokes another one. `MaxNexts` in `ConcurrentExecute` goes past the end
of the stream, and `MaxObjects` in `Session` is enough for two queries that
share their collections.

### Fairness

`FairSpec` of `ExchangeService` has weak fairness for every fiber and
every thread: the round-robin scheduler resumes each fiber that is ready
(`fibers/asio/round_robin.hpp`), and the operating system each thread. The
retry of a connection is fair since the code retries without limit. `FairSpec`
of `ParquetScan` has weak fairness for each of the three threads, and none for
spurious wake-ups. `FairSpec` of `ExchangeS3` has weak fairness for each
worker, which polls without limit, and none for failing uploads.

`Execution` is a sequential program with a choice of tasks: it goes on while it
has not ended. Since a step is expensive to evaluate, this is stated by the
steps (`[]<>Ended \/ []<><<~Ended>>_vars`); it is weak fairness of `Next`
because an unfinished query always has a step, which the run checks as absence
of deadlock. `Serverless` has weak fairness for the driver of each query, for
the functions taken together (one that runs ends or is killed) and for time;
none for Lambda, which need not start an event at all. `ConcurrentExecute` has
weak fairness for the operator, and for the runners if their plans do not
exchange rows. A runner of a plan with exchanges waits for all others and has
no time limit, so it need not end once one of them has failed. On Lambda the
time limit of the functions ends the call (`QueryEnds` of `Serverless`).

`ExchangeJoin` and the runs with a violation do not check for deadlock: the join
can reach the deadlock of *Known limits*. `ParquetScan` does not either, because
of the lost wake-up. In `ExchangeS3`, `Serverless` and `ConcurrentExecute` the
program ends, and `SharedPointer` stops when all counters of the instance have
leaked.

### Findings

* `close()` of the TCP exchange operator joins its consume thread on the thread
  that also runs the sender fibers. When that consume thread waits for a slot
  in a sink, nobody empties it: all workers wait forever
  (`ExchangeCloseDeadlock`).
* The end of upstream of a Parquet scan is announced without the mutex. Between
  the check and the wait of the metadata fetcher it is lost
  (`ParquetScanEnd`).
* With two levels and a number of workers that the rounded square root does not
  divide, the groups of the first level differ in size, and the same hash
  selects different positions in them: a key ends at several workers
  (`ExchangeS3FiveWorkers`).
* The hash under which the document of a query is cached leaves out the edges
  between its operators: `a.join(b)` and `b.join(a)` with `b = a.map(f)` share
  one document (`PlanCache`).

### Known limits

What the properties of the passing runs leave out on purpose, because the code
does not do it right: queries that are not in the instance of `Execution`, and
behaviours that a fairness condition, a bound or a property excludes.

* `Execution` has no query in which `y = a.sort()` is joined with `a` on
  processes or Lambda: the loop of `MergeParallelOperators` does not end
  (`parallelize_concurrent.cpp:538`).
* It opens no `Sort`, `TopK`, `ReduceByKey` or `ReduceByIndex` twice as the
  inner side of a `Cartesian`: they keep the values of the first time.
* Joins have one key: `determine_sortedness` is wrong for several. `range_()`
  has no plan for processes and Lambda, a `Broadcast` is not lowered inside a
  `ConcurrentExecute`, a `Zip` of partitioned inputs is cut short, a nested map
  whose plan returns nothing ends the stream, and the files of a result have
  the same names in every query.
* `MaterializeParquet` drops the input behind an empty batch
  (`materialize_parquet_impl.cpp:184`), and the TCP exchange accepts one level
  only.
* `ExchangeService`: a receiver waits for a slot in the source of one exchange
  with the messages of all other exchanges behind it
  (`exchange_service.cpp:228`). Under a join, which drains its left side first,
  a full right source blocks the end of the left one.
* `ExchangeS3`: `std::async` without a launch policy defers a task when no
  thread can be started, and polling a deferred task never makes it ready
  (`exchange_s3.cpp:141`).
* `SharedPointer`: the move assignment recognises self-assignment by the
  pointee, and loses a reference between two aliases (`shared_pointer.hpp:124`).
  The counters of the run are exact up to these (`leaked`). It also gives up
  the old memory before it reads its argument (`shared_pointer.hpp:125`): in
  `p = std::move(p[0])`, where p holds the last reference, it would read a
  deleted element. For this the memory of p has to contain a pointer of the
  type of p, which tuple types, being built from the inside out, do not.
  `SameType` states it, and without `SameType` TLC finds `NoDanglingPointer`
  violated. Copy assignment counts the new memory first and is modelled for
  any source.
* `ConcurrentExecute`: if one of several runners whose plans exchange rows
  fails, the others wait for its file or for the end of its stream
  (`exchange_s3.cpp:251`, `exchange_service.cpp:151`), and `next()` does not
  return. `ComputeEnds` and `RunnerFailureThrows` exclude these calls
  (`MayWait`), except for those with an input that does not fit its pipe,
  where the failed write ends the wait.
* `Serverless` runs the queries of one process one after the other; two drivers
  at a time delete each other's messages (`driver.py:229`).

## Proofs

Every theorem holds for every value of the constants that satisfies the named
assumptions of its module. TLC evaluates these assumptions in the runs.

| Theorem | Module | States |
|---|---|---|
| `Invariance`, `TypeCorrect` | `ExchangeServiceProofs` | `IndInv`, `TypeOK` |
| `EndOfStreamIsComplete` | | `EndOfStreamComplete` |
| `ExchangeIsFound` | | `ExchangeFound` |
| `FinishIsFinal` | | `FinishedStaysErased` |
| `PayloadsAreAccepted` | | `NoPayloadRefused` |
| `Refinement` | | `ImplementsExchange`: the exchange implements `AbstractExchange` |
| `DestructorCompletes` | | `ShutdownComplete`, under `PlanCompletes` |
| `RowGroupsArePartitioned` | `ParquetScanProofs` | `SlicesPartition` |
| `HandleIsAvailable` | | `HandleAvailable` |
| `TypeCorrect`, `RowsAscend`, `RowsComplete` | | `TypeOK`, `ScanOrdered`, `ScanComplete` |
| `Invariance`, `TypeCorrect` | `ExchangeS3Proofs` | `IndInv`, `TypeOK` |
| `RowsAreNotDuplicated` | | `RowsAtOneWorker` |
| `EndOfStreamIsComplete` | | `EndOfStreamComplete` |
| `NoRowIsLost` | | `AllRowsArrive` |
| `KeysArriveTogether` | | `SameKeySameWorker`, under `EqualGroups` |
| `TypeCorrect`, `PointersValid`, `CountsExact` | `SharedPointerProofs` | `TypeOK`, `NoDanglingPointer`, `ReferencesCounted` |
| `DeletionUnique`, `NothingLeaks` | | `DeletedOnce`, `Reclaimed` |
| `DataIsOwn` | `ServerlessProofs` | `OwnData` |
| `ReturnsComplete` | | `ReturnedComplete` |
| `WorkersInvokedOnce` | | `InvokedOnce` |
| `RaisesJustified` | | `RaiseJustified` |
| `DeliveryExact` | `ConcurrentExecuteProofs` | `DeliveredExact` |
| `IteratorImplemented` | | `ImplementsIterator`: the operators implement `AbstractIterator` |

### The TCP exchange

`ExchangeServiceSend`, `ExchangeServiceSteps` and `ExchangeServiceProofs` are
about any number of hosts, exchanges, payloads and slots, and any plan that
opens, drains and closes an exchange at most once and in this order
(`PlanAssumption`; an exchange ID belongs to one operator). The properties are
not inductive. That the source is complete when the last `kEndStream` closes it
depends on where every message is: `IndInv` sees what is on its way from s to h
as one queue, `Pipe(s, h)`, made of the payload that a receiver holds, the
socket and the sink. The messages of a stream are in it in the order of their
numbers, the payloads in the source precede those in the pipe, and no number
between the last one received and the last one sent is missing (`PipeInv`,
`SourceInv`, `NoLoss`). The hosts whose end has still to be counted are
`Pending(h, e)`; `CountInv` says that `num_remaining_receivers_` is their
number, and that the source is closed when there are none. Moving a message
from one part of the pipe to the next leaves the pipe as it is, so only the two
ends of it need an argument: pushing to the sink appends the next number, and
reading either extends the source or removes a host from `Pending`.
`ExchangeServiceSend` has the types and `SendMessage`, `ExchangeServiceSteps`
one lemma for each other step, and `ExchangeServiceProofs` the counting of
`kEndStream`, which needs cardinalities, and the theorems.

`DestructorCompletes` needs a second invariant, `Shutdown`: a consume thread
belongs to a `next()` of the plan and is done after `close()`, a receiver that
has returned has read all that its sender wrote, and a host in its destructor
is past its whole plan. It is about plans in which whatever is opened is also
drained and closed (`PlanCompletes`). `PlanAssumption` alone allows a plan that
opens an exchange and never drains it, which no operator does and whose
destructor would find streams under way.

### The Parquet scan

`ParquetScanProofs` is about any files, slices and ranges, any size of a batch
and any number of row groups read ahead. Each row group is in exactly one
slice, because item g of n is in slice `(s(g+1) - 1) \div n`: `k*n \div s <= g`
iff `k*n < s(g+1)`. The assertion of `next()` holds because what the main
thread has seen of the queue stays true, as only it takes handles
(`HandleInv`). Order and completeness follow the files first and their rows
then. `Queues` says that the files between upstream and the main thread are
numbered consecutively over the three queues, so that the one popped next is
the successor of the last one, and that prefetching has completed only when
nothing is left in front of the handles; this is where the flags that are set
outside the mutex matter. `Scan` says that the rows read, the pending row groups
and those left of the current file follow each other in the order of the files
(`Ascending`) and hold all rows of the files popped (`NoneLost`).

### The S3 exchange

`ExchangeS3Proofs` is about any number of workers, any input and any hash
functions, also where groups differ in size and uploads fail. The argument is
about groups first: the members of a group agree on it (`GroupsAgree`), and the
position of a member in it is a bijection to the partitions (`IndexBounds`,
`IndexInjective`, `IndexOnto`), so each row of a file is in the row group of
exactly one member (`OneRowGroup`). `IndInv` then follows the rows through the
files: a file holds the rows that its writer had, which do not change any more
(`FileInv`, `SenderInv`), and what a worker has received is its share of the
files whose results it has taken (`ArrivedInv`). That a worker has the rows of
all members when nothing is pending is an instance of the last one. The rows of
a key arrive at one worker if there is one level or the number of groups
divides the number of workers (`EqualGroups`); then the position in a group of
the first level is the group of the second one. Without the hypothesis the
property is violated (`ExchangeS3FiveWorkers`).

### Reference-counted memory

`SharedPointerProofs` is about any number of threads and counters and any finite
set of pointers. The difficulty is a copy whose counter is not incremented yet:
the counter does not count it, and still must not reach zero. `References` says
that such a copy is protected by the pointer it was copied from, which is
counted and which no other thread may modify: it is on the stack of the same
thread, shared and thus only read, or an element of memory that the thread
holds (`CopiesProtected`). It also says that what a thread is about to drop is
its own (`OwnPointers`), that the argument of a move assignment is on the stack
or in memory that a pointer other than the destination holds from the stack, so
that the deletion of the old memory does not reach it (`MovesProtected`), and
that a counter at zero has a thread that is about
to delete it (`ZeroDeleted`). Counters are cardinalities, so moving a reference
from one pointer to another keeps them (`Replaced`).

### Queries on Lambda

`ServerlessProofs` is about any number of queries and workers, any limit of
direct invocations, any delays and any number of faults. It assumes that
queries, numbers of workers and times are natural numbers, and that Lambda waits
longer before it starts a function again than a function may be late
(`DelayAssumption`; 20 s in the code, a minute on Lambda). The invariant has
three parts.

`OwnData` says that events, functions and messages carry the input of one
worker of one query and that a driver keeps messages of its own workers only.
The number of messages, which is all that `run_query` checks, then implies that
there is one of each worker.

`ClaimsInv` is about who may still invoke whom. It gives every worker that has
not been invoked to at most one holder: the query before it starts, a range of
the driver, an event that was never started, or a function. Claims of one query
are disjoint, and whoever is claimed has not been invoked. Every step hands
claims on to others, gives them up, or turns them into invocations, which is one
lemma (`HandOn`). An event of a function that is started again has no claim: it
is late, and a late function invokes nobody (`InTimeIsFirst`). That the ranges
of the driver are disjoint and not empty is `WorkerRanges`.

`Reasons` is about why a query raises. In a query without a fault, every worker
whose message is missing is on its way (`NoneLost`): in a range of the driver,
in an event or in the invocations of one, with a running function, or in a
message that was not received before. A worker cannot be on its way as a
function when the driver loses patience, because a function that runs started
within the accepted delay and is killed at its limit, and the driver waits for
the sum of both (`InTime`), nor as a message, because the last round of
polling takes all of them (`Drained`). What remains is an event that was not
started in time. That messages of earlier queries do not count is `Seen` with
`Orderly`: queries run one after the other, and a message that SQS delivers
again was taken before by the driver it is for. The workers are all covered by
the ranges (`RangesCover`).

### Workers of a plan

`ConcurrentExecuteProofs` is about any streams of inputs and any number of
calls. `Progress` says what the operator has at each place: nothing, the runners
of the inputs taken so far, or the results of all inputs, of which those that
`result_it_` has passed are delivered. The refinement maps the delivery to that
of the abstract iterator; computing the results is a stutter, which an
exception may end. Results are computed only while there are none, so nothing
was delivered then (`Gathering`).

### Only model-checked

* All liveness (`Termination`, `FilesSupplied`, `QueryTerminates`, `QueryEnds`,
  `ComputeEnds`, `RunnerFailureThrows`): fairness is out of reach of TLAPS.
* The properties of `Optimizer` and `Execution`. Their plans are evaluated by
  recursive operators, and what these compute needs induction over data.

## Not modelled

* The fibers on asio are the scheduler of Boost.Fiber's examples;
  `ExchangeService` takes fibers as processes that run when they can.
* AWS clients and file systems are input and output; requests that fail are
  actions of `ExchangeS3` and `Serverless`, and the SDK retries on its own.
* The text of the generated program, LLVM, and the compilation of Python
  functions: `CodeGen` stops at the statements, `Rdd` takes functions from a
  small set.
* JSON text, Arrow conversions, Parquet encodings, Python types of results:
  conversions without state that the properties do not look into.
* The command-line tools, the benchmarks and k-means are clients of the rest.
