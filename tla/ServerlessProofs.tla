-------------------------- MODULE ServerlessProofs --------------------------
(***************************************************************************)
(* Queries on AWS Lambda return complete results, invoke each worker at    *)
(* most once and raise only for a reason, for any number of queries and of *)
(* workers, any limits and delays, and any number of faults.               *)
(***************************************************************************)
EXTENDS Serverless, TLAPS, FiniteSetTheorems, WellFoundedInduction

-----------------------------------------------------------------------------
(* The ranges of workers *)

(* Division rounds down. *)
LEMMA QuotientBounds ==
    ASSUME NEW a \in Nat, NEW s \in Nat \ {0}
    PROVE  /\ a \div s \in Nat
           /\ s * (a \div s) <= a
           /\ a < s * (a \div s) + s
BY Z3

(* The bounds of a quotient from those of the dividend. *)
LEMMA QuotientBelow ==
    ASSUME NEW a \in Nat, NEW s \in Nat \ {0}, NEW q \in Nat, a < s * q
    PROVE  a \div s < q
<1> DEFINE d == a \div s
<1>1. d \in Nat /\ s * d <= a
  BY QuotientBounds, Zenon
<1> HIDE DEF d
<1>2. SUFFICES ASSUME q <= d PROVE FALSE
  BY <1>1 DEF d
<1>3. s * q <= s * d
  BY <1>1, <1>2, Z3
<1> QED BY <1>1, <1>3, Z3

LEMMA QuotientAbove ==
    ASSUME NEW a \in Nat, NEW s \in Nat \ {0}, NEW q \in Nat, s * q <= a
    PROVE  q <= a \div s
<1> DEFINE d == a \div s
<1>1. d \in Nat /\ a < s * d + s
  BY QuotientBounds, Zenon
<1> HIDE DEF d
<1>2. SUFFICES ASSUME d + 1 <= q PROVE FALSE
  BY <1>1 DEF d
<1>3. s * (d + 1) <= s * q
  BY <1>1, <1>2, Z3
<1>4. s * (d + 1) = s * d + s
  BY <1>1, Z3
<1> QED BY <1>1, <1>3, <1>4, Z3

(* A positive number has a positive square root. *)
LEMMA CeilSqrtPositive ==
    ASSUME NEW n \in Nat \ {0}
    PROVE  CeilSqrt(n) \in Nat \ {0}
<1> DEFINE S == {k \in 0..n : k * k >= n}
           P(k) == k * k >= n /\ \A j \in 0 .. k - 1 : j * j < n
<1>1. n * n >= n
  BY Z3
<1>2. n \in S
  BY <1>1
<1>3. PICK k \in S : \A j \in S : k <= j
  <2>1. IsWellFoundedOn(OpToRel(<, Nat), Nat)
    BY NatLessThanWellFounded, Zenon
  <2>2. S \subseteq Nat
    OBVIOUS
  <2>. S # {}
    BY <1>2, Zenon
  <2>3. PICK x \in S : \A y \in S : ~(<<y, x>> \in OpToRel(<, Nat))
    BY <2>1, <2>2, WFMin, Zenon
  <2>4. \A y \in S : ~(y < x)
    BY <2>2, <2>3, Zenon DEF OpToRel
  <2> QED BY <2>2, <2>4
<1>4. k \in 0..n /\ k * k >= n
  BY <1>3, Zenon
<1>5. ASSUME NEW j \in 0 .. k - 1 PROVE j * j < n
  <2>1. j \in 0..n /\ j < k
    BY <1>4
  <2>2. ~(j * j >= n)
    BY <1>3, <2>1
  <2>3. j * j \in Nat
    BY <2>1, Z3
  <2> QED BY <2>2, <2>3
<1>6. P(k)
  BY <1>4, <1>5, Zenon
<1>7. CeilSqrt(n) \in 0..n /\ P(CeilSqrt(n))
  BY <1>4, <1>6, Zenon DEF CeilSqrt
<1>8. CeilSqrt(n) # 0
  BY <1>7
<1> QED BY <1>7, <1>8

(* The i-th of num bounds that divide n workers evenly. *)
LEMMA BoundsOfRanges ==
    ASSUME NEW n \in Nat \ {0}, NEW num \in 1..n, NEW i \in 0 .. num - 1, NEW j \in i + 1 .. num
    PROVE  /\ (i * n) \div num \in Nat
           /\ (j * n) \div num \in 0..n
           /\ (i * n) \div num < (j * n) \div num
<1> DEFINE low == (i * n) \div num
           high == (j * n) \div num
<1>1. /\ i \in Nat /\ j \in Nat /\ num \in Nat \ {0}
      /\ i + 1 <= j /\ j <= num /\ num <= n
  OBVIOUS
<1>2. i * n \in Nat /\ j * n \in Nat
  BY <1>1, Z3
<1>3. low \in Nat /\ num * low <= i * n
  BY <1>1, <1>2, QuotientBounds, Zenon
<1>4. high \in Nat /\ num * high <= j * n
  BY <1>1, <1>2, QuotientBounds, Zenon
<1>5. low + 1 <= high
  <2> HIDE DEF low
  <2>1. (i + 1) * n <= j * n
    BY <1>1, Z3
  <2>2. (i + 1) * n = i * n + n
    BY <1>1, Z3
  <2>3. num * (low + 1) = num * low + num
    BY <1>1, <1>3, Z3
  <2>4. num * low \in Nat
    BY <1>1, <1>3, Z3
  <2>5. num * (low + 1) <= j * n
    BY <1>1, <1>2, <1>3, <2>1, <2>2, <2>3, <2>4
  <2>6. low + 1 \in Nat
    BY <1>3
  <2> QED BY <1>1, <1>2, <2>5, <2>6, QuotientAbove, Zenon
<1>6. high <= n
  <2>1. j * n <= num * n
    BY <1>1, Z3
  <2>2. num * (n + 1) = num * n + num
    BY <1>1, Z3
  <2>3. num * n \in Nat
    BY <1>1, Z3
  <2>4. j * n < num * (n + 1)
    BY <1>1, <1>2, <2>1, <2>2, <2>3
  <2>5. high < n + 1
    BY <1>1, <1>2, <2>4, QuotientBelow
  <2> HIDE DEF high
  <2> QED BY <1>4, <2>5
<1> HIDE DEF low, high
<1>7. low \in Nat /\ high \in 0..n /\ low < high
  BY <1>3, <1>4, <1>5, <1>6
<1> QED BY <1>7, Zenon DEF low, high

(* Distinct ranges that do not overlap. *)
Apart(r, s) == r[2] <= s[1] \/ s[2] <= r[1]

(* The ranges are not empty, contain only workers of the query, and are disjoint. *)
LEMMA WorkerRanges ==
    ASSUME NEW n \in Nat
    PROVE  /\ \A r \in worker_ranges(n) : r \in Nat \X Nat /\ r[1] < r[2] /\ r[2] <= n
           /\ \A r, s \in worker_ranges(n) : r # s => Apart(r, s)
<1> DEFINE size == IF n > DirectLimit THEN CeilSqrt(n) ELSE 1
           num == CeilDiv(n, size)
           lo(i) == (i * n) \div num
           Ranges == {<<lo(i), lo(i + 1)>> : i \in 0 .. num - 1}
<1>1. worker_ranges(n) = Ranges
  BY Zenon DEF worker_ranges
<1>2. CASE n = 0
  <2>1. size = 1
    BY <1>2, DirectLimitAssumption
  <2>2. num = 0
    BY <1>2, <2>1 DEF CeilDiv
  <2> HIDE DEF num
  <2>3. 0 .. num - 1 = {}
    BY <2>2
  <2>4. Ranges = {}
    BY <2>3, Zenon
  <2> QED BY <1>1, <2>4, Zenon
<1>3. CASE n # 0
  <2>1. size \in Nat \ {0}
    BY <1>3, CeilSqrtPositive
  <2> HIDE DEF size
  <2>2. num \in 1..n
    <3> DEFINE a == n + size - 1
    <3>1. a \in Nat /\ num = a \div size
      BY <1>3, <2>1 DEF CeilDiv
    <3> HIDE DEF num
    <3>2. size * 1 <= a
      BY <1>3, <2>1
    <3>3. 1 <= a \div size
      BY <2>1, <3>1, <3>2, QuotientAbove, Zenon
    <3>4. size * (n + 1) = size * n + size
      BY <2>1, Z3
    <3>5. n <= size * n /\ size * n \in Nat
      BY <2>1, Z3
    <3>6. a < size * (n + 1)
      BY <2>1, <3>4, <3>5
    <3>7. n + 1 \in Nat
      OBVIOUS
    <3>8. a \div size < n + 1
      BY <2>1, <3>1, <3>6, <3>7, QuotientBelow, Zenon
    <3>9. a \div size \in Nat
      BY <2>1, <3>1, QuotientBounds, Zenon
    <3> HIDE DEF a
    <3> QED BY <3>1, <3>3, <3>8, <3>9
  <2> HIDE DEF num
  <2>3. ASSUME NEW i \in 0 .. num - 1, NEW j \in i + 1 .. num
        PROVE  lo(i) \in Nat /\ lo(j) \in 0..n /\ lo(i) < lo(j)
    BY <1>3, <2>2, <2>3, BoundsOfRanges, Zenon
  <2> HIDE DEF lo
  <2>4. ASSUME NEW i \in 0 .. num - 1
        PROVE  i + 1 \in i + 1 .. num /\ i \in Nat
    BY <2>2, <2>4
  <2>5. ASSUME NEW r \in Ranges
        PROVE  r \in Nat \X Nat /\ r[1] < r[2] /\ r[2] <= n
    <3>1. PICK i \in 0 .. num - 1 : r = <<lo(i), lo(i + 1)>>
      BY <2>5, Zenon
    <3>2. lo(i) \in Nat /\ lo(i + 1) \in 0..n /\ lo(i) < lo(i + 1)
      BY <2>3, <2>4, Zenon
    <3> QED BY <3>1, <3>2
  <2>6. ASSUME NEW i \in 0 .. num - 1, NEW j \in 0 .. num - 1, i < j
        PROVE  lo(i + 1) <= lo(j)
    <3>1. CASE i + 1 = j
      <4>1. lo(j) \in Nat
        BY <2>3, <2>4, Zenon
      <4> QED BY <3>1, <4>1
    <3>2. CASE i + 1 # j
      <4>1. i + 1 \in 0 .. num - 1 /\ j \in (i + 1) + 1 .. num
        BY <2>2, <2>6, <3>2
      <4>2. lo(i + 1) \in Nat /\ lo(j) \in 0..n /\ lo(i + 1) < lo(j)
        BY <2>3, <4>1, Zenon
      <4> QED BY <4>2
    <3> QED BY <3>1, <3>2, Zenon
  <2>7. ASSUME NEW r \in Ranges, NEW s \in Ranges, r # s
        PROVE  Apart(r, s)
    <3>1. PICK i \in 0 .. num - 1 : r = <<lo(i), lo(i + 1)>>
      BY <2>7, Zenon
    <3>2. PICK j \in 0 .. num - 1 : s = <<lo(j), lo(j + 1)>>
      BY <2>7, Zenon
    <3>3. i < j \/ j < i
      BY <2>2, <2>7, <3>1, <3>2
    <3> QED BY <2>6, <3>1, <3>2, <3>3, Zenon DEF Apart
  <2> HIDE DEF Ranges
  <2> QED BY <1>1, <2>5, <2>7, Zenon
<1> QED BY <1>2, <1>3, Zenon

-----------------------------------------------------------------------------
(* What belongs to a query: the first part of the invariant *)

InputType == Queries \X Nat

InvocationType == Nat \X InputType

EventType ==
    [query : Queries, worker : Nat, input : InputType, invocations : SUBSET InvocationType,
     attempt : Nat \ {0}, ready : Nat]

FunctionType ==
    [event : EventType, since : Nat, pc : {"invoking", "finalizing"},
     todo : SUBSET InvocationType, reported : BOOLEAN]

BodyType == [kind : {"output", "exception"}, input : InputType]

MessageType == [query : Queries, worker : Nat, again : BOOLEAN, body : BodyType]

MessagesType == UNION {[S -> BodyType] : S \in SUBSET Nat}

PcType == {"idle", "invoking", "fetching", "logs", "closing", "returned", "raised"}

DriverType ==
    [pc : PcType, startedAt : Nat, since : Nat, todo : SUBSET (Nat \X Nat),
     messages : MessagesType, deadletters : BOOLEAN, downloaded : SUBSET Nat]

OwnInvocation(q, i) == i[1] \in workers(q) /\ i[2] = inputs(q, i[1])

OwnEvent(e) ==
    /\ e \in EventType
    /\ e.worker \in workers(e.query)
    /\ e.input = inputs(e.query, e.worker)
    /\ \A i \in e.invocations : OwnInvocation(e.query, i)

OwnFunction(f) ==
    /\ f \in FunctionType
    /\ OwnEvent(f.event)
    /\ \A i \in f.todo : OwnInvocation(f.event.query, i)

OwnMessage(m) ==
    /\ m \in MessageType
    /\ m.worker \in workers(m.query)
    /\ m.body.input = inputs(m.query, m.worker)

OwnMessages(q, ms) ==
    /\ ms \in MessagesType
    /\ \A w \in DOMAIN ms : w \in workers(q) /\ ms[w].input = inputs(q, w)

\* A query that gets as far as returning has passed extract_results and the assertion.
Extracted(q, d) ==
    d.pc \in {"closing", "returned"} =>
        /\ Cardinality(DOMAIN d.messages) = NumWorkers[q]
        /\ \A w \in DOMAIN d.messages : d.messages[w].kind # "exception"

OwnDriver(q, d) ==
    /\ d \in DriverType
    /\ d.startedAt <= now
    /\ d.todo \subseteq worker_ranges(NumWorkers[q])
    /\ OwnMessages(q, d.messages)
    /\ Extracted(q, d)

OwnDrivers ==
    /\ now \in Nat
    /\ driver \in [Queries -> DriverType]
    /\ \A q \in Queries : OwnDriver(q, driver[q])

OwnEvents == \A e \in events : OwnEvent(e)

OwnFunctions == \A f \in running : OwnFunction(f)

OwnQueue == \A m \in resultQueue : OwnMessage(m)

OwnData ==
    /\ OwnDrivers
    /\ OwnEvents
    /\ OwnFunctions
    /\ OwnQueue
    /\ logs \in [Queries -> SUBSET Nat]

(* The event of a range is one of its query's, ... *)
LEMMA RangeEventOwn ==
    ASSUME NEW q \in Queries, now \in Nat, NEW r \in worker_ranges(NumWorkers[q])
    PROVE  /\ OwnEvent(RangeEvent(q, r))
           /\ RangeEvent(q, r).query = q
           /\ RangeEvent(q, r).attempt = 1
           /\ RangeEvent(q, r).invocations = {<<w, inputs(q, w)>> : w \in r[1] + 1 .. r[2] - 1}
<1>1. NumWorkers[q] \in Nat
  BY NumWorkersAssumption, Zenon
<1>2. r \in Nat \X Nat /\ r[1] < r[2] /\ r[2] <= NumWorkers[q]
  BY <1>1, WorkerRanges, Zenon
<1> DEFINE invs == {<<w, inputs(q, w)>> : w \in r[1] + 1 .. r[2] - 1}
<1>3. ASSUME NEW w \in r[1] .. r[2] - 1
      PROVE  w \in Nat /\ w \in workers(q)
  BY <1>1, <1>2, <1>3 DEF workers
<1>4. ASSUME NEW i \in invs
      PROVE  i \in InvocationType /\ OwnInvocation(q, i)
  <2>1. PICK w \in r[1] + 1 .. r[2] - 1 : i = <<w, inputs(q, w)>>
    BY <1>4, Zenon
  <2>2. w \in Nat /\ w \in workers(q)
    BY <1>2, <1>3
  <2> QED BY <2>1, <2>2, Zenon DEF InvocationType, InputType, OwnInvocation, inputs
<1> DEFINE e == RangeEvent(q, r)
<1>5. e = [query |-> q, worker |-> r[1], input |-> inputs(q, r[1]), invocations |-> invs,
           attempt |-> 1, ready |-> now]
  BY Zenon DEF RangeEvent, Event
<1>6. r[1] \in Nat /\ r[1] \in workers(q)
  BY <1>2, <1>3
<1>7. inputs(q, r[1]) \in InputType
  BY <1>6, Zenon DEF inputs, InputType
<1>8. invs \in SUBSET InvocationType
  BY <1>4, Zenon
<1> HIDE DEF invs, e
<1>9. e \in EventType
  BY <1>5, <1>6, <1>7, <1>8 DEF EventType
<1>10. OwnEvent(e)
  BY <1>4, <1>5, <1>6, <1>9, Zenon DEF OwnEvent
<1>11. e.query = q /\ e.attempt = 1 /\ e.invocations = invs
  BY <1>5, Zenon
<1> QED BY <1>10, <1>11, Zenon DEF e, invs

(* ... so is the one a function sends on, ... *)
LEMMA InvocationEventOwn ==
    ASSUME NEW e, OwnEvent(e), now \in Nat,
           NEW i \in InvocationType, OwnInvocation(e.query, i)
    PROVE  /\ OwnEvent(InvocationEvent(e, i))
           /\ InvocationEvent(e, i).query = e.query
           /\ InvocationEvent(e, i).attempt = 1
           /\ InvocationEvent(e, i).invocations = {}
<1> DEFINE x == InvocationEvent(e, i)
<1>1. x = [query |-> e.query, worker |-> i[1], input |-> i[2], invocations |-> {},
           attempt |-> 1, ready |-> now]
  BY Zenon DEF InvocationEvent, Event
<1>2. e.query \in Queries
  BY Zenon DEF OwnEvent, EventType
<1>3. i[1] \in Nat /\ i[2] \in InputType
  BY Zenon DEF InvocationType
<1> HIDE DEF x
<1>4. x \in EventType
  BY <1>1, <1>2, <1>3 DEF EventType
<1>5. OwnEvent(x)
  BY <1>1, <1>4, Zenon DEF OwnEvent, OwnInvocation
<1> QED BY <1>1, <1>5 DEF x

Retry(e) == [e EXCEPT !.attempt = @ + 1, !.ready = now + RetryDelay]

(* ... and the one Lambda starts again. *)
LEMMA RetryOwn ==
    ASSUME NEW e, OwnEvent(e), now \in Nat
    PROVE  /\ OwnEvent(Retry(e))
           /\ Retry(e).query = e.query
           /\ Retry(e).attempt > 1
           /\ Retry(e).ready = now + RetryDelay
<1>1. e \in EventType
  BY Zenon DEF OwnEvent
<1>2. now + RetryDelay \in Nat
  BY DelayAssumption
<1>3. e.attempt + 1 \in Nat \ {0} /\ e.attempt + 1 > 1
  BY <1>1 DEF EventType
<1>4. Retry(e) \in EventType
  BY <1>1, <1>2, <1>3, Zenon DEF EventType, Retry
<1>5. /\ Retry(e).query = e.query /\ Retry(e).worker = e.worker /\ Retry(e).input = e.input
      /\ Retry(e).invocations = e.invocations
      /\ Retry(e).attempt = e.attempt + 1 /\ Retry(e).ready = now + RetryDelay
  BY <1>1, Zenon DEF EventType, Retry
<1> QED BY <1>3, <1>4, <1>5, Zenon DEF OwnEvent

LEMMA ErrorOwn ==
    ASSUME NEW e, NEW others, FunctionError(e, others)
    PROVE  events' \subseteq others \cup {Retry(e)}
BY Zenon DEF FunctionError, Retry

LEMMA MessageOwn ==
    ASSUME NEW e, OwnEvent(e), NEW kind \in {"output", "exception"}
    PROVE  OwnMessage(Message(e, kind))
<1>1. e \in EventType
  BY Zenon DEF OwnEvent
<1>2. e.query \in Queries /\ e.worker \in Nat /\ e.input \in InputType
  BY <1>1, Zenon DEF EventType
<1>3. Message(e, kind) \in MessageType
  BY <1>2, Zenon DEF Message, MessageType, BodyType
<1> QED BY <1>3, Zenon DEF OwnMessage, OwnEvent, Message

LEMMA ReturnResultOwn ==
    ASSUME NEW e, NEW kind, NEW n, ReturnResult(e, kind, n)
    PROVE  resultQueue' \subseteq resultQueue \cup {Message(e, kind)}
BY Zenon DEF ReturnResult

(* What a function is after one of its steps. *)
LEMMA FunctionMoved ==
    ASSUME NEW f, OwnFunction(f), NEW T \in SUBSET f.todo
    PROVE  /\ LET g == [f EXCEPT !.todo = T]
              IN  OwnFunction(g) /\ g.event = f.event /\ g.todo = T
           /\ LET g == [f EXCEPT !.todo = T, !.pc = "finalizing", !.reported = TRUE]
              IN  OwnFunction(g) /\ g.event = f.event /\ g.todo = T
           /\ LET g == [f EXCEPT !.pc = "finalizing"]
              IN  OwnFunction(g) /\ g.event = f.event /\ g.todo = f.todo
           /\ LET g == [f EXCEPT !.pc = "finalizing", !.reported = TRUE]
              IN  OwnFunction(g) /\ g.event = f.event /\ g.todo = f.todo
           /\ LET g == [f EXCEPT !.reported = TRUE]
              IN  OwnFunction(g) /\ g.event = f.event /\ g.todo = f.todo
<1>1. f \in FunctionType /\ T \in SUBSET InvocationType
  BY Zenon DEF OwnFunction, FunctionType
<1>2. ASSUME NEW g \in FunctionType, g.event = f.event, g.todo \in SUBSET f.todo
      PROVE  OwnFunction(g)
  BY <1>2, Zenon DEF OwnFunction
<1>3. LET g == [f EXCEPT !.todo = T]
      IN  g \in FunctionType /\ g.event = f.event /\ g.todo = T
  BY <1>1, Zenon DEF FunctionType
<1>4. LET g == [f EXCEPT !.todo = T, !.pc = "finalizing", !.reported = TRUE]
      IN  g \in FunctionType /\ g.event = f.event /\ g.todo = T
  BY <1>1, Zenon DEF FunctionType
<1>5. LET g == [f EXCEPT !.pc = "finalizing"]
      IN  g \in FunctionType /\ g.event = f.event /\ g.todo = f.todo
  BY <1>1, Zenon DEF FunctionType
<1>6. LET g == [f EXCEPT !.pc = "finalizing", !.reported = TRUE]
      IN  g \in FunctionType /\ g.event = f.event /\ g.todo = f.todo
  BY <1>1, Zenon DEF FunctionType
<1>7. LET g == [f EXCEPT !.reported = TRUE]
      IN  g \in FunctionType /\ g.event = f.event /\ g.todo = f.todo
  BY <1>1, Zenon DEF FunctionType
<1> QED BY <1>2, <1>3, <1>4, <1>5, <1>6, <1>7, Zenon

(* A step of one query's driver. *)
LEMMA DriverMoved ==
    ASSUME OwnDrivers, now' = now, NEW q \in Queries,
           driver' \in [Queries -> DriverType],
           \A p \in Queries \ {q} : driver'[p] = driver[p],
           driver'[q].startedAt <= now,
           driver'[q].todo \subseteq worker_ranges(NumWorkers[q]),
           OwnMessages(q, driver'[q].messages),
           Extracted(q, driver'[q])
    PROVE  OwnDrivers'
<1>1. ASSUME NEW p \in Queries PROVE OwnDriver(p, driver[p])'
  <2>1. CASE p = q
    BY <2>1, Zenon DEF OwnDriver, OwnMessages, Extracted
  <2>2. CASE p # q
    <3>1. driver'[p] = driver[p] /\ OwnDriver(p, driver[p])
      BY <2>2, Zenon DEF OwnDrivers
    <3> QED BY <3>1, Zenon DEF OwnDriver, OwnMessages, Extracted
  <2> QED BY <2>1, <2>2, Zenon
<1> QED BY <1>1, Zenon DEF OwnDrivers

LEMMA DriverSame == OwnDrivers /\ UNCHANGED <<now, driver>> => OwnDrivers'
<1> SUFFICES ASSUME OwnDrivers, UNCHANGED <<now, driver>> PROVE OwnDrivers'
  BY Zenon
<1>1. ASSUME NEW p \in Queries PROVE OwnDriver(p, driver[p])'
  <2>1. driver'[p] = driver[p] /\ OwnDriver(p, driver[p])
    BY Zenon DEF OwnDrivers
  <2> QED BY <2>1, Zenon DEF OwnDriver, OwnMessages, Extracted
<1> QED BY <1>1, Zenon DEF OwnDrivers

(* The steps of a driver that leave Lambda and the queue alone. *)
LEMMA DriverSteps ==
    ASSUME OwnDrivers, logs \in [Queries -> SUBSET Nat], NEW q \in Queries,
           \/ StartQuery(q) \/ StartFetch(q) \/ EndFetch(q) \/ FetchDeadletters(q)
           \/ DownloadLogs(q) \/ ExtractResults(q) \/ Return(q)
    PROVE  OwnDrivers'
<1>1. /\ driver \in [Queries -> DriverType] /\ now \in Nat /\ driver[q] \in DriverType
      /\ OwnDriver(q, driver[q])
  BY Zenon DEF OwnDrivers
<1>2. CASE StartQuery(q)
  <2>1. now' = now
    BY <1>2, Zenon DEF StartQuery
  <2>2. worker_ranges(NumWorkers[q]) \in SUBSET (Nat \X Nat)
    BY NumWorkersAssumption, WorkerRanges, Zenon
  <2> DEFINE ranges == worker_ranges(NumWorkers[q])
  <2> HIDE DEF ranges
  <2>3. /\ driver' \in [Queries -> DriverType]
        /\ \A p \in Queries \ {q} : driver'[p] = driver[p]
        /\ driver'[q].startedAt = now /\ driver'[q].todo = ranges
        /\ driver'[q].messages = driver[q].messages /\ driver'[q].pc = "invoking"
    BY <1>1, <1>2, <2>2, Zenon DEF StartQuery, DriverType, PcType, ranges
  <2> QED BY <1>1, <2>1, <2>3, DriverMoved DEF OwnDriver, Extracted, ranges
<1>3. CASE StartFetch(q) \/ EndFetch(q) \/ FetchDeadletters(q) \/ DownloadLogs(q)
  <2>1. now' = now
    BY <1>3, Zenon DEF StartFetch, EndFetch, FetchDeadletters, DownloadLogs
  <2>2. /\ driver' \in [Queries -> DriverType]
        /\ \A p \in Queries \ {q} : driver'[p] = driver[p]
        /\ driver'[q].startedAt = driver[q].startedAt /\ driver'[q].todo = driver[q].todo
        /\ driver'[q].messages = driver[q].messages
        /\ driver'[q].pc \in {driver[q].pc, "fetching", "logs"}
    <3>1. CASE StartFetch(q)
      BY <1>1, <3>1, Zenon DEF StartFetch, DriverType, PcType
    <3>2. CASE EndFetch(q)
      BY <1>1, <3>2, Zenon DEF EndFetch, DriverType, PcType
    <3>3. CASE FetchDeadletters(q)
      BY <1>1, <3>3, Zenon DEF FetchDeadletters, DriverType, PcType
    <3>4. CASE DownloadLogs(q)
      BY <1>1, <3>4, Zenon DEF DownloadLogs, DriverType, PcType
    <3> QED BY <1>3, <3>1, <3>2, <3>3, <3>4, Zenon
  <2>3. Extracted(q, driver'[q])
    BY <1>1, <2>2, Zenon DEF OwnDriver, Extracted
  <2> QED BY <1>1, <2>1, <2>2, <2>3, DriverMoved, Zenon DEF OwnDriver
<1>4. CASE ExtractResults(q)
  <2>1. now' = now /\ Outcome(q) \in {"raised", "closing"}
    BY <1>4, Zenon DEF ExtractResults, Outcome
  <2>2. /\ driver' \in [Queries -> DriverType]
        /\ \A p \in Queries \ {q} : driver'[p] = driver[p]
        /\ driver'[q].startedAt = driver[q].startedAt /\ driver'[q].todo = driver[q].todo
        /\ driver'[q].messages = driver[q].messages
        /\ driver'[q].pc = Outcome(q)
    BY <1>1, <1>4, <2>1, Zenon DEF ExtractResults, DriverType, PcType
  <2>3. Extracted(q, driver'[q])
    BY <2>2, Zenon DEF Extracted, Outcome
  <2> QED BY <1>1, <2>1, <2>2, <2>3, DriverMoved, Zenon DEF OwnDriver
<1>5. CASE Return(q)
  <2>1. now' = now /\ driver[q].pc = "closing"
    BY <1>5, Zenon DEF Return
  <2>2. /\ driver' \in [Queries -> DriverType]
        /\ \A p \in Queries \ {q} : driver'[p] = driver[p]
        /\ driver'[q].startedAt = driver[q].startedAt /\ driver'[q].todo = driver[q].todo
        /\ driver'[q].messages = driver[q].messages
    BY <1>1, <1>5, Zenon DEF Return, DriverType, PcType
  <2>3. Extracted(q, driver'[q])
    BY <1>1, <2>1, <2>2, Zenon DEF OwnDriver, Extracted
  <2> QED BY <1>1, <2>1, <2>2, <2>3, DriverMoved, Zenon DEF OwnDriver
<1> QED BY <1>2, <1>3, <1>4, <1>5, Zenon

(* The driver invokes functions. *)
LEMMA InvokeSteps ==
    ASSUME OwnDrivers, OwnEvents, NEW q \in Queries, InvokeRange(q) \/ InvokeFails(q)
    PROVE  OwnDrivers' /\ OwnEvents'
<1>1. /\ driver \in [Queries -> DriverType] /\ now \in Nat /\ driver[q] \in DriverType
      /\ OwnDriver(q, driver[q])
  BY Zenon DEF OwnDrivers
<1>2. now' = now
  BY Zenon DEF InvokeRange, InvokeFails
<1>3. ASSUME NEW T \in SUBSET driver[q].todo, NEW pc \in {"invoking", "raised"},
             \/ driver' = [driver EXCEPT ![q].todo = T, ![q].pc = pc]
             \/ driver' = [driver EXCEPT ![q].todo = T] /\ driver[q].pc = "invoking"
      PROVE  OwnDrivers'
  <2>1. T \in SUBSET (Nat \X Nat)
    BY <1>1, Zenon DEF DriverType
  <2>2. /\ driver' \in [Queries -> DriverType]
        /\ \A p \in Queries \ {q} : driver'[p] = driver[p]
        /\ driver'[q].startedAt = driver[q].startedAt /\ driver'[q].todo = T
        /\ driver'[q].messages = driver[q].messages
        /\ driver'[q].pc \in {"invoking", "raised"}
    BY <1>1, <1>3, <2>1 DEF DriverType, PcType
  <2>3. Extracted(q, driver'[q])
    BY <2>2, Zenon DEF Extracted
  <2> QED BY <1>1, <1>2, <2>2, <2>3, DriverMoved, Zenon DEF OwnDriver
<1>4. ASSUME NEW R \in SUBSET driver[q].todo,
             events' \subseteq events \cup {RangeEvent(q, r) : r \in R}
      PROVE  OwnEvents'
  <2>1. \A r \in R : OwnEvent(RangeEvent(q, r))
    BY <1>1, RangeEventOwn, Zenon DEF OwnDriver
  <2>2. \A e \in events' : OwnEvent(e)
    BY <1>4, <2>1, Zenon DEF OwnEvents
  <2> QED BY <2>2, Zenon DEF OwnEvents, OwnEvent
<1>5. CASE InvokeRange(q)
  <2>1. PICK r \in driver[q].todo :
          /\ driver' = [driver EXCEPT ![q].todo = @ \ {r}]
          /\ events' = events \cup {RangeEvent(q, r)}
    BY <1>5, Zenon DEF InvokeRange
  <2>2. OwnDrivers'
    <3> DEFINE T == driver[q].todo \ {r}
    <3>1. T \in SUBSET driver[q].todo /\ driver' = [driver EXCEPT ![q].todo = T]
      BY <2>1, Zenon
    <3>2. driver[q].pc = "invoking"
      BY <1>5, Zenon DEF InvokeRange
    <3> HIDE DEF T
    <3> QED BY <1>3, <3>1, <3>2, Zenon
  <2>3. events' \subseteq events \cup {RangeEvent(q, x) : x \in {r}}
    BY <2>1, Zenon
  <2>4. OwnEvents'
    BY <1>4, <2>3, Zenon
  <2> QED BY <2>2, <2>4, Zenon
<1>6. CASE InvokeFails(q)
  <2>1. PICK begun \in SUBSET driver[q].todo :
          /\ driver' = [driver EXCEPT ![q].todo = {}, ![q].pc = "raised"]
          /\ events' = events \cup {RangeEvent(q, b) : b \in begun}
    BY <1>6, Zenon DEF InvokeFails
  <2>2. OwnDrivers'
    BY <1>3, <2>1, Zenon
  <2>3. OwnEvents'
    BY <1>4, <2>1, Zenon
  <2> QED BY <2>2, <2>3, Zenon
<1> QED BY <1>5, <1>6, Zenon

(* The driver receives messages: those it keeps are of its own workers. *)
LEMMA FetchStep ==
    ASSUME OwnDrivers, OwnQueue, NEW q \in Queries, Fetch(q)
    PROVE  OwnDrivers' /\ OwnQueue'
<1>1. /\ driver \in [Queries -> DriverType] /\ now \in Nat /\ driver[q] \in DriverType
      /\ OwnDriver(q, driver[q])
  BY Zenon DEF OwnDrivers
<1>2. now' = now /\ driver[q].pc = "fetching"
  BY Zenon DEF Fetch, Fetching
<1>3. PICK batch, late, accepted :
        /\ batch \subseteq resultQueue /\ late \subseteq batch
        /\ accepted \in Accepted(q, batch)
        /\ driver' = [driver EXCEPT ![q].messages = Merged(accepted, @)]
        /\ resultQueue' = (resultQueue \ batch) \cup {[m EXCEPT !.again = TRUE] : m \in late}
  BY Zenon DEF Fetch
<1> DEFINE old == driver[q].messages
           new == Merged(accepted, old)
<1>4. OwnMessages(q, accepted)
  <2> DEFINE mine == {m \in batch : m.query = q}
             senders == {m.worker : m \in mine}
  <2>1. \A m \in mine : OwnMessage(m) /\ m.query = q
    BY <1>3, Zenon DEF OwnQueue
  <2>2. /\ accepted \in [senders -> {m.body : m \in mine}]
        /\ \A w \in senders : \E m \in mine : m.worker = w /\ m.body = accepted[w]
    BY <1>3, Zenon DEF Accepted
  <2> HIDE DEF mine
  <2>3. senders \in SUBSET Nat /\ \A m \in mine : m.body \in BodyType
    BY <2>1, Zenon DEF OwnMessage, MessageType
  <2>4. ASSUME NEW w \in senders
        PROVE  w \in workers(q) /\ accepted[w].input = inputs(q, w)
    <3>1. PICK m \in mine : m.worker = w /\ m.body = accepted[w]
      BY <2>2, Zenon
    <3> QED BY <2>1, <3>1, Zenon DEF OwnMessage
  <2> HIDE DEF senders
  <2>5. accepted \in [senders -> BodyType]
    BY <2>2, <2>3, Zenon
  <2>6. accepted \in MessagesType /\ DOMAIN accepted = senders
    BY <2>3, <2>5, Zenon DEF MessagesType
  <2> QED BY <2>4, <2>6, Zenon DEF OwnMessages
<1>5. OwnMessages(q, old)
  BY <1>1, Zenon DEF OwnDriver
<1>6. OwnMessages(q, new)
  <2>1. PICK S \in SUBSET Nat : old \in [S -> BodyType]
    BY <1>5, Zenon DEF OwnMessages, MessagesType
  <2>2. PICK T \in SUBSET Nat : accepted \in [T -> BodyType]
    BY <1>4, Zenon DEF OwnMessages, MessagesType
  <2>3. new = [w \in T \cup S |-> IF w \in T THEN accepted[w] ELSE old[w]]
    BY <2>1, <2>2, Zenon DEF Merged
  <2> HIDE DEF new, old
  <2>4. new \in [T \cup S -> BodyType]
    BY <2>1, <2>2, <2>3, Zenon
  <2>5. new \in MessagesType /\ DOMAIN new = T \cup S
    BY <2>1, <2>2, <2>4, Zenon DEF MessagesType
  <2>6. ASSUME NEW w \in T \cup S
        PROVE  w \in workers(q) /\ new[w].input = inputs(q, w)
    BY <1>4, <1>5, <2>1, <2>2, <2>3, Zenon DEF OwnMessages
  <2> QED BY <2>5, <2>6, Zenon DEF OwnMessages
<1>7. OwnDrivers'
  <2>1. new \in MessagesType
    BY <1>6, Zenon DEF OwnMessages
  <2>2. driver' = [driver EXCEPT ![q].messages = new]
    BY <1>3, Zenon
  <2> HIDE DEF new
  <2>3. /\ driver' \in [Queries -> DriverType]
        /\ \A p \in Queries \ {q} : driver'[p] = driver[p]
        /\ driver'[q].startedAt = driver[q].startedAt /\ driver'[q].todo = driver[q].todo
        /\ driver'[q].messages = new
        /\ driver'[q].pc = "fetching"
    BY <1>1, <1>2, <2>1, <2>2, Zenon DEF DriverType
  <2>4. Extracted(q, driver'[q])
    BY <2>3, Zenon DEF Extracted
  <2> QED BY <1>1, <1>2, <1>6, <2>3, <2>4, DriverMoved, Zenon DEF OwnDriver
<1>8. OwnQueue'
  <2>1. ASSUME NEW m, OwnMessage(m) PROVE OwnMessage([m EXCEPT !.again = TRUE])
    BY <2>1, Zenon DEF OwnMessage, MessageType
  <2>2. \A m \in batch : OwnMessage(m)
    BY <1>3, Zenon DEF OwnQueue
  <2>3. \A m \in resultQueue' : OwnMessage(m)
    BY <1>3, <2>1, <2>2, Zenon DEF OwnQueue
  <2> QED BY <2>3, Zenon DEF OwnQueue, OwnMessage
<1> QED BY <1>7, <1>8, Zenon

(* The steps of functions. *)
LEMMA FunctionSteps ==
    ASSUME OwnData,
           \/ \E e \in events : Start(e)
           \/ \E f \in running : RunFunction(f)
    PROVE  OwnData'
<1> USE DEF OwnData
<1>1. UNCHANGED <<now, driver>>
  BY Zenon DEF Start, StartFunction, StartLate, RunFunction, InvokeWorker, InvokeWorkerFails,
         RunRunner, RunnerFails, Finalize, FinalizeFails, Kill
<1>2. OwnDrivers' /\ now \in Nat
  BY <1>1, DriverSame, Zenon DEF OwnDrivers
<1>3. ASSUME \A e \in events' : OwnEvent(e) PROVE OwnEvents'
  BY <1>3, Zenon DEF OwnEvents, OwnEvent
<1>4. ASSUME \A f \in running' : OwnFunction(f) PROVE OwnFunctions'
  BY <1>4, Zenon DEF OwnFunctions, OwnFunction, OwnEvent
<1>5. ASSUME \A m \in resultQueue' : OwnMessage(m) PROVE OwnQueue'
  BY <1>5, Zenon DEF OwnQueue, OwnMessage
<1> HIDE DEF OwnData
<1>6. ASSUME NEW e \in events, Start(e) PROVE OwnData'
  <2>1. OwnEvent(e) /\ OwnEvents /\ OwnFunctions /\ OwnQueue /\ logs \in [Queries -> SUBSET Nat]
    BY Zenon DEF OwnData, OwnEvents
  <2>2. CASE StartFunction(e)
    <3> DEFINE f == [event |-> e, since |-> now, pc |-> "invoking",
                     todo |-> e.invocations, reported |-> FALSE]
    <3>1. OwnFunction(f)
      <4>1. e \in EventType /\ e.invocations \in SUBSET InvocationType
        BY <2>1, Zenon DEF OwnEvent, EventType
      <4>2. f \in FunctionType /\ f.event = e /\ f.todo = e.invocations
        BY <1>2, <4>1, Zenon DEF FunctionType
      <4> HIDE DEF f
      <4> QED BY <2>1, <4>2, Zenon DEF OwnFunction, OwnEvent
    <3>2. /\ running' = running \cup {f} /\ events' = events \ {e}
          /\ UNCHANGED <<resultQueue, logs>>
      BY <2>2, Zenon DEF StartFunction
    <3> HIDE DEF f
    <3>3. OwnFunctions'
      BY <1>4, <2>1, <3>1, <3>2, Zenon DEF OwnFunctions
    <3>4. OwnEvents'
      BY <1>3, <2>1, <3>2, Zenon DEF OwnEvents
    <3>5. OwnQueue' /\ logs' \in [Queries -> SUBSET Nat]
      BY <1>5, <2>1, <3>2, Zenon DEF OwnQueue
    <3> QED BY <1>2, <3>3, <3>4, <3>5, Zenon DEF OwnData
  <2>3. CASE StartLate(e)
    <3>1. /\ resultQueue' = resultQueue \cup {Message(e, "exception")}
          /\ FunctionError(e, events \ {e}) /\ UNCHANGED <<running, logs>>
      BY <2>3, Zenon DEF StartLate
    <3>2. events' \subseteq (events \ {e}) \cup {Retry(e)} /\ OwnEvent(Retry(e))
      BY <1>2, <2>1, <3>1, ErrorOwn, RetryOwn, Zenon
    <3>3. OwnMessage(Message(e, "exception"))
      BY <2>1, MessageOwn, Zenon
    <3>4. OwnEvents'
      BY <1>3, <2>1, <3>2, Zenon DEF OwnEvents
    <3>5. OwnQueue'
      BY <1>5, <2>1, <3>1, <3>3, Zenon DEF OwnQueue
    <3>6. OwnFunctions' /\ logs' \in [Queries -> SUBSET Nat]
      BY <1>4, <2>1, <3>1, Zenon DEF OwnFunctions
    <3> QED BY <1>2, <3>4, <3>5, <3>6, Zenon DEF OwnData
  <2> QED BY <1>6, <2>2, <2>3, Zenon DEF Start
<1>7. ASSUME NEW f \in running, RunFunction(f) PROVE OwnData'
  <2> DEFINE e == f.event
  <2>1. /\ OwnFunction(f) /\ OwnEvent(e)
        /\ OwnEvents /\ OwnFunctions /\ OwnQueue /\ logs \in [Queries -> SUBSET Nat]
    BY Zenon DEF OwnData, OwnFunctions, OwnFunction
  <2>2. \A i \in f.todo : i \in InvocationType /\ OwnInvocation(e.query, i)
    BY <2>1, Zenon DEF OwnFunction, FunctionType
  <2>3. \A i \in f.todo : OwnEvent(InvocationEvent(e, i))
    BY <1>2, <2>1, <2>2, InvocationEventOwn, Zenon
  <2>4. OwnEvent(Retry(e))
    BY <1>2, <2>1, RetryOwn, Zenon
  <2>5. \A kind \in {"output", "exception"} : OwnMessage(Message(e, kind))
    BY <2>1, MessageOwn, Zenon
  <2>6. /\ \A T \in SUBSET f.todo :
             /\ OwnFunction([f EXCEPT !.todo = T])
             /\ OwnFunction([f EXCEPT !.todo = T, !.pc = "finalizing", !.reported = TRUE])
        /\ OwnFunction([f EXCEPT !.pc = "finalizing"])
        /\ OwnFunction([f EXCEPT !.pc = "finalizing", !.reported = TRUE])
        /\ OwnFunction([f EXCEPT !.reported = TRUE])
    BY <2>1, FunctionMoved, Zenon
  <2>7. events' \subseteq events \cup {InvocationEvent(e, i) : i \in f.todo} \cup {Retry(e)}
    <3>1. CASE InvokeWorker(f) \/ InvokeWorkerFails(f)
      <4>1. \E I \in SUBSET f.todo : events' = events \cup {InvocationEvent(e, i) : i \in I}
        <5>1. CASE InvokeWorker(f)
          <6>1. PICK i \in f.todo : events' = events \cup {InvocationEvent(e, i)}
            BY <5>1, Zenon DEF InvokeWorker
          <6> QED BY <6>1, Zenon
        <5>2. CASE InvokeWorkerFails(f)
          <6>1. PICK i \in f.todo : \E I \in SUBSET (f.todo \ {i}) :
                  events' = events \cup {InvocationEvent(e, b) : b \in I}
            BY <5>2, Zenon DEF InvokeWorkerFails
          <6> QED BY <6>1, Zenon
        <5> QED BY <3>1, <5>1, <5>2, Zenon
      <4> QED BY <4>1, Zenon
    <3>2. CASE RunRunner(f) \/ RunnerFails(f) \/ Finalize(f)
      BY <3>2, Zenon DEF RunRunner, RunnerFails, Finalize
    <3>3. CASE FinalizeFails(f)
      BY <3>3, ErrorOwn, Zenon DEF FinalizeFails
    <3>4. CASE Kill(f)
      BY <3>4, ErrorOwn, Zenon DEF Kill
    <3> QED BY <1>7, <3>1, <3>2, <3>3, <3>4, Zenon DEF RunFunction
  <2>8. resultQueue' \subseteq
            resultQueue \cup {Message(e, kind) : kind \in {"output", "exception"}}
    <3>1. CASE InvokeWorkerFails(f)
      BY <3>1, ReturnResultOwn, Zenon DEF InvokeWorkerFails
    <3>2. CASE RunRunner(f) \/ RunnerFails(f)
      BY <3>2, ReturnResultOwn, Zenon DEF RunRunner, RunnerFails
    <3>3. CASE FinalizeFails(f)
      BY <3>3, ReturnResultOwn, Zenon DEF FinalizeFails
    <3>4. CASE InvokeWorker(f) \/ Finalize(f) \/ Kill(f)
      BY <3>4, Zenon DEF InvokeWorker, Finalize, Kill
    <3> QED BY <1>7, <3>1, <3>2, <3>3, <3>4, Zenon DEF RunFunction
  <2>9. ASSUME NEW g \in running' PROVE g \in running \/ OwnFunction(g)
    <3>1. CASE InvokeWorker(f)
      <4>1. PICK i \in f.todo : Move(f, [f EXCEPT !.todo = @ \ {i}])
        BY <3>1, Zenon DEF InvokeWorker
      <4>2. OwnFunction([f EXCEPT !.todo = f.todo \ {i}])
        BY <2>6, Zenon
      <4> QED BY <2>9, <4>1, <4>2, Zenon DEF Move
    <3>2. CASE InvokeWorkerFails(f)
      BY <2>6, <2>9, <3>2, Zenon DEF InvokeWorkerFails, Move
    <3>3. CASE RunRunner(f) \/ RunnerFails(f)
      BY <2>6, <2>9, <3>3, Zenon DEF RunRunner, RunnerFails, Move
    <3>4. CASE FinalizeFails(f)
      BY <2>6, <2>9, <3>4, Zenon DEF FinalizeFails, Move
    <3>5. CASE Finalize(f) \/ Kill(f)
      BY <2>9, <3>5, Zenon DEF Finalize, Kill
    <3> QED BY <1>7, <3>1, <3>2, <3>3, <3>4, <3>5, Zenon DEF RunFunction
  <2>10. logs' \in [Queries -> SUBSET Nat]
    <3>1. CASE Finalize(f)
      <4>1. e.query \in Queries /\ e.worker \in Nat
        BY <2>1, Zenon DEF OwnEvent, EventType
      <4> QED BY <2>1, <3>1, <4>1, Zenon DEF Finalize
    <3>2. CASE ~Finalize(f)
      BY <1>7, <2>1, <3>2, Zenon DEF RunFunction, InvokeWorker, InvokeWorkerFails, RunRunner,
                              RunnerFails, FinalizeFails, Kill
    <3> QED BY <3>1, <3>2, Zenon
  <2>11. OwnEvents'
    BY <1>3, <2>1, <2>3, <2>4, <2>7, Zenon DEF OwnEvents
  <2>12. OwnQueue'
    BY <1>5, <2>1, <2>5, <2>8, Zenon DEF OwnQueue
  <2>13. OwnFunctions'
    BY <1>4, <2>1, <2>9, Zenon DEF OwnFunctions
  <2> QED BY <1>2, <2>10, <2>11, <2>12, <2>13, Zenon DEF OwnData
<1> QED BY <1>6, <1>7, Zenon

LEMMA OwnDataInit == Init => OwnData
<1> SUFFICES ASSUME Init PROVE OwnData
  BY Zenon
<1> DEFINE none == [w \in {} |-> {}]
           idle == [pc |-> "idle", startedAt |-> 0, since |-> 0, todo |-> {},
                    messages |-> none, deadletters |-> FALSE, downloaded |-> {}]
<1>1. none \in MessagesType /\ DOMAIN none = {}
  <2>1. none \in [{} -> BodyType]
    BY Zenon
  <2>2. {} \in SUBSET Nat
    BY Zenon
  <2> HIDE DEF none
  <2> QED BY <2>1, <2>2, Zenon DEF MessagesType
<1>2. now = 0 /\ driver = [q \in Queries |-> idle]
  BY Zenon DEF Init
<1> HIDE DEF none
<1>3. idle \in DriverType
  BY <1>1, Zenon DEF DriverType, PcType
<1>4. ASSUME NEW q \in Queries PROVE OwnDriver(q, driver[q])
  <2>1. driver[q] = idle
    BY <1>2, Zenon
  <2>2. OwnMessages(q, none)
    BY <1>1, Zenon DEF OwnMessages
  <2> QED BY <1>2, <1>3, <2>1, <2>2 DEF OwnDriver, Extracted
<1>5. OwnDrivers
  <2> HIDE DEF idle
  <2> QED BY <1>2, <1>3, <1>4, Zenon DEF OwnDrivers
<1>6. OwnEvents /\ OwnFunctions /\ OwnQueue /\ logs \in [Queries -> SUBSET Nat]
  BY Zenon DEF Init, OwnEvents, OwnFunctions, OwnQueue
<1> QED BY <1>5, <1>6, Zenon DEF OwnData

(* Events, functions and messages carry the data of one worker of one query, and a
   driver keeps messages of its own query only. *)
LEMMA OwnDataStep == OwnData /\ [Next]_vars => OwnData'
<1> SUFFICES ASSUME OwnData, [Next]_vars PROVE OwnData'
  BY Zenon
<1>1. OwnDrivers /\ OwnEvents /\ OwnFunctions /\ OwnQueue /\ logs \in [Queries -> SUBSET Nat]
  BY Zenon DEF OwnData
<1>2. events' = events => OwnEvents'
  BY <1>1, Zenon DEF OwnEvents, OwnEvent
<1>3. running' = running => OwnFunctions'
  BY <1>1, Zenon DEF OwnFunctions, OwnFunction, OwnEvent
<1>4. resultQueue' = resultQueue => OwnQueue'
  BY <1>1, Zenon DEF OwnQueue, OwnMessage
<1>5. ASSUME NEW q \in Queries,
             \/ StartQuery(q) \/ StartFetch(q) \/ EndFetch(q) \/ FetchDeadletters(q)
             \/ DownloadLogs(q) \/ ExtractResults(q) \/ Return(q)
      PROVE  OwnData'
  <2>1. UNCHANGED <<events, running, resultQueue, logs>>
    BY <1>5, Zenon DEF StartQuery, StartFetch, EndFetch, FetchDeadletters, DownloadLogs,
                ExtractResults, Return
  <2>2. OwnDrivers'
    BY <1>1, <1>5, DriverSteps, Zenon
  <2> QED BY <1>1, <1>2, <1>3, <1>4, <2>1, <2>2, Zenon DEF OwnData
<1>6. ASSUME NEW q \in Queries, InvokeRange(q) \/ InvokeFails(q) PROVE OwnData'
  <2>1. UNCHANGED <<running, resultQueue, logs>>
    BY <1>6, Zenon DEF InvokeRange, InvokeFails
  <2>2. OwnDrivers' /\ OwnEvents'
    BY <1>1, <1>6, InvokeSteps, Zenon
  <2> QED BY <1>1, <1>3, <1>4, <2>1, <2>2, Zenon DEF OwnData
<1>7. ASSUME NEW q \in Queries, Fetch(q) PROVE OwnData'
  <2>1. UNCHANGED <<events, running, logs>>
    BY <1>7, Zenon DEF Fetch
  <2>2. OwnDrivers' /\ OwnQueue'
    BY <1>1, <1>7, FetchStep, Zenon
  <2> QED BY <1>1, <1>2, <1>3, <2>1, <2>2, Zenon DEF OwnData
<1>8. CASE (\E e \in events : Start(e)) \/ (\E f \in running : RunFunction(f))
  BY <1>8, FunctionSteps, Zenon
<1>9. CASE Tick
  <2>1. now' = now + 1 /\ UNCHANGED <<driver, events, running, resultQueue, logs>>
    BY <1>9, Zenon DEF Tick
  <2>2. ASSUME NEW q \in Queries PROVE OwnDriver(q, driver[q])'
    <3>1. /\ OwnDriver(q, driver[q]) /\ now \in Nat
          /\ driver[q].startedAt \in Nat /\ driver'[q] = driver[q]
      BY <1>1, <2>1, Zenon DEF OwnDrivers, OwnDriver, DriverType
    <3>2. driver[q].startedAt <= now + 1
      BY <3>1 DEF OwnDriver
    <3> QED BY <2>1, <3>1, <3>2, Zenon DEF OwnDriver, OwnMessages, Extracted
  <2>3. OwnDrivers'
    BY <1>1, <2>1, <2>2 DEF OwnDrivers
  <2> QED BY <1>1, <1>2, <1>3, <1>4, <2>1, <2>3, Zenon DEF OwnData
<1>10. CASE UNCHANGED vars
  <2>1. UNCHANGED <<now, driver, events, running, resultQueue, logs>>
    BY <1>10, Zenon DEF vars
  <2>2. OwnDrivers'
    BY <1>1, <2>1, DriverSame, Zenon
  <2> QED BY <1>1, <1>2, <1>3, <1>4, <2>1, <2>2, Zenon DEF OwnData
<1> QED BY <1>5, <1>6, <1>7, <1>8, <1>9, <1>10, Zenon DEF Next, RunQuery

(* Data of different queries and workers is never mixed up. *)
THEOREM DataIsOwn == Spec => []OwnData
BY OwnDataInit, OwnDataStep, PTL DEF Spec

(* As many messages as workers, all of distinct workers of the query, are one of each. *)
LEMMA OwnDataComplete == OwnData => ReturnedComplete
<1> SUFFICES ASSUME OwnData, NEW q \in Queries, driver[q].pc = "returned"
             PROVE  driver[q].messages =
                        [w \in workers(q) |-> [kind |-> "output", input |-> inputs(q, w)]]
  BY Zenon DEF ReturnedComplete
<1> DEFINE ms == driver[q].messages
<1>1. OwnDriver(q, driver[q])
  BY Zenon DEF OwnData, OwnDrivers
<1>2. /\ OwnMessages(q, ms) /\ Cardinality(DOMAIN ms) = NumWorkers[q]
      /\ \A w \in DOMAIN ms : ms[w].kind # "exception"
  BY <1>1, Zenon DEF OwnDriver, Extracted
<1> HIDE DEF ms
<1>3. NumWorkers[q] \in Nat
  BY NumWorkersAssumption, Zenon
<1>4. IsFiniteSet(workers(q)) /\ Cardinality(workers(q)) = NumWorkers[q]
  <2>1. NumWorkers[q] - 1 \in Int
    BY <1>3
  <2>2. /\ IsFiniteSet(0 .. NumWorkers[q] - 1)
        /\ Cardinality(0 .. NumWorkers[q] - 1)
             = IF 0 > NumWorkers[q] - 1 THEN 0 ELSE NumWorkers[q] - 1 - 0 + 1
    BY <2>1, FS_Interval
  <2> QED BY <1>3, <2>2 DEF workers
<1>5. DOMAIN ms \in SUBSET workers(q)
  BY <1>2, Zenon DEF OwnMessages
<1>6. DOMAIN ms = workers(q)
  BY <1>2, <1>4, <1>5, FS_Subset, Zenon
<1>7. PICK S : ms \in [S -> BodyType]
  BY <1>2, Zenon DEF OwnMessages, MessagesType
<1>8. ASSUME NEW w \in workers(q)
      PROVE  ms[w] = [kind |-> "output", input |-> inputs(q, w)]
  <2>1. ms[w] \in BodyType /\ ms[w].kind # "exception" /\ ms[w].input = inputs(q, w)
    BY <1>2, <1>6, <1>7, Zenon DEF OwnMessages
  <2> QED BY <2>1, Zenon DEF BodyType
<1>9. ms = [w \in workers(q) |-> [kind |-> "output", input |-> inputs(q, w)]]
  BY <1>6, <1>7, <1>8, Zenon
<1> QED BY <1>9, Zenon DEF ms

(* A query that returns has one output of each of its workers, of this query and of
   that worker's input (driver.fetch_results, extract_results, run_query). *)
THEOREM ReturnsComplete == Spec => []ReturnedComplete
BY DataIsOwn, OwnDataComplete, PTL

-----------------------------------------------------------------------------
(* Who may still invoke whom: the second part of the invariant *)

Claim(kind, q, holder, ws) == [kind |-> kind, query |-> q, holder |-> holder, workers |-> ws]

RangeWorkers(r) == r[1] .. r[2] - 1

Invokees(invocations) == {i[1] : i \in invocations}

\* The workers a query will invoke once it runs, ...
IdleClaim(q) == Claim("idle", q, q, workers(q))

\* ... those the driver's calls of run_lambda are about, ...
DriverClaim(q, r) == Claim("driver", q, r, RangeWorkers(r))

\* ... those a function will invoke when it starts, ...
EventClaim(e) == Claim("event", e.query, e, Invokees(e.invocations))

\* ... and those a function is about to invoke.
FunctionClaim(f) == Claim("function", f.event.query, f, Invokees(f.todo))

IdleClaims == {IdleClaim(q) : q \in {p \in Queries : driver[p].pc = "idle"}}

DriverClaims == UNION {{DriverClaim(q, r) : r \in driver[q].todo} : q \in Queries}

\* A function Lambda starts again is late and invokes nobody, hence claims nothing.
EventClaims == {EventClaim(e) : e \in {x \in events : x.attempt = 1}}

FunctionClaims == {FunctionClaim(f) : f \in running}

Claims == IdleClaims \cup DriverClaims \cup EventClaims \cup FunctionClaims

Disjoint(C) ==
    \A c, d \in C : c # d => c.query # d.query \/ c.workers \cap d.workers = {}

\* Nobody is claimed twice, and whoever is claimed has not been invoked.
ClaimsHold(C, count) ==
    /\ Disjoint(C)
    /\ \A c \in C : \A w \in c.workers : count[c.query][w] = 0
    /\ \A q \in Queries : \A w \in workers(q) : count[q][w] \in 0..1

CountType == {k \in [Queries -> UNION {[workers(q) -> Nat] : q \in Queries}] :
                \A q \in Queries : k[q] \in [workers(q) -> Nat]}

\* What Lambda starts again will be late, and nothing happens to a query before it starts.
Retried ==
    /\ \A e \in events :
          /\ driver[e.query].pc # "idle"
          /\ e.attempt > 1 => e.ready > driver[e.query].startedAt + StartupMaxDelay
    /\ \A f \in running : driver[f.event.query].pc # "idle"

ClaimsInv ==
    /\ OwnData
    /\ invoked \in CountType
    /\ Retried
    /\ ClaimsHold(Claims, invoked)

(* Claims handed on: those in A, of query q and to the workers aw, are given up. In their
   place come the claims in B, to workers in aw except for the ones in ws, who are invoked. *)
HandedOn(q, A, aw, ws, B, C, D, count, count2) ==
    /\ A \subseteq C /\ (\A a \in A : a.query = q) /\ aw = UNION {a.workers : a \in A}
    /\ ws \subseteq aw
    /\ Disjoint(B) /\ \A b \in B : b.query = q /\ b.workers \subseteq aw \ ws
    /\ D \subseteq (C \ A) \cup B
    /\ \A p \in Queries : \A w \in workers(p) :
          count2[p][w] = IF p = q /\ w \in ws THEN count[p][w] + 1 ELSE count[p][w]

LEMMA HandOn ==
    ASSUME NEW C, NEW count, ClaimsHold(C, count),
           \A c \in C : c.query \in Queries /\ c.workers \subseteq workers(c.query),
           NEW q \in Queries, NEW A, NEW aw, NEW ws, NEW B, NEW D, NEW count2,
           HandedOn(q, A, aw, ws, B, C, D, count, count2)
    PROVE  ClaimsHold(D, count2)
<1> USE DEF HandedOn
<1>1. \A c \in C \ A : c.query # q \/ c.workers \cap aw = {}
  BY DEF ClaimsHold, Disjoint
<1>2. \A w \in aw : w \in workers(q) /\ count[q][w] = 0
  BY DEF ClaimsHold
<1>3. \A b \in B : b.query = q /\ b.workers \subseteq aw \ ws
  BY Zenon
<1>4. ws \subseteq aw
  BY Zenon
<1>5. Disjoint(D)
  <2> SUFFICES ASSUME NEW c \in D, NEW d \in D, c # d
               PROVE  c.query # d.query \/ c.workers \cap d.workers = {}
    BY Zenon DEF Disjoint
  <2>1. CASE c \in C \ A /\ d \in C \ A
    BY <2>1, Zenon DEF ClaimsHold, Disjoint
  <2>2. CASE c \in B /\ d \in B
    BY <2>2, Zenon DEF Disjoint
  <2>3. CASE c \in C \ A /\ d \in B
    BY <1>1, <1>3, <2>3, Zenon
  <2>4. CASE c \in B /\ d \in C \ A
    BY <1>1, <1>3, <2>4, Zenon
  <2> QED BY <2>1, <2>2, <2>3, <2>4, Zenon
<1>6. ASSUME NEW c \in D, NEW w \in c.workers PROVE count2[c.query][w] = 0
  <2>1. CASE c \in C \ A
    <3>1. c.query \in Queries /\ w \in workers(c.query) /\ count[c.query][w] = 0
      BY <1>6, <2>1, Zenon DEF ClaimsHold
    <3>2. c.query # q \/ w \notin ws
      BY <1>1, <1>4, <1>6, <2>1, Zenon
    <3> QED BY <3>1, <3>2, Zenon
  <2>2. CASE c \in B
    <3>1. c.query = q /\ w \in aw /\ w \notin ws
      BY <1>3, <1>6, <2>2, Zenon
    <3> QED BY <1>2, <3>1, Zenon
  <2> QED BY <2>1, <2>2, Zenon
<1>7. ASSUME NEW p \in Queries, NEW w \in workers(p) PROVE count2[p][w] \in 0..1
  <2>1. count[p][w] \in 0..1
    BY Zenon DEF ClaimsHold
  <2>2. CASE p = q /\ w \in ws
    BY <1>2, <1>4, <2>2
  <2>3. CASE ~(p = q /\ w \in ws)
    BY <2>1, <2>3, Zenon
  <2> QED BY <2>2, <2>3, Zenon
<1> QED BY <1>5, <1>6, <1>7, Zenon DEF ClaimsHold

(* The counts after the workers in ws have been invoked. *)
LEMMA CountStep ==
    ASSUME invoked \in CountType, NEW q \in Queries, NEW ws, Count(q, ws)
    PROVE  /\ invoked' \in CountType
           /\ \A p \in Queries : \A w \in workers(p) :
                invoked'[p][w] = IF p = q /\ w \in ws THEN invoked[p][w] + 1 ELSE invoked[p][w]
<1>1. /\ invoked \in [Queries -> UNION {[workers(p) -> Nat] : p \in Queries}]
      /\ \A p \in Queries : invoked[p] \in [workers(p) -> Nat]
  BY Zenon DEF CountType
<1> DEFINE new == [w \in DOMAIN invoked[q] |-> IF w \in ws THEN invoked[q][w] + 1
                                                            ELSE invoked[q][w]]
<1>2. invoked' = [invoked EXCEPT ![q] = new]
  BY Zenon DEF Count
<1>3. new \in [workers(q) -> Nat] /\ DOMAIN invoked[q] = workers(q)
  BY <1>1
<1>4. \A w \in workers(q) : new[w] = IF w \in ws THEN invoked[q][w] + 1 ELSE invoked[q][w]
  BY <1>3, Zenon
<1> HIDE DEF new
<1>5. new \in UNION {[workers(p) -> Nat] : p \in Queries}
  BY <1>3, Zenon
<1> DEFINE Counts == UNION {[workers(p) -> Nat] : p \in Queries}
<1> HIDE DEF Counts
<1>6. invoked \in [Queries -> Counts] /\ new \in Counts
  BY <1>1, <1>5, Zenon DEF Counts
<1>7. /\ invoked' \in [Queries -> Counts] /\ invoked'[q] = new
      /\ \A p \in Queries \ {q} : invoked'[p] = invoked[p]
  BY <1>2, <1>6, Zenon
<1>8. invoked' \in CountType
  BY <1>1, <1>3, <1>7, Zenon DEF CountType, Counts
<1> QED BY <1>4, <1>7, <1>8, Zenon

(* Claims of different kinds, queries or holders differ. *)
LEMMA ClaimFields ==
    ASSUME NEW kind, NEW q, NEW holder, NEW ws
    PROVE  /\ Claim(kind, q, holder, ws).kind = kind
           /\ Claim(kind, q, holder, ws).query = q
           /\ Claim(kind, q, holder, ws).holder = holder
           /\ Claim(kind, q, holder, ws).workers = ws
BY Zenon DEF Claim

LEMMA ClaimKinds ==
    /\ \A c \in IdleClaims : c.kind = "idle"
    /\ \A c \in DriverClaims : c.kind = "driver"
    /\ \A c \in EventClaims : c.kind = "event"
    /\ \A c \in FunctionClaims : c.kind = "function"
BY ClaimFields DEF IdleClaims, DriverClaims, EventClaims, FunctionClaims,
                   IdleClaim, DriverClaim, EventClaim, FunctionClaim

(* A query's ranges of workers, and hence its claims, are made of its workers. *)
LEMMA RangeFacts ==
    ASSUME NEW q \in Queries, NEW r \in worker_ranges(NumWorkers[q])
    PROVE  /\ r[1] \in Nat /\ r[2] \in Nat /\ r[1] < r[2]
           /\ RangeWorkers(r) \subseteq workers(q)
           /\ r[1] \in RangeWorkers(r)
<1>1. NumWorkers[q] \in Nat
  BY NumWorkersAssumption, Zenon
<1>2. r \in Nat \X Nat /\ r[1] < r[2] /\ r[2] <= NumWorkers[q]
  BY <1>1, WorkerRanges, Zenon
<1> QED BY <1>1, <1>2 DEF RangeWorkers, workers

LEMMA RangesApart ==
    ASSUME NEW q \in Queries, NEW r \in worker_ranges(NumWorkers[q]),
           NEW s \in worker_ranges(NumWorkers[q]), r # s
    PROVE  RangeWorkers(r) \cap RangeWorkers(s) = {}
<1>1. Apart(r, s)
  BY NumWorkersAssumption, WorkerRanges, Zenon
<1>2. r[1] \in Nat /\ r[2] \in Nat /\ s[1] \in Nat /\ s[2] \in Nat
  BY RangeFacts, Zenon
<1> QED BY <1>1, <1>2 DEF Apart, RangeWorkers

LEMMA ClaimsOwn ==
    ASSUME OwnData
    PROVE  \A c \in Claims : c.query \in Queries /\ c.workers \subseteq workers(c.query)
<1>1. ASSUME NEW q \in Queries, NEW r \in driver[q].todo
      PROVE  RangeWorkers(r) \subseteq workers(q)
  BY <1>1, RangeFacts, Zenon DEF OwnData, OwnDrivers, OwnDriver
<1>2. ASSUME NEW e \in events
      PROVE  e.query \in Queries /\ Invokees(e.invocations) \subseteq workers(e.query)
  BY <1>2, Zenon DEF OwnData, OwnEvents, OwnEvent, EventType, OwnInvocation, Invokees
<1>3. ASSUME NEW f \in running
      PROVE  f.event.query \in Queries /\ Invokees(f.todo) \subseteq workers(f.event.query)
  BY <1>3, Zenon DEF OwnData, OwnFunctions, OwnFunction, OwnEvent, EventType, OwnInvocation, Invokees
<1>4. \A c \in IdleClaims : c.query \in Queries /\ c.workers \subseteq workers(c.query)
  BY ClaimFields DEF IdleClaims, IdleClaim
<1>5. \A c \in DriverClaims : c.query \in Queries /\ c.workers \subseteq workers(c.query)
  BY <1>1, ClaimFields DEF DriverClaims, DriverClaim
<1>6. \A c \in EventClaims : c.query \in Queries /\ c.workers \subseteq workers(c.query)
  BY <1>2, ClaimFields DEF EventClaims, EventClaim
<1>7. \A c \in FunctionClaims : c.query \in Queries /\ c.workers \subseteq workers(c.query)
  BY <1>3, ClaimFields DEF FunctionClaims, FunctionClaim
<1> QED BY <1>4, <1>5, <1>6, <1>7, Zenon DEF Claims

(* Giving up claims is harmless. *)
LEMMA GiveUp ==
    ASSUME ClaimsHold(Claims, invoked), Claims' \subseteq Claims, invoked' = invoked
    PROVE  ClaimsHold(Claims, invoked)'
BY Zenon DEF ClaimsHold, Disjoint

(* How claims follow the state. *)
LEMMA IdleClaimsStep ==
    ASSUME \A q \in Queries : driver'[q].pc = "idle" => driver[q].pc = "idle"
    PROVE  IdleClaims' \subseteq IdleClaims
BY Zenon DEF IdleClaims, IdleClaim, Claim

LEMMA DriverClaimsStep ==
    ASSUME \A q \in Queries : driver'[q].todo \subseteq driver[q].todo
    PROVE  DriverClaims' \subseteq DriverClaims
BY DEF DriverClaims, DriverClaim, Claim, RangeWorkers

LEMMA EventClaimsStep ==
    ASSUME NEW E, events' \subseteq events \cup E
    PROVE  EventClaims' \subseteq EventClaims \cup {EventClaim(e) : e \in {x \in E : x.attempt = 1}}
BY Zenon DEF EventClaims, EventClaim, Claim, Invokees

LEMMA FunctionClaimsStep ==
    ASSUME NEW F, running' \subseteq running \cup F
    PROVE  FunctionClaims' \subseteq FunctionClaims \cup {FunctionClaim(f) : f \in F}
BY Zenon DEF FunctionClaims, FunctionClaim, Claim, Invokees

(* What no step but the first of a query changes in its driver. *)
DriverKept ==
    \A p \in Queries :
        /\ driver'[p].startedAt = driver[p].startedAt
        /\ driver'[p].pc = "idle" <=> driver[p].pc = "idle"
        /\ driver'[p].todo \subseteq driver[p].todo

LEMMA RunQueryKeeps ==
    ASSUME OwnData, NEW q \in Queries, RunQuery(q)
    PROVE  DriverKept
<1>1. driver \in [Queries -> DriverType] /\ driver[q] \in DriverType
  BY Zenon DEF OwnData, OwnDrivers
<1>2. CASE InvokeRange(q)
  <2>1. PICK r \in driver[q].todo : driver' = [driver EXCEPT ![q].todo = @ \ {r}]
    BY <1>2, Zenon DEF InvokeRange
  <2> QED BY <1>1, <2>1, Zenon DEF DriverKept, DriverType
<1>3. CASE InvokeFails(q)
  <2>1. /\ driver' = [driver EXCEPT ![q].todo = {}, ![q].pc = "raised"]
        /\ driver[q].pc = "invoking"
    BY <1>3, Zenon DEF InvokeFails
  <2> QED BY <1>1, <2>1, Zenon DEF DriverKept, DriverType
<1>4. CASE StartFetch(q)
  BY <1>1, <1>4, Zenon DEF StartFetch, DriverKept, DriverType
<1>5. CASE Fetch(q)
  <2>1. PICK ms : driver' = [driver EXCEPT ![q].messages = ms]
    BY <1>5, Zenon DEF Fetch
  <2> QED BY <1>1, <2>1, Zenon DEF DriverKept, DriverType
<1>6. CASE EndFetch(q)
  BY <1>1, <1>6, Zenon DEF EndFetch, DriverKept, DriverType
<1>7. CASE FetchDeadletters(q)
  BY <1>1, <1>7, Zenon DEF FetchDeadletters, DriverKept, DriverType
<1>8. CASE DownloadLogs(q)
  BY <1>1, <1>8, Zenon DEF DownloadLogs, DriverKept, DriverType
<1>9. CASE ExtractResults(q)
  <2>1. /\ driver' = [driver EXCEPT ![q].pc = Outcome(q)] /\ driver[q].pc = "logs"
        /\ Outcome(q) \in {"raised", "closing"}
    BY <1>9, Zenon DEF ExtractResults, Outcome
  <2> QED BY <1>1, <2>1, Zenon DEF DriverKept, DriverType
<1>10. CASE Return(q)
  BY <1>1, <1>10, Zenon DEF Return, DriverKept, DriverType
<1> QED BY <1>2, <1>3, <1>4, <1>5, <1>6, <1>7, <1>8, <1>9, <1>10, Zenon DEF RunQuery

(* While the drivers are kept, what is new must be of a query that runs, and what is
   started again late. *)
LEMMA RetriedKept ==
    ASSUME OwnData, Retried, DriverKept,
           NEW E, events' \subseteq events \cup E,
           \A e \in E : /\ e.query \in Queries /\ driver[e.query].pc # "idle"
                        /\ e.attempt > 1 =>
                             e.ready > driver[e.query].startedAt + StartupMaxDelay,
           \A f \in running' : f.event.query \in Queries /\ driver[f.event.query].pc # "idle"
    PROVE  Retried'
<1>1. \A e \in events : e.query \in Queries
  BY Zenon DEF OwnData, OwnEvents, OwnEvent, EventType
<1>2. ASSUME NEW e \in events'
      PROVE  /\ driver'[e.query].pc # "idle"
             /\ e.attempt > 1 => e.ready > driver'[e.query].startedAt + StartupMaxDelay
  BY <1>1, <1>2, Zenon DEF Retried, DriverKept
<1>3. \A f \in running' : driver'[f.event.query].pc # "idle"
  BY Zenon DEF DriverKept
<1> QED BY <1>2, <1>3, Zenon DEF Retried

LEMMA RunningQueries ==
    ASSUME OwnData, Retried
    PROVE  /\ \A e \in events : e.query \in Queries /\ driver[e.query].pc # "idle"
           /\ \A f \in running : f.event.query \in Queries /\ driver[f.event.query].pc # "idle"
BY Zenon DEF OwnData, OwnEvents, OwnFunctions, OwnFunction, OwnEvent, EventType, Retried

(* The event of a function Lambda starts again. *)
LEMMA RetryIsLate ==
    ASSUME OwnData, NEW e, OwnEvent(e), driver[e.query].pc # "idle"
    PROVE  LET x == Retry(e)
           IN  /\ x.query \in Queries /\ driver[x.query].pc # "idle" /\ x.attempt > 1
               /\ x.ready > driver[x.query].startedAt + StartupMaxDelay
<1>1. now \in Nat /\ e.query \in Queries
  BY Zenon DEF OwnData, OwnDrivers, OwnEvent, EventType
<1>2. driver[e.query].startedAt \in Nat /\ driver[e.query].startedAt <= now
  BY <1>1, Zenon DEF OwnData, OwnDrivers, OwnDriver, DriverType
<1>3. now + RetryDelay > driver[e.query].startedAt + StartupMaxDelay
  BY <1>1, <1>2, DelayAssumption
<1>4. /\ Retry(e).query = e.query /\ Retry(e).attempt > 1
      /\ Retry(e).ready = now + RetryDelay
  BY <1>1, RetryOwn, Zenon
<1> QED BY <1>1, <1>3, <1>4, Zenon

(* A function that is not late is started for the first time. *)
LEMMA InTimeIsFirst ==
    ASSUME OwnData, Retried, NEW e \in events, now >= e.ready, ~Late(e)
    PROVE  e.attempt = 1
<1>1. /\ now \in Nat /\ e.query \in Queries /\ e.attempt \in Nat \ {0} /\ e.ready \in Nat
      /\ driver[e.query].startedAt \in Nat
  BY Zenon DEF OwnData, OwnDrivers, OwnEvents, OwnEvent, EventType, DriverType
<1>2. e.attempt > 1 => e.ready > driver[e.query].startedAt + StartupMaxDelay
  BY Zenon DEF Retried
<1> QED BY <1>1, <1>2, DelayAssumption DEF Late

(* A query starts: its driver is to invoke whom nobody was to invoke before. *)
LEMMA StartQueryClaims ==
    ASSUME ClaimsInv, NEW q \in Queries, StartQuery(q)
    PROVE  invoked' \in CountType /\ Retried' /\ ClaimsHold(Claims, invoked)'
<1>1. OwnData /\ invoked \in CountType /\ Retried /\ ClaimsHold(Claims, invoked)
  BY Zenon DEF ClaimsInv
<1>2. driver \in [Queries -> DriverType] /\ driver[q] \in DriverType
  BY <1>1, Zenon DEF OwnData, OwnDrivers
<1> DEFINE ranges == worker_ranges(NumWorkers[q])
<1>3. /\ driver[q].pc = "idle" /\ UNCHANGED <<events, running, invoked>>
      /\ driver' = [driver EXCEPT ![q].pc = "invoking", ![q].startedAt = now,
                                  ![q].todo = ranges]
  BY Zenon DEF StartQuery
<1>4. \A r \in ranges : RangeWorkers(r) \subseteq workers(q)
  BY RangeFacts, Zenon
<1>5. \A r, t \in ranges : r # t => RangeWorkers(r) \cap RangeWorkers(t) = {}
  BY RangesApart, Zenon
<1> HIDE DEF ranges
<1>6. /\ driver'[q].pc = "invoking" /\ driver'[q].todo = ranges
      /\ \A p \in Queries \ {q} : driver'[p] = driver[p]
  BY <1>2, <1>3, Zenon DEF DriverType
<1>7. Retried'
  <2>1. \A e \in events : e.query \in Queries \ {q}
    BY <1>1, <1>3, RunningQueries, Zenon
  <2>2. \A f \in running : f.event.query \in Queries \ {q}
    BY <1>1, <1>3, RunningQueries, Zenon
  <2> QED BY <1>1, <1>3, <1>6, <2>1, <2>2, Zenon DEF Retried
<1> DEFINE A == {IdleClaim(q)}
           B == {DriverClaim(q, r) : r \in ranges}
<1>8. A \in SUBSET Claims
  BY <1>3, Zenon DEF Claims, IdleClaims
<1>9. \A a \in A : a.query = q
  BY ClaimFields DEF IdleClaim
<1>10. UNION {a.workers : a \in A} = workers(q)
  BY ClaimFields DEF IdleClaim
<1>11. Disjoint(B)
  BY <1>5, ClaimFields DEF Disjoint, DriverClaim
<1>12. \A b \in B : b.query = q /\ b.workers \subseteq workers(q) \ {}
  BY <1>4, ClaimFields DEF DriverClaim
<1>13. Claims' \in SUBSET ((Claims \ A) \cup B)
  <2>1. IdleClaims' \subseteq IdleClaims \ A
    <3> SUFFICES ASSUME NEW p \in Queries, driver'[p].pc = "idle"
                 PROVE  IdleClaim(p) \in IdleClaims \ A
      BY Zenon DEF IdleClaims, IdleClaim, Claim
    <3>1. p # q /\ driver[p].pc = "idle"
      BY <1>6, Zenon
    <3>2. IdleClaim(p).query = p /\ IdleClaim(q).query = q
      BY ClaimFields DEF IdleClaim
    <3> QED BY <3>1, <3>2, Zenon DEF IdleClaims
  <2>2. DriverClaims' \subseteq DriverClaims \cup B
    BY <1>6 DEF DriverClaims, DriverClaim, Claim, RangeWorkers
  <2>3. EventClaims' = EventClaims /\ FunctionClaims' = FunctionClaims
    BY <1>3, Zenon DEF EventClaims, FunctionClaims, EventClaim, FunctionClaim
  <2>4. \A a \in A : a.kind = "idle"
    BY ClaimFields DEF IdleClaim
  <2> HIDE DEF A, B
  <2> QED BY <2>1, <2>2, <2>3, <2>4, ClaimKinds, Zenon DEF Claims
<1> HIDE DEF A, B
<1>14. ClaimsHold(Claims', invoked')
  <2>1. {} \in SUBSET workers(q)
    BY Zenon
  <2>2. \A c \in Claims : c.query \in Queries /\ c.workers \subseteq workers(c.query)
    BY <1>1, ClaimsOwn, Zenon
  <2>3. \A p \in Queries : \A w \in workers(p) :
            invoked'[p][w] = IF p = q /\ w \in {} THEN invoked[p][w] + 1 ELSE invoked[p][w]
    BY <1>3, Zenon
  <2>4. HandedOn(q, A, workers(q), {}, B, Claims, Claims', invoked, invoked')
    BY <1>8, <1>9, <1>10, <1>11, <1>12, <1>13, <2>1, <2>3, Zenon DEF HandedOn
  <2> QED BY <1>1, <2>2, <2>4, HandOn, Zenon
<1> QED BY <1>1, <1>3, <1>7, <1>14, Zenon DEF ClaimsHold, Disjoint

(* The driver invokes the first workers of the ranges R and tells them whom to invoke. *)
LEMMA InvokeRangesClaims ==
    ASSUME ClaimsInv, NEW q \in Queries, DriverKept, driver[q].pc # "idle",
           NEW R \in SUBSET driver[q].todo, driver'[q].todo \subseteq driver[q].todo \ R,
           events' = events \cup {RangeEvent(q, r) : r \in R}, running' = running,
           Count(q, {r[1] : r \in R})
    PROVE  invoked' \in CountType /\ Retried' /\ ClaimsHold(Claims, invoked)'
<1>1. OwnData /\ invoked \in CountType /\ Retried /\ ClaimsHold(Claims, invoked)
  BY Zenon DEF ClaimsInv
<1>2. now \in Nat /\ R \subseteq worker_ranges(NumWorkers[q])
  BY <1>1, Zenon DEF OwnData, OwnDrivers, OwnDriver
<1> DEFINE ws == {r[1] : r \in R}
           ev(r) == RangeEvent(q, r)
<1>3. \A r \in R :
        /\ ev(r).query = q /\ ev(r).attempt = 1
        /\ ev(r).invocations = {<<w, inputs(q, w)>> : w \in r[1] + 1 .. r[2] - 1}
  BY <1>2, RangeEventOwn
<1>4. ASSUME NEW r \in R PROVE Invokees(ev(r).invocations) = r[1] + 1 .. r[2] - 1
  <2> DEFINE S == r[1] + 1 .. r[2] - 1
  <2>1. ev(r).invocations = {<<w, inputs(q, w)>> : w \in S}
    BY <1>3, Zenon
  <2> HIDE DEF S
  <2>2. \A w \in S : <<w, inputs(q, w)>> \in ev(r).invocations /\ <<w, inputs(q, w)>>[1] = w
    BY <2>1, Zenon
  <2>3. \A i \in ev(r).invocations : i[1] \in S
    BY <2>1
  <2>4. Invokees(ev(r).invocations) = S
    BY <2>2, <2>3, Zenon DEF Invokees
  <2> QED BY <2>4, Zenon DEF S
<1> HIDE DEF ev
<1>5. ASSUME NEW r \in R
      PROVE  /\ r[1] + 1 .. r[2] - 1 \subseteq RangeWorkers(r) \ {r[1]}
             /\ r[1] \in RangeWorkers(r)
  BY <1>2, RangeFacts DEF RangeWorkers
<1>6. \A r, t \in R : r # t => RangeWorkers(r) \cap RangeWorkers(t) = {}
  BY <1>2, RangesApart, Zenon
<1>7. /\ invoked' \in CountType
      /\ \A p \in Queries : \A w \in workers(p) :
           invoked'[p][w] = IF p = q /\ w \in ws THEN invoked[p][w] + 1 ELSE invoked[p][w]
  BY <1>1, CountStep
<1>8. Retried'
  <2> DEFINE E == {RangeEvent(q, r) : r \in R}
  <2>1. \A e \in E : e.query = q /\ e.attempt = 1
    BY <1>3, Zenon DEF ev
  <2>2. events' \subseteq events \cup E
    BY Zenon
  <2> HIDE DEF E
  <2>3. \A e \in E : /\ e.query \in Queries /\ driver[e.query].pc # "idle"
                     /\ e.attempt > 1 =>
                          e.ready > driver[e.query].startedAt + StartupMaxDelay
    BY <2>1
  <2>4. \A f \in running' : f.event.query \in Queries /\ driver[f.event.query].pc # "idle"
    BY <1>1, RunningQueries, Zenon
  <2> QED BY <1>1, <2>2, <2>3, <2>4, RetriedKept, Zenon
<1> DEFINE A == {DriverClaim(q, r) : r \in R}
           B == {EventClaim(ev(r)) : r \in R}
           AW == UNION {a.workers : a \in A}
<1>9. A \in SUBSET Claims
  BY DEF Claims, DriverClaims
<1>10. \A a \in A : a.query = q /\ a.kind = "driver"
  BY ClaimFields DEF DriverClaim
<1>11. AW = UNION {RangeWorkers(r) : r \in R}
  <2>1. \A r \in R : DriverClaim(q, r).workers = RangeWorkers(r)
    BY ClaimFields DEF DriverClaim
  <2> QED BY <2>1, Zenon
<1>12. \A r \in R : /\ EventClaim(ev(r)).query = q
                    /\ EventClaim(ev(r)).workers = r[1] + 1 .. r[2] - 1
  <2>1. \A x : /\ EventClaim(x).query = x.query
               /\ EventClaim(x).workers = Invokees(x.invocations)
    BY ClaimFields DEF EventClaim
  <2> QED BY <1>3, <1>4, <2>1, Zenon
<1> HIDE DEF A, AW
<1>13. ASSUME NEW r \in R
       PROVE  r[1] + 1 .. r[2] - 1 \subseteq AW \ ws
  <2>1. \A t \in R : t[1] \notin r[1] + 1 .. r[2] - 1
    BY <1>5, <1>6, Zenon
  <2>2. r[1] + 1 .. r[2] - 1 \subseteq AW
    BY <1>5, <1>11, Zenon
  <2> QED BY <2>1, <2>2, Zenon
<1>14. Disjoint(B)
  <2> SUFFICES ASSUME NEW r \in R, NEW t \in R, EventClaim(ev(r)) # EventClaim(ev(t))
               PROVE  EventClaim(ev(r)).workers \cap EventClaim(ev(t)).workers = {}
    BY Zenon DEF Disjoint
  <2>1. RangeWorkers(r) \cap RangeWorkers(t) = {}
    BY <1>6, Zenon
  <2> QED BY <1>5, <1>12, <2>1, Zenon
<1>15. ws \in SUBSET AW
  BY <1>5, <1>11
<1>16. \A b \in B : b.query = q /\ b.workers \subseteq AW \ ws
  BY <1>12, <1>13, Zenon
<1>17. Claims' \in SUBSET ((Claims \ A) \cup B)
  <2>1. IdleClaims' \subseteq IdleClaims
    BY IdleClaimsStep, Zenon DEF DriverKept
  <2>2. DriverClaims' \subseteq DriverClaims \ A
    <3> SUFFICES ASSUME NEW c \in DriverClaims' PROVE c \in DriverClaims \ A
      BY Zenon
    <3>0. PICK p \in Queries : \E r \in driver'[p].todo : c = DriverClaim(p, r)
      BY Zenon DEF DriverClaims, DriverClaim, Claim, RangeWorkers
    <3> PICK r \in driver'[p].todo : c = DriverClaim(p, r)
      BY <3>0, Zenon
    <3>1. r \in driver[p].todo
      BY Zenon DEF DriverKept
    <3>2. p = q => r \notin R
      BY Zenon
    <3>3. /\ DriverClaim(p, r).query = p /\ DriverClaim(p, r).holder = r
          /\ \A t : DriverClaim(q, t).query = q /\ DriverClaim(q, t).holder = t
      BY ClaimFields DEF DriverClaim
    <3>4. DriverClaim(p, r) \notin A
      BY <3>2, <3>3 DEF A
    <3> QED BY <3>1, <3>4 DEF DriverClaims
  <2>3. EventClaims' \subseteq EventClaims \cup B
    <3> DEFINE E == {RangeEvent(q, r) : r \in R}
    <3>1. EventClaims' \subseteq EventClaims
                                   \cup {EventClaim(e) : e \in {x \in E : x.attempt = 1}}
      BY EventClaimsStep, Zenon
    <3> QED BY <3>1, Zenon DEF ev
  <2>4. FunctionClaims' = FunctionClaims
    BY Zenon DEF FunctionClaims, FunctionClaim
  <2> HIDE DEF B
  <2> QED BY <1>10, <2>1, <2>2, <2>3, <2>4, ClaimKinds, Zenon DEF Claims
<1> HIDE DEF B, ws
<1>18. ClaimsHold(Claims', invoked')
  <2>1. AW = UNION {a.workers : a \in A}
    BY Zenon DEF AW
  <2>2. \A c \in Claims : c.query \in Queries /\ c.workers \subseteq workers(c.query)
    BY <1>1, ClaimsOwn, Zenon
  <2>3. HandedOn(q, A, AW, ws, B, Claims, Claims', invoked, invoked')
    BY <1>7, <1>9, <1>10, <1>14, <1>15, <1>16, <1>17, <2>1, Zenon DEF HandedOn
  <2> QED BY <1>1, <2>2, <2>3, HandOn, Zenon
<1> QED BY <1>7, <1>8, <1>18, Zenon DEF ClaimsHold, Disjoint

(* A function starts in time: it is to invoke whom its event names. *)
LEMMA StartFunctionClaims ==
    ASSUME ClaimsInv, NEW e \in events, StartFunction(e)
    PROVE  invoked' \in CountType /\ Retried' /\ ClaimsHold(Claims, invoked)'
<1>1. OwnData /\ invoked \in CountType /\ Retried /\ ClaimsHold(Claims, invoked)
  BY Zenon DEF ClaimsInv
<1> DEFINE f == [event |-> e, since |-> now, pc |-> "invoking",
                 todo |-> e.invocations, reported |-> FALSE]
           q == e.query
<1>2. /\ now >= e.ready /\ ~Late(e) /\ UNCHANGED <<driver, invoked>>
      /\ running' = running \cup {f} /\ events' = events \ {e}
  BY Zenon DEF StartFunction
<1>3. f.event = e /\ f.todo = e.invocations
  BY Zenon
<1> HIDE DEF f
<1>4. e.attempt = 1
  BY <1>1, <1>2, InTimeIsFirst, Zenon
<1>5. q \in Queries /\ driver[q].pc # "idle"
  BY <1>1, RunningQueries, Zenon
<1>6. DriverKept
  BY <1>2, Zenon DEF DriverKept
<1>7. Retried'
  <2> DEFINE E == {}
  <2>1. events' \subseteq events \cup E /\ \A x : x \notin E
    BY <1>2, Zenon
  <2> HIDE DEF E
  <2>2. \A g \in running' : g.event.query \in Queries /\ driver[g.event.query].pc # "idle"
    BY <1>1, <1>2, <1>3, <1>5, RunningQueries, Zenon
  <2> QED BY <1>1, <1>6, <2>1, <2>2, RetriedKept, Zenon
<1> DEFINE A == {EventClaim(e)}
           B == {FunctionClaim(f)}
           aw == Invokees(e.invocations)
<1>8. \A a \in A : a.query = q /\ a.kind = "event" /\ a.workers = aw
  BY ClaimFields DEF EventClaim
<1>9. \A b \in B : b.query = q /\ b.workers = aw
  BY <1>3, ClaimFields DEF FunctionClaim
<1>10. A \subseteq Claims
  BY <1>4, Zenon DEF Claims, EventClaims
<1>11. Claims' \subseteq (Claims \ A) \cup B
  <2>1. IdleClaims' = IdleClaims /\ DriverClaims' = DriverClaims
    BY <1>2 DEF IdleClaims, DriverClaims, IdleClaim, DriverClaim
  <2>2. FunctionClaims' \subseteq FunctionClaims \cup B
    <3> DEFINE F == {f}
    <3>1. running' \subseteq running \cup F
      BY <1>2, Zenon
    <3>2. FunctionClaims' \subseteq FunctionClaims \cup {FunctionClaim(x) : x \in F}
      <4> HIDE DEF F
      <4> QED BY <3>1, FunctionClaimsStep, Zenon
    <3> QED BY <3>2, Zenon
  <2>3. EventClaims' \subseteq EventClaims \ A
    <3> SUFFICES ASSUME NEW x \in events \ {e}, x.attempt = 1
                 PROVE  EventClaim(x) \in EventClaims \ A
      BY <1>2, Zenon DEF EventClaims, EventClaim, Claim, Invokees
    <3>1. EventClaim(x).holder = x /\ EventClaim(e).holder = e
      BY ClaimFields DEF EventClaim
    <3> QED BY <3>1, Zenon DEF EventClaims
  <2> HIDE DEF A, B
  <2> QED BY <1>8, <2>1, <2>2, <2>3, ClaimKinds, Zenon DEF Claims
<1>12. Disjoint(B)
  BY Zenon DEF Disjoint
<1>13. aw = UNION {a.workers : a \in A}
  BY <1>8, Zenon
<1> HIDE DEF A, B, aw
<1>14. HandedOn(q, A, aw, {}, B, Claims, Claims', invoked, invoked')
  BY <1>2, <1>8, <1>9, <1>10, <1>11, <1>12, <1>13, Zenon DEF HandedOn
<1>15. ClaimsHold(Claims', invoked')
  BY <1>1, <1>5, <1>14, ClaimsOwn, HandOn, Zenon
<1> QED BY <1>1, <1>2, <1>7, <1>15, Zenon DEF ClaimsHold, Disjoint

(* Function f becomes g after it has invoked the workers of the invocations I. *)
LEMMA MoveClaims ==
    ASSUME ClaimsInv, NEW f \in running, NEW g, Move(f, g), driver' = driver,
           NEW I \in SUBSET f.todo, g.event = f.event, g.todo \subseteq f.todo \ I,
           events' \subseteq events \cup {InvocationEvent(f.event, i) : i \in I},
           invoked' \in CountType,
           \A p \in Queries : \A w \in workers(p) :
              invoked'[p][w] = IF p = f.event.query /\ w \in Invokees(I)
                               THEN invoked[p][w] + 1 ELSE invoked[p][w]
    PROVE  invoked' \in CountType /\ Retried' /\ ClaimsHold(Claims, invoked)'
<1>1. OwnData /\ invoked \in CountType /\ Retried /\ ClaimsHold(Claims, invoked)
  BY Zenon DEF ClaimsInv
<1> DEFINE q == f.event.query
           ev(i) == InvocationEvent(f.event, i)
           aw == Invokees(f.todo)
           ws == Invokees(I)
           Sent == {ev(i) : i \in I}
<1>2. running' = (running \ {f}) \cup {g}
  BY Zenon DEF Move
<1>3. q \in Queries /\ driver[q].pc # "idle"
  BY <1>1, RunningQueries, Zenon
<1>4. /\ now \in Nat /\ OwnEvent(f.event)
      /\ \A i \in f.todo : i \in InvocationType /\ OwnInvocation(q, i)
  BY <1>1, Zenon DEF OwnData, OwnDrivers, OwnFunctions, OwnFunction, FunctionType
<1>5. \A i \in I : ev(i).query = q /\ ev(i).attempt = 1 /\ ev(i).invocations = {}
  BY <1>4, InvocationEventOwn, Zenon
<1> HIDE DEF ev
<1>6. DriverKept
  BY Zenon DEF DriverKept
<1>7. Retried'
  <2>1. events' \subseteq events \cup Sent
    BY Zenon DEF ev
  <2>2. \A e \in Sent : e.query = q /\ e.attempt = 1
    BY <1>5, Zenon
  <2> HIDE DEF Sent
  <2>3. \A e \in Sent : /\ e.query \in Queries /\ driver[e.query].pc # "idle"
                        /\ e.attempt > 1 =>
                             e.ready > driver[e.query].startedAt + StartupMaxDelay
    BY <1>3, <2>2
  <2>4. \A h \in running' : h.event.query \in Queries /\ driver[h.event.query].pc # "idle"
    BY <1>1, <1>2, RunningQueries, Zenon
  <2> QED BY <1>1, <1>6, <2>1, <2>3, <2>4, RetriedKept, Zenon
<1> DEFINE A == {FunctionClaim(f)}
           S == {EventClaim(ev(i)) : i \in I}
           B == {FunctionClaim(g)} \cup S
<1>8. \A a \in A : a.query = q /\ a.kind = "function" /\ a.workers = aw
  BY ClaimFields DEF FunctionClaim
<1>9. \A b \in S : b.query = q /\ b.workers = {}
  <2>1. Invokees({}) = {}
    BY Zenon DEF Invokees
  <2>2. \A i \in I : EventClaim(ev(i)).query = q /\ EventClaim(ev(i)).workers = {}
    <3>1. \A x : /\ EventClaim(x).query = x.query
                 /\ EventClaim(x).workers = Invokees(x.invocations)
      BY ClaimFields DEF EventClaim
    <3> QED BY <1>5, <2>1, <3>1, Zenon
  <2> QED BY <2>2, Zenon
<1>10. FunctionClaim(g).query = q /\ FunctionClaim(g).workers = Invokees(g.todo)
  BY ClaimFields DEF FunctionClaim
<1>11. ws \subseteq aw
  BY Zenon DEF Invokees
<1>12. Invokees(g.todo) \subseteq aw \ ws
  <2>1. ASSUME NEW i \in f.todo, NEW j \in f.todo, i[1] = j[1] PROVE i = j
    BY <1>4, <2>1 DEF InvocationType, OwnInvocation
  <2> QED BY <2>1 DEF Invokees
<1> HIDE DEF S
<1>13. Disjoint(B)
  BY <1>9, <1>10, Zenon DEF Disjoint
<1>14. \A b \in B : b.query = q /\ b.workers \subseteq aw \ ws
  BY <1>9, <1>10, <1>12
<1>15. A \subseteq Claims
  BY Zenon DEF Claims, FunctionClaims
<1>16. Claims' \subseteq (Claims \ A) \cup B
  <2>1. IdleClaims' = IdleClaims /\ DriverClaims' = DriverClaims
    BY DEF IdleClaims, DriverClaims, IdleClaim, DriverClaim
  <2>2. EventClaims' \subseteq EventClaims \cup S
    <3>1. EventClaims' \subseteq EventClaims
                                   \cup {EventClaim(e) : e \in {x \in Sent : x.attempt = 1}}
      BY EventClaimsStep, Zenon DEF ev
    <3> QED BY <3>1 DEF S
  <2>3. FunctionClaims' \subseteq (FunctionClaims \ A) \cup {FunctionClaim(g)}
    <3> SUFFICES ASSUME NEW h \in running'
                 PROVE  FunctionClaim(h) \in (FunctionClaims \ A) \cup {FunctionClaim(g)}
      BY Zenon DEF FunctionClaims, FunctionClaim, Claim, Invokees
    <3>1. FunctionClaim(h).holder = h /\ FunctionClaim(f).holder = f
      BY ClaimFields DEF FunctionClaim
    <3> QED BY <1>2, <3>1, Zenon DEF FunctionClaims
  <2> HIDE DEF A
  <2> QED BY <1>8, <2>1, <2>2, <2>3, ClaimKinds, Zenon DEF Claims
<1>17. aw = UNION {a.workers : a \in A}
  BY <1>8
<1> HIDE DEF A, B, aw, ws
<1>18. HandedOn(q, A, aw, ws, B, Claims, Claims', invoked, invoked')
  BY <1>8, <1>11, <1>13, <1>14, <1>15, <1>16, <1>17, Zenon DEF HandedOn, ws
<1>19. ClaimsHold(Claims', invoked')
  BY <1>1, <1>3, <1>18, ClaimsOwn, HandOn, Zenon
<1> QED BY <1>7, <1>19, Zenon DEF ClaimsHold, Disjoint

(* Lambda takes function or event e back and possibly starts it again. *)
LEMMA RetryClaims ==
    ASSUME ClaimsInv, DriverKept, NEW e, OwnEvent(e), driver[e.query].pc # "idle",
           events' \subseteq events \cup {Retry(e)}, running' \subseteq running,
           invoked' = invoked
    PROVE  invoked' \in CountType /\ Retried' /\ ClaimsHold(Claims, invoked)'
<1>1. OwnData /\ invoked \in CountType /\ Retried /\ ClaimsHold(Claims, invoked)
  BY Zenon DEF ClaimsInv
<1>2. LET x == Retry(e)
      IN  /\ x.query \in Queries /\ driver[x.query].pc # "idle" /\ x.attempt > 1
          /\ x.ready > driver[x.query].startedAt + StartupMaxDelay
  BY <1>1, RetryIsLate, Zenon
<1>3. Retried'
  <2>1. \A f \in running' : f.event.query \in Queries /\ driver[f.event.query].pc # "idle"
    BY <1>1, RunningQueries, Zenon
  <2> DEFINE E == {Retry(e)}
  <2>2. \A x \in E : /\ x.query \in Queries /\ driver[x.query].pc # "idle"
                     /\ x.attempt > 1 =>
                          x.ready > driver[x.query].startedAt + StartupMaxDelay
    BY <1>2, Zenon
  <2>3. events' \subseteq events \cup E
    BY Zenon
  <2> HIDE DEF E
  <2> QED BY <1>1, <2>1, <2>2, <2>3, RetriedKept, Zenon
<1>4. Claims' \subseteq Claims
  <2>1. IdleClaims' \subseteq IdleClaims /\ DriverClaims' \subseteq DriverClaims
    BY IdleClaimsStep, DriverClaimsStep, Zenon DEF DriverKept
  <2>2. EventClaims' \subseteq EventClaims
    <3>1. {x \in {Retry(e)} : x.attempt = 1} = {}
      BY <1>2
    <3> QED BY <3>1, EventClaimsStep, Zenon
  <2>3. FunctionClaims' \subseteq FunctionClaims
    <3> DEFINE F == {}
    <3>1. running' \subseteq running \cup F
      BY Zenon
    <3>2. FunctionClaims' \subseteq FunctionClaims \cup {FunctionClaim(x) : x \in F}
      <4> HIDE DEF F
      <4> QED BY <3>1, FunctionClaimsStep, Zenon
    <3> QED BY <3>2, Zenon
  <2> QED BY <2>1, <2>2, <2>3, Zenon DEF Claims
<1> QED BY <1>1, <1>3, <1>4, GiveUp, Zenon

LEMMA ClaimsInit == Init => ClaimsInv
<1> SUFFICES ASSUME Init PROVE ClaimsInv
  BY Zenon
<1>1. OwnData
  BY OwnDataInit, Zenon
<1>2. events = {} /\ running = {} /\ invoked = [q \in Queries |-> [w \in workers(q) |-> 0]]
  BY Zenon DEF Init
<1>3. \A q \in Queries : driver[q].todo = {}
  BY Zenon DEF Init
<1>4. \A q \in Queries : invoked[q] \in [workers(q) -> Nat]
  BY <1>2, Zenon
<1>5. invoked \in CountType
  <2> DEFINE Counts == UNION {[workers(q) -> Nat] : q \in Queries}
  <2>1. \A q \in Queries : [w \in workers(q) |-> 0] \in Counts
    OBVIOUS
  <2> HIDE DEF Counts
  <2>2. invoked \in [Queries -> Counts]
    BY <1>2, <2>1, Zenon
  <2> QED BY <1>4, <2>2, Zenon DEF CountType, Counts
<1>6. Retried
  BY <1>2, Zenon DEF Retried
<1>7. \A q \in Queries : \A w \in workers(q) : invoked[q][w] = 0
  BY <1>2, Zenon
<1>8. \A c \in Claims : \E q \in Queries : c = IdleClaim(q)
  BY <1>2, <1>3, Zenon DEF Claims, IdleClaims, DriverClaims, EventClaims, FunctionClaims
<1>9. \A q \in Queries : IdleClaim(q).query = q /\ IdleClaim(q).workers = workers(q)
  BY ClaimFields DEF IdleClaim
<1>10. Disjoint(Claims)
  BY <1>8, <1>9 DEF Disjoint
<1>11. \A c \in Claims : \A w \in c.workers : invoked[c.query][w] = 0
  BY <1>7, <1>8, <1>9
<1>12. ClaimsHold(Claims, invoked)
  BY <1>7, <1>10, <1>11 DEF ClaimsHold
<1> QED BY <1>1, <1>5, <1>6, <1>12, Zenon DEF ClaimsInv

(* Nobody is claimed twice, by whatever steps of the queries and their functions. *)
LEMMA ClaimsStep == ClaimsInv /\ [Next]_vars => ClaimsInv'
<1> SUFFICES ASSUME ClaimsInv, [Next]_vars
             PROVE  OwnData' /\ invoked' \in CountType /\ Retried' /\ ClaimsHold(Claims, invoked)'
  BY Zenon DEF ClaimsInv
<1>1. OwnData /\ invoked \in CountType /\ Retried /\ ClaimsHold(Claims, invoked)
  BY Zenon DEF ClaimsInv
<1>2. OwnData'
  BY <1>1, OwnDataStep, Zenon
<1> DEFINE Goal == invoked' \in CountType /\ Retried' /\ ClaimsHold(Claims, invoked)'
<1>3. ASSUME DriverKept, UNCHANGED <<events, running, invoked>> PROVE Goal
  <2>1. Claims' \subseteq Claims
    BY <1>3, IdleClaimsStep, DriverClaimsStep, Zenon
       DEF DriverKept, Claims, EventClaims, FunctionClaims, EventClaim, FunctionClaim
  <2>2. Retried'
    BY <1>1, <1>3, RunningQueries, Zenon DEF Retried, DriverKept
  <2> QED BY <1>1, <1>3, <2>1, <2>2, GiveUp, Zenon
<1>4. ASSUME NEW q \in Queries, StartQuery(q) PROVE Goal
  BY <1>4, StartQueryClaims, Zenon
<1>5. ASSUME NEW q \in Queries, RunQuery(q) PROVE Goal
  <2>1. DriverKept
    BY <1>1, <1>5, RunQueryKeeps, Zenon
  <2>2. CASE InvokeRange(q)
    <3>1. PICK r \in driver[q].todo :
            /\ driver' = [driver EXCEPT ![q].todo = @ \ {r}]
            /\ events' = events \cup {RangeEvent(q, r)}
            /\ Count(q, {r[1]})
      BY <2>2, Zenon DEF InvokeRange
    <3>2. driver[q].pc # "idle" /\ running' = running
      BY <2>2, Zenon DEF InvokeRange
    <3> DEFINE R == {r}
    <3>3. driver'[q].todo \subseteq driver[q].todo \ R
      BY <1>1, <3>1, Zenon DEF OwnData, OwnDrivers, DriverType
    <3>4. {RangeEvent(q, x) : x \in R} = {RangeEvent(q, r)} /\ {x[1] : x \in R} = {r[1]}
      BY Zenon
    <3>5. /\ R \in SUBSET driver[q].todo
          /\ events' = events \cup {RangeEvent(q, x) : x \in R}
          /\ Count(q, {x[1] : x \in R})
      BY <3>1, <3>4, Zenon
    <3> HIDE DEF R
    <3> QED BY <2>1, <3>2, <3>3, <3>5, InvokeRangesClaims, Zenon
  <2>3. CASE InvokeFails(q)
    <3>1. PICK R \in SUBSET driver[q].todo :
            /\ driver' = [driver EXCEPT ![q].todo = {}, ![q].pc = "raised"]
            /\ events' = events \cup {RangeEvent(q, r) : r \in R}
            /\ Count(q, {r[1] : r \in R})
      BY <2>3, Zenon DEF InvokeFails
    <3>2. driver[q].pc # "idle" /\ running' = running
      BY <2>3, Zenon DEF InvokeFails
    <3>3. driver'[q].todo \subseteq driver[q].todo \ R
      BY <1>1, <3>1, Zenon DEF OwnData, OwnDrivers, DriverType
    <3> QED BY <2>1, <3>1, <3>2, <3>3, InvokeRangesClaims, Zenon
  <2>4. CASE ~InvokeRange(q) /\ ~InvokeFails(q)
    <3>1. UNCHANGED <<events, running, invoked>>
      BY <1>5, <2>4, Zenon DEF RunQuery, StartFetch, Fetch, EndFetch, FetchDeadletters,
                        DownloadLogs, ExtractResults, Return
    <3> QED BY <1>3, <2>1, <3>1, Zenon
  <2> QED BY <2>2, <2>3, <2>4, Zenon
<1>6. ASSUME NEW e \in events, Start(e) PROVE Goal
  <2>1. CASE StartFunction(e)
    BY <2>1, StartFunctionClaims, Zenon
  <2>2. CASE StartLate(e)
    <3>1. /\ FunctionError(e, events \ {e}) /\ UNCHANGED <<driver, running, invoked>>
      BY <2>2, Zenon DEF StartLate
    <3>2. events' \subseteq events \cup {Retry(e)}
      BY <3>1, ErrorOwn, Zenon
    <3>3. DriverKept
      BY <3>1, Zenon DEF DriverKept
    <3>4. OwnEvent(e) /\ driver[e.query].pc # "idle"
      BY <1>1, RunningQueries, Zenon DEF OwnData, OwnEvents
    <3> QED BY <3>1, <3>2, <3>3, <3>4, RetryClaims, Zenon
  <2> QED BY <1>6, <2>1, <2>2, Zenon DEF Start
<1>7. ASSUME NEW f \in running, RunFunction(f) PROVE Goal
  <2> DEFINE e == f.event
  <2>1. driver' = driver
    BY <1>7, Zenon DEF RunFunction, InvokeWorker, InvokeWorkerFails, RunRunner, RunnerFails,
                Finalize, FinalizeFails, Kill
  <2>2. DriverKept
    BY <2>1, Zenon DEF DriverKept
  <2>3. OwnFunction(f) /\ OwnEvent(e) /\ e.query \in Queries /\ driver[e.query].pc # "idle"
    BY <1>1, RunningQueries, Zenon DEF OwnData, OwnFunctions, OwnFunction
  <2>4. ASSUME NEW I \in SUBSET f.todo, Count(e.query, {i[1] : i \in I}),
               NEW g, Move(f, g), g.event = e, g.todo \subseteq f.todo \ I,
               events' \subseteq events \cup {InvocationEvent(e, i) : i \in I}
        PROVE  Goal
    <3>1. /\ invoked' \in CountType
          /\ \A p \in Queries : \A w \in workers(p) :
               invoked'[p][w] = IF p = e.query /\ w \in Invokees(I)
                                THEN invoked[p][w] + 1 ELSE invoked[p][w]
      BY <1>1, <2>3, <2>4, CountStep DEF Invokees
    <3> QED BY <2>1, <2>4, <3>1, MoveClaims, ZenonT(30)
  <2>5. CASE InvokeWorker(f)
    <3>1. PICK i \in f.todo :
            /\ events' = events \cup {InvocationEvent(e, i)}
            /\ Move(f, [f EXCEPT !.todo = @ \ {i}])
            /\ Count(e.query, {i[1]})
      BY <2>5, Zenon DEF InvokeWorker
    <3> DEFINE I == {i}
               g == [f EXCEPT !.todo = f.todo \ I]
    <3>2. I \in SUBSET f.todo /\ {x[1] : x \in I} = {i[1]} /\ Move(f, g)
      BY <3>1, Zenon
    <3>3. events' \subseteq events \cup {InvocationEvent(e, x) : x \in I}
      BY <3>1, Zenon
    <3> HIDE DEF I
    <3>4. g.event = e /\ g.todo \subseteq f.todo \ I
      BY <2>3, Zenon DEF OwnFunction, FunctionType
    <3>5. Count(e.query, {x[1] : x \in I})
      BY <3>1, <3>2, Zenon
    <3> HIDE DEF g
    <3> QED BY <2>4, <3>2, <3>3, <3>4, <3>5, Zenon
  <2>6. CASE InvokeWorkerFails(f)
    <3> DEFINE g == [f EXCEPT !.todo = {}, !.pc = "finalizing", !.reported = TRUE]
    <3>1. PICK I \in SUBSET f.todo :
            /\ events' = events \cup {InvocationEvent(e, b) : b \in I}
            /\ Count(e.query, {b[1] : b \in I})
      BY <2>6, Zenon DEF InvokeWorkerFails
    <3>2. Move(f, g)
      BY <2>6, Zenon DEF InvokeWorkerFails
    <3>3. g.event = e /\ g.todo = {}
      BY <2>3, FunctionMoved, Zenon
    <3>4. /\ g.todo \subseteq f.todo \ I
          /\ events' \subseteq events \cup {InvocationEvent(e, b) : b \in I}
      BY <3>1, <3>3, Zenon
    <3> HIDE DEF g
    <3> QED BY <2>4, <3>1, <3>2, <3>3, <3>4, Zenon
  <2>7. ASSUME NEW g, Move(f, g), g.event = e, g.todo = f.todo, UNCHANGED <<events, invoked>>
        PROVE  Goal
    <3> DEFINE I == {}
    <3>1. /\ I \in SUBSET f.todo /\ g.todo \subseteq f.todo \ I
          /\ events' \subseteq events \cup {InvocationEvent(e, b) : b \in I}
          /\ Invokees(I) = {}
      BY <2>7, Zenon DEF Invokees
    <3> HIDE DEF I
    <3>2. \A p \in Queries : \A w \in workers(p) :
            invoked'[p][w] = IF p = e.query /\ w \in Invokees(I)
                             THEN invoked[p][w] + 1 ELSE invoked[p][w]
      BY <2>7, <3>1, Zenon
    <3>3. invoked' \in CountType
      BY <1>1, <2>7, Zenon
    <3> QED BY <2>1, <2>7, <3>1, <3>2, <3>3, MoveClaims, Zenon
  <2>8. /\ LET g == [f EXCEPT !.pc = "finalizing"] IN g.event = e /\ g.todo = f.todo
        /\ LET g == [f EXCEPT !.pc = "finalizing", !.reported = TRUE]
           IN  g.event = e /\ g.todo = f.todo
        /\ LET g == [f EXCEPT !.reported = TRUE] IN g.event = e /\ g.todo = f.todo
    BY <2>3, FunctionMoved, Zenon
  <2>9. CASE RunRunner(f)
    BY <2>7, <2>8, <2>9, Zenon DEF RunRunner
  <2>10. CASE RunnerFails(f)
    BY <2>7, <2>8, <2>10, Zenon DEF RunnerFails
  <2>11. ASSUME events' \subseteq events \cup {Retry(e)}, running' \subseteq running,
                invoked' = invoked
         PROVE  Goal
    BY <2>2, <2>3, <2>11, RetryClaims, Zenon
  <2>12. CASE Finalize(f)
    BY <2>11, <2>12, Zenon DEF Finalize
  <2>13. CASE FinalizeFails(f)
    <3>1. CASE f.reported
      <4>1. events' \subseteq events \cup {Retry(e)}
        BY <2>13, <3>1, ErrorOwn, Zenon DEF FinalizeFails
      <4> QED BY <2>11, <2>13, <3>1, <4>1, Zenon DEF FinalizeFails
    <3>2. CASE ~f.reported
      BY <2>7, <2>8, <2>13, <3>2, Zenon DEF FinalizeFails
    <3> QED BY <3>1, <3>2, Zenon
  <2>14. CASE Kill(f)
    <3>1. events' \subseteq events \cup {Retry(e)}
      BY <2>14, ErrorOwn, Zenon DEF Kill
    <3> QED BY <2>11, <2>14, <3>1, Zenon DEF Kill
  <2> QED BY <1>7, <2>5, <2>6, <2>9, <2>10, <2>12, <2>13, <2>14, Zenon DEF RunFunction
<1>8. ASSUME Tick \/ UNCHANGED vars PROVE Goal
  <2>1. UNCHANGED <<driver, events, running, invoked>>
    BY <1>8, Zenon DEF Tick, vars
  <2> QED BY <1>3, <2>1, Zenon DEF DriverKept
<1> HIDE DEF Goal
<1>9. Goal
  BY <1>4, <1>5, <1>6, <1>7, <1>8, Zenon DEF Next
<1> QED BY <1>2, <1>9, Zenon DEF Goal

(* However many faults there are, whatever is late or started again: no worker of a query
   is invoked twice (driver.run_lambda, handler._handle_invocations). *)
THEOREM WorkersInvokedOnce == Spec => []InvokedOnce
<1>1. ClaimsInv => InvokedOnce
  BY DEF ClaimsInv, ClaimsHold, InvokedOnce
<1> QED BY <1>1, ClaimsInit, ClaimsStep, PTL DEF Spec

-----------------------------------------------------------------------------
(* Why a query raises: the third part of the invariant *)

(* Every worker is in one of the ranges: in the first one whose end is above it. *)
LEMMA RangesCover ==
    ASSUME NEW q \in Queries, NEW w \in workers(q)
    PROVE  \E r \in worker_ranges(NumWorkers[q]) : w \in RangeWorkers(r)
<1> DEFINE n == NumWorkers[q]
           size == IF n > DirectLimit THEN CeilSqrt(n) ELSE 1
           num == CeilDiv(n, size)
           lo(i) == (i * n) \div num
           Above == {i \in Nat : i < num /\ w < lo(i + 1)}
<1>1. n \in Nat \ {0} /\ w \in 0 .. n - 1
  BY NumWorkersAssumption DEF workers
<1>2. worker_ranges(n) = {<<lo(i), lo(i + 1)>> : i \in 0 .. num - 1}
  BY Zenon DEF worker_ranges
<1> HIDE DEF n
<1>3. size \in Nat \ {0}
  BY <1>1, CeilSqrtPositive
<1> HIDE DEF size
<1>4. num \in Nat \ {0}
  <2> DEFINE a == n + size - 1
  <2>1. a \in Nat /\ num = a \div size
    BY <1>1, <1>3 DEF CeilDiv
  <2> HIDE DEF num
  <2>2. size * 1 <= a
    BY <1>1, <1>3
  <2>3. 1 <= a \div size /\ a \div size \in Nat
    BY <1>3, <2>1, <2>2, QuotientAbove, QuotientBounds, Zenon
  <2> QED BY <2>1, <2>3
<1> HIDE DEF num
<1>5. num - 1 \in Above
  <2>1. num * n \in Nat
    BY <1>1, <1>4, Z3
  <2>2. n <= (num * n) \div num
    BY <1>1, <1>4, <2>1, QuotientAbove
  <2>3. (num * n) \div num \in Nat
    BY <1>4, <2>1, QuotientBounds, Zenon
  <2>4. num - 1 \in Nat /\ num - 1 < num /\ (num - 1) + 1 = num
    BY <1>4
  <2>5. lo((num - 1) + 1) = (num * n) \div num
    BY <2>4, Zenon
  <2> HIDE DEF lo
  <2>6. w < lo((num - 1) + 1)
    BY <1>1, <2>2, <2>3, <2>5
  <2> QED BY <2>4, <2>6, Zenon
<1>6. PICK i \in Above : \A j \in Above : ~(j < i)
  <2>1. IsWellFoundedOn(OpToRel(<, Nat), Nat)
    BY NatLessThanWellFounded, Zenon
  <2>2. Above \subseteq Nat /\ Above # {}
    BY <1>5, Zenon
  <2> HIDE DEF Above
  <2>3. PICK x \in Above : \A y \in Above : ~(<<y, x>> \in OpToRel(<, Nat))
    BY <2>1, <2>2, WFMin, Zenon
  <2> QED BY <2>2, <2>3, Zenon DEF OpToRel
<1>7. i \in Nat /\ i < num /\ w < lo(i + 1)
  BY <1>6, Zenon
<1>8. lo(i) \in Nat /\ lo(i + 1) \in Nat
  <2>1. i * n \in Nat /\ (i + 1) * n \in Nat
    BY <1>1, <1>7, Z3
  <2> QED BY <1>4, <2>1, QuotientBounds, Zenon
<1>9. lo(i) <= w
  <2>1. CASE i = 0
    <3>1. 0 * n = 0
      BY <1>1
    <3>2. 0 \div num < 1
      BY <1>4, QuotientBelow
    <3>3. lo(i) < 1
      BY <2>1, <3>1, <3>2, Zenon
    <3> HIDE DEF lo
    <3> QED BY <1>1, <1>8, <3>3
  <2>2. CASE i # 0
    <3>1. i - 1 \in Nat /\ i - 1 < num /\ i - 1 < i /\ (i - 1) + 1 = i
      BY <1>4, <1>7, <2>2
    <3>2. ~(w < lo((i - 1) + 1))
      BY <1>6, <3>1, Zenon
    <3>3. lo((i - 1) + 1) = lo(i)
      BY <3>1, Zenon
    <3> HIDE DEF lo
    <3> QED BY <1>1, <1>8, <3>2, <3>3
  <2> QED BY <2>1, <2>2, Zenon
<1> DEFINE r == <<lo(i), lo(i + 1)>>
<1>10. i \in 0 .. num - 1
  BY <1>4, <1>7
<1>11. r \in worker_ranges(n)
  BY <1>2, <1>10, Zenon
<1> HIDE DEF lo
<1>12. w \in RangeWorkers(r)
  BY <1>1, <1>7, <1>8, <1>9 DEF RangeWorkers
<1> QED BY <1>11, <1>12, Zenon DEF n

Active(q) == driver[q].pc \in {"invoking", "fetching"}

\* What worker w of query q still has to go through before its message is received.
Awaited(q, w) ==
    \/ \E r \in driver[q].todo : w \in RangeWorkers(r)
    \/ \E e \in events : e.query = q /\ (w = e.worker \/ w \in Invokees(e.invocations))
    \/ \E f \in running : /\ f.event.query = q /\ f.pc = "invoking"
                          /\ w = f.event.worker \/ w \in Invokees(f.todo)
    \/ \E m \in resultQueue : m.query = q /\ m.worker = w /\ ~m.again

LateEvent(q) == \E e \in events : e.query = q /\ Late(e)

\* Exceptions are faults, ...
Outputs(q) ==
    /\ \A m \in resultQueue : m.query = q => m.body.kind = "output"
    /\ \A w \in DOMAIN driver[q].messages : driver[q].messages[w].kind = "output"

\* ... no worker is lost, ...
NoneLost(q) ==
    Active(q) => \A w \in workers(q) : w \in DOMAIN driver[q].messages \/ Awaited(q, w)

\* ... when the driver loses patience no message is left that it has not received, ...
Drained(q) ==
    driver[q].pc = "fetching" /\ Expired(q) => \A m \in resultQueue : m.query = q => m.again

\* ... and whatever is missing then has not been started.
Excused(q) ==
    /\ driver[q].pc = "logs" => DOMAIN driver[q].messages = workers(q) \/ LateEvent(q)
    /\ driver[q].pc = "raised" => LateEvent(q)

Flawless(q) == Outputs(q) /\ NoneLost(q) /\ Drained(q) /\ Excused(q)

\* One query at a time.
Orderly == \A p, q \in Queries : p < q /\ driver[q].pc # "idle" => Ended(p)

\* A message that is received again was received by the driver it is for.
Seen ==
    \A m \in resultQueue :
        /\ driver[m.query].pc # "idle"
        /\ m.again /\ Active(m.query) => m.worker \in DOMAIN driver[m.query].messages

\* A function runs no longer than its limit, and has started in time.
InTime ==
    /\ \A f \in running :
          /\ now <= f.since + FunctionTimeout
          /\ f.since <= driver[f.event.query].startedAt + StartupMaxDelay
    /\ \A q \in Queries : driver[q].pc = "fetching" =>
          driver[q].startedAt <= driver[q].since /\ driver[q].todo = {}

Reasons ==
    /\ Orderly
    /\ Seen
    /\ InTime
    /\ \A q \in Queries : q \in faulty \/ Flawless(q)

(* What the steps of a driver do to its own state, ... *)
LEMMA DriverFields ==
    ASSUME OwnData, NEW q \in Queries
    PROVE  /\ StartQuery(q) =>
                /\ driver'[q].pc = "invoking" /\ driver'[q].startedAt = now
                /\ driver'[q].todo = worker_ranges(NumWorkers[q])
                /\ driver'[q].messages = driver[q].messages
           /\ StartFetch(q) =>
                /\ driver'[q].pc = "fetching" /\ driver'[q].since = now
                /\ driver'[q].todo = {}
                /\ driver'[q].messages = driver[q].messages
           /\ EndFetch(q) => driver'[q].pc = "logs" /\ driver'[q].messages = driver[q].messages
           /\ FetchDeadletters(q) =>
                /\ driver'[q].pc = driver[q].pc /\ driver'[q].since = driver[q].since
                /\ driver'[q].todo = driver[q].todo
                /\ driver'[q].messages = driver[q].messages
           /\ DownloadLogs(q) =>
                driver'[q].pc = "logs" /\ driver'[q].messages = driver[q].messages
           /\ ExtractResults(q) =>
                driver'[q].pc = Outcome(q) /\ driver'[q].messages = driver[q].messages
           /\ Return(q) =>
                driver'[q].pc = "returned" /\ driver'[q].messages = driver[q].messages
<1>1. driver \in [Queries -> DriverType] /\ driver[q] \in DriverType
  BY Zenon DEF OwnData, OwnDrivers
<1>2. StartQuery(q) => /\ driver'[q].pc = "invoking" /\ driver'[q].startedAt = now
                       /\ driver'[q].todo = worker_ranges(NumWorkers[q])
                       /\ driver'[q].messages = driver[q].messages
  BY <1>1 DEF StartQuery, DriverType
<1>3. StartFetch(q) => /\ driver'[q].pc = "fetching" /\ driver'[q].since = now
                       /\ driver'[q].todo = {}
                       /\ driver'[q].messages = driver[q].messages
  BY <1>1 DEF StartFetch, DriverType
<1>4. EndFetch(q) => driver'[q].pc = "logs" /\ driver'[q].messages = driver[q].messages
  BY <1>1 DEF EndFetch, DriverType
<1>5. FetchDeadletters(q) => /\ driver'[q].pc = driver[q].pc /\ driver'[q].since = driver[q].since
                             /\ driver'[q].todo = driver[q].todo
                             /\ driver'[q].messages = driver[q].messages
  BY <1>1, Zenon DEF FetchDeadletters, DriverType
<1>6. DownloadLogs(q) => driver'[q].pc = "logs" /\ driver'[q].messages = driver[q].messages
  BY <1>1 DEF DownloadLogs, DownloadingLogs, DriverType
<1>7. ASSUME ExtractResults(q)
      PROVE  driver'[q].pc = Outcome(q) /\ driver'[q].messages = driver[q].messages
  <2>1. driver'[q] = [driver[q] EXCEPT !.pc = Outcome(q)]
    BY <1>1, <1>7, Zenon DEF ExtractResults
  <2> QED BY <1>1, <2>1, Zenon DEF DriverType
<1>8. ASSUME Return(q)
      PROVE  driver'[q].pc = "returned" /\ driver'[q].messages = driver[q].messages
  <2>1. driver'[q] = [driver[q] EXCEPT !.pc = "returned"]
    BY <1>1, <1>8, Zenon DEF Return
  <2> QED BY <1>1, <2>1, Zenon DEF DriverType
<1> QED BY <1>2, <1>3, <1>4, <1>5, <1>6, <1>7, <1>8, Zenon

LEMMA InvokeFields ==
    ASSUME OwnData, NEW q \in Queries
    PROVE  /\ InvokeRange(q) => \E r \in driver[q].todo :
                /\ driver'[q].todo = driver[q].todo \ {r} /\ driver'[q].pc = "invoking"
                /\ driver'[q].messages = driver[q].messages
                /\ events' = events \cup {RangeEvent(q, r)}
           /\ InvokeFails(q) => driver'[q].pc = "raised" /\ q \in faulty'
<1>1. driver \in [Queries -> DriverType] /\ driver[q] \in DriverType
  BY Zenon DEF OwnData, OwnDrivers
<1>2. ASSUME InvokeRange(q)
      PROVE  \E r \in driver[q].todo :
                /\ driver'[q].todo = driver[q].todo \ {r} /\ driver'[q].pc = "invoking"
                /\ driver'[q].messages = driver[q].messages
                /\ events' = events \cup {RangeEvent(q, r)}
  <2>1. PICK r \in driver[q].todo : /\ driver' = [driver EXCEPT ![q].todo = @ \ {r}]
                                    /\ events' = events \cup {RangeEvent(q, r)}
    BY <1>2, Zenon DEF InvokeRange
  <2>2. driver[q].pc = "invoking"
    BY <1>2, Zenon DEF InvokeRange
  <2>3. /\ driver'[q].todo = driver[q].todo \ {r} /\ driver'[q].pc = driver[q].pc
        /\ driver'[q].messages = driver[q].messages
    BY <1>1, <2>1, Zenon DEF DriverType
  <2> QED BY <2>1, <2>2, <2>3, Zenon
<1>3. ASSUME InvokeFails(q) PROVE driver'[q].pc = "raised" /\ q \in faulty'
  <2>1. driver' = [driver EXCEPT ![q].todo = {}, ![q].pc = "raised"] /\ AddFaults(q, 1)
    BY <1>3, Zenon DEF InvokeFails
  <2>2. q \in faulty'
    BY <2>1 DEF AddFaults
  <2> QED BY <1>1, <2>1, <2>2, Zenon DEF DriverType
<1> QED BY <1>2, <1>3, Zenon

(* ... and what a round of fetch_message_batch that receives batch does. *)
Received(q, batch) ==
    /\ driver'[q].pc = driver[q].pc /\ driver'[q].since = driver[q].since
    /\ driver'[q].todo = driver[q].todo
    /\ DOMAIN driver'[q].messages =
         DOMAIN driver[q].messages \cup {m.worker : m \in {x \in batch : x.query = q}}
    /\ \A w \in DOMAIN driver'[q].messages :
         \/ w \in DOMAIN driver[q].messages /\ driver'[q].messages[w] = driver[q].messages[w]
         \/ \E m \in batch : m.query = q /\ driver'[q].messages[w] = m.body
    /\ resultQueue \ batch \subseteq resultQueue'
    /\ \A m \in resultQueue' : m \in resultQueue \ batch \/ \E x \in batch :
         m.query = x.query /\ m.worker = x.worker /\ m.body = x.body

LEMMA FetchFields ==
    ASSUME OwnData, NEW q \in Queries, Fetch(q)
    PROVE  \E batch \in SUBSET resultQueue : Received(q, batch)
<1>1. driver \in [Queries -> DriverType] /\ driver[q] \in DriverType
  BY Zenon DEF OwnData, OwnDrivers
<1>2. PICK batch, late, accepted :
        /\ batch \subseteq resultQueue /\ late \subseteq batch
        /\ accepted \in Accepted(q, batch)
        /\ driver' = [driver EXCEPT ![q].messages = Merged(accepted, @)]
        /\ resultQueue' = (resultQueue \ batch) \cup {[m EXCEPT !.again = TRUE] : m \in late}
  BY Zenon DEF Fetch
<1> DEFINE mine == {m \in batch : m.query = q}
           senders == {m.worker : m \in mine}
           old == driver[q].messages
           new == Merged(accepted, old)
<1>3. /\ DOMAIN accepted = senders
      /\ \A w \in senders : \E m \in mine : m.worker = w /\ m.body = accepted[w]
  BY <1>2, Zenon DEF Accepted
<1>4. driver' = [driver EXCEPT ![q].messages = new]
  BY <1>2, Zenon
<1> HIDE DEF mine, senders, old
<1>5. /\ DOMAIN new = senders \cup DOMAIN old
      /\ \A w \in DOMAIN new : new[w] = IF w \in senders THEN accepted[w] ELSE old[w]
  BY <1>3, Zenon DEF Merged
<1> HIDE DEF new
<1>6. /\ driver'[q].pc = driver[q].pc /\ driver'[q].since = driver[q].since
      /\ driver'[q].todo = driver[q].todo /\ driver'[q].messages = new
  BY <1>1, <1>4, Zenon DEF DriverType
<1>7. DOMAIN new = DOMAIN old \cup senders
  BY <1>5, Zenon
<1>8. ASSUME NEW w \in DOMAIN new
      PROVE  \/ w \in DOMAIN old /\ new[w] = old[w]
             \/ \E m \in batch : m.query = q /\ new[w] = m.body
  BY <1>3, <1>5, <1>8 DEF mine
<1>9. ASSUME NEW m \in resultQueue'
      PROVE  m \in resultQueue \ batch \/ \E x \in batch :
                m.query = x.query /\ m.worker = x.worker /\ m.body = x.body
  <2>1. \A x \in batch : x \in MessageType
    BY <1>2, Zenon DEF OwnData, OwnQueue, OwnMessage
  <2>2. CASE m \in resultQueue \ batch
    BY <2>2, Zenon
  <2>3. CASE m \notin resultQueue \ batch
    <3>1. PICK x \in late : m = [x EXCEPT !.again = TRUE]
      BY <1>2, <1>9, <2>3, Zenon
    <3>2. x \in batch /\ x \in MessageType
      BY <1>2, <2>1, Zenon
    <3> QED BY <3>1, <3>2, Zenon DEF MessageType
  <2> QED BY <2>2, <2>3, Zenon
<1>10. resultQueue \ batch \subseteq resultQueue' /\ batch \in SUBSET resultQueue
  BY <1>2, Zenon
<1>11. DOMAIN driver'[q].messages =
         DOMAIN driver[q].messages \cup {m.worker : m \in {x \in batch : x.query = q}}
  BY <1>6, <1>7, Zenon DEF mine, senders, old
<1>12. \A w \in DOMAIN driver'[q].messages :
         \/ w \in DOMAIN driver[q].messages /\ driver'[q].messages[w] = driver[q].messages[w]
         \/ \E m \in batch : m.query = q /\ driver'[q].messages[w] = m.body
  BY <1>6, <1>8, Zenon DEF old
<1>13. Received(q, batch)
  BY <1>6, <1>9, <1>10, <1>11, <1>12, Zenon DEF Received
<1> QED BY <1>10, <1>13, Zenon

LEMMA OtherDrivers ==
    ASSUME OwnData, NEW q \in Queries, StartQuery(q) \/ RunQuery(q)
    PROVE  /\ \A p \in Queries \ {q} : driver'[p] = driver[p]
           /\ UNCHANGED <<now, running>> /\ events \subseteq events'
           /\ Fetch(q) \/ resultQueue' = resultQueue
           /\ InvokeRange(q) \/ InvokeFails(q) \/ events' = events
           /\ faulty \subseteq faulty'
<1>1. driver \in [Queries -> DriverType]
  BY Zenon DEF OwnData, OwnDrivers
<1>2. \E d : driver' = [driver EXCEPT ![q] = d]
  BY Zenon DEF RunQuery, StartQuery, InvokeRange, InvokeFails, StartFetch, Fetch, EndFetch,
               FetchDeadletters, DownloadLogs, ExtractResults, Return
<1>3. \A p \in Queries \ {q} : driver'[p] = driver[p]
  BY <1>1, <1>2, Zenon
<1>4. UNCHANGED <<now, running>> /\ events \subseteq events'
  BY Zenon DEF RunQuery, StartQuery, InvokeRange, InvokeFails, StartFetch, Fetch, EndFetch,
               FetchDeadletters, DownloadLogs, ExtractResults, Return
<1>5. Fetch(q) \/ resultQueue' = resultQueue
  BY Zenon DEF RunQuery, StartQuery, InvokeRange, InvokeFails, StartFetch, EndFetch,
               FetchDeadletters, DownloadLogs, ExtractResults, Return
<1>6. InvokeRange(q) \/ InvokeFails(q) \/ events' = events
  BY Zenon DEF RunQuery, StartQuery, StartFetch, Fetch, EndFetch,
               FetchDeadletters, DownloadLogs, ExtractResults, Return
<1>7. faulty \subseteq faulty'
  BY Zenon DEF RunQuery, StartQuery, InvokeRange, InvokeFails, AddFaults, StartFetch, Fetch,
               EndFetch, FetchDeadletters, DownloadLogs, ExtractResults, Return
<1> QED BY <1>3, <1>4, <1>5, <1>6, <1>7, Zenon

LEMMA FaultCounts ==
    ASSUME NEW q, NEW n \in Nat, AddFaults(q, n)
    PROVE  faulty \subseteq faulty' /\ (n # 0 => q \in faulty') /\ (n = 0 => faulty' = faulty)
<1>1. n # 0 => n > 0
  OBVIOUS
<1>2. ~(0 > 0)
  OBVIOUS
<1> QED BY <1>1, <1>2, Zenon DEF AddFaults

(* What the steps of a function leave alone. *)
LEMMA FunctionKeeps ==
    ASSUME OwnData, NEW f \in running, RunFunction(f)
    PROVE  /\ UNCHANGED <<now, driver>>
           /\ events \subseteq events' /\ resultQueue \subseteq resultQueue'
           /\ running \ {f} \subseteq running'
           /\ \A m \in resultQueue' \ resultQueue :
                m.query = f.event.query /\ m.worker = f.event.worker /\ ~m.again
           /\ \A g \in running' \ running : g.event = f.event /\ g.since = f.since
<1>1. f \in FunctionType
  BY Zenon DEF OwnData, OwnFunctions, OwnFunction
<1>2. UNCHANGED <<now, driver>>
  BY Zenon DEF RunFunction, InvokeWorker, InvokeWorkerFails, RunRunner, RunnerFails, Finalize,
               FinalizeFails, Kill
<1>3. events \subseteq events'
  BY Zenon DEF RunFunction, InvokeWorker, InvokeWorkerFails, RunRunner, RunnerFails, Finalize,
               FinalizeFails, Kill, FunctionError
<1>4. ASSUME NEW kind, NEW n, ReturnResult(f.event, kind, n)
      PROVE  /\ resultQueue \subseteq resultQueue'
             /\ \A m \in resultQueue' \ resultQueue : m = Message(f.event, kind)
  BY <1>4, Zenon DEF ReturnResult
<1>5. \/ resultQueue' = resultQueue
      \/ \E kind, n : ReturnResult(f.event, kind, n)
  BY Zenon DEF RunFunction, InvokeWorker, InvokeWorkerFails, RunRunner, RunnerFails, Finalize,
               FinalizeFails, Kill
<1>6. \A kind : LET m == Message(f.event, kind)
                IN  m.query = f.event.query /\ m.worker = f.event.worker /\ ~m.again
  BY Zenon DEF Message
<1>7. /\ resultQueue \subseteq resultQueue'
      /\ \A m \in resultQueue' \ resultQueue :
            m.query = f.event.query /\ m.worker = f.event.worker /\ ~m.again
  BY <1>4, <1>5, <1>6, Zenon
<1>8. \/ running' = running \ {f}
      \/ \E T : Move(f, [f EXCEPT !.todo = T])
      \/ Move(f, [f EXCEPT !.todo = {}, !.pc = "finalizing", !.reported = TRUE])
      \/ Move(f, [f EXCEPT !.pc = "finalizing"])
      \/ Move(f, [f EXCEPT !.pc = "finalizing", !.reported = TRUE])
      \/ Move(f, [f EXCEPT !.reported = TRUE])
  BY Zenon DEF RunFunction, InvokeWorker, InvokeWorkerFails, RunRunner, RunnerFails, Finalize,
               FinalizeFails, Kill
<1>9. ASSUME NEW g, g.event = f.event /\ g.since = f.since, Move(f, g)
      PROVE  /\ running \ {f} \subseteq running'
             /\ \A h \in running' \ running : h.event = f.event /\ h.since = f.since
  BY <1>9, Zenon DEF Move
<1>10. /\ \A T : [f EXCEPT !.todo = T].event = f.event /\ [f EXCEPT !.todo = T].since = f.since
       /\ LET g == [f EXCEPT !.todo = {}, !.pc = "finalizing", !.reported = TRUE]
          IN  g.event = f.event /\ g.since = f.since
       /\ LET g == [f EXCEPT !.pc = "finalizing"] IN g.event = f.event /\ g.since = f.since
       /\ LET g == [f EXCEPT !.pc = "finalizing", !.reported = TRUE]
          IN  g.event = f.event /\ g.since = f.since
       /\ LET g == [f EXCEPT !.reported = TRUE] IN g.event = f.event /\ g.since = f.since
  BY <1>1, Zenon DEF FunctionType
<1>11. /\ running \ {f} \subseteq running'
       /\ \A g \in running' \ running : g.event = f.event /\ g.since = f.since
  BY <1>8, <1>9, <1>10, Zenon
<1> QED BY <1>2, <1>3, <1>7, <1>11, Zenon

(* The steps of a function that are no fault. *)
LEMMA FaultlessFunction ==
    ASSUME NEW f, RunFunction(f)
    PROVE  /\ faulty \subseteq faulty'
           /\ \/ f.event.query \in faulty'
              \/ InvokeWorker(f) \/ Finalize(f)
              \/ RunRunner(f) /\ resultQueue' = resultQueue \cup {Message(f.event, "output")}
<1> DEFINE q == f.event.query
<1>1. 0 \in Nat /\ 1 \in Nat /\ 0 + 1 = 1 /\ 1 + 1 \in Nat /\ 1 + 1 # 0 /\ 1 # 0
  OBVIOUS
<1>2. ASSUME NEW kind, ReturnResult(f.event, kind, 1) PROVE faulty \subseteq faulty' /\ q \in faulty'
  BY <1>1, <1>2, FaultCounts, Zenon DEF ReturnResult
<1>3. ASSUME ReturnResult(f.event, "output", 0)
      PROVE  /\ faulty \subseteq faulty'
             /\ q \in faulty' \/ resultQueue' = resultQueue \cup {Message(f.event, "output")}
  BY <1>1, <1>3, FaultCounts, Zenon DEF ReturnResult
<1>4. ASSUME AddFaults(q, 1) PROVE faulty \subseteq faulty' /\ q \in faulty'
  BY <1>1, <1>4, FaultCounts, Zenon
<1>5. CASE InvokeWorkerFails(f) \/ RunnerFails(f)
  BY <1>2, <1>5, Zenon DEF InvokeWorkerFails, RunnerFails
<1>6. CASE RunRunner(f)
  BY <1>3, <1>6, Zenon DEF RunRunner
<1>7. CASE FinalizeFails(f)
  BY <1>2, <1>4, <1>7, Zenon DEF FinalizeFails
<1>8. CASE Kill(f)
  BY <1>4, <1>8, Zenon DEF Kill
<1>9. CASE InvokeWorker(f) \/ Finalize(f)
  BY <1>9, Zenon DEF InvokeWorker, Finalize
<1> QED BY <1>5, <1>6, <1>7, <1>8, <1>9, Zenon DEF RunFunction

(* A query never becomes active again, and its driver forgets no message. *)
LEMMA QueryKeeps ==
    ASSUME OwnData, NEW q \in Queries, RunQuery(q)
    PROVE  /\ Active(q)' => Active(q)
           /\ Ended(q) => Ended(q)'
           /\ DOMAIN driver[q].messages \subseteq DOMAIN driver'[q].messages
<1>1. CASE InvokeRange(q)
  BY <1>1, InvokeFields, Zenon DEF InvokeRange, Active, Ended
<1>2. CASE InvokeFails(q)
  <2>1. driver \in [Queries -> DriverType] /\ driver[q] \in DriverType
    BY Zenon DEF OwnData, OwnDrivers
  <2>2. driver' = [driver EXCEPT ![q].todo = {}, ![q].pc = "raised"]
    BY <1>2, Zenon DEF InvokeFails
  <2>3. driver'[q].pc = "raised" /\ driver'[q].messages = driver[q].messages
    BY <2>1, <2>2, Zenon DEF DriverType
  <2> QED BY <2>3, Zenon DEF Active, Ended
<1>3. CASE StartFetch(q)
  BY <1>3, DriverFields, Zenon DEF StartFetch, Active, Ended
<1>4. CASE Fetch(q)
  BY <1>4, FetchFields, Zenon DEF Received, Active, Ended
<1>5. CASE EndFetch(q)
  BY <1>5, DriverFields, Zenon DEF EndFetch, Active, Ended
<1>6. CASE FetchDeadletters(q)
  BY <1>6, DriverFields, Zenon DEF Active, Ended
<1>7. CASE DownloadLogs(q)
  BY <1>7, DriverFields, Zenon DEF DownloadLogs, DownloadingLogs, Active, Ended
<1>8. CASE ExtractResults(q)
  <2>1. Outcome(q) \in {"raised", "closing"}
    BY Zenon DEF Outcome
  <2> QED BY <1>8, <2>1, DriverFields, Zenon DEF ExtractResults, Active, Ended
<1>9. CASE Return(q)
  BY <1>9, DriverFields, Zenon DEF Active, Ended
<1> QED BY <1>1, <1>2, <1>3, <1>4, <1>5, <1>6, <1>7, <1>8, <1>9, Zenon DEF RunQuery

(* While a query runs, the others have ended or not started. *)
LEMMA OneRuns ==
    ASSUME Orderly, NEW p \in Queries, NEW q \in Queries, p # q,
           driver[p].pc # "idle", ~Ended(p)
    PROVE  driver[q].pc = "idle" \/ Ended(q)
<1>1. p < q \/ q < p
  BY QueriesAssumption
<1> QED BY <1>1, Zenon DEF Orderly

LEMMA OrderlyStep == OwnData /\ Orderly /\ [Next]_vars => Orderly'
<1> SUFFICES ASSUME OwnData, Orderly, [Next]_vars,
                    NEW p \in Queries, NEW q \in Queries, p < q, driver'[q].pc # "idle"
             PROVE  Ended(p)'
  BY Zenon DEF Orderly
<1>1. p \in 1 .. q - 1 /\ p # q
  BY QueriesAssumption
<1>2. CASE driver' = driver
  BY <1>2, Zenon DEF Orderly, Ended
<1>3. ASSUME NEW r \in Queries, StartQuery(r) PROVE Ended(p)'
  <2>1. /\ driver[r].pc = "idle" /\ \A x \in 1 .. r - 1 : Ended(x)
        /\ \A x \in Queries \ {r} : driver'[x] = driver[x]
    BY <1>3, OtherDrivers, Zenon DEF StartQuery
  <2>2. Ended(p) /\ p # r
    <3>1. CASE q = r
      BY <1>1, <2>1, <3>1, Zenon
    <3>2. CASE q # r
      BY <2>1, <3>2, Zenon DEF Orderly, Ended
    <3> QED BY <3>1, <3>2, Zenon
  <2> QED BY <2>1, <2>2, Zenon DEF Ended
<1>4. ASSUME NEW r \in Queries, RunQuery(r) PROVE Ended(p)'
  <2>1. DriverKept
    BY <1>4, RunQueryKeeps, Zenon
  <2>2. Ended(p)
    BY <2>1, Zenon DEF DriverKept, Orderly
  <2>3. CASE p = r
    BY <1>4, <2>2, <2>3, QueryKeeps, Zenon
  <2>4. CASE p # r
    BY <1>4, <2>2, <2>4, OtherDrivers, Zenon DEF Ended
  <2> QED BY <2>3, <2>4, Zenon
<1>5. (\E e \in events : Start(e)) \/ Tick \/ UNCHANGED vars => driver' = driver
  BY Zenon DEF Start, StartFunction, StartLate, Tick, vars
<1>6. (\E f \in running : RunFunction(f)) => driver' = driver
  BY FunctionKeeps, Zenon
<1> QED BY <1>2, <1>3, <1>4, <1>5, <1>6, Zenon DEF Next

LEMMA SeenStep == OwnData /\ Retried /\ Orderly /\ Seen /\ [Next]_vars => Seen'
<1> SUFFICES ASSUME OwnData, Retried, Orderly, Seen, [Next]_vars, NEW m \in resultQueue'
             PROVE  /\ driver'[m.query].pc # "idle"
                    /\ m.again /\ Active(m.query)' =>
                         m.worker \in DOMAIN driver'[m.query].messages
  BY Zenon DEF Seen, Active
<1> DEFINE Goal == /\ driver'[m.query].pc # "idle"
                   /\ m.again /\ Active(m.query)' =>
                        m.worker \in DOMAIN driver'[m.query].messages
<1>1. \A x \in resultQueue : x.query \in Queries
  BY Zenon DEF OwnData, OwnQueue, OwnMessage, MessageType
<1>2. ASSUME m \in resultQueue, driver'[m.query] = driver[m.query] PROVE Goal
  BY <1>2, Zenon DEF Seen, Active
<1>3. ASSUME NEW q \in Queries, StartQuery(q) PROVE Goal
  <2>1. resultQueue' = resultQueue /\ driver[q].pc = "idle"
    BY <1>3, Zenon DEF StartQuery
  <2>2. m \in resultQueue /\ m.query \in Queries \ {q}
    BY <1>1, <2>1, Zenon DEF Seen
  <2> QED BY <1>2, <1>3, <2>2, OtherDrivers, Zenon
<1>4. ASSUME NEW q \in Queries, RunQuery(q), m \in resultQueue PROVE Goal
  <2>1. CASE m.query = q
    <3>1. driver'[q].pc # "idle"
      BY <1>4, <2>1, RunQueryKeeps, Zenon DEF DriverKept, Seen
    <3>2. /\ Active(q)' => Active(q)
          /\ DOMAIN driver[q].messages \subseteq DOMAIN driver'[q].messages
      BY <1>4, QueryKeeps, Zenon
    <3> QED BY <1>4, <2>1, <3>1, <3>2, Zenon DEF Seen
  <2>2. CASE m.query # q
    BY <1>1, <1>2, <1>4, <2>2, OtherDrivers, Zenon
  <2> QED BY <2>1, <2>2, Zenon
<1>5. ASSUME NEW q \in Queries, Fetch(q), m \notin resultQueue PROVE Goal
  <2>1. PICK batch \in SUBSET resultQueue : Received(q, batch)
    BY <1>5, FetchFields, Zenon
  <2>2. PICK x \in batch : m.query = x.query /\ m.worker = x.worker
    BY <1>5, <2>1, Zenon DEF Received
  <2>3. driver[q].pc = "fetching" /\ x.query \in Queries /\ driver[x.query].pc # "idle"
    BY <1>1, <1>5, Zenon DEF Fetch, Fetching, Seen
  <2>4. CASE x.query = q
    BY <2>1, <2>2, <2>3, <2>4, Zenon DEF Received
  <2>5. CASE x.query # q
    <3>1. Ended(x.query)
      BY <2>3, <2>5, OneRuns, Zenon DEF Ended
    <3>2. driver'[x.query] = driver[x.query]
      BY <1>5, <2>3, <2>5, OtherDrivers, Zenon DEF RunQuery
    <3> QED BY <2>2, <2>3, <3>1, <3>2, Zenon DEF Ended, Active
  <2> QED BY <2>4, <2>5, Zenon
<1>6. ASSUME NEW q \in Queries, RunQuery(q) PROVE Goal
  <2>1. CASE m \in resultQueue
    BY <1>4, <1>6, <2>1, Zenon
  <2>2. CASE m \notin resultQueue
    BY <1>5, <1>6, <2>2, OtherDrivers, Zenon
  <2> QED BY <2>1, <2>2, Zenon
<1>7. ASSUME driver' = driver,
             m \in resultQueue \/ (~m.again /\ driver[m.query].pc # "idle")
      PROVE  Goal
  BY <1>2, <1>7, Zenon
<1>8. ASSUME NEW e \in events, Start(e) PROVE Goal
  <2>1. driver' = driver /\ resultQueue' \subseteq resultQueue \cup {Message(e, "exception")}
    BY <1>8, Zenon DEF Start, StartFunction, StartLate
  <2>2. ~Message(e, "exception").again /\ Message(e, "exception").query = e.query
    BY Zenon DEF Message
  <2>3. driver[e.query].pc # "idle"
    BY Zenon DEF Retried
  <2> QED BY <1>7, <2>1, <2>2, <2>3, Zenon
<1>9. ASSUME NEW f \in running, RunFunction(f) PROVE Goal
  <2>1. driver[f.event.query].pc # "idle"
    BY Zenon DEF Retried
  <2> QED BY <1>7, <1>9, <2>1, FunctionKeeps, Zenon
<1>10. ASSUME Tick \/ UNCHANGED vars PROVE Goal
  <2>1. driver' = driver /\ resultQueue' = resultQueue
    BY <1>10, Zenon DEF Tick, vars
  <2> QED BY <1>7, <2>1, Zenon
<1> HIDE DEF Goal
<1>11. Goal
  BY <1>3, <1>6, <1>8, <1>9, <1>10, Zenon DEF Next
<1> QED BY <1>11, Zenon DEF Goal

LEMMA TimesNat ==
    ASSUME OwnData
    PROVE  /\ now \in Nat
           /\ \A q \in Queries : driver[q].startedAt \in Nat /\ driver[q].startedAt <= now
                                 /\ driver[q].since \in Nat
           /\ \A f \in running : f.since \in Nat /\ f.event.query \in Queries
           /\ \A e \in events : e.query \in Queries
BY Zenon DEF OwnData, OwnDrivers, OwnDriver, DriverType, OwnFunctions, OwnFunction, FunctionType,
             OwnEvents, OwnEvent, EventType

LEMMA InTimeStep == OwnData /\ Retried /\ InTime /\ [Next]_vars => InTime'
<1> DEFINE Punctual(f) == /\ now <= f.since + FunctionTimeout
                          /\ f.since <= driver[f.event.query].startedAt + StartupMaxDelay
           Settled(q) == driver[q].pc = "fetching" =>
                           driver[q].startedAt <= driver[q].since /\ driver[q].todo = {}
<1> SUFFICES ASSUME OwnData, Retried, InTime, [Next]_vars
             PROVE  (\A f \in running' : Punctual(f)') /\ (\A q \in Queries : Settled(q)')
  BY Zenon DEF InTime
<1>1. (\A f \in running : Punctual(f)) /\ (\A q \in Queries : Settled(q))
  BY Zenon DEF InTime
<1> DEFINE Goal == (\A f \in running' : Punctual(f)') /\ (\A q \in Queries : Settled(q)')
<1>2. ASSUME UNCHANGED <<now, driver>>, \A f \in running' : f \in running \/ Punctual(f) PROVE Goal
  BY <1>1, <1>2, Zenon
<1>3. \A f \in running : f.event.query \in Queries /\ driver[f.event.query].pc # "idle"
  BY RunningQueries, Zenon
<1>4. ASSUME NEW q \in Queries, StartQuery(q) PROVE Goal
  <2>1. UNCHANGED <<now, running>> /\ \A p \in Queries \ {q} : driver'[p] = driver[p]
    BY <1>4, OtherDrivers, Zenon
  <2>2. driver[q].pc = "idle" /\ driver'[q].pc = "invoking"
    BY <1>4, DriverFields, Zenon DEF StartQuery
  <2>3. \A f \in running : driver'[f.event.query] = driver[f.event.query]
    BY <1>3, <2>1, <2>2, Zenon
  <2>4. \A f \in running' : Punctual(f)'
    BY <1>1, <2>1, <2>3, Zenon
  <2>5. \A p \in Queries : Settled(p)'
    BY <1>1, <2>1, <2>2, Zenon
  <2> QED BY <2>4, <2>5, Zenon
<1>5. ASSUME NEW q \in Queries, RunQuery(q) PROVE Goal
  <2>1. UNCHANGED <<now, running>> /\ \A p \in Queries \ {q} : driver'[p] = driver[p]
    BY <1>5, OtherDrivers, Zenon
  <2>2. \A p \in Queries : driver'[p].startedAt = driver[p].startedAt
    BY <1>5, RunQueryKeeps, Zenon DEF DriverKept
  <2>3. \A f \in running' : Punctual(f)'
    BY <1>1, <1>3, <2>1, <2>2, Zenon
  <2>4. Settled(q)'
    <3>1. CASE StartFetch(q)
      BY <2>2, <3>1, DriverFields, TimesNat, Zenon
    <3>2. CASE Fetch(q) \/ FetchDeadletters(q)
      <4>1. /\ driver'[q].pc = driver[q].pc /\ driver'[q].since = driver[q].since
            /\ driver'[q].todo = driver[q].todo
        BY <3>2, DriverFields, FetchFields, Zenon DEF Received
      <4> QED BY <1>1, <2>2, <4>1, Zenon
    <3>3. CASE ~StartFetch(q) /\ ~Fetch(q) /\ ~FetchDeadletters(q)
      <4>1. Outcome(q) \in {"raised", "closing"}
        BY Zenon DEF Outcome
      <4>2. driver'[q].pc # "fetching"
        BY <1>5, <3>3, <4>1, DriverFields, InvokeFields, Zenon DEF RunQuery
      <4> QED BY <4>2, Zenon
    <3> QED BY <3>1, <3>2, <3>3, Zenon
  <2>5. \A p \in Queries : Settled(p)'
    BY <1>1, <2>1, <2>4, Zenon
  <2> QED BY <2>3, <2>5, Zenon
<1>6. ASSUME NEW e \in events, Start(e) PROVE Goal
  <2>1. CASE StartFunction(e)
    <3> DEFINE f == [event |-> e, since |-> now, pc |-> "invoking",
                     todo |-> e.invocations, reported |-> FALSE]
    <3>1. UNCHANGED <<now, driver>> /\ running' = running \cup {f} /\ ~Late(e)
      BY <2>1, Zenon DEF StartFunction
    <3>2. f.since = now /\ f.event = e
      BY Zenon
    <3> HIDE DEF f
    <3>3. now \in Nat /\ driver[e.query].startedAt \in Nat
      BY TimesNat, Zenon
    <3>4. now <= now + FunctionTimeout /\ now <= driver[e.query].startedAt + StartupMaxDelay
      BY <3>1, <3>3, DelayAssumption, TimeoutAssumption, SMTT(20) DEF Late
    <3>5. Punctual(f)
      BY <3>2, <3>4, Zenon
    <3> QED BY <1>2, <3>1, <3>5, Zenon
  <2>2. CASE StartLate(e)
    BY <1>2, <2>2, Zenon DEF StartLate
  <2> QED BY <1>6, <2>1, <2>2, Zenon DEF Start
<1>7. ASSUME NEW f \in running, RunFunction(f) PROVE Goal
  <2>1. /\ UNCHANGED <<now, driver>>
        /\ \A g \in running' \ running : g.event = f.event /\ g.since = f.since
    BY <1>7, FunctionKeeps, Zenon
  <2> QED BY <1>1, <1>2, <2>1, Zenon
<1>8. ASSUME Tick PROVE Goal
  <2>1. now' = now + 1 /\ UNCHANGED <<driver, running>>
    BY <1>8, Zenon DEF Tick
  <2>2. ASSUME NEW f \in running PROVE now + 1 <= f.since + FunctionTimeout
    <3>1. now < RunnerLimit(f) \/ now < f.since + FunctionTimeout
      BY <1>8, Zenon DEF Tick
    <3>2. now \in Nat /\ f.since \in Nat
      BY TimesNat, Zenon
    <3> QED BY <3>1, <3>2, TimeoutAssumption DEF RunnerLimit
  <2> QED BY <1>1, <2>1, <2>2, Zenon
<1>9. ASSUME UNCHANGED vars PROVE Goal
  BY <1>2, <1>9, Zenon DEF vars
<1> HIDE DEF Goal
<1>10. Goal
  BY <1>4, <1>5, <1>6, <1>7, <1>8, <1>9, Zenon DEF Next
<1> QED BY <1>10, Zenon DEF Goal

(* Lateness does not pass. *)
LEMMA LateStays ==
    ASSUME OwnData, NEW q \in Queries, LateEvent(q),
           now' = now \/ now' = now + 1, driver'[q].startedAt = driver[q].startedAt,
           \A e \in events : e.query = q /\ Late(e) => e \in events'
    PROVE  LateEvent(q)'
<1>1. PICK e \in events : e.query = q /\ Late(e)
  BY Zenon DEF LateEvent
<1>2. now \in Nat /\ driver[q].startedAt \in Nat
  BY TimesNat, Zenon
<1>3. now' - driver'[q].startedAt > StartupMaxDelay
  BY <1>1, <1>2, DelayAssumption DEF Late
<1> QED BY <1>1, <1>3, Zenon DEF LateEvent, Late

(* The steps that leave the driver of a query alone: what is lost or added is of other
   queries, or q has ended. *)
LEMMA FlawlessKept ==
    ASSUME OwnData, NEW q \in Queries, Flawless(q), now' = now, driver'[q] = driver[q],
           \A e \in events : e.query = q => e \in events',
           \A f \in running : f.event.query = q => f \in running',
           \A m \in resultQueue' : m.query = q =>
               \E x \in resultQueue : x.query = q /\ x.body = m.body,
           Active(q) => \A m : m.query = q => (m \in resultQueue' <=> m \in resultQueue)
    PROVE  Flawless(q)'
<1>1. Outputs(q)'
  BY Zenon DEF Flawless, Outputs
<1>2. \A w : Active(q) /\ Awaited(q, w) => Awaited(q, w)'
  BY Zenon DEF Awaited, RangeWorkers, Invokees
<1>3. NoneLost(q)'
  BY <1>2, Zenon DEF Flawless, NoneLost, Active
<1>4. Drained(q)'
  BY Zenon DEF Flawless, Drained, Expired, FetchTimeout, Active
<1>5. LateEvent(q) => LateEvent(q)'
  BY LateStays, Zenon
<1>6. Excused(q)'
  BY <1>5, Zenon DEF Flawless, Excused
<1> QED BY <1>1, <1>3, <1>4, <1>6, Zenon DEF Flawless

(* A worker stays awaited as long as nothing of its query is lost. *)
LEMMA AwaitedKept ==
    ASSUME NEW q, NEW w, Awaited(q, w),
           \A r \in driver[q].todo : r \in driver'[q].todo,
           \A e \in events : e.query = q => e \in events',
           \A f \in running : f.event.query = q /\ f.pc = "invoking" => f \in running',
           \A m \in resultQueue : m.query = q => m \in resultQueue'
    PROVE  Awaited(q, w)'
BY Zenon DEF Awaited, RangeWorkers, Invokees

(* The number of messages tells whether one of each worker is there. *)
LEMMA AllMessages ==
    ASSUME OwnData, NEW q \in Queries
    PROVE  /\ DOMAIN driver[q].messages \subseteq workers(q)
           /\ Cardinality(DOMAIN driver[q].messages) \in Nat
           /\ DOMAIN driver[q].messages = workers(q) <=>
                Cardinality(DOMAIN driver[q].messages) >= NumWorkers[q]
           /\ DOMAIN driver[q].messages = workers(q) =>
                Cardinality(DOMAIN driver[q].messages) = NumWorkers[q]
<1> DEFINE D == DOMAIN driver[q].messages
<1>1. D \subseteq workers(q)
  BY Zenon DEF OwnData, OwnDrivers, OwnDriver, OwnMessages
<1> HIDE DEF D
<1>2. NumWorkers[q] \in Nat
  BY NumWorkersAssumption, Zenon
<1>3. IsFiniteSet(workers(q)) /\ Cardinality(workers(q)) = NumWorkers[q]
  <2>1. NumWorkers[q] - 1 \in Int
    BY <1>2
  <2>2. /\ IsFiniteSet(0 .. NumWorkers[q] - 1)
        /\ Cardinality(0 .. NumWorkers[q] - 1)
             = IF 0 > NumWorkers[q] - 1 THEN 0 ELSE NumWorkers[q] - 1 - 0 + 1
    BY <2>1, FS_Interval
  <2> QED BY <1>2, <2>2 DEF workers
<1>4. /\ IsFiniteSet(D) /\ Cardinality(D) <= NumWorkers[q]
      /\ Cardinality(D) = NumWorkers[q] => D = workers(q)
  BY <1>1, <1>3, FS_Subset, Zenon
<1>5. Cardinality(D) \in Nat
  BY <1>4, FS_CardinalityType, Zenon
<1>6. Cardinality(D) >= NumWorkers[q] => Cardinality(D) = NumWorkers[q]
  BY <1>2, <1>4, <1>5
<1>7. D = workers(q) => Cardinality(D) = NumWorkers[q]
  BY <1>3, Zenon
<1>8. Cardinality(D) = NumWorkers[q] => Cardinality(D) >= NumWorkers[q]
  BY <1>2
<1> QED BY <1>1, <1>4, <1>5, <1>6, <1>7, <1>8, Zenon DEF D

(* A query starts, and every worker is to be invoked. *)
LEMMA StartQueryFlawless ==
    ASSUME OwnData, NEW q \in Queries, Flawless(q), StartQuery(q)
    PROVE  Flawless(q)'
<1>1. /\ driver'[q].pc = "invoking" /\ driver'[q].messages = driver[q].messages
      /\ driver'[q].todo = worker_ranges(NumWorkers[q])
      /\ UNCHANGED resultQueue
  BY DriverFields, Zenon DEF StartQuery
<1>2. Outputs(q)'
  BY <1>1, Zenon DEF Flawless, Outputs
<1>3. \A w \in workers(q) : Awaited(q, w)'
  BY <1>1, RangesCover, Zenon DEF Awaited, RangeWorkers
<1> QED BY <1>1, <1>2, <1>3, Zenon DEF Flawless, NoneLost, Drained, Excused

(* The driver invokes the first worker of a range, who is to invoke the others. *)
LEMMA InvokeRangeFlawless ==
    ASSUME OwnData, NEW q \in Queries, Flawless(q), InvokeRange(q)
    PROVE  Flawless(q)'
<1>1. PICK r \in driver[q].todo :
        /\ driver'[q].todo = driver[q].todo \ {r} /\ driver'[q].pc = "invoking"
        /\ driver'[q].messages = driver[q].messages
        /\ events' = events \cup {RangeEvent(q, r)}
  BY InvokeFields, Zenon
<1>2. UNCHANGED <<running, resultQueue>> /\ driver[q].pc = "invoking"
  BY Zenon DEF InvokeRange
<1>3. r \in worker_ranges(NumWorkers[q]) /\ now \in Nat
  BY Zenon DEF OwnData, OwnDrivers, OwnDriver
<1> DEFINE e == RangeEvent(q, r)
<1>4. /\ e.query = q /\ e.worker = r[1]
      /\ e.invocations = {<<w, inputs(q, w)>> : w \in r[1] + 1 .. r[2] - 1}
  BY Zenon DEF RangeEvent, Event
<1> HIDE DEF e
<1>5. ASSUME NEW w \in RangeWorkers(r) PROVE w = e.worker \/ w \in Invokees(e.invocations)
  <2>1. w = r[1] \/ w \in r[1] + 1 .. r[2] - 1
    BY <1>3, <1>5, RangeFacts DEF RangeWorkers
  <2>2. CASE w \in r[1] + 1 .. r[2] - 1
    <3>1. <<w, inputs(q, w)>> \in e.invocations /\ <<w, inputs(q, w)>>[1] = w
      BY <1>4, <2>2, Zenon
    <3> QED BY <3>1, Zenon DEF Invokees
  <2> QED BY <1>4, <2>1, <2>2, Zenon
<1>6. e \in events' /\ events \subseteq events'
  BY <1>1, Zenon DEF e
<1>7. ASSUME NEW w, Awaited(q, w) PROVE Awaited(q, w)'
  <2>1. CASE w \in RangeWorkers(r)
    BY <1>4, <1>5, <1>6, <2>1, Zenon DEF Awaited, Invokees
  <2>2. CASE w \notin RangeWorkers(r)
    BY <1>1, <1>2, <1>6, <1>7, <2>2, Zenon DEF Awaited, RangeWorkers, Invokees
  <2> QED BY <2>1, <2>2, Zenon
<1>8. NoneLost(q)'
  BY <1>1, <1>2, <1>7, Zenon DEF Flawless, NoneLost, Active
<1>9. Outputs(q)'
  BY <1>1, <1>2, Zenon DEF Flawless, Outputs
<1> QED BY <1>1, <1>8, <1>9, Zenon DEF Flawless, Drained, Excused

(* The driver starts to fetch: its patience is not exhausted. *)
LEMMA StartFetchFlawless ==
    ASSUME OwnData, NEW q \in Queries, Flawless(q), StartFetch(q)
    PROVE  Flawless(q)'
<1>1. /\ driver'[q].pc = "fetching" /\ driver'[q].since = now /\ driver'[q].todo = {}
      /\ driver'[q].messages = driver[q].messages
      /\ driver[q].pc = "invoking" /\ driver[q].todo = {}
      /\ UNCHANGED <<now, events, running, resultQueue>>
  BY DriverFields, Zenon DEF StartFetch
<1>2. \A w : Awaited(q, w) => Awaited(q, w)'
  BY <1>1, AwaitedKept, Zenon
<1>3. NoneLost(q)'
  BY <1>1, <1>2, Zenon DEF Flawless, NoneLost, Active
<1>4. ~Expired(q)'
  <2>1. now \in Nat
    BY TimesNat, Zenon
  <2>2. ~(now > now + FetchTimeout)
    BY <2>1, DelayAssumption, TimeoutAssumption, SMTT(20) DEF FetchTimeout
  <2> QED BY <1>1, <2>2, Zenon DEF Expired, FetchTimeout
<1>5. Outputs(q)'
  BY <1>1, Zenon DEF Flawless, Outputs
<1> QED BY <1>1, <1>3, <1>4, <1>5, Zenon DEF Flawless, Drained, Excused

(* A round of fetch_message_batch: a worker whose message is received is not lost. *)
LEMMA FetchFlawless ==
    ASSUME OwnData, NEW q \in Queries, Flawless(q), Fetch(q)
    PROVE  Flawless(q)'
<1>1. PICK batch \in SUBSET resultQueue : Received(q, batch)
  BY FetchFields, Zenon
<1>2. UNCHANGED <<now, events, running>> /\ driver[q].pc = "fetching" /\ ~Expired(q)
  BY Zenon DEF Fetch, Fetching
<1>3. /\ driver'[q].pc = driver[q].pc /\ driver'[q].since = driver[q].since
      /\ driver'[q].todo = driver[q].todo
      /\ resultQueue \ batch \subseteq resultQueue'
  BY <1>1, Zenon DEF Received
<1>4. Outputs(q)'
  <2>1. \A m \in resultQueue : m.query = q => m.body.kind = "output"
    BY Zenon DEF Flawless, Outputs
  <2>2. ASSUME NEW m \in resultQueue', m.query = q PROVE m.body.kind = "output"
    <3>1. PICK x \in resultQueue : x.query = m.query /\ x.body = m.body
      BY <1>1, <2>2, Zenon DEF Received
    <3> QED BY <2>1, <2>2, <3>1, Zenon
  <2>3. ASSUME NEW w \in DOMAIN driver'[q].messages PROVE driver'[q].messages[w].kind = "output"
    <3>1. \/ w \in DOMAIN driver[q].messages /\ driver'[q].messages[w] = driver[q].messages[w]
          \/ \E m \in batch : m.query = q /\ driver'[q].messages[w] = m.body
      BY <1>1, <2>3, Zenon DEF Received
    <3>2. \A v \in DOMAIN driver[q].messages : driver[q].messages[v].kind = "output"
      BY Zenon DEF Flawless, Outputs
    <3> QED BY <2>1, <3>1, <3>2, Zenon
  <2> QED BY <2>2, <2>3, Zenon DEF Outputs
<1>5. ASSUME NEW w, Awaited(q, w)
      PROVE  w \in DOMAIN driver'[q].messages \/ Awaited(q, w)'
  <2>1. CASE \E m \in batch : m.query = q /\ m.worker = w
    BY <1>1, <2>1, Zenon DEF Received
  <2>2. CASE ~\E m \in batch : m.query = q /\ m.worker = w
    BY <1>2, <1>3, <1>5, <2>2, Zenon DEF Awaited, RangeWorkers, Invokees
  <2> QED BY <2>1, <2>2, Zenon
<1>6. DOMAIN driver[q].messages \subseteq DOMAIN driver'[q].messages
  BY <1>1, Zenon DEF Received
<1>7. NoneLost(q)'
  BY <1>2, <1>5, <1>6, Zenon DEF Flawless, NoneLost, Active
<1>8. ~Expired(q)'
  BY <1>2, <1>3, Zenon DEF Expired, FetchTimeout
<1> QED BY <1>2, <1>3, <1>4, <1>7, <1>8, Zenon DEF Flawless, Drained, Excused

(* The driver has waited for as long as a function may take to start and to run: whoever is
   missing has not started, and is late. *)
LEMMA EndFetchFlawless ==
    ASSUME OwnData, InTime, NEW q \in Queries, Flawless(q), EndFetch(q)
    PROVE  Flawless(q)'
<1>1. /\ driver'[q].pc = "logs" /\ driver'[q].messages = driver[q].messages
      /\ driver[q].pc = "fetching" /\ ~Fetching(q)
      /\ UNCHANGED <<now, events, resultQueue>>
  BY DriverFields, Zenon DEF EndFetch
<1>2. ASSUME Expired(q), NEW w \in workers(q), w \notin DOMAIN driver[q].messages
      PROVE  LateEvent(q)
  <2>1. Awaited(q, w)
    BY <1>1, <1>2, Zenon DEF Flawless, NoneLost, Active
  <2>2. driver[q].todo = {} /\ driver[q].startedAt <= driver[q].since
    BY <1>1, Zenon DEF InTime
  <2>3. now \in Nat /\ driver[q].startedAt \in Nat /\ driver[q].since \in Nat
    BY TimesNat, Zenon
  <2>4. \A m \in resultQueue : m.query = q => m.again
    BY <1>1, <1>2, Zenon DEF Flawless, Drained
  <2>5. now > driver[q].startedAt + StartupMaxDelay + FunctionTimeout
    BY <1>2, <2>2, <2>3, DelayAssumption, TimeoutAssumption, SMTT(20) DEF Expired, FetchTimeout
  <2>6. ASSUME NEW f \in running, f.event.query = q PROVE FALSE
    <3>1. /\ f.since \in Nat /\ now <= f.since + FunctionTimeout
          /\ f.since <= driver[q].startedAt + StartupMaxDelay
      BY <2>6, TimesNat, Zenon DEF InTime
    <3> QED BY <2>3, <2>5, <3>1, DelayAssumption, TimeoutAssumption, SMTT(20)
  <2>7. PICK e \in events : e.query = q
    BY <2>1, <2>2, <2>4, <2>6, Zenon DEF Awaited
  <2>8. now - driver[q].startedAt > StartupMaxDelay
    BY <2>3, <2>5, DelayAssumption, TimeoutAssumption, SMTT(20)
  <2> QED BY <2>7, <2>8, Zenon DEF LateEvent, Late
<1>3. DOMAIN driver[q].messages = workers(q) \/ Expired(q)
  <2>1. NumWorkers[q] \in Nat
    BY NumWorkersAssumption, Zenon
  <2>2. Cardinality(DOMAIN driver[q].messages) \in Nat
    BY AllMessages, Zenon
  <2>3. Cardinality(DOMAIN driver[q].messages) < NumWorkers[q]
          \/ Cardinality(DOMAIN driver[q].messages) >= NumWorkers[q]
    BY <2>1, <2>2
  <2> QED BY <1>1, <2>3, AllMessages, Zenon DEF Fetching
<1>4. DOMAIN driver[q].messages \subseteq workers(q)
  BY AllMessages, Zenon
<1>5. DOMAIN driver[q].messages = workers(q) \/ LateEvent(q)
  BY <1>2, <1>3, <1>4, Zenon
<1>6. driver'[q].startedAt = driver[q].startedAt
  BY RunQueryKeeps, Zenon DEF RunQuery, DriverKept
<1>7. LateEvent(q) => LateEvent(q)'
  BY <1>1, <1>6, LateStays, Zenon
<1>8. Outputs(q)'
  BY <1>1, Zenon DEF Flawless, Outputs
<1> QED BY <1>1, <1>5, <1>7, <1>8, Zenon DEF Flawless, NoneLost, Drained, Excused, Active

(* extract_results raises only when an output is missing. *)
LEMMA ExtractResultsFlawless ==
    ASSUME OwnData, NEW q \in Queries, Flawless(q), ExtractResults(q)
    PROVE  Flawless(q)'
<1>1. /\ driver'[q].pc = Outcome(q) /\ driver'[q].messages = driver[q].messages
      /\ driver[q].pc = "logs" /\ UNCHANGED <<now, events, resultQueue>>
  BY DriverFields, Zenon DEF ExtractResults
<1>2. \A w \in DOMAIN driver[q].messages : driver[q].messages[w].kind # "exception"
  BY Zenon DEF Flawless, Outputs
<1>3. \/ Outcome(q) = "closing"
      \/ Outcome(q) = "raised" /\ Cardinality(DOMAIN driver[q].messages) # NumWorkers[q]
  BY <1>2, Zenon DEF Outcome
<1>4. Outcome(q) = "raised" => LateEvent(q)
  BY <1>1, <1>3, AllMessages, Zenon DEF Flawless, Excused
<1>5. driver'[q].startedAt = driver[q].startedAt
  BY RunQueryKeeps, Zenon DEF RunQuery, DriverKept
<1>6. LateEvent(q) => LateEvent(q)'
  BY <1>1, <1>5, LateStays, Zenon
<1>7. Outputs(q)'
  BY <1>1, Zenon DEF Flawless, Outputs
<1> QED BY <1>1, <1>3, <1>4, <1>6, <1>7, Zenon DEF Flawless, NoneLost, Drained, Excused, Active

(* The other steps behind the fetching of results. *)
LEMMA ClosingFlawless ==
    ASSUME OwnData, NEW q \in Queries, Flawless(q),
           FetchDeadletters(q) \/ DownloadLogs(q) \/ Return(q)
    PROVE  Flawless(q)'
<1>1. UNCHANGED <<now, events, running, resultQueue>>
  BY Zenon DEF FetchDeadletters, DownloadLogs, Return
<1>2. driver'[q].messages = driver[q].messages
  BY DriverFields, Zenon
<1>3. driver'[q].startedAt = driver[q].startedAt
  BY RunQueryKeeps, Zenon DEF RunQuery, DriverKept
<1>4. LateEvent(q) => LateEvent(q)'
  BY <1>1, <1>3, LateStays, Zenon
<1>5. Outputs(q)'
  BY <1>1, <1>2, Zenon DEF Flawless, Outputs
<1>6. CASE FetchDeadletters(q)
  <2>1. /\ driver'[q].pc = driver[q].pc /\ driver'[q].since = driver[q].since
        /\ driver'[q].todo = driver[q].todo
    BY <1>6, DriverFields, Zenon
  <2>2. \A w : Awaited(q, w) => Awaited(q, w)'
    BY <1>1, <2>1, AwaitedKept, Zenon
  <2>3. NoneLost(q)'
    BY <1>2, <2>1, <2>2, Zenon DEF Flawless, NoneLost, Active
  <2>4. Drained(q)'
    BY <1>1, <2>1, Zenon DEF Flawless, Drained, Expired, FetchTimeout
  <2>5. Excused(q)'
    BY <1>2, <1>4, <2>1, Zenon DEF Flawless, Excused
  <2> QED BY <1>5, <2>3, <2>4, <2>5, Zenon DEF Flawless
<1>7. CASE DownloadLogs(q)
  <2>1. driver[q].pc = "logs" /\ driver'[q].pc = "logs"
    BY <1>7, DriverFields, Zenon DEF DownloadLogs, DownloadingLogs
  <2> QED BY <1>2, <1>4, <1>5, <2>1, Zenon DEF Flawless, NoneLost, Drained, Excused, Active
<1>8. CASE Return(q)
  <2>1. driver'[q].pc = "returned"
    BY <1>8, DriverFields, Zenon
  <2> QED BY <1>5, <2>1, Zenon DEF Flawless, NoneLost, Drained, Excused, Active
<1> QED BY <1>6, <1>7, <1>8, Zenon

(* A function starts in time: its event was not a late one. *)
LEMMA StartFunctionFlawless ==
    ASSUME OwnData, NEW e \in events, StartFunction(e), Flawless(e.query)
    PROVE  Flawless(e.query)'
<1> DEFINE q == e.query
           f == [event |-> e, since |-> now, pc |-> "invoking",
                 todo |-> e.invocations, reported |-> FALSE]
<1>1. /\ UNCHANGED <<now, driver, resultQueue>> /\ ~Late(e)
      /\ events' = events \ {e} /\ running' = running \cup {f}
  BY Zenon DEF StartFunction
<1>2. f.event = e /\ f.pc = "invoking" /\ f.todo = e.invocations
  BY Zenon
<1> HIDE DEF f
<1>3. ASSUME NEW w, Awaited(q, w) PROVE Awaited(q, w)'
  <2>1. CASE w = e.worker \/ w \in Invokees(e.invocations)
    <3>1. /\ f \in running' /\ f.event.query = q /\ f.pc = "invoking"
          /\ w = f.event.worker \/ w \in Invokees(f.todo)
      BY <1>1, <1>2, <2>1, Zenon
    <3> QED BY <3>1, Zenon DEF Awaited, Invokees
  <2>2. CASE ~(w = e.worker \/ w \in Invokees(e.invocations))
    BY <1>1, <1>3, <2>2, Zenon DEF Awaited, RangeWorkers, Invokees
  <2> QED BY <2>1, <2>2, Zenon
<1>4. NoneLost(q)'
  BY <1>1, <1>3, Zenon DEF Flawless, NoneLost, Active
<1>5. q \in Queries
  BY TimesNat, Zenon
<1>6. LateEvent(q) => LateEvent(q)'
  BY <1>1, <1>5, LateStays, Zenon
<1>7. Excused(q)'
  BY <1>1, <1>6, Zenon DEF Flawless, Excused
<1>8. Outputs(q)' /\ Drained(q)'
  BY <1>1, Zenon DEF Flawless, Outputs, Drained, Expired, FetchTimeout
<1> QED BY <1>4, <1>7, <1>8, Zenon DEF Flawless

(* A function invokes a worker, sends its output, or returns: the worker it invokes and
   itself stay awaited. *)
LEMMA RunFunctionFlawless ==
    ASSUME OwnData, InTime, NEW f \in running, RunFunction(f), Flawless(f.event.query)
    PROVE  f.event.query \in faulty' \/ Flawless(f.event.query)'
<1> DEFINE q == f.event.query
<1>1. /\ UNCHANGED <<now, driver>> /\ events \subseteq events' /\ resultQueue \subseteq resultQueue'
      /\ running \ {f} \subseteq running'
  BY FunctionKeeps, Zenon
<1>2. q \in Queries /\ f \in FunctionType
  BY TimesNat, Zenon DEF OwnData, OwnFunctions, OwnFunction
<1>3. LateEvent(q) => LateEvent(q)'
  BY <1>1, <1>2, LateStays, Zenon
<1>4. Excused(q)'
  BY <1>1, <1>3, Zenon DEF Flawless, Excused
<1>5. ASSUME \A w : Awaited(q, w) => Awaited(q, w)' PROVE NoneLost(q)'
  BY <1>1, <1>5, Zenon DEF Flawless, NoneLost, Active
<1>6. ASSUME resultQueue' = resultQueue PROVE Outputs(q)' /\ Drained(q)'
  BY <1>1, <1>6, Zenon DEF Flawless, Outputs, Drained, Expired, FetchTimeout
<1>7. ASSUME NEW w, Awaited(q, w), ~(f.pc = "invoking" /\ (w = f.event.worker \/ w \in Invokees(f.todo)))
      PROVE  Awaited(q, w)'
  BY <1>1, <1>7, Zenon DEF Awaited, RangeWorkers, Invokees
<1>8. CASE InvokeWorker(f)
  <2>1. PICK i \in f.todo : /\ events' = events \cup {InvocationEvent(f.event, i)}
                            /\ Move(f, [f EXCEPT !.todo = @ \ {i}])
    BY <1>8, Zenon DEF InvokeWorker
  <2> DEFINE x == InvocationEvent(f.event, i)
             g == [f EXCEPT !.todo = f.todo \ {i}]
  <2>2. x \in events' /\ x.query = q /\ x.worker = i[1]
    BY <2>1, Zenon DEF InvocationEvent, Event
  <2>3. g \in running' /\ g.event = f.event /\ g.pc = f.pc /\ g.todo = f.todo \ {i}
    BY <1>2, <2>1, Zenon DEF Move, FunctionType
  <2> HIDE DEF x, g
  <2>4. ASSUME NEW w, f.pc = "invoking", w = f.event.worker \/ w \in Invokees(f.todo)
        PROVE  Awaited(q, w)'
    <3>1. CASE w = i[1]
      BY <2>2, <3>1, Zenon DEF Awaited
    <3>2. CASE w # i[1]
      <4>1. w = g.event.worker \/ w \in Invokees(g.todo)
        BY <2>3, <2>4, <3>2, Zenon DEF Invokees
      <4>2. g \in running' /\ g.event.query = q /\ g.pc = "invoking"
        BY <2>3, <2>4, Zenon
      <4> QED BY <4>1, <4>2, Zenon DEF Awaited, Invokees
    <3> QED BY <3>1, <3>2, Zenon
  <2>5. NoneLost(q)'
    BY <1>5, <1>7, <2>4, Zenon
  <2>6. resultQueue' = resultQueue
    BY <1>8, Zenon DEF InvokeWorker
  <2> QED BY <1>4, <1>6, <2>5, <2>6, Zenon DEF Flawless
<1>9. CASE Finalize(f)
  <2>1. f.pc = "finalizing" /\ resultQueue' = resultQueue
    BY <1>9, Zenon DEF Finalize
  <2>2. NoneLost(q)'
    BY <1>5, <1>7, <2>1, Zenon
  <2> QED BY <1>4, <1>6, <2>1, <2>2, Zenon DEF Flawless
<1>10. CASE RunRunner(f) /\ resultQueue' = resultQueue \cup {Message(f.event, "output")}
  <2> DEFINE m == Message(f.event, "output")
  <2>1. m.query = q /\ m.worker = f.event.worker /\ m.again = FALSE /\ m.body.kind = "output"
    BY Zenon DEF Message
  <2>2. m \in resultQueue' /\ resultQueue' = resultQueue \cup {m} /\ f.todo = {}
    BY <1>10, Zenon DEF RunRunner
  <2> HIDE DEF m
  <2>3. ASSUME NEW w, w = f.event.worker \/ w \in Invokees(f.todo) PROVE Awaited(q, w)'
    <3>1. w = f.event.worker
      BY <2>2, <2>3, Zenon DEF Invokees
    <3> QED BY <2>1, <2>2, <3>1, Zenon DEF Awaited
  <2>4. NoneLost(q)'
    BY <1>5, <1>7, <2>3, Zenon
  <2>5. Outputs(q)'
    BY <1>1, <2>1, <2>2, Zenon DEF Flawless, Outputs
  <2>6. ASSUME driver[q].pc = "fetching", Expired(q) PROVE FALSE
    <3>1. /\ f.since \in Nat /\ now \in Nat
          /\ driver[q].startedAt \in Nat /\ driver[q].since \in Nat
      BY <1>2, TimesNat, Zenon
    <3>2. /\ now <= f.since + FunctionTimeout
          /\ f.since <= driver[q].startedAt + StartupMaxDelay
          /\ driver[q].startedAt <= driver[q].since
      BY <1>2, <2>6, Zenon DEF InTime
    <3> QED BY <2>6, <3>1, <3>2, DelayAssumption, TimeoutAssumption, SMTT(20) DEF Expired, FetchTimeout
  <2>7. Drained(q)'
    BY <1>1, <2>6, Zenon DEF Drained, Expired, FetchTimeout
  <2> QED BY <1>4, <2>4, <2>5, <2>7, Zenon DEF Flawless
<1> QED BY <1>8, <1>9, <1>10, FaultlessFunction, Zenon

(* Time passes: the driver has received whatever was in the queue for it. *)
LEMMA TickFlawless ==
    ASSUME OwnData, NEW q \in Queries, Flawless(q), Tick
    PROVE  Flawless(q)'
<1>1. now' = now + 1 /\ UNCHANGED <<driver, events, running, resultQueue>>
  BY Zenon DEF Tick
<1>2. \A w : Awaited(q, w) => Awaited(q, w)'
  BY <1>1, AwaitedKept, Zenon
<1>3. NoneLost(q)'
  BY <1>1, <1>2, Zenon DEF Flawless, NoneLost, Active
<1>4. LateEvent(q) => LateEvent(q)'
  BY <1>1, LateStays, Zenon
<1>5. Excused(q)'
  BY <1>1, <1>4, Zenon DEF Flawless, Excused
<1>6. driver[q].pc = "fetching" => ~\E m \in resultQueue : m.query = q /\ ~m.again
  BY Zenon DEF Tick
<1>7. Drained(q)'
  BY <1>1, <1>6, Zenon DEF Drained
<1>8. Outputs(q)'
  BY <1>1, Zenon DEF Flawless, Outputs
<1> QED BY <1>3, <1>5, <1>7, <1>8, Zenon DEF Flawless

(* A step of another query, and one of the functions of other queries. *)
LEMMA OtherQueryFlawless ==
    ASSUME OwnData, Orderly, Seen, NEW p \in Queries, StartQuery(p) \/ RunQuery(p),
           NEW q \in Queries, p # q, Flawless(q)
    PROVE  Flawless(q)'
<1>1. /\ driver'[q] = driver[q] /\ UNCHANGED <<now, running>> /\ events \subseteq events'
      /\ Fetch(p) \/ resultQueue' = resultQueue
  BY OtherDrivers, Zenon
<1>2. CASE resultQueue' = resultQueue
  BY <1>1, <1>2, FlawlessKept, Zenon
<1>3. CASE Fetch(p)
  <2>1. PICK batch \in SUBSET resultQueue : Received(p, batch)
    BY <1>3, FetchFields, Zenon
  <2>2. ASSUME NEW m \in resultQueue', m.query = q
        PROVE  \E x \in resultQueue : x.query = q /\ x.body = m.body
    <3>1. PICK x \in resultQueue : x.query = m.query /\ x.body = m.body
      BY <2>1, <2>2, Zenon DEF Received
    <3> QED BY <2>2, <3>1, Zenon
  <2>3. driver[p].pc = "fetching"
    BY <1>3, Zenon DEF Fetch, Fetching
  <2>4. driver[q].pc = "idle" \/ Ended(q)
    BY <2>3, OneRuns, Zenon DEF Ended
  <2>5. ~Active(q)
    BY <2>4, Zenon DEF Ended, Active
  <2> QED BY <1>1, <2>2, <2>5, FlawlessKept, Zenon
<1> QED BY <1>1, <1>2, <1>3, Zenon

LEMMA OtherFunctionFlawless ==
    ASSUME OwnData, NEW q \in Queries, Flawless(q),
           \/ \E e \in events : e.query # q /\ Start(e)
           \/ \E f \in running : f.event.query # q /\ RunFunction(f)
    PROVE  Flawless(q)'
<1>1. ASSUME NEW e \in events, e.query # q, Start(e) PROVE Flawless(q)'
  <2>1. UNCHANGED <<now, driver>> /\ events \ {e} \subseteq events' /\ running \subseteq running'
    BY <1>1, Zenon DEF Start, StartFunction, StartLate, FunctionError
  <2>2. /\ resultQueue \subseteq resultQueue'
        /\ resultQueue' \subseteq resultQueue \cup {Message(e, "exception")}
    BY <1>1, Zenon DEF Start, StartFunction, StartLate
  <2>3. Message(e, "exception").query # q
    BY <1>1, Zenon DEF Message
  <2>4. \A m : m.query = q => (m \in resultQueue' <=> m \in resultQueue)
    BY <2>2, <2>3, Zenon
  <2>5. \A x \in events : x.query = q => x \in events'
    BY <1>1, <2>1, Zenon
  <2> QED BY <2>1, <2>4, <2>5, FlawlessKept, Zenon
<1>2. ASSUME NEW f \in running, f.event.query # q, RunFunction(f) PROVE Flawless(q)'
  <2>1. /\ UNCHANGED <<now, driver>> /\ events \subseteq events' /\ resultQueue \subseteq resultQueue'
        /\ running \ {f} \subseteq running'
        /\ \A m \in resultQueue' \ resultQueue : m.query = f.event.query
    BY <1>2, FunctionKeeps, Zenon
  <2>2. \A m : m.query = q => (m \in resultQueue' <=> m \in resultQueue)
    BY <1>2, <2>1, Zenon
  <2>3. \A x \in running : x.event.query = q => x \in running'
    BY <1>2, <2>1, Zenon
  <2> QED BY <2>1, <2>2, <2>3, FlawlessKept, Zenon
<1> QED BY <1>1, <1>2, Zenon

LEMMA FaultyStays == ASSUME OwnData, [Next]_vars PROVE faulty \subseteq faulty'
<1>1. (\E e \in events : Start(e)) \/ Tick \/ UNCHANGED vars => faulty \subseteq faulty'
  BY Zenon DEF Start, StartFunction, StartLate, Tick, vars
<1>2. (\E f \in running : RunFunction(f)) => faulty \subseteq faulty'
  BY FaultlessFunction, Zenon
<1>3. (\E q \in Queries : StartQuery(q) \/ RunQuery(q)) => faulty \subseteq faulty'
  BY OtherDrivers, Zenon
<1> QED BY <1>1, <1>2, <1>3, Zenon DEF Next

LEMMA FlawlessStep ==
    ASSUME OwnData, Orderly, Seen, InTime, [Next]_vars,
           NEW q \in Queries, Flawless(q), q \notin faulty'
    PROVE  Flawless(q)'
<1>1. ASSUME StartQuery(q) \/ RunQuery(q) PROVE Flawless(q)'
  <2>1. ~InvokeFails(q)
    BY InvokeFields, Zenon
  <2> QED BY <1>1, <2>1, StartQueryFlawless, InvokeRangeFlawless, StartFetchFlawless, FetchFlawless,
             EndFetchFlawless, ExtractResultsFlawless, ClosingFlawless, Zenon DEF RunQuery
<1>2. ASSUME NEW p \in Queries, p # q, StartQuery(p) \/ RunQuery(p) PROVE Flawless(q)'
  BY <1>2, OtherQueryFlawless, Zenon
<1>3. ASSUME NEW e \in events, e.query = q, Start(e) PROVE Flawless(q)'
  <2>1. ~StartLate(e)
    BY <1>3, Zenon DEF StartLate
  <2> QED BY <1>3, <2>1, StartFunctionFlawless, Zenon DEF Start
<1>4. ASSUME NEW f \in running, f.event.query = q, RunFunction(f) PROVE Flawless(q)'
  BY <1>4, RunFunctionFlawless, Zenon
<1>5. CASE Tick
  BY <1>5, TickFlawless, Zenon
<1>6. CASE UNCHANGED vars
  BY <1>6, FlawlessKept, Zenon DEF vars
<1> QED BY <1>1, <1>2, <1>3, <1>4, <1>5, <1>6, OtherFunctionFlawless, Zenon DEF Next

LEMMA ReasonsInit == Init => Reasons
<1> SUFFICES ASSUME Init PROVE Reasons
  BY Zenon
<1>1. /\ events = {} /\ running = {} /\ resultQueue = {}
      /\ \A q \in Queries : driver[q].pc = "idle" /\ driver[q].messages = [w \in {} |-> {}]
  BY Zenon DEF Init
<1>2. \A q \in Queries : DOMAIN driver[q].messages = {}
  BY <1>1, Zenon
<1>3. \A q \in Queries : Flawless(q)
  BY <1>1, <1>2, Zenon DEF Flawless, Outputs, NoneLost, Drained, Excused, Active
<1>4. Orderly /\ Seen /\ InTime
  BY <1>1, Zenon DEF Orderly, Seen, InTime
<1> QED BY <1>3, <1>4, Zenon DEF Reasons

(* A query raises only if something went wrong in it or a function did not start in time,
   for any number of queries, workers and faults and any limits: the driver's patience,
   the time limit of a function plus the delay handler.py accepts, cuts off no function
   that started in time, and no message an earlier query left behind makes a query fail
   (driver.fetch_results, extract_results, handler.py). *)
THEOREM RaisesJustified == Spec => []RaiseJustified
<1>1. ClaimsInv /\ Reasons /\ [Next]_vars => (ClaimsInv /\ Reasons)'
  <2> SUFFICES ASSUME ClaimsInv, Reasons, [Next]_vars PROVE (ClaimsInv /\ Reasons)'
    BY Zenon
  <2>1. OwnData /\ Retried /\ ClaimsInv'
    BY ClaimsStep, Zenon DEF ClaimsInv
  <2>2. Orderly' /\ Seen' /\ InTime'
    BY <2>1, OrderlyStep, SeenStep, InTimeStep, Zenon DEF Reasons
  <2>3. ASSUME NEW q \in Queries PROVE q \in faulty' \/ Flawless(q)'
    BY <2>1, FaultyStays, FlawlessStep, Zenon DEF Reasons
  <2> QED BY <2>1, <2>2, <2>3, Zenon DEF Reasons
<1>2. Reasons => RaiseJustified
  BY Zenon DEF Reasons, Flawless, Excused, LateEvent, RaiseJustified
<1> QED BY <1>1, <1>2, ClaimsInit, ReasonsInit, PTL DEF Spec
=============================================================================
