----------------------- MODULE ConcurrentExecuteProofs -----------------------
(***************************************************************************)
(* Proofs about the operators of module ConcurrentExecute, for any streams *)
(* of inputs: what they deliver is exact, and their consumers see an       *)
(* iterator (AbstractIterator).                                            *)
(*                                                                         *)
(* The invariant says what the operator has at each place: nothing, the    *)
(* runners of the inputs so far, or the results of all inputs of which     *)
(* those that result_it_ has passed are delivered.                         *)
(***************************************************************************)
EXTENDS ConcurrentExecute, FiniteSetTheorems, SequenceTheorems, TLAPS

RunnerRecord == [input : Nat, eof : BOOLEAN, cut : BOOLEAN,
                 exit : {"none", "ok", "failed", "terminated"}]

Types ==
    /\ target \in {"process", "lambda"}
    /\ upstream \in Seq(Kinds)
    /\ consumed \in 0 .. Len(upstream)
    /\ pc \in {"closed", "open", "computing", "delivering", "thrown", "done"}
    /\ runners \in Seq(RunnerRecord)
    /\ results \in Seq(Int)
    /\ resultIt \in 0 .. Len(results)
    /\ delivered \in Seq(Int)
    /\ nexts \in Nat

\* next() was not called yet.
Fresh ==
    /\ consumed = 0 /\ runners = <<>> /\ results = <<>> /\ resultIt = 0
    /\ delivered = <<>> /\ nexts = 0

\* The results are those of all inputs, each one once.
ResultsExact ==
    /\ consumed = Len(upstream) /\ runners = <<>>
    /\ \A k \in DOMAIN results : results[k] # None => results[k] \in Expected
    /\ \A i \in Expected : \E k \in DOMAIN results : results[k] = i
    /\ \A k, l \in DOMAIN results : k < l /\ results[k] # None => results[k] # results[l]
    /\ target = "process" =>
          /\ Len(results) = Len(upstream)
          /\ \A k, l \in DOMAIN results :
                k < l /\ results[k] # None /\ results[l] # None => results[k] < results[l]

\* What result_it_ has passed is delivered, in this order.
PassedDelivered ==
    /\ \A i \in Int :
          (\E j \in DOMAIN delivered : delivered[j] = i)
             <=> i # None /\ \E k \in 1 .. resultIt : results[k] = i
    /\ IsInjective(delivered)
    /\ target = "process" =>
          \A k \in DOMAIN delivered :
              {delivered[j] : j \in 1 .. k - 1} = {i \in Expected : i < delivered[k]}

\* Of n calls that have returned, only those that reported the end delivered nothing.
Returned(n) ==
    /\ n >= Len(delivered)
    /\ n > Len(delivered) => resultIt = Len(results)

\* The runners of the inputs that were consumed; a call that computes again does it
\* because there was no result at all.
Gathering ==
    /\ results = <<>> /\ resultIt = 0 /\ delivered = <<>>
    /\ nexts > 0
    /\ nexts > 1 => consumed = Len(upstream) /\ runners = <<>> /\ Expected = {}
    /\ target = "process" =>
          /\ Len(runners) = consumed
          /\ \A r \in DOMAIN runners : runners[r].input = r /\ runners[r].exit # "terminated"
    /\ target = "lambda" => runners = <<>> /\ (nexts = 1 => consumed = 0)

Progress ==
    /\ Types
    /\ pc = "closed" => Fresh
    /\ pc \in {"open", "done"} =>
          Fresh \/ (ResultsExact /\ PassedDelivered /\ nexts > 0 /\ Returned(nexts))
    /\ pc = "computing" => Gathering
    /\ pc = "delivering" => ResultsExact /\ PassedDelivered /\ nexts > 0 /\ Returned(nexts - 1)
    /\ pc = "thrown" => delivered = <<>> /\ \A r \in DOMAIN runners : runners[r].exit # "none"

-----------------------------------------------------------------------------
\* A function on 1 .. n is a sequence.
LEMMA FunctionSeq ==
    ASSUME NEW S, NEW n \in Nat, NEW f \in [1 .. n -> S]
    PROVE  f \in Seq(S) /\ Len(f) = n /\ DOMAIN f = 1 .. n
OBVIOUS

\* A sequence without indices is empty.
LEMMA NoIndices ==
    ASSUME NEW S, NEW f \in Seq(S), \A j \in DOMAIN f : FALSE
    PROVE  f = <<>>
<1>1. Len(f) \in Nat /\ DOMAIN f = 1 .. Len(f)
  OBVIOUS
<1>2. Len(f) > 0 => 1 \in DOMAIN f
  BY <1>1
<1>3. Len(f) \notin Nat \ {0}
  BY <1>1, <1>2
<1> QED
  BY <1>3, EmptySeq, Zenon

\* Nothing is there when the operator is created.
LEMMA ProgressInit == Init => Progress
<1> SUFFICES ASSUME Init
             PROVE  Progress
  BY Zenon
<1>1. Types
  BY InputsAssumption DEF Init, Types, RunnerRecord
<1> QED
  BY <1>1, Zenon DEF Init, Progress, Fresh

\* Opening, closing, and the start of next() leave the results alone.
LEMMA OpenStep == ASSUME Progress, Open PROVE Progress'
<1>1. Types'
  BY Zenon DEF Open, Progress, Types
<1> QED
  BY <1>1, Zenon DEF Open, Progress, Fresh

LEMMA CloseStep == ASSUME Progress, Close PROVE Progress'
<1>1. Types'
  BY Zenon DEF Close, Progress, Types
<1>2. (ResultsExact /\ PassedDelivered /\ nexts > 0 /\ Returned(nexts))'
         <=> (ResultsExact /\ PassedDelivered /\ nexts > 0 /\ Returned(nexts))
  BY DEF Close, ResultsExact, PassedDelivered, Returned, Expected
<1> QED
  BY <1>1, <1>2, Zenon DEF Close, Progress, Fresh

\* A call that computes again has neither delivered nor seen any result.
LEMMA CallNextStep == ASSUME Progress, CallNext PROVE Progress'
<1> USE DEF Progress
<1>1. /\ pc = "open" /\ nexts' = nexts + 1
      /\ pc' = IF results = <<>> THEN "computing" ELSE "delivering"
      /\ UNCHANGED <<target, upstream, consumed, runners, results, resultIt, delivered>>
  BY Zenon DEF CallNext
<1>2. Types'
  BY <1>1 DEF Types
<1>3. nexts \in Nat /\ nexts' > 0 /\ delivered \in Seq(Int) /\ results \in Seq(Int)
  BY <1>1 DEF Types
<1>4. CASE Fresh
  BY <1>1, <1>2, <1>3, <1>4 DEF Fresh, Gathering
<1>5. CASE ResultsExact /\ PassedDelivered /\ nexts > 0 /\ Returned(nexts)
  <2>1. CASE results = <<>>
    <3>1. resultIt = 0
      BY <1>1, <2>1 DEF Types
    <3>2. Expected = {}
      BY <1>5, <2>1 DEF ResultsExact
    <3>3. delivered = <<>>
      <4>1. \A j \in DOMAIN delivered : FALSE
        BY <1>3, <1>5, <3>1 DEF PassedDelivered
      <4> QED
        BY <1>3, <4>1, NoIndices, Zenon
    <3>4. target = "process" => Len(runners) = consumed
      BY <1>5, <2>1, Zenon DEF ResultsExact
    <3>5. Expected' = Expected
      BY <1>1, Zenon DEF Expected
    <3>6. Gathering'
      BY <1>1, <1>3, <1>5, <2>1, <3>1, <3>2, <3>3, <3>4, <3>5, SMTT(20) DEF Gathering, ResultsExact
    <3> QED
      BY <1>1, <1>2, <2>1, <3>6, Zenon
  <2>2. CASE results # <<>>
    <3>1. ResultsExact'
      BY <1>1, <1>5, Zenon DEF ResultsExact, Expected
    <3>2. PassedDelivered'
      BY <1>1, <1>5 DEF PassedDelivered, Expected
    <3>3. nexts' - 1 = nexts
      BY <1>1, <1>3
    <3>4. (nexts > 0 /\ Returned(nexts - 1))'
      BY <1>1, <1>3, <1>5, <3>3, Zenon DEF Returned
    <3> QED
      BY <1>1, <1>2, <2>2, <3>1, <3>2, <3>4, Zenon
  <2> QED
    BY <2>1, <2>2, Zenon
<1> QED
  BY <1>1, <1>4, <1>5, Zenon

\* The r-th runner has the r-th input.
LEMMA SpawnRunnerStep == ASSUME Progress, SpawnRunner PROVE Progress'
<1> DEFINE new == Runner(consumed + 1, TRUE)
<1>1. /\ pc = "computing" /\ target = "process" /\ consumed < Len(upstream)
      /\ consumed' = consumed + 1 /\ runners' = Append(runners, new)
      /\ UNCHANGED <<target, upstream, pc, results, resultIt, delivered, nexts>>
  BY Zenon DEF SpawnRunner
<1>2. Types /\ Gathering
  BY <1>1, Zenon DEF Progress
<1>3. new \in RunnerRecord /\ new.input = consumed + 1 /\ new.exit = "none"
  BY <1>2 DEF Runner, RunnerRecord, Types
<1> HIDE DEF new
<1>4. Types'
  BY <1>1, <1>2, <1>3 DEF Types
<1>5. \A r \in DOMAIN runners' : runners'[r].input = r /\ runners'[r].exit # "terminated"
  BY <1>1, <1>2, <1>3 DEF Types, Gathering
<1>6. Len(runners') = consumed'
  BY <1>1, <1>2, <1>3 DEF Types, Gathering
<1>7. nexts = 1
  BY <1>1, <1>2 DEF Types, Gathering
<1>8. Gathering'
  BY <1>1, <1>2, <1>5, <1>6, <1>7 DEF Gathering
<1> QED
  BY <1>1, <1>4, <1>8, Zenon DEF Progress

\* A runner ends only while next() waits for it.
LEMMA RunnerExitsStep == ASSUME Progress, NEW r \in DOMAIN runners, RunnerExits(r) PROVE Progress'
<1>1. PICK exit \in {"ok", "failed"} : runners' = [runners EXCEPT ![r].exit = exit]
  BY Zenon DEF RunnerExits
<1>2. /\ runners[r].exit = "none"
      /\ UNCHANGED <<target, upstream, consumed, pc, results, resultIt, delivered, nexts>>
  BY Zenon DEF RunnerExits
<1>3. pc = "computing"
  BY <1>2 DEF Progress, Types, Fresh, ResultsExact
<1>4. Types /\ Gathering
  BY <1>3, Zenon DEF Progress
<1>5. runners[r] \in RunnerRecord /\ r \in 1 .. Len(runners)
  BY <1>4 DEF Types
<1>6. [runners[r] EXCEPT !.exit = exit] \in RunnerRecord
  BY <1>5, Zenon DEF RunnerRecord
<1>7. runners' \in Seq(RunnerRecord) /\ Len(runners') = Len(runners)
  BY <1>1, <1>4, <1>5, <1>6 DEF Types
<1>8. Types'
  BY <1>2, <1>4, <1>7, Zenon DEF Types
<1>9. \A s \in DOMAIN runners' : runners'[s].input = runners[s].input
                                 /\ (runners'[s].exit = runners[s].exit \/ runners'[s].exit = exit)
  BY <1>1, <1>4, <1>5, Zenon DEF Types, RunnerRecord
<1>10. Gathering'
  BY <1>1, <1>2, <1>4, <1>5, <1>7, <1>9 DEF Gathering, Types, Expected
<1> QED
  BY <1>2, <1>3, <1>8, <1>10, Zenon DEF Progress

\* An exception terminates the runners that are left.
LEMMA ThrowStep ==
    ASSUME Progress, pc = "computing", Throw, consumed' \in 0 .. Len(upstream)
    PROVE  Progress'
<1> DEFINE ended == [r \in DOMAIN runners |->
                       [runners[r] EXCEPT !.exit = IF @ = "none" THEN "terminated" ELSE @]]
<1>1. /\ pc' = "thrown" /\ runners' = ended
      /\ UNCHANGED <<target, upstream, results, resultIt, delivered, nexts>>
  BY Zenon DEF Throw
<1>2. Types /\ Gathering
  BY Zenon DEF Progress
<1>3. DOMAIN runners = 1 .. Len(runners) /\ Len(runners) \in Nat
      /\ \A r \in DOMAIN runners : runners[r] \in RunnerRecord
  BY <1>2 DEF Types
<1>4. \A r \in DOMAIN runners : ended[r] \in RunnerRecord /\ ended[r].exit # "none"
  BY <1>3, Zenon DEF RunnerRecord
<1>5. runners' \in [1 .. Len(runners) -> RunnerRecord]
  BY <1>1, <1>3, <1>4, Zenon
<1>6. runners' \in Seq(RunnerRecord)
  BY <1>3, <1>5, FunctionSeq, Zenon
<1>7. Types'
  BY <1>1, <1>2, <1>6, Zenon DEF Types
<1>8. \A r \in DOMAIN runners' : runners'[r].exit # "none"
  BY <1>1, <1>4, Zenon
<1> QED
  BY <1>1, <1>2, <1>7, <1>8, Zenon DEF Progress, Gathering

\* No runner, no process or no pipe: what was consumed stays within the inputs.
LEMMA FailsStep == ASSUME Progress, SetUpFails \/ SpawnFails \/ WriteFails PROVE Progress'
<1>1. pc = "computing" /\ Throw
  BY Zenon DEF SetUpFails, SpawnFails, WriteFails, Spawned
<1>2. Types
  BY Zenon DEF Progress
<1>3. consumed' \in 0 .. Len(upstream)
  <2>1. CASE SpawnFails
    BY <1>2, <2>1 DEF SpawnFails, Types
  <2>2. CASE SetUpFails \/ WriteFails
    BY <1>2, <2>2, Zenon DEF SetUpFails, WriteFails, Types
  <2> QED
    BY <2>1, <2>2, Zenon
<1> QED
  BY <1>1, <1>3, ThrowStep, Zenon

\* The runners that ended well have the results of all inputs, in their order.
LEMMA CollectResultsStep == ASSUME Progress, CollectResults PROVE Progress'
<1> DEFINE outputs == [r \in DOMAIN runners |-> Output(r)]
<1>1. /\ pc = "computing" /\ target = "process" /\ consumed = Len(upstream)
      /\ \A r \in DOMAIN runners : runners[r].exit # "none"
      /\ results' = results \o outputs
      /\ pc' = IF FailedRunners = {} THEN "delivering" ELSE "thrown"
      /\ resultIt' = IF FailedRunners = {} THEN 0 ELSE resultIt
      /\ runners' = IF FailedRunners = {} THEN <<>> ELSE runners
      /\ UNCHANGED <<target, upstream, consumed, delivered, nexts>>
  BY Zenon DEF CollectResults, Spawned
<1>2. Types /\ Gathering
  BY <1>1, Zenon DEF Progress
<1>3. /\ DOMAIN runners = 1 .. Len(upstream) /\ Len(upstream) \in Nat
      /\ \A r \in DOMAIN runners : runners[r].input = r /\ runners[r] \in RunnerRecord
  BY <1>1, <1>2 DEF Types, Gathering
<1>4. \A r \in DOMAIN runners : Output(r) \in Int
  BY <1>3 DEF Output, Result, None, Garbage
<1>5. outputs \in [1 .. Len(upstream) -> Int]
  BY <1>3, <1>4, Zenon
<1>6. outputs \in Seq(Int) /\ Len(outputs) = Len(upstream)
  BY <1>3, <1>5, FunctionSeq, Zenon
<1>7. results' = outputs
  <2> HIDE DEF outputs
  <2> QED
    BY <1>1, <1>2, <1>6 DEF Gathering
<1>8. Types'
  <2> HIDE DEF outputs
  <2> QED
    BY <1>1, <1>2, <1>6, <1>7 DEF Types, Gathering
<1>9. CASE FailedRunners # {}
  BY <1>1, <1>2, <1>8, <1>9, Zenon DEF Progress, Gathering
<1>10. CASE FailedRunners = {}
  <2>1. \A r \in 1 .. Len(upstream) : runners[r].exit = "ok"
    BY <1>1, <1>2, <1>3, <1>10 DEF FailedRunners, RunnerRecord, Gathering
  <2>2. \A r \in 1 .. Len(upstream) : results'[r] = Result(r)
    BY <1>3, <1>7, <2>1, Zenon DEF Output
  <2>3. DOMAIN results' = 1 .. Len(upstream) /\ Len(results') = Len(upstream)
    BY <1>3, <1>6, <1>7, Zenon
  <2>4. Expected' = Expected /\ Expected \subseteq 1 .. Len(upstream)
        /\ \A i \in 1 .. Len(upstream) : i \in Expected <=> upstream[i] # "none"
    BY <1>1, <1>2 DEF Expected, Types
  <2>5. \A r \in 1 .. Len(upstream) : results'[r] = IF r \in Expected THEN r ELSE None
    BY <2>2, <2>4, Zenon DEF Result
  <2>6. ResultsExact'
    BY <1>1, <1>3, <1>10, <2>3, <2>4, <2>5, SMTT(20) DEF ResultsExact, None
  <2>7. PassedDelivered'
    BY <1>1, <1>2, <1>10 DEF PassedDelivered, Gathering, IsInjective
  <2>8. (nexts > 0 /\ Returned(nexts - 1))'
    <3>1. CASE nexts = 1
      BY <1>1, <1>2, <3>1 DEF Returned, Gathering
    <3>2. CASE nexts > 1
      <4>1. Len(upstream) = 0
        BY <1>1, <1>2, <1>3, <3>2, Zenon DEF Gathering
      <4> QED
        BY <1>1, <1>2, <1>10, <2>3, <3>2, <4>1 DEF Returned, Gathering, Types
    <3> QED
      BY <1>2, <3>1, <3>2 DEF Gathering, Types
  <2> QED
    BY <1>1, <1>8, <1>10, <2>6, <2>7, <2>8, Zenon DEF Progress
<1> QED
  BY <1>9, <1>10, Zenon

\* The outputs arrive in some order, each one once.
LEMMA ArrivedExact ==
    ASSUME NEW S, IsFiniteSet(S), NEW arrived \in Orders(S)
    PROVE  /\ arrived \in Seq(S)
           /\ \A i \in S : \E k \in DOMAIN arrived : arrived[k] = i
           /\ \A k, l \in DOMAIN arrived : k # l => arrived[k] # arrived[l]
<1> DEFINE n == Cardinality(S)
<1>1. n \in Nat
  BY FS_CardinalityType, Zenon
<1>2. /\ arrived \in [1 .. n -> S]
      /\ \A k, l \in 1 .. n : k # l => arrived[k] # arrived[l]
      /\ \A i \in S : \E k \in 1 .. n : arrived[k] = i
  BY Zenon DEF Orders, Bijection, Injection, Surjection, IsInjective
<1>3. arrived \in Seq(S) /\ DOMAIN arrived = 1 .. n
  BY <1>1, <1>2, FunctionSeq, Zenon
<1> QED
  BY <1>2, <1>3, Zenon

\* The results of run_query are those of all inputs, without None.
LEMMA MaterializeResultStep == ASSUME Progress, MaterializeResult PROVE Progress'
<1>1. /\ pc = "computing" /\ target = "lambda" /\ consumed' = Len(upstream)
      /\ UNCHANGED <<target, upstream, runners, delivered, nexts>>
  BY Zenon DEF MaterializeResult
<1>2. Types /\ Gathering
  BY <1>1, Zenon DEF Progress
<1>3. CASE /\ pc' = "thrown" /\ UNCHANGED <<results, resultIt>>
  <2>1. Types'
    BY <1>1, <1>2, <1>3 DEF Types
  <2> QED
    BY <1>1, <1>2, <1>3, <2>1 DEF Progress, Gathering
<1>4. CASE /\ \E arrived \in Orders({i \in consumed + 1 .. Len(upstream) : Result(i) # None}) :
                 results' = results \o arrived
           /\ resultIt' = 0
           /\ pc' = "delivering"
  <2> DEFINE S == {i \in consumed + 1 .. Len(upstream) : Result(i) # None}
  <2>1. IsFiniteSet(S) /\ S \subseteq Int
    <3>1. consumed + 1 \in Int /\ Len(upstream) \in Int
      BY <1>2 DEF Types
    <3>2. IsFiniteSet(consumed + 1 .. Len(upstream))
      BY <3>1, FS_Interval, Zenon
    <3>3. S \in SUBSET (consumed + 1 .. Len(upstream))
      BY Zenon
    <3> QED
      BY <3>1, <3>2, <3>3, FS_Subset
  <2>2. S = Expected
    <3>1. DOMAIN upstream = 1 .. Len(upstream) /\ Len(upstream) \in Nat
      BY <1>2 DEF Types
    <3>2. CASE nexts = 1
      BY <1>1, <1>2, <3>1, <3>2 DEF Gathering, Expected, Result, None
    <3>3. CASE nexts > 1
      BY <1>1, <1>2, <3>1, <3>3 DEF Gathering, Expected, Result, None
    <3> QED
      BY <1>2, <3>2, <3>3 DEF Gathering, Types
  <2>3. PICK arrived \in Orders(S) : results' = results \o arrived
    BY <1>4, Zenon
  <2>4. None \notin S
    BY Zenon DEF Result, None
  <2> HIDE DEF S
  <2>5. /\ arrived \in Seq(S)
        /\ \A i \in S : \E k \in DOMAIN arrived : arrived[k] = i
        /\ \A k, l \in DOMAIN arrived : k # l => arrived[k] # arrived[l]
    BY <2>1, ArrivedExact, Zenon
  <2>6. results' = arrived /\ arrived \in Seq(Int)
    <3>1. arrived \in Seq(Int)
      BY <2>1, <2>5, SeqMonotonic, Zenon
    <3>2. results = <<>>
      BY <1>2, Zenon DEF Gathering
    <3> QED
      BY <2>3, <3>1, <3>2, ConcatEmptySeq, Zenon
  <2>7. Types'
    BY <1>1, <1>2, <1>4, <2>6 DEF Types
  <2>8. Expected' = Expected
    BY <1>1, Zenon DEF Expected
  <2>9. ResultsExact'
    <3>1. \A k \in DOMAIN arrived : arrived[k] \in Expected
      BY <2>2, <2>5
    <3>2. \A k, l \in DOMAIN arrived : k < l => arrived[k] # arrived[l]
      <4>1. \A k \in DOMAIN arrived : k \in Int
        BY <2>5
      <4> QED
        BY <2>5, <4>1
    <3> QED
      BY <1>1, <1>2, <2>2, <2>5, <2>6, <2>8, <3>1, <3>2, Zenon DEF ResultsExact, Gathering
  <2>10. PassedDelivered'
    BY <1>1, <1>2, <1>4 DEF PassedDelivered, Gathering, IsInjective
  <2>11. (nexts > 0 /\ Returned(nexts - 1))'
    <3>1. CASE nexts = 1
      BY <1>1, <1>2, <3>1 DEF Returned, Gathering
    <3>2. CASE nexts > 1
      <4>1. S = {}
        BY <1>2, <2>2, <3>2, Zenon DEF Gathering
      <4>2. arrived = <<>>
        BY <2>5, <4>1, NoIndices
      <4> QED
        BY <1>1, <1>2, <1>4, <2>6, <3>2, <4>2 DEF Returned, Gathering, Types
    <3> QED
      BY <1>2, <3>1, <3>2 DEF Gathering, Types
  <2> QED
    BY <1>1, <1>4, <2>7, <2>9, <2>10, <2>11, Zenon DEF Progress
<1> QED
  BY <1>3, <1>4, Zenon DEF MaterializeResult

\* next() returns the first result that is left, or there is none left.
LEMMA DeliverStep == ASSUME Progress, Deliver PROVE Progress'
<1> DEFINE R == Len(results)
<1>1. /\ pc = "delivering" /\ pc' = "open"
      /\ UNCHANGED <<target, upstream, consumed, runners, results, nexts>>
  BY Zenon DEF Deliver
<1>2. /\ Types /\ ResultsExact /\ PassedDelivered /\ nexts > 0 /\ Returned(nexts - 1)
  BY <1>1, Zenon DEF Progress
<1>3. results \in Seq(Int) /\ delivered \in Seq(Int) /\ nexts \in Nat /\ Len(delivered) \in Nat
  BY <1>2 DEF Types
<1>4. /\ R \in Nat /\ resultIt \in Nat /\ resultIt <= R /\ DOMAIN results = 1 .. R
      /\ \A k \in DOMAIN results : results[k] \in Int
  BY <1>2 DEF Types
<1>5. Remaining = {k \in resultIt + 1 .. R : results[k] # None}
  BY Zenon DEF Remaining
<1> HIDE DEF R
<1>6. Expected' = Expected /\ Expected \subseteq Int
  BY <1>1, <1>2 DEF Expected, Types
<1>7. ResultsExact'
  BY <1>1, <1>2, <1>6 DEF ResultsExact
<1>8. CASE Remaining = {} /\ resultIt' = R /\ UNCHANGED delivered
  <2>1. Types'
    BY <1>1, <1>2, <1>8 DEF Types, R
  <2>2. \A k \in 1 .. R : k \in 1 .. resultIt \/ results[k] = None
    BY <1>4, <1>5, <1>8
  <2>3. 1 .. resultIt \subseteq 1 .. R
    BY <1>4
  <2>4. \A i \in Int : (i # None /\ \E k \in 1 .. R : results[k] = i)
                          <=> (i # None /\ \E k \in 1 .. resultIt : results[k] = i)
    BY <2>2, <2>3, Zenon
  <2>5. PassedDelivered'
    BY <1>1, <1>2, <1>6, <1>8, <2>4 DEF PassedDelivered
  <2>6. (nexts > 0 /\ Returned(nexts))'
    BY <1>1, <1>2, <1>3, <1>8 DEF Returned, R
  <2> QED
    BY <1>1, <1>7, <2>1, <2>5, <2>6, Zenon DEF Progress
<1>9. ASSUME NEW k \in Remaining, \A l \in Remaining : k <= l,
             resultIt' = k, delivered' = Append(delivered, results[k])
      PROVE  Progress'
  <2> DEFINE v == results[k]
             n == Len(delivered)
  <2>1. /\ k \in DOMAIN results /\ k \in Nat /\ k > resultIt /\ k <= R
        /\ v # None /\ v \in Int
    BY <1>4, <1>5, <1>9
  <2>2. \A l \in DOMAIN results : l \in 1 .. resultIt \/ l >= k \/ results[l] = None
    BY <1>4, <1>5, <1>9, <2>1
  <2>3. \A l \in 1 .. resultIt : l \in DOMAIN results /\ l < k
    BY <1>4, <2>1
  <2>4. v \in Expected /\ \A l \in 1 .. resultIt : results[l] # v
    BY <1>2, <2>1, <2>3, Zenon DEF ResultsExact
  <2>5. ~ \E j \in DOMAIN delivered : delivered[j] = v
    BY <1>2, <2>1, <2>4, Zenon DEF PassedDelivered
  <2> HIDE DEF v
  <2>6. /\ delivered' = Append(delivered, v) /\ delivered' \in Seq(Int) /\ n \in Nat
        /\ Len(delivered') = n + 1 /\ DOMAIN delivered = 1 .. n /\ DOMAIN delivered' = 1 .. n + 1
        /\ delivered'[n + 1] = v /\ \A j \in 1 .. n : delivered'[j] = delivered[j]
    BY <1>3, <1>9, <2>1 DEF v, n
  <2> HIDE DEF n
  <2>7. Types'
    BY <1>1, <1>2, <1>9, <2>1, <2>6 DEF Types, R
  <2>8. \A i \in Int : (\E j \in DOMAIN delivered' : delivered'[j] = i)
                          <=> i = v \/ \E j \in DOMAIN delivered : delivered[j] = i
    BY <2>6
  <2>9. \A i \in Int : (i # None /\ \E l \in 1 .. k : results[l] = i)
                          <=> i = v \/ (i # None /\ \E l \in 1 .. resultIt : results[l] = i)
    <3>1. ASSUME NEW i \in Int, i # None, NEW l \in 1 .. k, results[l] = i
          PROVE  i = v \/ \E m \in 1 .. resultIt : results[m] = i
      <4>1. l \in DOMAIN results
        BY <1>4, <2>1
      <4>2. l = k \/ l \in 1 .. resultIt
        BY <2>1, <2>2, <3>1, <4>1
      <4> QED
        BY <3>1, <4>2, Zenon DEF v
    <3>2. k \in 1 .. k /\ 1 .. resultIt \subseteq 1 .. k
      BY <1>4, <2>1
    <3> QED
      BY <2>1, <3>1, <3>2, Zenon DEF v
  <2>10. IsInjective(delivered')
    <3>1. IsInjective(delivered)
      BY <1>2, Zenon DEF PassedDelivered
    <3> QED
      BY <2>5, <2>6, <3>1 DEF IsInjective
  <2>11. ASSUME target = "process", NEW m \in DOMAIN delivered'
         PROVE  {delivered'[j] : j \in 1 .. m - 1} = {i \in Expected : i < delivered'[m]}
    <3>1. \A j \in 1 .. m - 1 : j \in 1 .. n /\ delivered'[j] = delivered[j]
      BY <2>6
    <3>2. {delivered'[j] : j \in 1 .. m - 1} = {delivered[j] : j \in 1 .. m - 1}
      BY <3>1, Zenon
    <3>3. CASE m \in 1 .. n
      BY <1>2, <2>6, <2>11, <3>2, <3>3, Zenon DEF PassedDelivered
    <3>4. CASE m = n + 1
      <4>1. 1 .. m - 1 = DOMAIN delivered
        BY <2>6, <3>4
      <4>2. ASSUME NEW j \in DOMAIN delivered
            PROVE  delivered[j] \in Expected /\ delivered[j] < v
        <5>1. delivered[j] \in Int
          BY <1>3
        <5>2. PICK l \in 1 .. resultIt : results[l] = delivered[j] /\ delivered[j] # None
          BY <1>2, <5>1, Zenon DEF PassedDelivered
        <5>3. l \in DOMAIN results /\ l < k
          BY <2>3, Zenon
        <5> QED
          BY <1>2, <2>1, <2>11, <5>2, <5>3, Zenon DEF ResultsExact, v
      <4>3. ASSUME NEW i \in Expected, i < v
            PROVE  \E j \in DOMAIN delivered : delivered[j] = i
        <5>1. PICK l \in DOMAIN results : results[l] = i
          BY <1>2, Zenon DEF ResultsExact
        <5>2. i \in Int /\ i # None
          BY <1>2, <1>6 DEF Expected, Types, None
        <5>3. ~ (k < l) /\ l # k
          BY <1>2, <2>1, <2>11, <4>3, <5>1, <5>2 DEF ResultsExact, v
        <5>4. ~ (l >= k)
          BY <1>4, <2>1, <5>3
        <5>5. l \in 1 .. resultIt
          BY <2>2, <5>1, <5>2, <5>4, Zenon
        <5> QED
          BY <1>2, <5>1, <5>2, <5>5, Zenon DEF PassedDelivered
      <4> QED
        BY <2>6, <3>2, <3>4, <4>1, <4>2, <4>3, ZenonT(30)
    <3>5. m \in 1 .. n \/ m = n + 1
      BY <2>6
    <3> QED
      BY <3>3, <3>4, <3>5, Zenon
  <2>12. PassedDelivered'
    <3>1. \A i \in Int : (\E j \in DOMAIN delivered : delivered[j] = i)
                            <=> i # None /\ \E l \in 1 .. resultIt : results[l] = i
      BY <1>2, Zenon DEF PassedDelivered
    <3>2. \A i \in Int : (\E j \in DOMAIN delivered' : delivered'[j] = i)
                            <=> i # None /\ \E l \in 1 .. k : results[l] = i
      BY <2>8, <2>9, <3>1, Zenon
    <3> QED
      BY <1>1, <1>6, <1>9, <2>10, <2>11, <3>2, Zenon DEF PassedDelivered
  <2>13. nexts - 1 = n
    <3>1. nexts - 1 >= n /\ (nexts - 1 > n => resultIt = R)
      BY <1>2, Zenon DEF Returned, n, R
    <3> QED
      BY <1>4, <1>3, <2>1, <2>6, <3>1
  <2>14. (nexts > 0 /\ Returned(nexts))'
    BY <1>1, <1>3, <2>6, <2>13 DEF Returned
  <2> QED
    BY <1>1, <1>7, <2>7, <2>12, <2>14, Zenon DEF Progress
<1> QED
  BY <1>8, <1>9, Zenon DEF Deliver, R

-----------------------------------------------------------------------------
\* Every step of the operator and of its runners keeps the invariant.
LEMMA ProgressStep == Progress /\ [Next]_vars => Progress'
<1> SUFFICES ASSUME Progress, [Next]_vars
             PROVE  Progress'
  BY Zenon
<1>1. CASE UNCHANGED vars
  <2>1. Types' /\ (Fresh' <=> Fresh)
    BY <1>1, Zenon DEF vars, Progress, Types, Fresh
  <2>2. (ResultsExact' <=> ResultsExact) /\ (PassedDelivered' <=> PassedDelivered)
    BY <1>1 DEF vars, ResultsExact, PassedDelivered, Expected
  <2>3. (Returned(nexts)' <=> Returned(nexts)) /\ (Returned(nexts - 1)' <=> Returned(nexts - 1))
    BY <1>1, Zenon DEF vars, Returned
  <2>4. Gathering' <=> Gathering
    BY <1>1, Zenon DEF vars, Gathering, Expected
  <2> QED
    BY <1>1, <2>1, <2>2, <2>3, <2>4, Zenon DEF vars, Progress
<1>2. CASE Open \/ CallNext \/ Deliver \/ Close
  BY <1>2, OpenStep, CallNextStep, DeliverStep, CloseStep, Zenon
<1>3. CASE ComputeResult
  BY <1>3, SpawnRunnerStep, FailsStep, CollectResultsStep, MaterializeResultStep, Zenon DEF ComputeResult
<1>4. CASE \E r \in DOMAIN runners : RunnerExits(r)
  BY <1>4, RunnerExitsStep, Zenon
<1> QED
  BY <1>1, <1>2, <1>3, <1>4, Zenon DEF Next

LEMMA ProgressInvariant == Spec => []Progress
<1> QED
  BY ProgressInit, ProgressStep, PTL DEF Spec

\* Results that are exact are delivered exactly.
LEMMA ProgressExact == Progress => DeliveredExact
<1>1. ASSUME Progress
      PROVE  DeliveredExact
  <2>1. Types
    BY <1>1, Zenon DEF Progress
  <2>2. CASE delivered = <<>> /\ ~ (pc \in {"open", "done"} /\ nexts > 0)
    BY <2>2 DEF DeliveredExact, IsInjective, Range
  <2>3. CASE ResultsExact /\ PassedDelivered
    <3>1. ASSUME NEW j \in DOMAIN delivered
          PROVE  delivered[j] \in Expected
      <4>1. delivered[j] \in Int
        BY <2>1 DEF Types
      <4>2. PICK k \in 1 .. resultIt : results[k] = delivered[j] /\ delivered[j] # None
        BY <2>3, <4>1, Zenon DEF PassedDelivered
      <4>3. k \in DOMAIN results
        BY <2>1 DEF Types
      <4> QED
        BY <2>3, <4>2, <4>3, Zenon DEF ResultsExact
    <3>2. ASSUME resultIt = Len(results), NEW i \in Expected
          PROVE  \E j \in DOMAIN delivered : delivered[j] = i
      <4>1. i \in Int /\ i # None
        BY <2>1 DEF Types, Expected, None
      <4>2. PICK k \in DOMAIN results : results[k] = i
        BY <2>3, Zenon DEF ResultsExact
      <4>3. k \in 1 .. resultIt
        BY <2>1, <3>2 DEF Types
      <4> QED
        BY <2>3, <4>1, <4>2, <4>3, Zenon DEF PassedDelivered
    <3>3. pc \in {"open", "done"} /\ nexts > Len(delivered) => resultIt = Len(results)
      <4>1. ~ (Fresh /\ nexts > Len(delivered))
        BY DEF Fresh
      <4> QED
        BY <1>1, <4>1, Zenon DEF Progress, Returned
    <3>4. Range(delivered) \subseteq Expected
      BY <3>1, Zenon DEF Range
    <3>5. pc \in {"open", "done"} /\ nexts > Len(delivered) => Range(delivered) = Expected
      BY <3>2, <3>3, <3>4, Zenon DEF Range
    <3> QED
      BY <2>3, <3>4, <3>5, Zenon DEF DeliveredExact, PassedDelivered
  <2> QED
    BY <1>1, <2>1, <2>2, <2>3 DEF Progress, Types, Fresh, Gathering
<1> QED
  BY <1>1, Zenon

\* For every stream of inputs and whichever runners fail, next() delivers the results of
\* the inputs, each one once and from runner processes in the order of the inputs, and
\* reports the end only when it has delivered all of them.
THEOREM DeliveryExact == Spec => []DeliveredExact
<1> QED
  BY ProgressExact, ProgressInvariant, PTL

-----------------------------------------------------------------------------
\* The state of the iterator that the consumer sees.
Seen == CASE pc = "closed" -> "closed"
          [] pc = "done" -> "done"
          [] pc = "thrown" -> "failed"
          [] OTHER -> IF nexts - (IF pc = "open" THEN 0 ELSE 1) > Len(delivered)
                      THEN "ended" ELSE "open"

\* Initially the iterator is closed and has delivered nothing.
LEMMA IteratorInit == Init => Iterator!Init
<1> SUFFICES ASSUME Init
             PROVE  Iterator!Init
  BY Zenon
<1>1. upstream \in Seq(Kinds) /\ DOMAIN upstream \subseteq Nat
  BY InputsAssumption DEF Init
<1> QED
  BY <1>1, Zenon DEF Init, Iterator!Init, Expected

\* Every step is one of the iterator, or the consumer sees nothing of it.
LEMMA IteratorStep == Progress /\ [Next]_vars => [Iterator!Next]_Iterator!vars
<1> SUFFICES ASSUME Progress, [Next]_vars
             PROVE  [Iterator!Next]_Iterator!vars
  BY Zenon
<1> DEFINE Same == UNCHANGED <<target, upstream, delivered>>
<1>1. Types /\ nexts \in Nat /\ Len(delivered) \in Nat
  BY DEF Progress, Types
<1>2. ASSUME Same
      PROVE  /\ Expected' = Expected
             /\ (target = "process")' = (target = "process")
             /\ delivered' = delivered
  BY <1>2, Zenon DEF Expected
<1>3. ASSUME Same, Seen' = Seen
      PROVE  UNCHANGED Iterator!vars
  BY <1>2, <1>3, Zenon DEF Iterator!vars, Seen
<1>4. CASE UNCHANGED vars
  <2>1. Same /\ Seen' = Seen
    BY <1>4, Zenon DEF vars, Seen
  <2> QED
    BY <1>3, <2>1, Zenon
<1>5. CASE Open
  <2>1. Same /\ Seen = "closed" /\ Seen' = "open"
    BY <1>5 DEF Open, Seen, Progress, Fresh
  <2>2. Iterator!Open
    BY <1>2, <2>1, Zenon DEF Iterator!Open, Seen
  <2> QED
    BY <2>2, Zenon DEF Iterator!Next
<1>6. CASE CallNext
  <2>1. Same /\ Seen' = Seen
    BY <1>1, <1>6 DEF CallNext, Seen
  <2> QED
    BY <1>3, <2>1, Zenon
<1>7. CASE SpawnRunner \/ \E r \in DOMAIN runners : RunnerExits(r)
  <2>1. Same /\ Seen' = Seen
    BY <1>7, Zenon DEF SpawnRunner, RunnerExits, Seen
  <2> QED
    BY <1>3, <2>1, Zenon
<1>8. ASSUME Same, pc = "computing", pc' = "thrown"
      PROVE  Iterator!Next
  <2>1. delivered = <<>>
    BY <1>8, Zenon DEF Progress, Gathering
  <2>2. Seen \in {"open", "ended"} /\ Seen' = "failed"
    BY <1>8, Zenon DEF Seen
  <2>3. Iterator!Fail
    BY <1>2, <1>8, <2>1, <2>2, Zenon DEF Iterator!Fail, Seen
  <2> QED
    BY <2>3, Zenon DEF Iterator!Next
<1>9. ASSUME Same, pc = "computing", pc' = "delivering", nexts' = nexts
      PROVE  UNCHANGED Iterator!vars
  <2>1. Seen' = Seen
    BY <1>9, Zenon DEF Seen
  <2> QED
    BY <1>3, <1>9, <2>1, Zenon
<1>10. CASE SetUpFails \/ SpawnFails \/ WriteFails
  <2>1. Same /\ pc = "computing" /\ pc' = "thrown"
    BY <1>10, Zenon DEF SetUpFails, SpawnFails, WriteFails, Spawned, Throw
  <2> QED
    BY <1>8, <2>1, Zenon
<1>11. CASE CollectResults
  <2>1. /\ Same /\ pc = "computing" /\ nexts' = nexts
        /\ pc' = IF FailedRunners = {} THEN "delivering" ELSE "thrown"
    BY <1>11, Zenon DEF CollectResults, Spawned
  <2> QED
    BY <1>8, <1>9, <2>1, Zenon
<1>12. CASE MaterializeResult
  <2>1. /\ Same /\ pc = "computing" /\ nexts' = nexts
        /\ pc' = "delivering" \/ pc' = "thrown"
    BY <1>12, Zenon DEF MaterializeResult
  <2> QED
    BY <1>8, <1>9, <2>1, Zenon
<1>13. CASE Close
  <2>1. Same /\ Seen \in {"open", "ended"} /\ Seen' = "done"
    BY <1>13, Zenon DEF Close, Seen
  <2>2. Iterator!Close
    BY <1>2, <2>1, Zenon DEF Iterator!Close, Seen
  <2> QED
    BY <2>2, Zenon DEF Iterator!Next
<1>14. CASE Deliver
  <2>1. /\ pc = "delivering" /\ pc' = "open" /\ UNCHANGED <<target, upstream, results, nexts>>
    BY <1>14, Zenon DEF Deliver
  <2>2. /\ nexts - 1 >= Len(delivered)
        /\ nexts - 1 > Len(delivered) => resultIt = Len(results)
    BY <2>1, Zenon DEF Progress, Returned
  <2>3. /\ Expected' = Expected
        /\ (target = "process")' = (target = "process")
    BY <2>1, Zenon DEF Expected
  <2>4. Progress'
    BY <1>14, DeliverStep, Zenon
  <2>5. (Progress => DeliveredExact)'
    BY ProgressExact, PTL
  <2>6. /\ target = "process" =>
              \A k \in DOMAIN delivered' :
                  {delivered'[j] : j \in 1 .. k - 1} = {i \in Expected : i < delivered'[k]}
        /\ IsInjective(delivered') /\ Range(delivered') \subseteq Expected
        /\ nexts > Len(delivered') => Range(delivered') = Expected
    BY <2>1, <2>3, <2>4, <2>5, Zenon DEF DeliveredExact
  <2>7. CASE UNCHANGED delivered
    <3>1. nexts > Len(delivered)
      BY <1>1, <2>2
    <3>2. Seen' = "ended" /\ Seen \in {"open", "ended"}
      BY <1>1, <2>1, <2>7, <3>1 DEF Seen
    <3>3. CASE Seen = "ended"
      BY <1>3, <2>1, <2>7, <3>2, <3>3, Zenon
    <3>4. CASE Seen = "open"
      <4>1. Expected \subseteq {delivered[k] : k \in DOMAIN delivered}
        BY <2>6, <2>7, <3>1 DEF Range
      <4>2. Iterator!End
        BY <2>3, <2>7, <3>2, <3>4, <4>1, Zenon DEF Iterator!End, Iterator!Delivered, Seen
      <4> QED
        BY <4>2, Zenon DEF Iterator!Next
    <3> QED
      BY <3>2, <3>3, <3>4, Zenon
  <2>8. ASSUME NEW k \in Remaining, delivered' = Append(delivered, results[k])
        PROVE  Iterator!Next
    <3> DEFINE v == results[k]
               n == Len(delivered)
    <3>1. k > resultIt /\ k <= Len(results) /\ k \in Int /\ v \in Int
      BY <1>1 DEF Remaining, Types
    <3>2. nexts - 1 = n
      <4>1. ~ (resultIt = Len(results))
        BY <1>1, <3>1 DEF Types
      <4> QED
        BY <1>1, <2>2, <4>1
    <3> HIDE DEF v
    <3>3. /\ delivered \in Seq(Int) /\ delivered' = Append(delivered, v)
      BY <1>1, <2>8, Zenon DEF Types, v
    <3>4. /\ n \in Nat /\ DOMAIN delivered = 1 .. n /\ DOMAIN delivered' = 1 .. n + 1 /\ Len(delivered') = n + 1
          /\ delivered'[n + 1] = v /\ \A j \in 1 .. n : delivered'[j] = delivered[j]
      BY <3>1, <3>3
    <3>5. Seen = "open" /\ Seen' = "open"
      <4>1. ~ (nexts - 1 > Len(delivered)) /\ ~ (nexts' - 0 > Len(delivered'))
        BY <1>1, <2>1, <3>2, <3>4
      <4> QED
        BY <2>1, <4>1, Zenon DEF Seen
    <3> HIDE DEF n
    <3>6. v \in Expected
      BY <2>6, <3>4 DEF Range
    <3>7. v \notin {delivered[j] : j \in DOMAIN delivered}
      BY <2>6, <3>4 DEF IsInjective
    <3>8. ASSUME target = "process", NEW i \in Expected, i < v
          PROVE  i \in {delivered[j] : j \in DOMAIN delivered}
      <4>1. {delivered'[j] : j \in 1 .. (n + 1) - 1} = {x \in Expected : x < v}
        BY <2>6, <3>4, <3>8
      <4>2. i \in {delivered'[j] : j \in 1 .. (n + 1) - 1} /\ (n + 1) - 1 = n
        BY <3>4, <3>8, <4>1
      <4> QED
        BY <3>4, <4>2, Zenon
    <3>9. Iterator!Deliver
      BY <2>3, <3>3, <3>5, <3>6, <3>7, <3>8, Zenon DEF Iterator!Deliver, Iterator!Delivered, Seen
    <3> QED
      BY <3>9, Zenon DEF Iterator!Next
  <2> QED
    BY <1>14, <2>7, <2>8, Zenon DEF Deliver
<1> QED
  BY <1>4, <1>5, <1>6, <1>7, <1>10, <1>11, <1>12, <1>13, <1>14, Zenon DEF Next, ComputeResult

\* Both operators implement the iterator that their consumers rely on: a call of next()
\* throws only while nothing was delivered, for every stream of inputs, whichever runners
\* fail, and also when there are no results and it computes again after the end.
THEOREM IteratorImplemented == Spec => ImplementsIterator
<1> QED
  BY IteratorInit, IteratorStep, ProgressInvariant, PTL DEF Spec, ImplementsIterator, Iterator!Spec
=============================================================================
