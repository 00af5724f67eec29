---------------------------- MODULE MCExecution ----------------------------
(***************************************************************************)
(* Queries whose plans pass through every rule of the optimizer, each for  *)
(* the targets that accept it. Inputs are chosen such that keys repeat,    *)
(* slices and partitions are empty and filters drop everything.            *)
(***************************************************************************)
EXTENDS Execution

\* Keys spread over the partitions, in another way under another seed.
Murmur(key, seed) == key + (key * seed) \div 3

Pair == <<Long, Long>>
Lt(i, n) == [fn |-> "lt", args |-> <<i>>, val |-> n]
Ge(i, n) == [fn |-> "ge", args |-> <<i>>, val |-> n]

\* The operator f on top of the last object of the heap; a query ends with an action.
On(h, f(_, _)) == New(h, f(h, Len(h)))
Collect(h) == LET q == collect(h, Len(h)) IN [heap |-> q, sink |-> Len(q)]
Folded(h) == LET q == reduce(h, Len(h), "sum") IN [heap |-> q, sink |-> Len(q)]

Left == << <<1, 10>>, <<2, 20>>, <<1, 30>>, <<3, 5>>, <<2, 1>> >>
Right == << <<2, 7>>, <<1, 8>>, <<4, 9>> >>

A == collection(<<>>, Pair, Left, FALSE)
AB == collection(A, Pair, Right, FALSE)
Indexed == collection(<<>>, <<Long>>, << <<4>>, <<5>>, <<4>> >>, TRUE)
Files == << << SubSeq(Left, 1, 2), SubSeq(Left, 3, 5) >>, << Right >> >>
P == read_parquet(<<>>, Files, Pair, 0, 2)
PP == read_parquet(P, << << Right >> >>, Pair, 0, 1)

\* A filter that moves below a map and a join.
FilterAboveJoin(h, l, r) ==
    Collect(On(On(On(h, LAMBDA g, k : Join(g, l, r, 1)),
                  LAMBDA g, k : Map(k, <<Arg(0), Sum(<<1, 2>>, 0)>>)),
               LAMBDA g, k : Filter(g, k, Lt(0, 2))))

\* One collection read three times, once reduced.
SharedInput ==
    LET m == On(A, LAMBDA g, k : ReduceByKey(g, k, "sum"))
        j == On(m, LAMBDA g, k : Join(g, Len(A), k, 1))
    IN  Collect(On(j, LAMBDA g, k : SemiJoin(g, k, Len(A))))

\* A reduction of a sorted field: the grouped variant, behind a cartesian product.
GroupedReduction ==
    LET c == On(Indexed, LAMBDA g, k : Filter(g, k, Ge(0, 1)))
        b == collection(c, <<Long>>, << <<0>>, <<1>> >>, FALSE)
        x == On(b, LAMBDA g, k : Cartesian(g, k, Len(c)))
        m == On(x, LAMBDA g, k : Map(k, <<Arg(1), Arg(2)>>))
    IN  Collect(On(m, LAMBDA g, k : ReduceByKey(g, k, "sum")))

Antis(h, l, r) ==
    LET a == On(h, LAMBDA g, k : AntiJoinPredicated(g, l, r, Lt(2, 8)))
    IN  Collect(On(a, LAMBDA g, k : AntiJoin(g, k, r)))

SortedPairs ==
    LET s == On(A, LAMBDA g, k : Sort(g, k))
        b == collection(s, Pair, Right, FALSE)
    IN  Collect(On(b, LAMBDA g, k : ZipRdd(g, Len(s), k)))

ByIndex(h) ==
    Collect(On(On(h, LAMBDA g, k : Map(k, <<Mod(<<0>>, 3), Arg(1)>>)),
               LAMBDA g, k : ReduceByIndex(g, k, "max", 0, 2)))

Crossed(h, l, r) == Collect(On(h, LAMBDA g, k : Cartesian(g, l, r)))
\* Not grouped by the index: the right input is the outer loop.
CrossedIndex ==
    LET b == collection(Indexed, <<Long>>, << <<0>>, <<1>> >>, FALSE)
        x == On(b, LAMBDA g, k : Cartesian(g, Len(Indexed), k))
    IN  Collect(On(x, LAMBDA g, k : ReduceByKey(g, k, "sum")))

\* An input that is read by a join and by a reduction below the join.
Diamond(h) ==
    LET r == On(h, LAMBDA g, k : ReduceByKey(g, k, "sum"))
    IN  Collect(On(r, LAMBDA g, k : Join(g, Len(h), k, 1)))

Written(h) == LET q == to_parquet(h, Len(h), "conf") IN [heap |-> q, sink |-> Len(q)]
UniqueKeys ==
    LET i == collection(Indexed, <<Long>>, << <<7>>, <<8>> >>, TRUE)
        j == On(i, LAMBDA g, k : Join(g, Len(Indexed), k, 1))
    IN  Collect(On(j, LAMBDA g, k : ReduceByKey(g, k, "max")))

TopRows(h) == Collect(On(h, LAMBDA g, k : TopK(g, k, 2)))
Counts(h) == Collect(On(h, LAMBDA g, k : ReduceByKey(g, k, "sum")))
NothingLeft(h) == Folded(On(h, LAMBDA g, k : Filter(g, k, Lt(0, 0))))
RangeSum(n) == Folded(RangeRdd(<<>>, 1, n, 2))
Frame == Counts(data_frame(<<>>, Pair, Left, FALSE))

Local ==
    {FilterAboveJoin(AB, Len(A), Len(AB)), SharedInput, GroupedReduction,
     Antis(AB, Len(A), Len(AB)), SortedPairs, ByIndex(A), TopRows(A), NothingLeft(A),
     RangeSum(8), Frame, UniqueKeys, CrossedIndex, Written(A), Crossed(AB, Len(A), Len(AB))}

C(target, two_level) == [target |-> target, two_level |-> two_level, assert_correct |-> TRUE]

JobsOf(queries, configs) == {[query |-> q, config |-> c] : q \in queries, c \in configs}

MCJobs ==
    JobsOf(Local, {C("singlecore", FALSE), C("omp", FALSE)})
    \cup JobsOf({TopRows(P), Counts(P), NothingLeft(P)},
                {C("process/tcp", FALSE), C("process/s3", FALSE), C("lambda", TRUE)})
    \cup JobsOf({FilterAboveJoin(PP, Len(P), Len(PP))},
                {C("process/tcp", FALSE), C("lambda", TRUE)})
    \cup JobsOf({Diamond(P)}, {C("process/tcp", FALSE)})
    \cup JobsOf({Antis(PP, Len(P), Len(PP))}, {C("process/s3", FALSE)})

=============================================================================
