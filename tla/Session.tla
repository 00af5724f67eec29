------------------------------- MODULE Session -------------------------------
(***************************************************************************)
(* A program that builds queries and executes them in one JitqContext: the *)
(* cache of plan documents, keyed by a hash of the query (rdd.py), the     *)
(* cache of compiled plans, keyed by the document (c_executor.py), and the *)
(* registry of compiled plans in the back end (execute_plan.cpp). A plan   *)
(* is identified with the document it was generated from, and a hash with  *)
(* what is hashed.                                                         *)
(***************************************************************************)
EXTENDS Rdd

CONSTANTS Rows,        \* the rows of a collection of pairs
          MapFunc,     \* the function given to map()
          MaxObjects   \* bound: number of RDD objects

VARIABLES heap,                 \* the RDD objects of the program
          serialization_cache,  \* sequence of [hash, dict]
          executor_cache,       \* sequence of [dict, id]
          registry,             \* the plans of the back end, the one with ID 0 first
          executed              \* the documents of the last query and of the plan it ran

vars == <<heap, serialization_cache, executor_cache, registry, executed>>

\* What the classes override self_hash with; the others hash the empty string.
self_hash(o) ==
    CASE o.op \in {"parameter_lookup", "sort"} -> <<o.type>>
      [] o.op \in {"row_scan", "column_scan", "topk"} -> <<o.type, o.arg>>
      [] o.op \in {"map", "filter", "reduce", "reduce_by_key", "reduce_by_index",
                   "constant_tuple"} -> <<o.arg>>
      [] OTHER -> <<>>

\* __hash__: the classes and hashes of all operators in the order of a visit.
Hash(h, k) ==
    LET order == Visited(h, k)
    IN  [i \in DOMAIN order |-> [op |-> h[order[i]].op, self |-> self_hash(h[order[i]])]]

SameHash(a, b) ==
    Len(a) = Len(b) /\ \A i \in DOMAIN a : a[i].op = b[i].op /\ a[i].self = b[i].self

\* Equality of two documents, as strings.
SameDict(a, b) ==
    /\ Len(a.operators) = Len(b.operators)
    /\ \A i \in DOMAIN a.operators :
          /\ a.operators[i].op = b.operators[i].op
          /\ a.operators[i].arg = b.operators[i].arg
          /\ a.operators[i].type = b.operators[i].type
          /\ a.operators[i].predecessors = b.operators[i].predecessors
    /\ a.inputs = b.inputs
    /\ a.outputs = b.outputs

\* The documents cached under the hash of object k.
CachedDicts(h, k) ==
    {serialization_cache[i].dict : i \in {j \in DOMAIN serialization_cache :
                                            SameHash(serialization_cache[j].hash, Hash(h, k))}}

\* get_final_dict: the cached document of the hash, or a new one.
get_final_dict(h, k) ==
    IF CachedDicts(h, k) # {} THEN CHOOSE dict \in CachedDicts(h, k) : TRUE ELSE FinalDict(h, k)

\* lookup_or_generate_plan: the last ID stored for the document; 0 is taken for none.
plan_id(dict) ==
    LET ids == {executor_cache[i].id : i \in {j \in DOMAIN executor_cache :
                                                SameDict(executor_cache[j].dict, dict)}}
    IN  IF ids \subseteq {0} THEN Len(registry) ELSE CHOOSE id \in ids \ {0} : TRUE

Init ==
    /\ heap = <<>>
    /\ serialization_cache = <<>>
    /\ executor_cache = <<>>
    /\ registry = <<>>
    /\ executed = <<>>

Create(h) ==
    /\ Len(h) <= MaxObjects
    /\ heap' = h
    /\ UNCHANGED <<serialization_cache, executor_cache, registry, executed>>

\* The objects the program holds.
Rdds == {k \in DOMAIN heap :
            heap[k].op \notin {"parameter_lookup", "materialize_row_vector", "ensure_single_tuple"}}

CreateCollection == Create(collection(heap, <<Long, Long>>, Rows, FALSE))

CreateMap(k) == Create(New(heap, Map(k, MapFunc)))

CreateJoin(l, r) ==
    /\ Join(heap, l, r, 1).type # TypeError
    /\ Create(New(heap, Join(heap, l, r, 1)))

\* The action collect(): execute_dag on a new sink.
Execute(k) ==
    LET h == collect(heap, k)
        dict == get_final_dict(h, Len(h))
        id == plan_id(dict)
    IN  /\ Len(h) <= MaxObjects
        /\ heap' = h
        /\ serialization_cache' =
              IF CachedDicts(h, Len(h)) # {} THEN serialization_cache
              ELSE Append(serialization_cache, [hash |-> Hash(h, Len(h)), dict |-> dict])
        /\ executor_cache' = IF id < Len(registry) THEN executor_cache
                             ELSE Append(executor_cache, [dict |-> dict, id |-> id])
        /\ registry' = IF id < Len(registry) THEN registry ELSE Append(registry, dict)
        /\ executed' = <<FinalDict(h, Len(h)), registry'[id + 1]>>

ClearCaches ==
    /\ serialization_cache' = <<>>
    /\ executor_cache' = <<>>
    /\ UNCHANGED <<heap, registry, executed>>

Next ==
    \/ CreateCollection
    \/ \E k \in Rdds : CreateMap(k) \/ Execute(k)
    \/ \E l, r \in Rdds : CreateJoin(l, r)
    \/ ClearCaches

Spec == Init /\ [][Next]_vars

-----------------------------------------------------------------------------
\* A query runs the plan of its own operators, whatever queries were executed in the
\* context before: what the tests of the caches and of the order of the inputs of a join
\* expect (tests/test_operators.py, TestCache and test_join_input_order).
OwnPlanExecuted == executed # <<>> => SameDict(executed[1], executed[2])
=============================================================================
