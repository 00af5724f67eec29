--------------------------- MODULE AbstractIterator ---------------------------
(***************************************************************************)
(* What the consumer of an operator that runs plans elsewhere relies on:   *)
(* open(), one item per next(), then the end as often as it asks, and      *)
(* close(). An operator that has delivered an item does not fail any more; *)
(* one without items may fail even after it has reported the end.          *)
(***************************************************************************)
EXTENDS Naturals, Sequences

VARIABLES expected,   \* the items, as numbers
          ordered,    \* whether they come in the order of the numbers
          delivered,  \* the items that next() has returned
          state       \* "closed", "open", "ended", "failed" or "done"

vars == <<expected, ordered, delivered, state>>

Init ==
    /\ expected \subseteq Nat
    /\ ordered \in BOOLEAN
    /\ delivered = <<>>
    /\ state = "closed"

Open == state = "closed" /\ state' = "open" /\ UNCHANGED <<expected, ordered, delivered>>

Delivered == {delivered[k] : k \in DOMAIN delivered}

Deliver ==
    /\ state = "open"
    /\ \E i \in expected \ Delivered :
          /\ ordered => \A j \in expected : j < i => j \in Delivered
          /\ delivered' = Append(delivered, i)
    /\ UNCHANGED <<expected, ordered, state>>

End ==
    /\ state = "open"
    /\ expected \subseteq Delivered
    /\ state' = "ended"
    /\ UNCHANGED <<expected, ordered, delivered>>

Fail ==
    /\ state \in {"open", "ended"}
    /\ delivered = <<>>
    /\ state' = "failed"
    /\ UNCHANGED <<expected, ordered, delivered>>

Close ==
    /\ state \in {"open", "ended"}
    /\ state' = "done"
    /\ UNCHANGED <<expected, ordered, delivered>>

Next == Open \/ Deliver \/ End \/ Fail \/ Close

Spec == Init /\ [][Next]_vars
=============================================================================
