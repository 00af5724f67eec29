------------------------- MODULE MCExchangeService -------------------------
EXTENDS ExchangeService, TLC

Call(op, e) == [op |-> op, ex |-> e]

(* One exchange, as below a reduce-by-key. *)
OneExchange == <<Call("open", "L"), Call("next", "L"), Call("close", "L")>>

(* The exchanges of the two sides of a join (JoinOperator.h): open() opens *)
(* both and drains the left one, next() drains the right one, close()      *)
(* closes both.                                                            *)
Join ==
    <<Call("open", "L"), Call("open", "R"), Call("next", "L"), Call("next", "R"),
      Call("close", "L"), Call("close", "R")>>

(* Bounds on the payloads: each row gives an exchange, a sender, a receiver *)
(* and a number; every other stream is empty.                              *)
Payloads(rows) ==
    [h \in Hosts |-> [e \in Exchanges |-> [r \in Hosts |->
        IF \E n \in 1 .. 9 : <<e, h, r, n>> \in rows
        THEN CHOOSE n \in 1 .. 9 : <<e, h, r, n>> \in rows
        ELSE 0]]]

FromOne == Payloads({<<"L", 0, 0, 1>>, <<"L", 0, 1, 1>>})
BothSides == Payloads({<<"L", 0, 1, 1>>, <<"R", 0, 1, 1>>, <<"R", 1, 0, 1>>})
FullSink == Payloads({<<"L", 0, 1, 3>>})
=============================================================================
