---------------------------- MODULE MCExchangeS3 ----------------------------
(* Instances of ExchangeS3: every worker has a row of each key. *)
EXTENDS ExchangeS3

CONSTANTS Keys, HashValues

MCRows   == Keys \X Workers
MCKey    == [r \in MCRows |-> r[1]]
MCInput  == [w \in Workers |-> Keys \X {w}]
MCHashes == [Levels -> [Keys -> HashValues]]
=============================================================================
