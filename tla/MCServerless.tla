---------------------------- MODULE MCServerless ----------------------------
(* Instances of Serverless for model checking. *)
EXTENDS Serverless

\* Two workers, the second of which is invoked by the first, and then one.
MCNumWorkers == <<2, 1>>
=============================================================================
