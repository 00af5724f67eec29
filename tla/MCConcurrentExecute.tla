------------------------ MODULE MCConcurrentExecute ------------------------
(* Instances of ConcurrentExecute for model checking. *)
EXTENDS ConcurrentExecute

\* All streams of up to three inputs.
MCInputs == UNION {[1..n -> Kinds] : n \in 0..3}
=============================================================================
