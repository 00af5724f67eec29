----------------------------- MODULE MCSession -----------------------------
(* An instance of Session for model checking. *)
EXTENDS Session

MCRows == << <<1, 2>>, <<2, 1>> >>
MCMapFunc == <<Arg(1), Arg(0)>>
=============================================================================
