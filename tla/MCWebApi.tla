------------------------------ MODULE MCWebApi ------------------------------
(* Two clients; messages with and without a body, a handler and a reply.   *)
EXTENDS WebApi, TLC

CONSTANTS c1, c2

Msg(n, k) == [size |-> n, known |-> k]
\* A message of MaxMsg units fills msg, and proc_msg() passes over it.
SomeScripts ==
  {c1 :> <<Msg(1, TRUE), Msg(0, TRUE)>> @@ c2 :> <<Msg(1, TRUE)>>,
   c1 :> <<Msg(1, FALSE), Msg(0, TRUE)>> @@ c2 :> <<Msg(2, TRUE)>>}
=============================================================================
