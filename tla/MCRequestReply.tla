--------------------------- MODULE MCRequestReply ---------------------------
(* A requester and a replier port, with two calling threads. *)
EXTENDS RequestReply

CONSTANTS c1, c2
=============================================================================
