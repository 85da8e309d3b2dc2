----------------------------- MODULE MCProtoRmi -----------------------------
(* Bounds for TLC: three calls, so that one may time out, the next be      *)
(* refused and a third be served on the new socket.                        *)
EXTENDS ProtoRmi
=============================================================================
