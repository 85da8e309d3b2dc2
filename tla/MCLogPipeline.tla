--------------------------- MODULE MCLogPipeline ----------------------------
(* Bounds for TLC: five events, so that two batches of the cache and a     *)
(* remainder are under way at once and a transaction is left open.         *)
EXTENDS LogPipeline
=============================================================================
