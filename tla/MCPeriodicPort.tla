--------------------------- MODULE MCPeriodicPort ---------------------------
(* The instance of PeriodicPort that TLC checks. *)
EXTENDS PeriodicPort

MCSenders == {Tick}
=============================================================================
