-------------------------- MODULE MCSubscriberPort --------------------------
(* The instance of SubscriberPort that TLC checks. *)
EXTENDS SubscriberPort

CONSTANTS s1, s2

MCSenders == {s1, s2}
=============================================================================
