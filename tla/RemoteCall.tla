----------------------------- MODULE RemoteCall -----------------------------
(***************************************************************************)
(* What a remote call promises its caller: the callback runs at most once, *)
(* perhaps after the caller has given up; a reply or an error of the       *)
(* callback that the caller sees is that of its own call; and any call may *)
(* fail for reasons of transport.                                          *)
(***************************************************************************)
EXTENDS Naturals

CONSTANT Calls

VARIABLES
  status,   \* what the caller of each call knows
  runs,     \* how often the callback ran for each call
  result    \* what the callback returned for each call

callVars == <<status, runs, result>>

Init ==
  /\ status = [c \in Calls |-> "none"]
  /\ runs = [c \in Calls |-> 0]
  /\ result = [c \in Calls |-> "none"]

Call(c) ==
  /\ status[c] = "none"
  /\ status' = [status EXCEPT ![c] = "called"]
  /\ UNCHANGED <<runs, result>>

Run(c) ==
  /\ status[c] # "none" /\ runs[c] = 0
  /\ runs' = [runs EXCEPT ![c] = 1]
  /\ \E r \in {"reply", "rmi", "shutdown"} : result' = [result EXCEPT ![c] = r]
  /\ UNCHANGED status

(* The caller gets what the callback of its call returned. *)
Answer(c) ==
  /\ status[c] = "called" /\ result[c] \in {"reply", "rmi"}
  /\ status' = [status EXCEPT ![c] = result[c]]
  /\ UNCHANGED <<runs, result>>

Fail(c) ==
  /\ status[c] = "called"
  /\ status' = [status EXCEPT ![c] = "failed"]
  /\ UNCHANGED <<runs, result>>

Next == \E c \in Calls : Call(c) \/ Run(c) \/ Answer(c) \/ Fail(c)

Spec == Init /\ [][Next]_callVars
=============================================================================
