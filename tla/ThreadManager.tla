---------------------------- MODULE ThreadManager ---------------------------
(***************************************************************************)
(* The rendezvous between an object and the thread it owns:                *)
(* src/re/src/core/threadmanager.cpp.  A manager is a value: the flags the *)
(* thread has raised (states_) and the requests made of it (transitions_). *)
(* Both sets only grow; condition variables are waited on with a predicate *)
(* under the mutex that guards the set, so a wait is a guard on the set.   *)
(***************************************************************************)

ThreadState == {"CONFIGURED", "ACTIVE", "TERMINATED"}

ThreadTransition == {"ACTIVATE", "TERMINATE"}

(* live is FALSE where the owning unique_ptr is null. *)
Manager == [live : BOOLEAN, states : SUBSET ThreadState, transitions : SUBSET ThreadTransition]

NullManager == [live |-> FALSE, states |-> {}, transitions |-> {}]

NewManager == [live |-> TRUE, states |-> {}, transitions |-> {}]

SetState(m, s) == [m EXCEPT !.states = @ \cup {s}]

(* ACTIVATE is dropped when the thread has not reported CONFIGURED. *)
SetTransition(m, t) ==
  IF t = "ACTIVATE" /\ "CONFIGURED" \notin m.states
    THEN m
    ELSE [m EXCEPT !.transitions = @ \cup {t}]

(* WaitForState returns: the state was reached, or never will be. *)
WaitForState(m, s) == s \in m.states \/ "TERMINATED" \in m.states

(* Faulty variant: TERMINATE does not wake the thread. *)
WaitForTransition_NotWoken(m, t) == t \in m.transitions

(* WaitForTransition returns: the request was made, or TERMINATE was. *)
WaitForTransition(m, t) == t \in m.transitions \/ "TERMINATE" \in m.transitions
=============================================================================
