---------------------------- MODULE StateMachine ----------------------------
(***************************************************************************)
(* The lifecycle that every Activatable of the runtime environment (ports, *)
(* workers, components, containers) owns: src/re/src/core/statemachine.cpp.*)
(*                                                                         *)
(* transition_state holds state_mutex_ from its first line to its last, so *)
(* two transitions of one object never overlap: one controller program     *)
(* counter, ctl, stands for whichever thread holds state_mutex_.  A call   *)
(* that the transition table refuses returns false and changes nothing.    *)
(* The two atomics state_ and transition_ are read by other threads while  *)
(* a transition runs, so every write to them is a step of its own.         *)
(***************************************************************************)

VARIABLES
  state,       \* state_
  transition,  \* transition_
  op,          \* the argument of the transition_state call in progress
  ctl          \* what the thread that holds state_mutex_ does next

machineVars == <<state, transition, op, ctl>>

State == {"NOT_CONFIGURED", "CONFIGURED", "RUNNING", "NOT_RUNNING"}

Request == {"CONFIGURE", "ACTIVATE", "PASSIVATE", "TERMINATE"}

Transition == Request \cup {"NO_TRANSITION"}

(* The switch of transition_state; the state itself where the request is refused. *)
NewState(s, t) ==
  CASE t = "CONFIGURE" /\ s = "NOT_CONFIGURED"  -> "CONFIGURED"
    [] t = "ACTIVATE"  /\ s = "CONFIGURED"      -> "RUNNING"
    [] t = "PASSIVATE" /\ s = "RUNNING"         -> "NOT_RUNNING"
    [] t = "TERMINATE" /\ s # "NOT_CONFIGURED"  -> "NOT_CONFIGURED"
    [] OTHER                                    -> s

MachineInit ==
  /\ state = "NOT_CONFIGURED"
  /\ transition = "NO_TRANSITION"
  /\ op = "NO_TRANSITION"
  /\ ctl = "idle"

(* transition_state accepts t, run_transition_function publishes it and    *)
(* enters the registered handler, whose first step is entry.               *)
Begin(t, entry) ==
  /\ ctl = "idle"
  /\ NewState(state, t) # state
  /\ transition' = t
  /\ op' = t
  /\ ctl' = entry
  /\ UNCHANGED state

(* Control moves inside a handler. *)
Goto(from, to) ==
  /\ ctl = from
  /\ ctl' = to
  /\ UNCHANGED <<state, transition, op>>

(* The handler returned: transition_ is reset before state_ is written. *)
ResetTransition ==
  /\ ctl = "return"
  /\ transition' = "NO_TRANSITION"
  /\ ctl' = "commit"
  /\ UNCHANGED <<state, op>>

(* transition_state stores the new state and releases state_mutex_. *)
Commit ==
  /\ ctl = "commit"
  /\ state' = NewState(state, op)
  /\ op' = "NO_TRANSITION"
  /\ ctl' = "idle"
  /\ UNCHANGED transition

(* The handler threw: the exception is logged, the state stays as it was. *)
HandlerThrew ==
  /\ ctl = "throw"
  /\ transition' = "NO_TRANSITION"
  /\ op' = "NO_TRANSITION"
  /\ ctl' = "idle"
  /\ UNCHANGED state
=============================================================================
