---------------------------- MODULE PeriodicPort ----------------------------
(***************************************************************************)
(* src/re/src/core/ports/periodicport.cpp: a SubscriberPort whose only     *)
(* sender is its own tick thread.  Every handler runs a part for the tick  *)
(* thread and then the SubscriberPort's handler, so this module adds the   *)
(* first part and the thread, and takes the rest from SubscriberPort.      *)
(* The frequency is abstracted to its sign, which is what TickLoop tests;  *)
(* a period that elapses is a step that may happen at any time.            *)
(***************************************************************************)
EXTENDS SubscriberPort

CONSTANT Tick   \* the tick thread, the one sender

ASSUME TickAssumption == Senders = {Tick}

VARIABLES
  tick_manager,   \* PeriodicPort's own thread_manager_
  tick,           \* program counter of the tick thread
  interupt,       \* interupt_
  frequency,      \* 0 stands for <= 0, 1 for a positive rate
  late_ticks      \* history: ticks received in this activation after Passivate

tickVars == <<tick_manager, tick, interupt, frequency, late_ticks>>

portVars == <<loopVars, queueVars, senderVars, counterVars, historyVars>>

pvars == <<vars, tickVars>>

TickPoint == {"none", "start", "waitActivate", "activated", "read", "sleepForever",
              "sleepPeriod", "fire", "enqueue", "terminating", "exit"}

PInit ==
  /\ Init
  /\ tick_manager = NullManager
  /\ tick = "none"
  /\ interupt = FALSE
  /\ frequency \in {0, 1}
  /\ late_ticks = 0

-----------------------------------------------------------------------------
(* The tick part of the handlers. *)

PEntry(t) ==
  CASE t = "CONFIGURE" -> "tickSpawn"
    [] t = "ACTIVATE"  -> "tickSetActivate"
    [] t = "PASSIVATE" -> "tickInterrupt"
    [] t = "TERMINATE" -> "tickInterrupt"

PRequestTransition(t) ==
  /\ Begin(t, PEntry(t))
  /\ CountConfigure(t)
  /\ UNCHANGED <<loopVars, queueVars, senderVars, counterVars, late, tickVars>>

SpawnTick ==
  /\ IF tick_manager.live
       THEN /\ Goto("tickSpawn", "throw")
            /\ UNCHANGED <<tick_manager, tick>>
       ELSE /\ Goto("tickSpawn", "tickWaitConfigured")
            /\ tick_manager' = NewManager
            /\ tick' = "start"
  /\ UNCHANGED <<portVars, interupt, frequency, late_ticks>>

TickWaitForConfigured ==
  /\ WaitForState(tick_manager, "CONFIGURED")
  /\ Goto("tickWaitConfigured", "spawn")
  /\ UNCHANGED <<portVars, tickVars>>

TickSetActivate ==
  /\ IF tick_manager.live
       THEN /\ Goto("tickSetActivate", "tickWaitActive")
            /\ tick_manager' = SetTransition(tick_manager, "ACTIVATE")
       ELSE /\ Goto("tickSetActivate", "throw")
            /\ UNCHANGED tick_manager
  /\ UNCHANGED <<portVars, tick, interupt, frequency, late_ticks>>

TickWaitForActive ==
  /\ WaitForState(tick_manager, "ACTIVE")
  /\ Goto("tickWaitActive", "setActivate")
  /\ UNCHANGED <<portVars, tickVars>>

(* Faulty variant: Passivate leaves the tick thread alone. *)
TickInterruptLoop_OnTerminateOnly ==
  /\ Goto("tickInterrupt", IF op = "TERMINATE" THEN "tickSetTerminate" ELSE "interrupt")
  /\ interupt' = (interupt \/ op = "TERMINATE")
  /\ UNCHANGED <<portVars, tick_manager, tick, frequency, late_ticks>>

(* InterruptLoop, first in HandlePassivate and in HandleTerminate. *)
TickInterruptLoop ==
  /\ Goto("tickInterrupt", IF op = "TERMINATE" THEN "tickSetTerminate" ELSE "interrupt")
  /\ interupt' = TRUE
  /\ UNCHANGED <<portVars, tick_manager, tick, frequency, late_ticks>>

(* Faulty variant: the thread is told to stop and not waited for. *)
TickSetTerminate_NoJoin ==
  /\ Goto("tickSetTerminate", "interrupt")
  /\ tick_manager' = NullManager
  /\ UNCHANGED <<portVars, tick, interupt, frequency, late_ticks>>

TickSetTerminate ==
  /\ IF tick_manager.live
       THEN /\ Goto("tickSetTerminate", "tickWaitTerminated")
            /\ tick_manager' = SetTransition(tick_manager, "TERMINATE")
       ELSE /\ Goto("tickSetTerminate", "interrupt")
            /\ UNCHANGED tick_manager
  /\ UNCHANGED <<portVars, tick, interupt, frequency, late_ticks>>

TickWaitForTerminated ==
  /\ WaitForState(tick_manager, "TERMINATED")
  /\ Goto("tickWaitTerminated", "tickJoin")
  /\ UNCHANGED <<portVars, tickVars>>

JoinTick ==
  /\ tick = "exit"
  /\ Goto("tickJoin", "interrupt")
  /\ tick_manager' = NullManager
  /\ tick' = "none"
  /\ UNCHANGED <<portVars, interupt, frequency, late_ticks>>

(* SetFrequency and SetDuration: the value is stored under tick_mutex_.    *)
(* The condition variable that is notified is one nobody waits on.         *)
SetFrequency(hz) ==
  /\ frequency # hz
  /\ frequency' = hz
  /\ UNCHANGED <<machineVars, portVars, tick_manager, tick, interupt, late_ticks>>

-----------------------------------------------------------------------------
(* TickLoop. *)

TickGoto(from, to) ==
  /\ tick = from
  /\ tick' = to
  /\ UNCHANGED <<machineVars, interupt, frequency>>

TickConfigured ==
  /\ TickGoto("start", "waitActivate")
  /\ tick_manager' = SetState(tick_manager, "CONFIGURED")
  /\ UNCHANGED <<portVars, late_ticks>>

TickWaitForActivate ==
  /\ WaitForTransition(tick_manager, "ACTIVATE")
  /\ TickGoto("waitActivate",
              IF "ACTIVATE" \in tick_manager.transitions THEN "activated" ELSE "terminating")
  /\ UNCHANGED <<portVars, tick_manager, late_ticks>>

TickActivated ==
  /\ TickGoto("activated", "read")
  /\ tick_manager' = SetState(tick_manager, "ACTIVE")
  /\ UNCHANGED <<portVars, late_ticks>>

(* Under tick_mutex_ the frequency chooses how to wait. *)
TickReadFrequency ==
  /\ TickGoto("read", IF frequency <= 0 THEN "sleepForever" ELSE "sleepPeriod")
  /\ UNCHANGED <<portVars, tick_manager, late_ticks>>

(* The wait ends on interupt_, and the loop is left. *)
TickInterrupted ==
  /\ interupt
  /\ \E from \in {"sleepForever", "sleepPeriod"} : TickGoto(from, "terminating")
  /\ UNCHANGED <<portVars, tick_manager, late_ticks>>

(* Faulty variant: the interrupt is not looked at after a timeout. *)
TickElapsed_Unchecked ==
  /\ received < MaxReceived
  /\ TickGoto("sleepPeriod", "fire")
  /\ UNCHANGED <<portVars, tick_manager, late_ticks>>

(* wait_for times out and interupt_ is not set.  MaxReceived bounds the    *)
(* ticks here, so that a tick that has started always goes through.        *)
TickElapsed ==
  /\ received < MaxReceived
  /\ ~interupt
  /\ TickGoto("sleepPeriod", "fire")
  /\ UNCHANGED <<portVars, tick_manager, late_ticks>>

(* The call of EnqueueMessage, ... *)
TickEnqueues ==
  /\ tick = "fire"
  /\ tick' = "enqueue"
  /\ EventRecieved(Tick)
  /\ late_ticks' = IF state = "NOT_RUNNING" THEN late_ticks + 1 ELSE late_ticks
  /\ UNCHANGED <<tick_manager, interupt, frequency>>

(* ... and its return. *)
TickEnqueued ==
  /\ sender[Tick] = "idle"
  /\ TickGoto("enqueue", "read")
  /\ UNCHANGED <<portVars, tick_manager, late_ticks>>

TickTerminated ==
  /\ TickGoto("terminating", "exit")
  /\ tick_manager' = SetState(tick_manager, "TERMINATED")
  /\ UNCHANGED <<portVars, late_ticks>>

-----------------------------------------------------------------------------
(* The SubscriberPort's share of the handlers; a new activation starts the *)
(* history of late ticks afresh.                                           *)
InheritedHandlerStep ==
  /\ HandlerStep
  /\ late_ticks' = IF ctl = "commit" /\ op = "ACTIVATE" THEN 0 ELSE late_ticks
  /\ UNCHANGED <<tick_manager, tick, interupt, frequency>>

PControlStep ==
  \/ SpawnTick \/ TickWaitForConfigured \/ TickSetActivate \/ TickWaitForActive
  \/ TickInterruptLoop \/ TickSetTerminate \/ TickWaitForTerminated \/ JoinTick
  \/ InheritedHandlerStep

TickStep ==
  \/ TickConfigured \/ TickWaitForActivate \/ TickActivated \/ TickReadFrequency
  \/ TickInterrupted \/ TickElapsed \/ TickEnqueues \/ TickEnqueued \/ TickTerminated

PLoopStep == LoopStep /\ UNCHANGED tickVars

PSenderStep == SenderStep(Tick) /\ UNCHANGED tickVars

PNext ==
  \/ \E t \in Request : PRequestTransition(t)
  \/ PControlStep
  \/ TickStep
  \/ PLoopStep
  \/ PSenderStep
  \/ \E hz \in {0, 1} : SetFrequency(hz)

PFairness ==
  /\ WF_pvars(PControlStep)
  /\ WF_pvars(PLoopStep)
  /\ WF_pvars(TickStep)
  /\ WF_pvars(PSenderStep)

PSpec == PInit /\ [][PNext]_pvars /\ PFairness

-----------------------------------------------------------------------------
(* Properties. *)

(* After Terminate neither of the port's two threads is left, and the      *)
(* SubscriberPort below is quiet: Terminate joins the tick thread before   *)
(* the loop, so no tick can reach a port that is being taken down.         *)
PeriodicTerminatedIsQuiet ==
  /\ TerminatedIsQuiet
  /\ state = "NOT_CONFIGURED" /\ ctl = "idle" => tick = "none" /\ ~tick_manager.live
  /\ ctl \in {"setTerminate", "waitTerminated", "join"} => tick = "none"

(* Passivate does not wait for the tick thread either; at most one tick    *)
(* arrives after it has returned.                                          *)
AtMostOneLateTick == late_ticks <= 1

(* A passivated port stops ticking, also when it sleeps at rate zero:      *)
(* InterruptLoop sets interupt_ and wakes the tick thread.                 *)
PassivatedTickEnds == state = "NOT_RUNNING" ~> tick \in {"exit", "none"}

(* A RUNNING periodic port has a tick thread. *)
RunningPortTicks ==
  state = "RUNNING" /\ ctl = "idle" => tick \notin {"none", "terminating", "exit"}

(* A port that has been activated works, in its second life as in its      *)
(* first (activatablefsmtestcases.h, Valid_CAPTCAPT): of its two threads   *)
(* one at least is there.                                                  *)
RunningPortServes == RunningPortHasLoop \/ RunningPortTicks
=============================================================================
