------------------------- MODULE PeriodicPortProofs -------------------------
(***************************************************************************)
(* Theorems about PeriodicPort for every queue limit and every bound.      *)
(* PeriodicInv is the inductive invariant.  The class is a subclass: that  *)
(* a PeriodicPort may stand wherever a SubscriberPort is expected is the   *)
(* refinement PortSubstitutes, in which the tick thread plays the part of  *)
(* the receive thread that the middleware subclasses have.                 *)
(***************************************************************************)
EXTENDS PeriodicPort, TLAPS

TickControl == {"tickSpawn", "tickWaitConfigured", "tickSetActivate", "tickWaitActive",
                "tickInterrupt", "tickSetTerminate", "tickWaitTerminated", "tickJoin"}

PeriodicTypeOK ==
  /\ state \in State
  /\ op \in Transition
  /\ ctl \in ControlPoint \cup TickControl
  /\ thread_manager \in Manager /\ tick_manager \in Manager
  /\ loop \in LoopPoint
  /\ tick \in TickPoint
  /\ queue \in Seq(Nat) /\ message_queue \in Seq(Nat)
  /\ pushed \in Nat
  /\ sender \in [Senders -> {"idle", "received", "sawRunning"}]
  /\ interupt \in BOOLEAN
  /\ late_ticks \in Nat

(* Each handler runs for the request that entered it.  No handler throws.  *)
HandlerRequest ==
  /\ ctl = "idle" <=> op = "NO_TRANSITION"
  /\ ctl \in {"tickSpawn", "tickWaitConfigured", "spawn", "waitConfigured"} => op = "CONFIGURE"
  /\ ctl \in {"tickSetActivate", "tickWaitActive", "setActivate", "waitActive"}
       => op = "ACTIVATE"
  /\ ctl \in {"tickInterrupt", "interrupt"} => op \in {"PASSIVATE", "TERMINATE"}
  /\ ctl \in {"tickSetTerminate", "tickWaitTerminated", "tickJoin", "setTerminate",
              "waitTerminated", "join"} => op = "TERMINATE"
  /\ ctl \notin {"middleware", "openSource", "closeSource", "joinSource", "throw"}
  /\ op = "CONFIGURE" => state = "NOT_CONFIGURED"
  /\ op = "ACTIVATE" => state = "CONFIGURED"
  /\ op = "PASSIVATE" => state = "RUNNING"
  /\ op = "TERMINATE" => state # "NOT_CONFIGURED"

(* The loop's ThreadManager lives from the second half of Configure to the *)
(* end of Terminate, the tick thread's from its beginning to the middle:   *)
(* the tick thread is created first and joined first.                      *)
LoopManagerLives ==
  /\ loop = "none" <=> ~thread_manager.live
  /\ thread_manager.live <=>
       \/ state # "NOT_CONFIGURED" /\ ~(op = "TERMINATE" /\ ctl \in {"return", "commit"})
       \/ op = "CONFIGURE" /\ ctl \in {"waitConfigured", "return", "commit"}

TickManagerLives ==
  /\ tick = "none" <=> ~tick_manager.live
  /\ tick_manager.live <=>
       \/ /\ state # "NOT_CONFIGURED"
          /\ ~(op = "TERMINATE" /\ ctl \in {"interrupt", "setTerminate", "waitTerminated",
                                            "join", "return", "commit"})
       \/ op = "CONFIGURE" /\ ctl # "tickSpawn"

(* What the tick thread has told its manager, and been told by it. *)
TickProgress ==
  /\ tick = "start" => tick_manager.states = {} /\ ctl = "tickWaitConfigured"
  /\ tick \notin {"none", "start"} => "CONFIGURED" \in tick_manager.states
  /\ "TERMINATED" \in tick_manager.states <=> tick = "exit"
  /\ tick \in {"activated", "read", "sleepForever", "sleepPeriod", "fire", "enqueue"}
       => "ACTIVATE" \in tick_manager.transitions
  /\ ctl = "tickJoin" => tick = "exit"
  /\ tick_manager.live \/ tick_manager = NullManager

(* EnqueueMessage runs only within a tick. *)
TickSends == tick # "enqueue" => \A s \in Senders : sender[s] = "idle"

(* The local queue is non-empty exactly while the loop works on its head,  *)
(* and processing_count_ is its length.                                    *)
LoopQueue ==
  /\ queue # <<>> <=> loop \in {"rx", "rxTransition", "callback", "decrement"}
  /\ processing_count = Len(queue)

(* Passivate sets interupt_ before it stores NOT_RUNNING, so a tick may be *)
(* about to come late only if none has.                                    *)
LateTickOnce ==
  /\ AtMostOneLateTick
  /\ state = "RUNNING" => late_ticks = 0
  /\ state = "NOT_RUNNING" => interupt
  /\ op = "PASSIVATE" /\ ctl # "tickInterrupt" => interupt
  /\ state = "NOT_RUNNING" /\ tick = "fire" => late_ticks = 0

PeriodicInv ==
  /\ PeriodicTypeOK
  /\ HandlerRequest
  /\ LoopManagerLives
  /\ TickManagerLives
  /\ TickProgress
  /\ TickSends
  /\ LoopQueue
  /\ LateTickOnce

-----------------------------------------------------------------------------
(* The tick thread as the receive thread of a SubscriberPort. *)

(* The handlers' tick parts are the subclass's parts of SubscriberPort; the *)
(* receive thread is stopped once the tick thread reports TERMINATED.       *)
SourceStopped ==
  ctl = "tickJoin" \/ (ctl = "tickWaitTerminated" /\ "TERMINATED" \in tick_manager.states)

PortControl ==
  IF ctl \in {"tickSpawn", "tickWaitConfigured"} THEN "middleware"
  ELSE IF ctl = "tickSetActivate" THEN "openSource"
  ELSE IF ctl = "tickWaitActive" THEN "setActivate"
  ELSE IF ctl = "tickInterrupt" /\ op = "PASSIVATE" THEN "interrupt"
  ELSE IF SourceStopped THEN "joinSource"
  ELSE IF ctl \in {"tickInterrupt", "tickSetTerminate", "tickWaitTerminated"} THEN "closeSource"
  ELSE ctl

PortSource == "ACTIVATE" \in tick_manager.transitions /\ ~SourceStopped

Port == INSTANCE SubscriberPort WITH ctl <- PortControl, source <- PortSource

(* A PeriodicPort behaves like a SubscriberPort: its own two threads and   *)
(* its handlers allow nothing that the base class does not.                *)
ImplementsSubscriberPort == Port!Spec

-----------------------------------------------------------------------------
(* Facts about the operators. *)

(* What the operations of a ThreadManager return. *)
LEMMA ManagerFacts ==
  /\ NullManager \in Manager /\ ~NullManager.live
  /\ NullManager.states = {} /\ NullManager.transitions = {}
  /\ NewManager \in Manager /\ NewManager.live
  /\ NewManager.states = {} /\ NewManager.transitions = {}
  /\ \A m \in Manager : \A x \in ThreadState :
       /\ SetState(m, x) \in Manager /\ SetState(m, x).live = m.live
       /\ SetState(m, x).states = m.states \cup {x}
       /\ SetState(m, x).transitions = m.transitions
  /\ \A m \in Manager : \A t \in ThreadTransition :
       /\ SetTransition(m, t) \in Manager /\ SetTransition(m, t).live = m.live
       /\ SetTransition(m, t).states = m.states
       /\ t = "TERMINATE" \/ "CONFIGURED" \in m.states
            => SetTransition(m, t).transitions = m.transitions \cup {t}
       /\ m.transitions \subseteq SetTransition(m, t).transitions
  BY DEF Manager, NullManager, NewManager, SetState, SetTransition, ThreadState, ThreadTransition

(* The transition table, request by request. *)
LEMMA TransitionTable ==
  \A s \in State :
    /\ \A t \in Transition : NewState(s, t) \in State
    /\ NewState(s, "CONFIGURE") # s <=> s = "NOT_CONFIGURED"
    /\ NewState(s, "ACTIVATE") # s <=> s = "CONFIGURED"
    /\ NewState(s, "PASSIVATE") # s <=> s = "RUNNING"
    /\ NewState(s, "TERMINATE") # s <=> s # "NOT_CONFIGURED"
    /\ s = "NOT_CONFIGURED" => NewState(s, "CONFIGURE") = "CONFIGURED"
    /\ s = "CONFIGURED" => NewState(s, "ACTIVATE") = "RUNNING"
    /\ s = "RUNNING" => NewState(s, "PASSIVATE") = "NOT_RUNNING"
    /\ NewState(s, "TERMINATE") = "NOT_CONFIGURED"
  BY DEF NewState, State, Transition, Request

TickHandlerStep ==
  \/ SpawnTick \/ TickWaitForConfigured \/ TickSetActivate \/ TickWaitForActive
  \/ TickInterruptLoop \/ TickSetTerminate \/ TickWaitForTerminated \/ JoinTick

(* A step is one of the controller, of a thread, or of whoever sets the    *)
(* frequency.                                                              *)
LEMMA NextCases ==
  [PNext]_pvars =>
    \/ \E t \in Request : PRequestTransition(t)
    \/ TickHandlerStep \/ InheritedHandlerStep \/ TickStep \/ PLoopStep \/ PSenderStep
    \/ \E hz \in {0, 1} : SetFrequency(hz)
    \/ UNCHANGED pvars
  BY DEF PNext, PControlStep, TickHandlerStep

(* The tick parts of the handlers leave the SubscriberPort alone. *)
LEMMA TickHandlerFrame ==
  TickHandlerStep => UNCHANGED <<portVars, state, transition, op, frequency, late_ticks>>
  BY DEF TickHandlerStep, SpawnTick, TickWaitForConfigured, TickSetActivate, TickWaitForActive,
         TickInterruptLoop, TickSetTerminate, TickWaitForTerminated, JoinTick, Goto, tickVars

(* The inherited handlers leave the queues, the senders and the tick thread *)
(* alone.                                                                   *)
LEMMA InheritedFrame ==
  InheritedHandlerStep =>
    UNCHANGED <<running, queue, message_queue, processing_count, pushed, senderVars, counterVars,
                tick_manager, tick, interupt, frequency>>
  BY DEF InheritedHandlerStep, HandlerStep, Return, StoreState, Throw, SpawnLoop,
         WaitForConfigured, SetActivate, WaitForActive, InterruptLoop, SetTerminate,
         WaitForTerminated, JoinLoop, loopVars, queueVars, senderVars, counterVars

(* The tick thread leaves the lifecycle and the loop alone. *)
LEMMA TickFrame ==
  TickStep => UNCHANGED <<machineVars, loopVars, queueVars, interupt, frequency>>
  BY DEF TickStep, TickConfigured, TickWaitForActivate, TickActivated, TickReadFrequency,
         TickInterrupted, TickElapsed, TickEnqueues, TickEnqueued, TickTerminated, TickGoto,
         EventRecieved, portVars

(* The loop leaves the lifecycle, the senders and the tick thread alone. *)
LEMMA LoopFrame ==
  PLoopStep => UNCHANGED <<machineVars, senderVars, tickVars, pushed>>
  BY DEF PLoopStep, LoopStep, LoopConfigured, LoopWaitForActivate, LoopActivated, TakeQueue,
         RxReadState, RxReadTransition, RxCallback, LoopDecrement, LoopTerminated, queueVars

(* EnqueueMessage leaves the lifecycle, the loop and the tick thread alone. *)
LEMMA SenderFrame ==
  PSenderStep => UNCHANGED <<machineVars, loopVars, tickVars, processing_count, terminate, source>>
  BY DEF PSenderStep, SenderStep, EnqueueReadState, EnqueueReadTransition, queueVars

-----------------------------------------------------------------------------
(* Every part of PeriodicInv is preserved by every step. *)

(* A handler keeps its request until Commit. *)
LEMMA HandlerStepKeeps == PeriodicInv /\ [PNext]_pvars => HandlerRequest'
<1> SUFFICES ASSUME PeriodicInv, [PNext]_pvars PROVE HandlerRequest'
  OBVIOUS
<1>0. PeriodicTypeOK /\ HandlerRequest /\ LoopManagerLives /\ TickManagerLives
  BY DEF PeriodicInv
<1> USE DEF HandlerRequest, machineVars
<1>1. CASE UNCHANGED machineVars
  BY <1>0, <1>1
<1>2. ASSUME NEW t \in Request, PRequestTransition(t) PROVE HandlerRequest'
  BY <1>0, <1>2, TransitionTable DEF PRequestTransition, Begin, PEntry, Request, PeriodicTypeOK
<1>3. CASE TickHandlerStep
  BY <1>0, <1>3 DEF TickHandlerStep, SpawnTick, TickWaitForConfigured, TickSetActivate,
     TickWaitForActive, TickInterruptLoop, TickSetTerminate, TickWaitForTerminated, JoinTick,
     Goto, TickManagerLives
<1>4. CASE InheritedHandlerStep
  <2>0. HandlerStep
    BY <1>4 DEF InheritedHandlerStep
  <2>1. CASE Return
    BY <1>0, <2>1 DEF Return, ResetTransition
  <2>2. CASE StoreState
    BY <1>0, <2>2 DEF StoreState, Commit
  <2>3. CASE Throw
    BY <1>0, <2>3 DEF Throw, HandlerThrew
  <2>4. CASE SpawnLoop
    BY <1>0, <2>4 DEF SpawnLoop, Goto, LoopManagerLives
  <2>5. CASE WaitForConfigured \/ WaitForActive \/ WaitForTerminated
    BY <1>0, <2>5 DEF WaitForConfigured, WaitForActive, WaitForTerminated, Goto
  <2>6. CASE SetActivate
    BY <1>0, <2>6 DEF SetActivate, Goto, LoopManagerLives
  <2>7. CASE InterruptLoop
    BY <1>0, <2>7 DEF InterruptLoop, Goto
  <2>8. CASE SetTerminate \/ JoinLoop
    BY <1>0, <2>8 DEF SetTerminate, JoinLoop, Goto
  <2>9. QED
    BY <2>0, <2>1, <2>2, <2>3, <2>4, <2>5, <2>6, <2>7, <2>8 DEF HandlerStep
<1>5. CASE \E hz \in {0, 1} : SetFrequency(hz)
  BY <1>1, <1>5 DEF SetFrequency
<1>6. QED
  BY <1>1, <1>2, <1>3, <1>4, <1>5, NextCases, TickFrame, LoopFrame, SenderFrame DEF pvars, vars

(* Types are kept. *)
LEMMA TypeStep == PeriodicInv /\ [PNext]_pvars => PeriodicTypeOK'
<1> SUFFICES ASSUME PeriodicInv, [PNext]_pvars PROVE PeriodicTypeOK'
  OBVIOUS
<1>0. PeriodicTypeOK /\ LoopQueue
  BY DEF PeriodicInv
<1> USE DEF PeriodicTypeOK, State, Transition, Request, ControlPoint, TickControl, LoopPoint,
            TickPoint, machineVars, loopVars, queueVars, senderVars, tickVars, portVars
<1>1. CASE UNCHANGED pvars
  BY <1>0, <1>1 DEF pvars, vars
<1>2. ASSUME NEW t \in Request, PRequestTransition(t) PROVE PeriodicTypeOK'
  BY <1>0, <1>2 DEF PRequestTransition, Begin, PEntry
<1>3. CASE TickHandlerStep
  <2>1. CASE SpawnTick
    BY <1>0, <2>1, ManagerFacts DEF SpawnTick, Goto
  <2>2. CASE TickWaitForConfigured \/ TickWaitForActive \/ TickWaitForTerminated
    BY <1>0, <2>2 DEF TickWaitForConfigured, TickWaitForActive, TickWaitForTerminated, Goto
  <2>3. CASE TickSetActivate
    BY <1>0, <2>3, ManagerFacts DEF TickSetActivate, Goto, ThreadTransition
  <2>4. CASE TickInterruptLoop
    BY <1>0, <2>4 DEF TickInterruptLoop, Goto
  <2>5. CASE TickSetTerminate
    BY <1>0, <2>5, ManagerFacts DEF TickSetTerminate, Goto, ThreadTransition
  <2>6. CASE JoinTick
    BY <1>0, <2>6, ManagerFacts DEF JoinTick, Goto
  <2>7. QED
    BY <1>3, <2>1, <2>2, <2>3, <2>4, <2>5, <2>6 DEF TickHandlerStep
<1>4. CASE InheritedHandlerStep
  <2>0. HandlerStep /\ late_ticks' \in Nat
    BY <1>0, <1>4 DEF InheritedHandlerStep
  <2>1. ctl' \in ControlPoint \cup TickControl /\ op' \in Transition /\ state' \in State
    BY <1>0, <2>0, TransitionTable DEF HandlerStep, Return, ResetTransition, StoreState, Commit,
       Throw, HandlerThrew, SpawnLoop, WaitForConfigured, SetActivate, WaitForActive,
       InterruptLoop, SetTerminate, WaitForTerminated, JoinLoop, Goto
  <2>2. thread_manager' \in Manager /\ loop' \in LoopPoint
    BY <1>0, <2>0, ManagerFacts DEF HandlerStep, Return, StoreState, Throw, SpawnLoop,
       WaitForConfigured, SetActivate, WaitForActive, InterruptLoop, SetTerminate,
       WaitForTerminated, JoinLoop, ThreadTransition
  <2>3. QED
    BY <1>0, <1>4, <2>0, <2>1, <2>2, InheritedFrame
<1>5. CASE TickStep
  <2>1. tick_manager' \in Manager
    BY <1>0, <1>5, ManagerFacts DEF TickStep, TickConfigured, TickWaitForActivate, TickActivated,
       TickReadFrequency, TickInterrupted, TickElapsed, TickEnqueues, TickEnqueued,
       TickTerminated, ThreadState
  <2>2. tick' \in TickPoint /\ late_ticks' \in Nat
    BY <1>0, <1>5 DEF TickStep, TickConfigured, TickWaitForActivate, TickActivated,
       TickReadFrequency, TickInterrupted, TickElapsed, TickEnqueues, TickEnqueued,
       TickTerminated, TickGoto
  <2>3. sender' \in [Senders -> {"idle", "received", "sawRunning"}]
    BY <1>0, <1>5 DEF TickStep, TickConfigured, TickWaitForActivate, TickActivated,
       TickReadFrequency, TickInterrupted, TickElapsed, TickEnqueues, TickEnqueued,
       TickTerminated, EventRecieved
  <2>4. QED
    BY <1>0, <1>5, <2>1, <2>2, <2>3, TickFrame
<1>6. CASE PLoopStep
  <2>0. LoopStep
    BY <1>6 DEF PLoopStep
  <2>1. thread_manager' \in Manager
    BY <1>0, <2>0, ManagerFacts DEF LoopStep, LoopConfigured, LoopWaitForActivate, LoopActivated,
       TakeQueue, RxReadState, RxReadTransition, RxCallback, LoopDecrement, LoopTerminated,
       ThreadState
  <2>2. loop' \in LoopPoint
    BY <1>0, <2>0 DEF LoopStep, LoopConfigured, LoopWaitForActivate, LoopActivated,
       TakeQueue, RxReadState, RxReadTransition, RxCallback, LoopDecrement, LoopTerminated,
       LoopContinues
  <2>3. loop = "decrement" => Tail(queue) \in Seq(Nat)
    BY <1>0 DEF LoopQueue
  <2>4. queue' \in Seq(Nat) /\ message_queue' \in Seq(Nat)
    BY <1>0, <2>0, <2>3 DEF LoopStep, LoopConfigured, LoopWaitForActivate, LoopActivated,
       TakeQueue, RxReadState, RxReadTransition, RxCallback, LoopDecrement, LoopTerminated
  <2>5. QED
    BY <1>0, <1>6, <2>1, <2>2, <2>4, LoopFrame
<1>7. CASE PSenderStep
  <2>1. Append(message_queue, pushed + 1) \in Seq(Nat) /\ pushed + 1 \in Nat
    BY <1>0
  <2>2. \/ message_queue' = Append(message_queue, pushed + 1) /\ pushed' = pushed + 1
        \/ message_queue' = message_queue /\ pushed' = pushed
    BY <1>7 DEF PSenderStep, SenderStep, EnqueueReadState, EnqueueReadTransition
  <2>3. message_queue' \in Seq(Nat) /\ pushed' \in Nat
    BY <1>0, <2>1, <2>2
  <2>4. sender' \in [Senders -> {"idle", "received", "sawRunning"}]
    BY <1>0, <1>7 DEF PSenderStep, SenderStep, EnqueueReadState, EnqueueReadTransition
  <2>5. QED
    BY <1>0, <1>7, <2>3, <2>4, SenderFrame
<1>8. CASE \E hz \in {0, 1} : SetFrequency(hz)
  BY <1>0, <1>8 DEF SetFrequency
<1>9. QED
  BY <1>1, <1>2, <1>3, <1>4, <1>5, <1>6, <1>7, <1>8, NextCases

(* Only Configure creates the loop's manager and only Terminate releases it. *)
LEMMA LoopManagerStep == PeriodicInv /\ [PNext]_pvars => LoopManagerLives'
<1> SUFFICES ASSUME PeriodicInv, [PNext]_pvars PROVE LoopManagerLives'
  OBVIOUS
<1>0. PeriodicTypeOK /\ HandlerRequest /\ LoopManagerLives /\ LoopQueue
  BY DEF PeriodicInv
<1> USE DEF LoopManagerLives, machineVars, loopVars
<1>1. CASE UNCHANGED <<machineVars, loopVars>>
  BY <1>0, <1>1
<1>2. ASSUME NEW t \in Request, PRequestTransition(t) PROVE LoopManagerLives'
  BY <1>0, <1>2 DEF PRequestTransition, Begin, PEntry, Request, HandlerRequest
<1>3. CASE TickHandlerStep
  <2>1. UNCHANGED <<loopVars, state, op>>
    BY <1>3, TickHandlerFrame DEF portVars
  <2>2. ctl \in TickControl /\ ctl' \notin {"waitConfigured", "return", "commit"}
    BY <1>3 DEF TickHandlerStep, SpawnTick, TickWaitForConfigured, TickSetActivate,
       TickWaitForActive, TickInterruptLoop, TickSetTerminate, TickWaitForTerminated, JoinTick,
       Goto, TickControl
  <2>3. QED
    BY <1>0, <2>1, <2>2 DEF TickControl
<1>4. CASE InheritedHandlerStep
  <2> USE DEF HandlerRequest
  <2>0. HandlerStep
    BY <1>4 DEF InheritedHandlerStep
  <2>1. CASE Return
    BY <1>0, <2>1 DEF Return, ResetTransition
  <2>2. CASE StoreState
    BY <1>0, <2>2, TransitionTable DEF StoreState, Commit, PeriodicTypeOK, Transition, Request
  <2>3. CASE Throw
    BY <1>0, <2>3 DEF Throw, HandlerThrew
  <2>4. CASE SpawnLoop
    BY <1>0, <2>4, ManagerFacts DEF SpawnLoop, Goto
  <2>5. CASE WaitForConfigured \/ WaitForActive \/ WaitForTerminated
    BY <1>0, <2>5 DEF WaitForConfigured, WaitForActive, WaitForTerminated, Goto
  <2>6. CASE SetActivate
    BY <1>0, <2>6, ManagerFacts DEF SetActivate, Goto, PeriodicTypeOK, ThreadTransition
  <2>7. CASE InterruptLoop
    BY <1>0, <2>7 DEF InterruptLoop, Goto
  <2>8. CASE SetTerminate
    BY <1>0, <2>8, ManagerFacts DEF SetTerminate, Goto, PeriodicTypeOK, ThreadTransition
  <2>9. CASE JoinLoop
    BY <1>0, <2>9, ManagerFacts DEF JoinLoop, Goto
  <2>10. QED
    BY <2>0, <2>1, <2>2, <2>3, <2>4, <2>5, <2>6, <2>7, <2>8, <2>9 DEF HandlerStep
<1>5. CASE PLoopStep
  <2>0. LoopStep /\ UNCHANGED machineVars
    BY <1>5, LoopFrame DEF PLoopStep
  <2>1. loop # "none" /\ loop' # "none"
    BY <2>0 DEF LoopStep, LoopConfigured, LoopWaitForActivate, LoopActivated, TakeQueue,
       RxReadState, RxReadTransition, RxCallback, LoopDecrement, LoopTerminated, LoopContinues
  <2>2. thread_manager'.live = thread_manager.live
    BY <1>0, <2>0, ManagerFacts DEF LoopStep, LoopConfigured, LoopWaitForActivate, LoopActivated,
       TakeQueue, RxReadState, RxReadTransition, RxCallback, LoopDecrement, LoopTerminated,
       PeriodicTypeOK, ThreadState
  <2>3. QED
    BY <1>0, <2>0, <2>1, <2>2
<1>6. CASE \E hz \in {0, 1} : SetFrequency(hz)
  BY <1>1, <1>6 DEF SetFrequency, portVars
<1>7. QED
  BY <1>1, <1>2, <1>3, <1>4, <1>5, <1>6, NextCases, TickFrame, SenderFrame DEF pvars, vars

(* The tick thread's manager lives from the first step of Configure to the *)
(* join in Terminate.                                                      *)
LEMMA TickManagerStep == PeriodicInv /\ [PNext]_pvars => TickManagerLives'
<1> SUFFICES ASSUME PeriodicInv, [PNext]_pvars PROVE TickManagerLives'
  OBVIOUS
<1>0. PeriodicTypeOK /\ HandlerRequest /\ TickManagerLives /\ HandlerRequest'
  BY HandlerStepKeeps DEF PeriodicInv
<1> USE DEF TickManagerLives, machineVars
<1>1. CASE UNCHANGED <<machineVars, tick_manager, tick>>
  BY <1>0, <1>1
<1>2. ASSUME NEW t \in Request, PRequestTransition(t) PROVE TickManagerLives'
  BY <1>0, <1>2 DEF PRequestTransition, Begin, PEntry, Request, HandlerRequest, tickVars
<1>3. CASE TickHandlerStep
  <2> USE DEF HandlerRequest
  <2>1. CASE SpawnTick
    BY <1>0, <2>1, ManagerFacts DEF SpawnTick, Goto
  <2>2. CASE TickWaitForConfigured \/ TickWaitForActive \/ TickWaitForTerminated
    BY <1>0, <2>2 DEF TickWaitForConfigured, TickWaitForActive, TickWaitForTerminated, Goto,
       tickVars
  <2>3. CASE TickSetActivate
    BY <1>0, <2>3, ManagerFacts DEF TickSetActivate, Goto, PeriodicTypeOK, ThreadTransition
  <2>4. CASE TickInterruptLoop
    BY <1>0, <2>4 DEF TickInterruptLoop, Goto
  <2>5. CASE TickSetTerminate
    BY <1>0, <2>5, ManagerFacts DEF TickSetTerminate, Goto, PeriodicTypeOK, ThreadTransition
  <2>6. CASE JoinTick
    BY <1>0, <2>6, ManagerFacts DEF JoinTick, Goto
  <2>7. QED
    BY <1>3, <2>1, <2>2, <2>3, <2>4, <2>5, <2>6 DEF TickHandlerStep
<1>4. CASE InheritedHandlerStep
  <2> USE DEF HandlerRequest
  <2>0. HandlerStep /\ UNCHANGED <<tick_manager, tick>>
    BY <1>4, InheritedFrame DEF InheritedHandlerStep
  <2>1. CASE StoreState
    BY <1>0, <2>0, <2>1, TransitionTable DEF StoreState, Commit, PeriodicTypeOK, Transition,
       Request
  <2>2. CASE Throw
    BY <1>0, <2>2 DEF Throw, HandlerThrew
  <2>3. CASE Return
    BY <1>0, <2>0, <2>3 DEF Return, ResetTransition
  <2>4. CASE SpawnLoop \/ WaitForConfigured \/ SetActivate \/ WaitForActive
    BY <1>0, <2>0, <2>4 DEF SpawnLoop, WaitForConfigured, SetActivate, WaitForActive, Goto
  <2>5. CASE InterruptLoop \/ SetTerminate \/ WaitForTerminated \/ JoinLoop
    BY <1>0, <2>0, <2>5 DEF InterruptLoop, SetTerminate, WaitForTerminated, JoinLoop, Goto
  <2>6. QED
    BY <2>0, <2>1, <2>2, <2>3, <2>4, <2>5 DEF HandlerStep
<1>5. CASE TickStep
  <2>1. tick # "none" /\ tick' # "none" /\ UNCHANGED machineVars
    BY <1>5, TickFrame DEF TickStep, TickConfigured, TickWaitForActivate, TickActivated,
       TickReadFrequency, TickInterrupted, TickElapsed, TickEnqueues, TickEnqueued,
       TickTerminated, TickGoto
  <2>2. tick_manager'.live = tick_manager.live
    BY <1>0, <1>5, ManagerFacts DEF TickStep, TickConfigured, TickWaitForActivate, TickActivated,
       TickReadFrequency, TickInterrupted, TickElapsed, TickEnqueues, TickEnqueued,
       TickTerminated, PeriodicTypeOK, ThreadState
  <2>3. QED
    BY <1>0, <2>1, <2>2
<1>6. CASE \E hz \in {0, 1} : SetFrequency(hz)
  BY <1>1, <1>6 DEF SetFrequency
<1>7. QED
  BY <1>1, <1>2, <1>3, <1>4, <1>5, <1>6, NextCases, LoopFrame, SenderFrame
     DEF pvars, vars, tickVars

(* The rendezvous with the tick thread. *)
LEMMA TickProgressStep == PeriodicInv /\ [PNext]_pvars => TickProgress'
<1> SUFFICES ASSUME PeriodicInv, [PNext]_pvars PROVE TickProgress'
  OBVIOUS
<1>0. /\ PeriodicTypeOK /\ HandlerRequest /\ TickManagerLives /\ TickProgress
      /\ tick_manager \in Manager
  BY DEF PeriodicInv, PeriodicTypeOK
<1> USE DEF TickProgress, machineVars
<1>1. CASE UNCHANGED <<machineVars, tick_manager, tick>>
  BY <1>0, <1>1
<1>2. ASSUME NEW t \in Request, PRequestTransition(t) PROVE TickProgress'
  BY <1>0, <1>2 DEF PRequestTransition, Begin, PEntry, Request, tickVars
<1>3. CASE TickHandlerStep
  <2>1. CASE SpawnTick
    BY <1>0, <2>1, ManagerFacts DEF SpawnTick, Goto
  <2>2. CASE TickWaitForConfigured
    BY <1>0, <2>2 DEF TickWaitForConfigured, WaitForState, Goto, tickVars
  <2>3. CASE TickWaitForActive \/ TickWaitForTerminated
    BY <1>0, <2>3 DEF TickWaitForActive, TickWaitForTerminated, WaitForState, Goto, tickVars
  <2>4. CASE TickSetActivate
    BY <1>0, <2>4, ManagerFacts DEF TickSetActivate, Goto, ThreadTransition
  <2>5. CASE TickInterruptLoop
    BY <1>0, <2>5 DEF TickInterruptLoop, Goto
  <2>6. CASE TickSetTerminate
    BY <1>0, <2>6, ManagerFacts DEF TickSetTerminate, Goto, ThreadTransition
  <2>7. CASE JoinTick
    BY <1>0, <2>7, ManagerFacts DEF JoinTick, Goto
  <2>8. QED
    BY <1>3, <2>1, <2>2, <2>3, <2>4, <2>5, <2>6, <2>7 DEF TickHandlerStep
<1>4. CASE InheritedHandlerStep
  <2>1. ctl # "tickWaitConfigured" /\ ctl' # "tickJoin"
    BY <1>4 DEF InheritedHandlerStep, HandlerStep, Return, ResetTransition, StoreState, Commit,
       Throw, HandlerThrew, SpawnLoop, WaitForConfigured, SetActivate, WaitForActive,
       InterruptLoop, SetTerminate, WaitForTerminated, JoinLoop, Goto
  <2>2. QED
    BY <1>0, <1>4, <2>1, InheritedFrame
<1>5. CASE TickStep
  <2>0. UNCHANGED machineVars
    BY <1>5, TickFrame
  <2>1. CASE TickConfigured
    BY <1>0, <2>0, <2>1, ManagerFacts DEF TickConfigured, TickGoto, ThreadState, TickManagerLives
  <2>2. CASE TickWaitForActivate
    BY <1>0, <2>0, <2>2 DEF TickWaitForActivate, TickGoto
  <2>3. CASE TickActivated
    BY <1>0, <2>0, <2>3, ManagerFacts DEF TickActivated, TickGoto, ThreadState, TickManagerLives
  <2>4. CASE TickReadFrequency \/ TickInterrupted \/ TickElapsed \/ TickEnqueues \/ TickEnqueued
    BY <1>0, <2>0, <2>4 DEF TickReadFrequency, TickInterrupted, TickElapsed, TickEnqueues,
       TickEnqueued, TickGoto
  <2>5. CASE TickTerminated
    BY <1>0, <2>0, <2>5, ManagerFacts DEF TickTerminated, TickGoto, ThreadState, TickManagerLives
  <2>6. QED
    BY <1>5, <2>1, <2>2, <2>3, <2>4, <2>5 DEF TickStep
<1>6. CASE \E hz \in {0, 1} : SetFrequency(hz)
  BY <1>1, <1>6 DEF SetFrequency
<1>7. QED
  BY <1>1, <1>2, <1>3, <1>4, <1>5, <1>6, NextCases, LoopFrame, SenderFrame
     DEF pvars, vars, tickVars

(* The tick thread waits for EnqueueMessage to return. *)
LEMMA TickSendsStep == PeriodicInv /\ [PNext]_pvars => TickSends'
<1> SUFFICES ASSUME PeriodicInv, [PNext]_pvars PROVE TickSends'
  OBVIOUS
<1>0. PeriodicTypeOK /\ TickSends /\ Senders = {Tick}
  BY TickAssumption DEF PeriodicInv
<1> USE DEF TickSends, senderVars
<1>1. CASE UNCHANGED <<tick, sender>>
  BY <1>0, <1>1
<1>2. ASSUME NEW t \in Request, PRequestTransition(t) PROVE TickSends'
  BY <1>1, <1>2 DEF PRequestTransition, tickVars
<1>3. CASE TickHandlerStep
  <2>1. tick' = tick \/ tick # "enqueue"
    BY <1>3 DEF TickHandlerStep, SpawnTick, TickWaitForConfigured, TickSetActivate,
       TickWaitForActive, TickInterruptLoop, TickSetTerminate, TickWaitForTerminated, JoinTick,
       tickVars, TickManagerLives, PeriodicInv
  <2>2. QED
    BY <1>0, <1>3, <2>1, TickHandlerFrame DEF portVars
<1>4. CASE TickStep
  BY <1>0, <1>4 DEF TickStep, TickConfigured, TickWaitForActivate, TickActivated,
     TickReadFrequency, TickInterrupted, TickElapsed, TickEnqueues, TickEnqueued,
     TickTerminated, TickGoto, portVars
<1>5. CASE PSenderStep
  <2>1. sender[Tick] # "idle"
    BY <1>5 DEF PSenderStep, SenderStep, EnqueueReadState, EnqueueReadTransition
  <2>2. QED
    BY <1>0, <1>5, <2>1, SenderFrame DEF tickVars
<1>6. CASE \E hz \in {0, 1} : SetFrequency(hz)
  BY <1>1, <1>6 DEF SetFrequency, portVars
<1>7. QED
  BY <1>1, <1>2, <1>3, <1>4, <1>5, <1>6, NextCases, LoopFrame, InheritedFrame
     DEF pvars, vars, tickVars

(* processing_count_ follows the loop's local queue. *)
LEMMA LoopQueueStep == PeriodicInv /\ [PNext]_pvars => LoopQueue'
<1> SUFFICES ASSUME PeriodicInv, [PNext]_pvars PROVE LoopQueue'
  OBVIOUS
<1>0. /\ PeriodicTypeOK /\ LoopManagerLives /\ LoopQueue
      /\ queue \in Seq(Nat) /\ message_queue \in Seq(Nat)
  BY DEF PeriodicInv, PeriodicTypeOK
<1> USE DEF LoopQueue, loopVars
<1>1. CASE UNCHANGED <<loop, queue, processing_count>>
  BY <1>0, <1>1
<1>2. ASSUME NEW t \in Request, PRequestTransition(t) PROVE LoopQueue'
  BY <1>1, <1>2 DEF PRequestTransition, queueVars
<1>3. CASE TickHandlerStep
  BY <1>1, <1>3, TickHandlerFrame DEF portVars, queueVars
<1>4. CASE InheritedHandlerStep
  <2>1. \/ loop' = loop
        \/ loop = "none" /\ loop' = "start"
        \/ loop = "exit" /\ loop' = "none"
    BY <1>0, <1>4 DEF InheritedHandlerStep, HandlerStep, Return, StoreState, Throw, SpawnLoop,
       WaitForConfigured, SetActivate, WaitForActive, InterruptLoop, SetTerminate,
       WaitForTerminated, JoinLoop, LoopManagerLives
  <2>2. QED
    BY <1>0, <1>4, <2>1, InheritedFrame
<1>5. CASE PLoopStep
  <2>0. LoopStep
    BY <1>5 DEF PLoopStep
  <2>1. CASE TakeQueue
    <3>1. queue = <<>> /\ processing_count = 0
      BY <1>0, <2>1 DEF TakeQueue
    <3>2. QED
      BY <1>0, <2>1, <3>1 DEF TakeQueue, LoopContinues
  <2>2. CASE LoopDecrement
    <3>1. queue # <<>>
      BY <1>0, <2>2 DEF LoopDecrement
    <3>2. Len(Tail(queue)) = Len(queue) - 1
      BY <1>0, <3>1
    <3>3. QED
      BY <1>0, <2>2, <3>2 DEF LoopDecrement, LoopContinues
  <2>3. CASE LoopConfigured \/ LoopWaitForActivate \/ LoopActivated \/ LoopTerminated
    BY <1>0, <2>3 DEF LoopConfigured, LoopWaitForActivate, LoopActivated, LoopTerminated, queueVars
  <2>4. CASE RxReadState \/ RxReadTransition \/ RxCallback
    BY <1>0, <2>4 DEF RxReadState, RxReadTransition, RxCallback, queueVars
  <2>5. QED
    BY <2>0, <2>1, <2>2, <2>3, <2>4 DEF LoopStep
<1>6. CASE \E hz \in {0, 1} : SetFrequency(hz)
  BY <1>1, <1>6 DEF SetFrequency, portVars, queueVars
<1>7. QED
  BY <1>1, <1>2, <1>3, <1>4, <1>5, <1>6, NextCases, TickFrame, SenderFrame
     DEF pvars, vars, queueVars

(* After interupt_ is set no tick begins, so one at most comes late. *)
LEMMA LateTickStep == PeriodicInv /\ [PNext]_pvars => LateTickOnce'
<1> SUFFICES ASSUME PeriodicInv, [PNext]_pvars PROVE LateTickOnce'
  OBVIOUS
<1>0. PeriodicTypeOK /\ HandlerRequest /\ LateTickOnce /\ late_ticks \in Nat
  BY DEF PeriodicInv, PeriodicTypeOK
<1> USE DEF LateTickOnce, AtMostOneLateTick, machineVars
<1>1. CASE UNCHANGED <<machineVars, tick, interupt, late_ticks>>
  BY <1>0, <1>1
<1>2. ASSUME NEW t \in Request, PRequestTransition(t) PROVE LateTickOnce'
  BY <1>0, <1>2 DEF PRequestTransition, Begin, PEntry, Request, tickVars
<1>3. CASE TickHandlerStep
  <2>0. UNCHANGED <<state, op, late_ticks>>
    BY <1>3, TickHandlerFrame
  <2>1. /\ interupt => interupt'
        /\ ctl = "tickInterrupt" => interupt'
        /\ tick' # "fire" \/ tick' = tick
    BY <1>3 DEF TickHandlerStep, SpawnTick, TickWaitForConfigured, TickSetActivate,
       TickWaitForActive, TickInterruptLoop, TickSetTerminate, TickWaitForTerminated, JoinTick,
       Goto, tickVars
  <2>2. QED
    BY <1>0, <2>0, <2>1
<1>4. CASE InheritedHandlerStep
  <2> USE DEF HandlerRequest
  <2>0. HandlerStep /\ UNCHANGED <<tick, interupt>>
    BY <1>4, InheritedFrame DEF InheritedHandlerStep
  <2>1. CASE StoreState
    <3>1. ctl = "commit" /\ state' = NewState(state, op) /\ op' = "NO_TRANSITION"
      BY <2>1 DEF StoreState, Commit
    <3>2. late_ticks' = IF op = "ACTIVATE" THEN 0 ELSE late_ticks
      BY <1>4, <3>1 DEF InheritedHandlerStep
    <3>3. QED
      BY <1>0, <2>0, <3>1, <3>2, TransitionTable DEF PeriodicTypeOK, Transition, Request
  <2>2. CASE ~StoreState
    <3>1. /\ ctl \notin {"commit", "tickInterrupt"}
          /\ UNCHANGED state /\ op' \in {op, "NO_TRANSITION"}
      BY <2>0, <2>2 DEF HandlerStep, Return, ResetTransition, Throw, HandlerThrew, SpawnLoop,
         WaitForConfigured, SetActivate, WaitForActive, InterruptLoop, SetTerminate,
         WaitForTerminated, JoinLoop, Goto
    <3>2. UNCHANGED late_ticks
      BY <1>4, <3>1 DEF InheritedHandlerStep
    <3>3. QED
      BY <1>0, <2>0, <3>1, <3>2
  <2>3. QED
    BY <2>1, <2>2
<1>5. CASE TickStep
  <2>0. UNCHANGED <<machineVars, interupt>>
    BY <1>5, TickFrame
  <2>1. CASE TickElapsed
    BY <1>0, <2>0, <2>1 DEF TickElapsed, TickGoto
  <2>2. CASE TickEnqueues
    BY <1>0, <2>0, <2>2 DEF TickEnqueues
  <2>3. CASE TickConfigured \/ TickWaitForActivate \/ TickActivated \/ TickReadFrequency
             \/ TickInterrupted \/ TickEnqueued \/ TickTerminated
    BY <1>0, <2>0, <2>3 DEF TickConfigured, TickWaitForActivate, TickActivated,
       TickReadFrequency, TickInterrupted, TickEnqueued, TickTerminated, TickGoto
  <2>4. QED
    BY <1>5, <2>1, <2>2, <2>3 DEF TickStep
<1>6. CASE \E hz \in {0, 1} : SetFrequency(hz)
  BY <1>1, <1>6 DEF SetFrequency
<1>7. QED
  BY <1>1, <1>2, <1>3, <1>4, <1>5, <1>6, NextCases, LoopFrame, SenderFrame
     DEF pvars, vars, tickVars

-----------------------------------------------------------------------------
(* The theorems. *)

(* The initial state of a periodic port satisfies the invariant. *)
LEMMA PeriodicInvInit == PInit => PeriodicInv
<1> SUFFICES ASSUME PInit PROVE PeriodicInv
  OBVIOUS
<1> USE DEF PInit, Init, MachineInit
<1>1. PeriodicTypeOK
  <2>1. /\ state \in State /\ op \in Transition /\ ctl \in ControlPoint \cup TickControl
        /\ loop \in LoopPoint /\ tick \in TickPoint
    BY DEF State, Transition, Request, ControlPoint, LoopPoint, TickPoint
  <2>2. interupt \in BOOLEAN
    OBVIOUS
  <2>3. sender \in [Senders -> {"idle", "received", "sawRunning"}]
    OBVIOUS
  <2>4. QED
    BY <2>1, <2>2, <2>3, ManagerFacts DEF PeriodicTypeOK
<1>2. HandlerRequest /\ LoopManagerLives /\ TickManagerLives /\ TickSends
  BY ManagerFacts DEF HandlerRequest, LoopManagerLives, TickManagerLives, TickSends
<1>3. TickProgress /\ LoopQueue /\ LateTickOnce
  BY ManagerFacts DEF TickProgress, LoopQueue, LateTickOnce, AtMostOneLateTick
<1>4. QED
  BY <1>1, <1>2, <1>3 DEF PeriodicInv

(* Every step of the controller and of the port's threads preserves it. *)
LEMMA PeriodicInvStep == PeriodicInv /\ [PNext]_pvars => PeriodicInv'
  BY TypeStep, HandlerStepKeeps, LoopManagerStep, TickManagerStep, TickProgressStep,
     TickSendsStep, LoopQueueStep, LateTickStep DEF PeriodicInv

(* The inductive invariant of the periodic port. *)
THEOREM PeriodicInvariant == PSpec => []PeriodicInv
  BY PeriodicInvInit, PeriodicInvStep, PTL DEF PSpec

(* After Terminate neither thread is left, and the tick thread is gone     *)
(* before the loop is told to stop.                                        *)
THEOREM PeriodicQuietAfterTerminate == PSpec => []PeriodicTerminatedIsQuiet
<1>1. PeriodicInv => PeriodicTerminatedIsQuiet
  <2> SUFFICES ASSUME PeriodicInv PROVE PeriodicTerminatedIsQuiet
    OBVIOUS
  <2> USE DEF PeriodicInv
  <2>1. ASSUME state = "NOT_CONFIGURED", ctl = "idle"
        PROVE  /\ loop = "none" /\ ~thread_manager.live
               /\ tick = "none" /\ ~tick_manager.live
    BY <2>1 DEF LoopManagerLives, TickManagerLives, HandlerRequest
  <2>2. ASSUME state = "NOT_CONFIGURED", ctl = "idle"
        PROVE  queue = <<>> /\ processing_count = 0 /\ Enqueuing = {}
    <3>1. queue = <<>> /\ processing_count = 0
      BY <2>1, <2>2 DEF LoopQueue
    <3>2. Enqueuing = {}
      BY <2>1, <2>2 DEF TickSends, Enqueuing
    <3>3. QED
      BY <3>1, <3>2
  <2>3. ctl \in {"setTerminate", "waitTerminated", "join"} => tick = "none"
    BY DEF TickManagerLives, HandlerRequest
  <2>4. QED
    BY <2>1, <2>2, <2>3 DEF PeriodicTerminatedIsQuiet, TerminatedIsQuiet
<1>2. QED
  BY <1>1, PeriodicInvariant, PTL

(* Passivate does not wait for the tick thread, yet at most one tick of an *)
(* activation arrives after it.                                            *)
THEOREM OneLateTick == PSpec => []AtMostOneLateTick
<1>1. PeriodicInv => AtMostOneLateTick
  BY DEF PeriodicInv, LateTickOnce
<1>2. QED
  BY <1>1, PeriodicInvariant, PTL

-----------------------------------------------------------------------------
(* The refinement. *)

(* Where neither the controller nor what the tick thread was told changes, *)
(* the mapped control point and source do not either.                      *)
LEMMA PortControlFrame ==
  ASSUME UNCHANGED <<machineVars, tick_manager>>
  PROVE  UNCHANGED <<PortControl, PortSource>>
  BY DEF PortControl, PortSource, SourceStopped, machineVars

(* The control points of the inherited handlers are their own image. *)
LEMMA InheritedControl ==
  ctl \notin TickControl => PortControl = ctl /\ ~SourceStopped
  BY DEF PortControl, SourceStopped, TickControl

(* A request enters the mapped handler. *)
LEMMA RequestRefines ==
  ASSUME PeriodicInv, NEW t \in Request, PRequestTransition(t)
  PROVE  Port!RequestTransition(t)
<1>0. HandlerRequest /\ ctl = "idle" /\ UNCHANGED tickVars
  BY DEF PeriodicInv, PRequestTransition, Begin
<1>1. PortControl = "idle" /\ ~SourceStopped
  BY <1>0 DEF PortControl, SourceStopped
<1>2. PortControl' = Port!Entry(t)
  BY <1>0 DEF PRequestTransition, Begin, PEntry, Request, PortControl, SourceStopped, Port!Entry
<1>3. ~SourceStopped'
  BY <1>0 DEF PRequestTransition, Begin, PEntry, Request, SourceStopped
<1>4. UNCHANGED PortSource
  BY <1>0, <1>1, <1>3 DEF PortSource, tickVars
<1>5. Port!Begin(t, Port!Entry(t))
  BY <1>1, <1>2 DEF PRequestTransition, Begin, Port!Begin, Port!NewState, NewState
<1>6. QED
  BY <1>4, <1>5 DEF PRequestTransition, CountConfigure, Port!RequestTransition,
     Port!CountConfigure, loopVars, queueVars, senderVars, counterVars, Port!loopVars,
     Port!queueVars, Port!senderVars, Port!counterVars

(* The tick parts of the handlers are the parts of a middleware subclass. *)
LEMMA TickHandlerRefines ==
  ASSUME PeriodicInv, TickHandlerStep
  PROVE  Port!SourceStep \/ UNCHANGED Port!vars
<1>0. /\ PeriodicTypeOK /\ HandlerRequest /\ TickManagerLives /\ TickProgress /\ TickSends
      /\ tick_manager \in Manager
  BY DEF PeriodicInv, PeriodicTypeOK
<1>1. UNCHANGED <<portVars, state, transition, op>>
  BY TickHandlerFrame
<1> USE DEF PortControl, PortSource, SourceStopped, portVars, loopVars, queueVars, senderVars,
            counterVars, historyVars, Port!loopVars, Port!queueVars, Port!senderVars,
            Port!counterVars, Port!historyVars, Port!machineVars
<1>2. CASE SpawnTick
  <2>1. PortControl = "middleware" /\ PortControl' = "middleware"
    BY <1>0, <1>2 DEF SpawnTick, Goto, HandlerRequest, TickManagerLives
  <2>2. ~PortSource /\ ~PortSource'
    BY <1>0, <1>2, ManagerFacts DEF SpawnTick, Goto, HandlerRequest, TickManagerLives,
       TickProgress
  <2>3. QED
    BY <1>1, <2>1, <2>2 DEF Port!vars
<1>3. CASE TickWaitForConfigured
  <2>1. PortControl = "middleware" /\ PortControl' = "spawn" /\ UNCHANGED PortSource
    BY <1>3 DEF TickWaitForConfigured, Goto, tickVars
  <2>2. QED
    BY <1>1, <2>1 DEF Port!SourceStep, Port!ConfigureMiddleware, Port!Goto
<1>4. CASE TickSetActivate
  <2>1. tick_manager.live /\ "CONFIGURED" \in tick_manager.states
    BY <1>0, <1>4 DEF TickSetActivate, Goto, HandlerRequest, TickManagerLives, TickProgress
  <2>2. PortControl = "openSource" /\ PortControl' = "setActivate"
    BY <1>4, <2>1 DEF TickSetActivate, Goto
  <2>3. PortSource' = TRUE
    BY <1>0, <1>4, <2>1, ManagerFacts DEF TickSetActivate, Goto, ThreadTransition
  <2>4. QED
    BY <1>1, <2>2, <2>3 DEF Port!SourceStep, Port!OpenSource, Port!Goto
<1>5. CASE TickWaitForActive
  <2>1. UNCHANGED <<PortControl, PortSource>>
    BY <1>5 DEF TickWaitForActive, Goto, tickVars
  <2>2. QED
    BY <1>1, <2>1 DEF Port!vars
<1>6. CASE TickInterruptLoop
  <2>1. UNCHANGED <<PortControl, PortSource>>
    BY <1>0, <1>6 DEF TickInterruptLoop, Goto, HandlerRequest
  <2>2. QED
    BY <1>1, <2>1 DEF Port!vars
<1>7. CASE TickSetTerminate
  <2>1. tick_manager.live /\ op = "TERMINATE"
    BY <1>0, <1>7 DEF TickSetTerminate, Goto, HandlerRequest, TickManagerLives
  <2>2. /\ ctl = "tickSetTerminate" /\ ctl' = "tickWaitTerminated"
        /\ tick_manager' = SetTransition(tick_manager, "TERMINATE")
    BY <1>7, <2>1 DEF TickSetTerminate, Goto
  <2>3. /\ tick_manager'.states = tick_manager.states
        /\ "ACTIVATE" \in tick_manager'.transitions
             <=> "ACTIVATE" \in tick_manager.transitions
    BY <1>0, <2>2, ManagerFacts DEF ThreadTransition
  <2>4. PortControl = "closeSource"
    BY <2>1, <2>2
  <2>5. CASE "TERMINATED" \in tick_manager.states
    <3>1. PortControl' = "joinSource" /\ PortSource' = FALSE
      BY <2>2, <2>3, <2>5
    <3>2. QED
      BY <1>1, <2>4, <3>1 DEF Port!SourceStep, Port!CloseSource, Port!Goto
  <2>6. CASE "TERMINATED" \notin tick_manager.states
    <3>1. PortControl' = "closeSource" /\ UNCHANGED PortSource
      BY <1>1, <2>2, <2>3, <2>6
    <3>2. QED
      BY <1>1, <2>4, <3>1 DEF Port!vars
  <2>7. QED
    BY <2>5, <2>6
<1>8. CASE TickWaitForTerminated
  <2>1. UNCHANGED <<PortControl, PortSource>>
    BY <1>8 DEF TickWaitForTerminated, WaitForState, Goto, tickVars
  <2>2. QED
    BY <1>1, <2>1 DEF Port!vars
<1>9. CASE JoinTick
  <2>1. PortControl = "joinSource" /\ PortControl' = "interrupt"
    BY <1>9 DEF JoinTick, Goto
  <2>2. PortSource = FALSE /\ PortSource' = FALSE
    BY <1>9, ManagerFacts DEF JoinTick, Goto
  <2>3. \A s \in Senders : sender[s] = "idle"
    BY <1>0, <1>9 DEF JoinTick, TickSends
  <2>4. QED
    BY <1>1, <2>1, <2>2, <2>3 DEF Port!SourceStep, Port!JoinSource, Port!Goto
<1>10. QED
  BY <1>2, <1>3, <1>4, <1>5, <1>6, <1>7, <1>8, <1>9 DEF TickHandlerStep

(* The inherited handlers are those of the base class. *)
LEMMA InheritedRefines ==
  ASSUME PeriodicInv, InheritedHandlerStep
  PROVE  Port!HandlerStep
<1>0. HandlerStep /\ UNCHANGED <<tick_manager, senderVars>>
  BY InheritedFrame DEF InheritedHandlerStep
<1>1. ctl \notin TickControl /\ ctl' \notin TickControl
  BY <1>0 DEF HandlerStep, Return, ResetTransition, StoreState, Commit, Throw, HandlerThrew,
     SpawnLoop, WaitForConfigured, SetActivate, WaitForActive, InterruptLoop, SetTerminate,
     WaitForTerminated, JoinLoop, Goto, TickControl
<1>2. PortControl = ctl /\ PortControl' = ctl'
  BY <1>1 DEF PortControl, SourceStopped, TickControl
<1>3. UNCHANGED PortSource
  BY <1>0, <1>1 DEF PortSource, SourceStopped, TickControl
<1> USE DEF Port!HandlerStep, loopVars, queueVars, senderVars, counterVars, historyVars,
            Port!loopVars, Port!queueVars, Port!senderVars, Port!counterVars, Port!historyVars
<1>4. CASE Return
  BY <1>2, <1>3, <1>4 DEF Return, ResetTransition, Port!Return, Port!ResetTransition
<1>5. CASE StoreState
  BY <1>2, <1>3, <1>5 DEF StoreState, Commit, NewState, Port!StoreState, Port!Commit,
     Port!NewState
<1>6. CASE Throw
  BY <1>2, <1>3, <1>6 DEF Throw, HandlerThrew, Port!Throw, Port!HandlerThrew
<1>7. CASE SpawnLoop
  BY <1>2, <1>3, <1>7 DEF SpawnLoop, Goto, NewManager, Port!SpawnLoop, Port!Goto, Port!NewManager
<1>8. CASE WaitForConfigured
  BY <1>2, <1>3, <1>8 DEF WaitForConfigured, WaitForState, Goto, Port!WaitForConfigured,
     Port!WaitForState, Port!Goto
<1>9. CASE SetActivate
  BY <1>2, <1>3, <1>9 DEF SetActivate, SetTransition, Goto, Port!SetActivate,
     Port!SetTransition, Port!Goto
<1>10. CASE WaitForActive
  BY <1>2, <1>3, <1>10 DEF WaitForActive, WaitForState, Goto, Port!WaitForActive,
     Port!WaitForState, Port!Goto
<1>11. CASE InterruptLoop
  BY <1>2, <1>3, <1>11 DEF InterruptLoop, Goto, Port!InterruptLoop, Port!Goto
<1>12. CASE SetTerminate
  BY <1>2, <1>3, <1>12 DEF SetTerminate, SetTransition, Goto, Port!SetTerminate,
     Port!SetTransition, Port!Goto
<1>13. CASE WaitForTerminated
  BY <1>2, <1>3, <1>13 DEF WaitForTerminated, WaitForState, Goto, Port!WaitForTerminated,
     Port!WaitForState, Port!Goto
<1>14. CASE JoinLoop
  BY <1>2, <1>3, <1>14 DEF JoinLoop, NullManager, Goto, Port!JoinLoop, Port!NullManager,
     Port!Goto
<1>15. QED
  BY <1>0, <1>4, <1>5, <1>6, <1>7, <1>8, <1>9, <1>10, <1>11, <1>12, <1>13, <1>14
     DEF HandlerStep

(* The tick thread delivers ticks and reports its end; its waits are       *)
(* invisible.                                                              *)
LEMMA TickRefines ==
  ASSUME PeriodicInv, TickStep
  PROVE  Port!Deliver(Tick) \/ Port!SourceStep \/ UNCHANGED Port!vars
<1>0. /\ HandlerRequest /\ TickManagerLives /\ TickProgress
      /\ tick_manager \in Manager /\ UNCHANGED machineVars
  BY TickFrame DEF PeriodicInv, PeriodicTypeOK
<1> USE DEF machineVars, portVars, loopVars, queueVars, senderVars, counterVars, historyVars,
            Port!loopVars, Port!queueVars, Port!senderVars, Port!counterVars, Port!historyVars,
            Port!machineVars
<1>1. CASE TickEnqueues
  <2>1. UNCHANGED <<PortControl, PortSource>>
    BY <1>0, <1>1, PortControlFrame DEF TickEnqueues
  <2>2. PortSource
    BY <1>0, <1>1 DEF TickEnqueues, TickProgress, PortSource, SourceStopped
  <2>3. QED
    BY <1>1, <2>1, <2>2 DEF TickEnqueues, EventRecieved, Port!Deliver, Port!EventRecieved
<1>2. CASE TickTerminated
  <2>1. /\ UNCHANGED portVars
        /\ "TERMINATED" \notin tick_manager.states
        /\ "TERMINATED" \in tick_manager'.states
        /\ tick_manager'.transitions = tick_manager.transitions
        /\ ctl # "tickJoin"
    BY <1>0, <1>2, ManagerFacts DEF TickTerminated, TickGoto, TickProgress, ThreadState
  <2>2. CASE ctl = "tickWaitTerminated"
    <3>1. PortControl = "closeSource" /\ PortControl' = "joinSource" /\ PortSource' = FALSE
      BY <1>0, <2>1, <2>2 DEF PortControl, PortSource, SourceStopped
    <3>2. QED
      BY <1>0, <2>1, <3>1 DEF Port!SourceStep, Port!CloseSource, Port!Goto
  <2>3. CASE ctl # "tickWaitTerminated"
    <3>1. UNCHANGED <<PortControl, PortSource>>
      BY <1>0, <2>1, <2>3 DEF PortControl, PortSource, SourceStopped
    <3>2. QED
      BY <1>0, <2>1, <3>1 DEF Port!vars
  <2>4. QED
    BY <2>2, <2>3
<1>3. CASE TickConfigured \/ TickActivated
  <2>1. /\ UNCHANGED portVars
        /\ "TERMINATED" \in tick_manager'.states <=> "TERMINATED" \in tick_manager.states
        /\ tick_manager'.transitions = tick_manager.transitions
    BY <1>0, <1>3, ManagerFacts DEF TickConfigured, TickActivated, ThreadState
  <2>2. UNCHANGED <<PortControl, PortSource>>
    BY <1>0, <2>1 DEF PortControl, PortSource, SourceStopped
  <2>3. QED
    BY <1>0, <2>1, <2>2 DEF Port!vars
<1>4. CASE TickWaitForActivate \/ TickReadFrequency \/ TickInterrupted \/ TickElapsed
           \/ TickEnqueued
  <2>1. UNCHANGED <<portVars, tick_manager>>
    BY <1>4 DEF TickWaitForActivate, TickReadFrequency, TickInterrupted, TickElapsed,
       TickEnqueued
  <2>2. QED
    BY <1>0, <2>1, PortControlFrame DEF Port!vars
<1>5. QED
  BY <1>1, <1>2, <1>3, <1>4 DEF TickStep

(* The loop and EnqueueMessage are the base class's own. *)
LEMMA ThreadsRefine ==
  ASSUME PLoopStep \/ PSenderStep
  PROVE  Port!LoopStep \/ Port!SenderStep(Tick)
<1>0. UNCHANGED <<machineVars, tickVars, source, PortControl, PortSource>>
  BY LoopFrame, SenderFrame, PortControlFrame DEF tickVars, senderVars
<1> USE DEF machineVars, loopVars, queueVars, senderVars, counterVars, historyVars,
            Port!loopVars, Port!queueVars, Port!senderVars, Port!counterVars, Port!historyVars,
            Port!machineVars
<1>1. CASE PLoopStep
  <2>0. LoopStep
    BY <1>1 DEF PLoopStep
  <2>1. CASE LoopConfigured \/ LoopActivated \/ LoopTerminated
    BY <1>0, <2>1 DEF LoopConfigured, LoopActivated, LoopTerminated, SetState, Port!LoopStep,
       Port!LoopConfigured, Port!LoopActivated, Port!LoopTerminated, Port!SetState
  <2>2. CASE LoopWaitForActivate
    BY <1>0, <2>2 DEF LoopWaitForActivate, WaitForTransition, Port!LoopStep,
       Port!LoopWaitForActivate, Port!WaitForTransition
  <2>3. CASE TakeQueue \/ LoopDecrement
    BY <1>0, <2>3 DEF TakeQueue, LoopDecrement, LoopContinues, Port!LoopStep, Port!TakeQueue,
       Port!LoopDecrement, Port!LoopContinues
  <2>4. CASE RxReadState \/ RxReadTransition \/ RxCallback
    BY <1>0, <2>4 DEF RxReadState, RxReadTransition, RxCallback, Port!LoopStep,
       Port!RxReadState, Port!RxReadTransition, Port!RxCallback
  <2>5. QED
    BY <2>0, <2>1, <2>2, <2>3, <2>4 DEF LoopStep
<1>2. CASE PSenderStep
  BY <1>0, <1>2 DEF PSenderStep, SenderStep, EnqueueReadState, EnqueueReadTransition, HasRoom,
     Port!SenderStep, Port!EnqueueReadState, Port!EnqueueReadTransition, Port!HasRoom
<1>3. QED
  BY <1>1, <1>2

(* A PeriodicPort implements the SubscriberPort it derives from: what is   *)
(* proved of SubscriberPort (no message lost or doubled, the queue limit,  *)
(* order, one late callback, the ledger) holds of it as well.              *)
THEOREM PortSubstitutes == PSpec => ImplementsSubscriberPort
<1>1. PInit => Port!Init
  BY ManagerFacts DEF PInit, Init, MachineInit, Port!Init, Port!MachineInit, PortControl,
     PortSource, SourceStopped, NullManager, Port!NullManager
<1>2. PeriodicInv /\ [PNext]_pvars => [Port!Next]_(Port!vars)
  <2> SUFFICES ASSUME PeriodicInv, [PNext]_pvars PROVE [Port!Next]_(Port!vars)
    OBVIOUS
  <2> USE DEF Port!Next
  <2>1. ASSUME NEW t \in Request, PRequestTransition(t) PROVE Port!Next
    <3>1. Port!RequestTransition(t)
      BY <2>1, RequestRefines
    <3>2. QED
      BY <3>1 DEF Request, Port!Request
  <2>2. CASE TickHandlerStep
    BY <2>2, TickHandlerRefines
  <2>3. CASE InheritedHandlerStep
    BY <2>3, InheritedRefines
  <2>4. CASE TickStep
    BY <2>4, TickRefines, TickAssumption
  <2>5. CASE PLoopStep \/ PSenderStep
    BY <2>5, ThreadsRefine, TickAssumption
  <2>6. CASE (\E hz \in {0, 1} : SetFrequency(hz)) \/ UNCHANGED pvars
    <3>1. UNCHANGED <<machineVars, portVars, tick_manager>>
      BY <2>6 DEF SetFrequency, pvars, vars, portVars, tickVars
    <3>2. UNCHANGED Port!vars
      BY <3>1, PortControlFrame DEF Port!vars, machineVars, portVars, loopVars, queueVars,
         senderVars, counterVars, historyVars, Port!machineVars, Port!loopVars, Port!queueVars,
         Port!senderVars, Port!counterVars, Port!historyVars
    <3>3. QED
      BY <3>2
  <2>7. QED
    BY <2>1, <2>2, <2>3, <2>4, <2>5, <2>6, NextCases
<1>3. QED
  BY <1>1, <1>2, PeriodicInvariant, PTL DEF PSpec, ImplementsSubscriberPort, Port!Spec
=============================================================================
