------------------------ MODULE SubscriberPortProofs ------------------------
(***************************************************************************)
(* Theorems about SubscriberPort for every set of senders, every queue     *)
(* limit and every bound.  PortInv is the inductive invariant: the         *)
(* properties it is made for, and the four facts about the threads that    *)
(* make them inductive.                                                    *)
(***************************************************************************)
EXTENDS SubscriberPort, FiniteSetTheorems, TLAPS

(* Each handler runs for the request that entered it, and the request is   *)
(* one that the transition table accepts.                                  *)
HandlerMatchesRequest ==
  /\ ctl = "idle" <=> op = "NO_TRANSITION"
  /\ ctl \in {"middleware", "spawn", "waitConfigured", "throw"} => op = "CONFIGURE"
  /\ ctl \in {"openSource", "setActivate", "waitActive"} => op = "ACTIVATE"
  /\ ctl = "interrupt" => op \in {"PASSIVATE", "TERMINATE"}
  /\ ctl \in {"closeSource", "joinSource", "setTerminate", "waitTerminated", "join"}
       => op = "TERMINATE"
  /\ op = "CONFIGURE" => state = "NOT_CONFIGURED"
  /\ op = "ACTIVATE" => state = "CONFIGURED"
  /\ op = "PASSIVATE" => state = "RUNNING"
  /\ op = "TERMINATE" => state # "NOT_CONFIGURED"

(* The ThreadManager and its thread live from the middle of Configure to   *)
(* the end of HandleTerminate.                                             *)
ManagerLives ==
  /\ loop = "none" <=> ~thread_manager.live
  /\ thread_manager.live <=>
       \/ state # "NOT_CONFIGURED" /\ ~(op = "TERMINATE" /\ ctl \in {"return", "commit"})
       \/ op = "CONFIGURE" /\ ctl \in {"waitConfigured", "return", "commit"}

(* The local queue is non-empty exactly while the loop works on its head. *)
LoopHoldsQueue ==
  queue # <<>> <=> loop \in {"rx", "rxTransition", "callback", "decrement"}

(* The receive thread is released only in an activated port, and once it   *)
(* is joined nobody is inside EnqueueMessage.                              *)
SourceJoined ==
  /\ state = "NOT_CONFIGURED" \/ (op = "TERMINATE" /\ ctl # "closeSource") => ~source
  /\ ~source /\ ctl # "joinSource" => \A s \in Senders : sender[s] = "idle"

(* A callback may be about to start late only if none has. *)
LateOnce ==
  /\ AtMostOneLateCallback
  /\ state = "RUNNING" => late = 0
  /\ state = "NOT_RUNNING" /\ loop = "rxTransition" => late = 0

PortInv ==
  /\ TypeOK
  /\ HandlerMatchesRequest
  /\ ManagerLives
  /\ LoopHoldsQueue
  /\ SourceJoined
  /\ LateOnce
  /\ Conservation
  /\ QueueBounded
  /\ InOrder

-----------------------------------------------------------------------------
(* Facts about the operators. *)

(* The operations of a ThreadManager keep its type and do not change who   *)
(* owns it.                                                                *)
LEMMA ManagerTypes ==
  /\ NullManager \in Manager /\ ~NullManager.live
  /\ NewManager \in Manager /\ NewManager.live
  /\ \A m \in Manager : \A x \in ThreadState :
       SetState(m, x) \in Manager /\ SetState(m, x).live = m.live
  /\ \A m \in Manager : \A t \in ThreadTransition :
       SetTransition(m, t) \in Manager /\ SetTransition(m, t).live = m.live
  BY DEF Manager, NullManager, NewManager, SetState, SetTransition, ThreadState, ThreadTransition

(* The transition table, request by request. *)
LEMMA TransitionTable ==
  \A s \in State :
    /\ \A t \in Transition : NewState(s, t) \in State
    /\ NewState(s, "CONFIGURE") # s <=> s = "NOT_CONFIGURED"
    /\ NewState(s, "ACTIVATE") # s <=> s = "CONFIGURED"
    /\ NewState(s, "PASSIVATE") # s <=> s = "RUNNING"
    /\ NewState(s, "TERMINATE") # s <=> s # "NOT_CONFIGURED"
    /\ s = "NOT_CONFIGURED" => NewState(s, "CONFIGURE") = "CONFIGURED"
    /\ s = "CONFIGURED" => NewState(s, "ACTIVATE") = "RUNNING"
    /\ s = "RUNNING" => NewState(s, "PASSIVATE") = "NOT_RUNNING"
    /\ NewState(s, "TERMINATE") = "NOT_CONFIGURED"
  BY DEF NewState, State, Transition, Request

(* The senders inside EnqueueMessage are finitely many, and one that comes *)
(* or goes changes their number by one.                                    *)
LEMMA EnqueuingCount ==
  /\ IsFiniteSet(Enqueuing)
  /\ Cardinality(Enqueuing) \in Nat
  /\ \A s \in Enqueuing : /\ Cardinality(Enqueuing \ {s}) = Cardinality(Enqueuing) - 1
                           /\ Cardinality(Enqueuing) >= 1
  /\ \A s \in Senders \ Enqueuing :
       Cardinality(Enqueuing \cup {s}) = Cardinality(Enqueuing) + 1
<1>1. IsFiniteSet(Enqueuing)
  BY PortAssumption, FS_Subset DEF Enqueuing
<1>2. Cardinality(Enqueuing) \in Nat
  BY <1>1, FS_CardinalityType
<1>3. ASSUME NEW s \in Enqueuing
      PROVE  /\ Cardinality(Enqueuing \ {s}) = Cardinality(Enqueuing) - 1
             /\ Cardinality(Enqueuing) >= 1
  <2>1. Cardinality(Enqueuing \ {s}) = Cardinality(Enqueuing) - 1
    BY <1>1, FS_RemoveElement
  <2>2. Cardinality(Enqueuing \ {s}) \in Nat
    BY <1>1, FS_RemoveElement, FS_CardinalityType
  <2>3. QED
    BY <1>2, <2>1, <2>2
<1>4. ASSUME NEW s \in Senders \ Enqueuing
      PROVE  Cardinality(Enqueuing \cup {s}) = Cardinality(Enqueuing) + 1
  BY <1>1, FS_AddElement
<1>5. QED
  BY <1>1, <1>2, <1>3, <1>4

-----------------------------------------------------------------------------
(* What each kind of thread leaves alone. *)

(* The controller touches neither the queues nor the senders nor a counter. *)
LEMMA ControllerFrame ==
  (\E t \in Request : RequestTransition(t)) \/ HandlerStep \/ SourceStep =>
    UNCHANGED <<running, queue, message_queue, processing_count, pushed, queue_mutex, sender,
                counterVars>>
  BY DEF HandlerStep, SourceStep, RequestTransition, Return, StoreState, Throw, SpawnLoop,
         WaitForConfigured, SetActivate, WaitForActive, InterruptLoop, SetTerminate,
         WaitForTerminated, JoinLoop, ConfigureMiddleware, OpenSource, CloseSource, JoinSource,
         loopVars, queueVars, senderVars, counterVars

(* The loop leaves the lifecycle and the senders alone. *)
LEMMA LoopFrame ==
  LoopStep => UNCHANGED <<machineVars, senderVars, received, pushed>>
  BY DEF LoopStep, LoopConfigured, LoopWaitForActivate, LoopActivated, TakeQueue, RxReadState,
         RxReadTransition, RxCallback, LoopDecrement, LoopTerminated, queueVars, counterVars

(* A sender leaves the lifecycle and the loop alone. *)
LEMMA SenderFrame ==
  (\E s \in Senders : Deliver(s) \/ SenderStep(s)) =>
    UNCHANGED <<machineVars, loopVars, processing_count, terminate, source, processed,
                historyVars>>
  BY DEF Deliver, SenderStep, EventRecieved, EnqueueReadState, EnqueueReadTransition, queueVars,
         counterVars

-----------------------------------------------------------------------------
(* Every part of PortInv is preserved by every step. *)

(* Types are kept; the one decrement needs a message in the loop's hands. *)
LEMMA TypeStep == PortInv /\ [Next]_vars => TypeOK'
<1> SUFFICES ASSUME PortInv, [Next]_vars PROVE TypeOK'
  OBVIOUS
<1> USE DEF TypeOK, State, Transition, Request, ControlPoint, LoopPoint, machineVars, loopVars,
            queueVars, senderVars, counterVars, historyVars
<1>0. TypeOK
  BY DEF PortInv
<1>1. CASE UNCHANGED vars
  BY <1>0, <1>1 DEF vars
<1>2. ASSUME NEW t \in Request, RequestTransition(t) PROVE TypeOK'
  BY <1>0, <1>2 DEF RequestTransition, Begin, Entry, CountConfigure
<1>3. CASE HandlerStep
  <2>1. CASE Return
    BY <1>0, <2>1 DEF Return, ResetTransition
  <2>2. CASE StoreState
    BY <1>0, <2>2, TransitionTable DEF StoreState, Commit
  <2>3. CASE Throw
    BY <1>0, <2>3 DEF Throw, HandlerThrew
  <2>4. CASE SpawnLoop
    BY <1>0, <2>4, ManagerTypes DEF SpawnLoop, Goto
  <2>5. CASE WaitForConfigured \/ WaitForActive \/ WaitForTerminated
    BY <1>0, <2>5 DEF WaitForConfigured, WaitForActive, WaitForTerminated, Goto
  <2>6. CASE SetActivate
    BY <1>0, <2>6, ManagerTypes DEF SetActivate, Goto, ThreadTransition
  <2>7. CASE InterruptLoop
    BY <1>0, <2>7 DEF InterruptLoop, Goto
  <2>8. CASE SetTerminate
    BY <1>0, <2>8, ManagerTypes DEF SetTerminate, Goto, ThreadTransition
  <2>9. CASE JoinLoop
    BY <1>0, <2>9, ManagerTypes DEF JoinLoop, Goto
  <2>10. QED
    BY <1>3, <2>1, <2>2, <2>3, <2>4, <2>5, <2>6, <2>7, <2>8, <2>9 DEF HandlerStep
<1>4. CASE SourceStep
  <2>1. CASE ConfigureMiddleware
    BY <1>0, <2>1 DEF ConfigureMiddleware, Goto
  <2>2. CASE OpenSource
    BY <1>0, <2>2 DEF OpenSource, Goto
  <2>3. CASE CloseSource
    <3>1. source' \in BOOLEAN
      BY <2>3 DEF CloseSource
    <3>2. QED
      BY <1>0, <2>3, <3>1 DEF CloseSource, Goto
  <2>4. CASE JoinSource
    BY <1>0, <2>4 DEF JoinSource, Goto
  <2>5. QED
    BY <1>4, <2>1, <2>2, <2>3, <2>4 DEF SourceStep
<1>5. CASE LoopStep
  <2>1. CASE LoopConfigured \/ LoopTerminated
    BY <1>0, <2>1, ManagerTypes DEF LoopConfigured, LoopTerminated, ThreadState
  <2>2. CASE LoopWaitForActivate
    BY <1>0, <2>2 DEF LoopWaitForActivate
  <2>3. CASE LoopActivated
    BY <1>0, <2>3, ManagerTypes DEF LoopActivated, ThreadState
  <2>4. CASE TakeQueue
    <3>1. running' \in BOOLEAN /\ terminate' \in BOOLEAN /\ loop' \in LoopPoint
      BY <2>4 DEF TakeQueue, LoopContinues
    <3>2. processing_count' \in Nat /\ queue' \in Seq(Nat) /\ message_queue' \in Seq(Nat)
      BY <1>0, <2>4 DEF TakeQueue
    <3>3. QED
      BY <1>0, <2>4, <3>1, <3>2 DEF TakeQueue
  <2>5. CASE RxReadState
    BY <1>0, <2>5 DEF RxReadState
  <2>6. CASE RxReadTransition
    BY <1>0, <2>6 DEF RxReadTransition
  <2>7. CASE RxCallback
    BY <1>0, <2>7 DEF RxCallback
  <2>8. CASE LoopDecrement
    <3>1. queue # <<>> /\ processing_count = Len(queue)
      BY <2>8 DEF LoopDecrement, PortInv, LoopHoldsQueue, QueueBounded
    <3>2. processing_count - 1 \in Nat /\ Tail(queue) \in Seq(Nat)
      BY <1>0, <3>1
    <3>3. QED
      BY <1>0, <2>8, <3>2 DEF LoopDecrement, LoopContinues
  <2>9. QED
    BY <1>5, <2>1, <2>2, <2>3, <2>4, <2>5, <2>6, <2>7, <2>8
       DEF LoopStep
<1>6. ASSUME NEW s \in Senders, Deliver(s) PROVE TypeOK'
  BY <1>0, <1>6 DEF Deliver, EventRecieved
<1>7. ASSUME NEW s \in Senders, EnqueueReadState(s) PROVE TypeOK'
  BY <1>0, <1>7 DEF EnqueueReadState
<1>8. ASSUME NEW s \in Senders, EnqueueReadTransition(s) PROVE TypeOK'
  <2>1. pushed' \in Nat /\ message_queue' \in Seq(Nat) /\ ignored' \in Nat
    <3>1. Append(message_queue, pushed + 1) \in Seq(Nat) /\ pushed + 1 \in Nat
      BY <1>0
    <3>2. \/ message_queue' = Append(message_queue, pushed + 1) /\ pushed' = pushed + 1
             /\ ignored' = ignored
          \/ message_queue' = message_queue /\ pushed' = pushed /\ ignored' = ignored + 1
      BY <1>8 DEF EnqueueReadTransition
    <3>3. message_queue \in Seq(Nat) /\ pushed \in Nat /\ ignored \in Nat
      BY <1>0
    <3>4. ignored + 1 \in Nat
      BY <3>3
    <3>5. QED
      BY <3>1, <3>2, <3>3, <3>4, Zenon
  <2>2. sender' \in [Senders -> {"idle", "received", "sawRunning"}]
    BY <1>0, <1>8 DEF EnqueueReadTransition
  <2>3. QED
    BY <1>0, <1>8, <2>1, <2>2 DEF EnqueueReadTransition
<1>9. QED
  BY <1>1, <1>2, <1>3, <1>4, <1>5, <1>6, <1>7, <1>8 DEF Next, SenderStep

(* A handler keeps its request until Commit, whatever the other threads do. *)
LEMMA HandlerMatchesStep == PortInv /\ [Next]_vars => HandlerMatchesRequest'
<1> SUFFICES ASSUME PortInv, [Next]_vars PROVE HandlerMatchesRequest'
  OBVIOUS
<1> USE DEF HandlerMatchesRequest, machineVars
<1>0. TypeOK /\ HandlerMatchesRequest /\ ManagerLives
  BY DEF PortInv
<1>1. CASE UNCHANGED machineVars
  BY <1>0, <1>1
<1>2. ASSUME NEW t \in Request, RequestTransition(t) PROVE HandlerMatchesRequest'
  BY <1>0, <1>2, TransitionTable DEF RequestTransition, Begin, Entry, Request, TypeOK
<1>3. CASE HandlerStep
  <2>1. CASE Return
    BY <1>0, <2>1 DEF Return, ResetTransition
  <2>2. CASE StoreState
    BY <1>0, <2>2 DEF StoreState, Commit
  <2>3. CASE Throw
    BY <1>0, <2>3 DEF Throw, HandlerThrew
  <2>4. CASE SpawnLoop
    BY <1>0, <2>4 DEF SpawnLoop, Goto
  <2>5. CASE WaitForConfigured \/ WaitForActive \/ WaitForTerminated
    BY <1>0, <2>5 DEF WaitForConfigured, WaitForActive, WaitForTerminated, Goto
  <2>6. CASE SetActivate
    BY <1>0, <2>6 DEF SetActivate, Goto, ManagerLives
  <2>7. CASE InterruptLoop
    BY <1>0, <2>7 DEF InterruptLoop, Goto
  <2>8. CASE SetTerminate \/ JoinLoop
    BY <1>0, <2>8 DEF SetTerminate, JoinLoop, Goto
  <2>9. QED
    BY <1>3, <2>1, <2>2, <2>3, <2>4, <2>5, <2>6, <2>7, <2>8 DEF HandlerStep
<1>4. CASE SourceStep
  BY <1>0, <1>4 DEF SourceStep, ConfigureMiddleware, OpenSource, CloseSource, JoinSource, Goto
<1>5. QED
  BY <1>1, <1>2, <1>3, <1>4, LoopFrame, SenderFrame DEF Next, vars

(* Only Configure creates the loop's manager and only Terminate releases it. *)
LEMMA ManagerStep == PortInv /\ [Next]_vars => ManagerLives'
<1> SUFFICES ASSUME PortInv, [Next]_vars PROVE ManagerLives'
  OBVIOUS
<1> USE DEF ManagerLives, machineVars, loopVars
<1>0. TypeOK /\ HandlerMatchesRequest /\ ManagerLives /\ LoopHoldsQueue
  BY DEF PortInv
<1>1. CASE UNCHANGED <<machineVars, loopVars>>
  BY <1>0, <1>1
<1>2. ASSUME NEW t \in Request, RequestTransition(t) PROVE ManagerLives'
  BY <1>0, <1>2 DEF RequestTransition, Begin, Entry, Request, HandlerMatchesRequest
<1>3. CASE HandlerStep
  <2> USE DEF HandlerMatchesRequest
  <2>1. CASE Return
    BY <1>0, <2>1 DEF Return, ResetTransition
  <2>2. CASE StoreState
    BY <1>0, <2>2, TransitionTable DEF StoreState, Commit, TypeOK, Transition, Request
  <2>3. CASE Throw
    BY <1>0, <2>3 DEF Throw, HandlerThrew
  <2>4. CASE SpawnLoop
    BY <1>0, <2>4, ManagerTypes DEF SpawnLoop, Goto
  <2>5. CASE WaitForConfigured \/ WaitForActive \/ WaitForTerminated
    BY <1>0, <2>5 DEF WaitForConfigured, WaitForActive, WaitForTerminated, Goto
  <2>6. CASE SetActivate
    BY <1>0, <2>6, ManagerTypes DEF SetActivate, Goto, TypeOK, ThreadTransition
  <2>7. CASE InterruptLoop
    BY <1>0, <2>7 DEF InterruptLoop, Goto
  <2>8. CASE SetTerminate
    BY <1>0, <2>8, ManagerTypes DEF SetTerminate, Goto, TypeOK, ThreadTransition
  <2>9. CASE JoinLoop
    BY <1>0, <2>9, ManagerTypes DEF JoinLoop, Goto
  <2>10. QED
    BY <1>3, <2>1, <2>2, <2>3, <2>4, <2>5, <2>6, <2>7, <2>8, <2>9 DEF HandlerStep
<1>4. CASE SourceStep
  BY <1>0, <1>4 DEF SourceStep, ConfigureMiddleware, OpenSource, CloseSource, JoinSource, Goto,
                    HandlerMatchesRequest
<1>5. CASE LoopStep
  <2>1. loop # "none" /\ loop' # "none"
    BY <1>0, <1>5 DEF LoopStep, LoopConfigured, LoopWaitForActivate, LoopActivated, TakeQueue,
       RxReadState, RxReadTransition, RxCallback, LoopDecrement, LoopTerminated, LoopContinues
  <2>2. thread_manager'.live = thread_manager.live
    BY <1>0, <1>5, ManagerTypes DEF LoopStep, LoopConfigured, LoopWaitForActivate, LoopActivated,
       TakeQueue, RxReadState, RxReadTransition, RxCallback, LoopDecrement, LoopTerminated,
       TypeOK, ThreadState
  <2>3. QED
    BY <1>0, <1>5, <2>1, <2>2, LoopFrame
<1>6. QED
  BY <1>1, <1>2, <1>3, <1>4, <1>5, SenderFrame DEF Next, vars

(* The loop leaves its inner while with an empty local queue. *)
LEMMA LoopHoldsStep == PortInv /\ [Next]_vars => LoopHoldsQueue'
<1> SUFFICES ASSUME PortInv, [Next]_vars PROVE LoopHoldsQueue'
  OBVIOUS
<1> USE DEF LoopHoldsQueue, loopVars
<1>0. TypeOK /\ HandlerMatchesRequest /\ ManagerLives /\ LoopHoldsQueue
  BY DEF PortInv
<1>1. CASE UNCHANGED <<loop, queue>>
  BY <1>0, <1>1
<1>2. CASE SpawnLoop
  BY <1>0, <1>2 DEF SpawnLoop, ManagerLives
<1>3. CASE JoinLoop
  BY <1>0, <1>3 DEF JoinLoop
<1>4. CASE LoopStep
  BY <1>0, <1>4 DEF LoopStep, LoopConfigured, LoopWaitForActivate, LoopActivated, TakeQueue,
     RxReadState, RxReadTransition, RxCallback, LoopDecrement, LoopTerminated, LoopContinues
<1>5. CASE \/ \E t \in Request : RequestTransition(t)
           \/ SourceStep
           \/ Return \/ StoreState \/ Throw
           \/ WaitForConfigured \/ SetActivate \/ WaitForActive \/ InterruptLoop
           \/ SetTerminate \/ WaitForTerminated
  <2>1. UNCHANGED <<loop, queue>>
    BY <1>5 DEF RequestTransition, SourceStep, ConfigureMiddleware, OpenSource, CloseSource,
       JoinSource, Return, StoreState, Throw, WaitForConfigured, SetActivate, WaitForActive,
       InterruptLoop, SetTerminate, WaitForTerminated
  <2>2. QED
    BY <1>1, <2>1
<1>6. QED
  BY <1>1, <1>2, <1>3, <1>4, <1>5, SenderFrame DEF Next, HandlerStep, vars

(* No sender enters EnqueueMessage once the receive thread is being joined. *)
LEMMA SourceJoinedStep == PortInv /\ [Next]_vars => SourceJoined'
<1> SUFFICES ASSUME PortInv, [Next]_vars PROVE SourceJoined'
  OBVIOUS
<1> USE DEF SourceJoined, machineVars, senderVars
<1>0. TypeOK /\ HandlerMatchesRequest /\ SourceJoined
  BY DEF PortInv
<1>1. CASE UNCHANGED <<state, op, ctl, source, sender>>
  BY <1>0, <1>1
<1>2. ASSUME NEW t \in Request, RequestTransition(t) PROVE SourceJoined'
  BY <1>0, <1>2 DEF RequestTransition, Begin, Entry, Request, HandlerMatchesRequest
<1>3. CASE HandlerStep
  <2> USE DEF HandlerMatchesRequest
  <2>1. CASE Return
    BY <1>0, <2>1 DEF Return, ResetTransition
  <2>2. CASE StoreState
    BY <1>0, <2>2, TransitionTable DEF StoreState, Commit, TypeOK, Transition, Request
  <2>3. CASE Throw
    BY <1>0, <2>3 DEF Throw, HandlerThrew
  <2>4. CASE SpawnLoop \/ WaitForConfigured \/ SetActivate \/ WaitForActive
    BY <1>0, <2>4 DEF SpawnLoop, WaitForConfigured, SetActivate, WaitForActive, Goto
  <2>5. CASE InterruptLoop \/ SetTerminate \/ WaitForTerminated \/ JoinLoop
    BY <1>0, <2>5 DEF InterruptLoop, SetTerminate, WaitForTerminated, JoinLoop, Goto
  <2>6. QED
    BY <1>3, <2>1, <2>2, <2>3, <2>4, <2>5 DEF HandlerStep
<1>4. CASE SourceStep
  <2> USE DEF HandlerMatchesRequest
  <2>1. CASE ConfigureMiddleware
    BY <1>0, <2>1 DEF ConfigureMiddleware, Goto
  <2>2. CASE OpenSource
    BY <1>0, <2>2 DEF OpenSource, Goto
  <2>3. CASE CloseSource
    BY <1>0, <2>3 DEF CloseSource, Goto
  <2>4. CASE JoinSource
    BY <1>0, <2>4 DEF JoinSource, Goto
  <2>5. QED
    BY <1>4, <2>1, <2>2, <2>3, <2>4 DEF SourceStep
<1>5. CASE LoopStep
  BY <1>0, <1>1, <1>5, LoopFrame
<1>6. ASSUME NEW s \in Senders, Deliver(s) \/ SenderStep(s) PROVE SourceJoined'
  <2>1. source \/ ctl = "joinSource"
    BY <1>0, <1>6 DEF Deliver, SenderStep, EnqueueReadState, EnqueueReadTransition
  <2>2. UNCHANGED <<state, op, ctl, source>>
    BY <1>6, SenderFrame
  <2>3. QED
    BY <1>0, <2>1, <2>2
<1>7. QED
  BY <1>1, <1>2, <1>3, <1>4, <1>5, <1>6 DEF Next, vars

(* The two reads of process_event let one callback through, not two. *)
LEMMA LateStep == PortInv /\ [Next]_vars => LateOnce'
<1> SUFFICES ASSUME PortInv, [Next]_vars PROVE LateOnce'
  OBVIOUS
<1> USE DEF LateOnce, AtMostOneLateCallback, machineVars, loopVars, historyVars
<1>0. TypeOK /\ HandlerMatchesRequest /\ LateOnce
  BY DEF PortInv
<1>1. CASE UNCHANGED <<state, loop, late>>
  BY <1>0, <1>1
<1>2. CASE StoreState
  BY <1>0, <1>2, TransitionTable
     DEF StoreState, Commit, TypeOK, Transition, Request, HandlerMatchesRequest
<1>3. CASE SpawnLoop \/ JoinLoop
  BY <1>0, <1>3 DEF SpawnLoop, JoinLoop, Goto
<1>4. CASE \/ \E t \in Request : RequestTransition(t)
           \/ SourceStep
           \/ Return \/ Throw
           \/ WaitForConfigured \/ SetActivate \/ WaitForActive \/ InterruptLoop
           \/ SetTerminate \/ WaitForTerminated
  <2>1. UNCHANGED <<state, loop, late>>
    BY <1>4 DEF RequestTransition, Begin, SourceStep, ConfigureMiddleware, OpenSource, CloseSource,
       JoinSource, Return, ResetTransition, Throw, HandlerThrew, WaitForConfigured, SetActivate,
       WaitForActive, InterruptLoop, SetTerminate, WaitForTerminated, Goto
  <2>2. QED
    BY <1>1, <2>1
<1>5. CASE LoopStep
  <2>1. CASE RxReadState
    BY <1>0, <2>1 DEF RxReadState
  <2>2. CASE RxReadTransition
    BY <1>0, <2>2 DEF RxReadTransition, TypeOK
  <2>3. CASE LoopConfigured \/ LoopWaitForActivate \/ LoopActivated \/ TakeQueue \/ RxCallback
             \/ LoopDecrement \/ LoopTerminated
    <3>1. loop' # "rxTransition" /\ UNCHANGED <<state, late>>
      BY <2>3 DEF LoopConfigured, LoopWaitForActivate, LoopActivated, TakeQueue, RxCallback,
         LoopDecrement, LoopTerminated, LoopContinues
    <3>2. QED
      BY <1>0, <3>1
  <2>4. QED
    BY <1>5, <2>1, <2>2, <2>3 DEF LoopStep
<1>6. QED
  BY <1>1, <1>2, <1>3, <1>4, <1>5, SenderFrame DEF Next, HandlerStep, vars

(* The queues and their counters change in three steps only. *)
LEMMA QueueSteps ==
  ASSUME [Next]_vars
  PROVE  \/ TakeQueue
         \/ LoopDecrement
         \/ \E s \in Senders : EnqueueReadTransition(s)
         \/ UNCHANGED <<queue, message_queue, processing_count, pushed>>
<1>1. CASE UNCHANGED vars
  BY <1>1 DEF vars, loopVars, queueVars
<1>2. CASE (\E t \in Request : RequestTransition(t)) \/ HandlerStep \/ SourceStep
  BY <1>2, ControllerFrame
<1>3. CASE LoopStep
  BY <1>3 DEF LoopStep, LoopConfigured, LoopWaitForActivate, LoopActivated, RxReadState,
     RxReadTransition, RxCallback, LoopTerminated, queueVars
<1>4. CASE \E s \in Senders : Deliver(s) \/ SenderStep(s)
  BY <1>4 DEF Deliver, EventRecieved, SenderStep, EnqueueReadState, queueVars, loopVars
<1>5. QED
  BY <1>1, <1>2, <1>3, <1>4 DEF Next

(* The swap moves messages between the two terms of the bound. *)
LEMMA QueueBoundedStep == PortInv /\ [Next]_vars => QueueBounded'
<1> SUFFICES ASSUME PortInv, [Next]_vars PROVE QueueBounded'
  OBVIOUS
<1> USE DEF QueueBounded
<1>0. TypeOK /\ LoopHoldsQueue /\ QueueBounded
  BY DEF PortInv
<1>1. CASE UNCHANGED <<queue, message_queue, processing_count, pushed>>
  BY <1>0, <1>1
<1>2. CASE TakeQueue
  BY <1>0, <1>2 DEF TakeQueue, TypeOK, LoopHoldsQueue
<1>3. CASE LoopDecrement
  BY <1>0, <1>3, PortAssumption DEF LoopDecrement, TypeOK, LoopHoldsQueue
<1>4. ASSUME NEW s \in Senders, EnqueueReadTransition(s) PROVE QueueBounded'
  BY <1>0, <1>4, PortAssumption DEF EnqueueReadTransition, HasRoom, TypeOK, loopVars
<1>5. QED
  BY <1>1, <1>2, <1>3, <1>4, QueueSteps

(* The swap, the pop and the push each keep the numbering. *)
LEMMA InOrderStep == PortInv /\ [Next]_vars => InOrder'
<1> SUFFICES ASSUME PortInv, [Next]_vars PROVE InOrder'
  OBVIOUS
<1> USE DEF InOrder
<1>0. TypeOK /\ LoopHoldsQueue /\ InOrder
  BY DEF PortInv
<1>1. CASE UNCHANGED <<queue, message_queue, processing_count, pushed>>
  BY <1>0, <1>1
<1>2. CASE TakeQueue
  BY <1>0, <1>2 DEF TakeQueue, TypeOK, LoopHoldsQueue, queueVars
<1>3. CASE LoopDecrement
  BY <1>0, <1>3 DEF LoopDecrement, TypeOK, LoopHoldsQueue
<1>4. ASSUME NEW s \in Senders, EnqueueReadTransition(s) PROVE InOrder'
  <2>1. CASE UNCHANGED <<message_queue, pushed>>
    BY <1>0, <1>4, <2>1 DEF EnqueueReadTransition, loopVars
  <2>2. CASE message_queue' = Append(message_queue, pushed + 1) /\ pushed' = pushed + 1
    <3>1. queue' = queue
      BY <1>4 DEF EnqueueReadTransition, loopVars
    <3>2. Len(message_queue') = Len(message_queue) + 1
      BY <1>0, <2>2 DEF TypeOK
    <3>3. ASSUME NEW i \in 1..Len(message_queue')
          PROVE  message_queue'[i] = pushed' - Len(message_queue') + i
      <4>1. CASE i = Len(message_queue) + 1
        BY <1>0, <2>2, <3>2, <4>1 DEF TypeOK
      <4>2. CASE i \in 1..Len(message_queue)
        BY <1>0, <2>2, <3>2, <4>2 DEF TypeOK
      <4>3. QED
        BY <1>0, <3>2, <4>1, <4>2 DEF TypeOK
    <3>4. ASSUME NEW i \in 1..Len(queue')
          PROVE  queue'[i] = pushed' - Len(message_queue') - Len(queue') + i
      BY <1>0, <2>2, <3>1, <3>2 DEF TypeOK
    <3>5. QED
      BY <3>3, <3>4
  <2>3. QED
    BY <1>4, <2>1, <2>2 DEF EnqueueReadTransition
<1>5. QED
  BY <1>1, <1>2, <1>3, <1>4, QueueSteps

(* Every step moves a message from one place to one other. *)
LEMMA ConservationStep == PortInv /\ [Next]_vars => Conservation'
<1> SUFFICES ASSUME PortInv, [Next]_vars PROVE Conservation'
  OBVIOUS
<1> USE DEF Conservation, Unsettled, counterVars, senderVars
<1>0. TypeOK /\ ManagerLives /\ LoopHoldsQueue /\ Conservation
  BY DEF PortInv
<1>1. /\ Len(queue) \in Nat /\ Len(message_queue) \in Nat /\ Cardinality(Enqueuing) \in Nat
      /\ received \in Nat /\ processed \in Nat /\ ignored \in Nat
  BY <1>0, EnqueuingCount DEF TypeOK
<1>2. ASSUME UNCHANGED sender PROVE Enqueuing' = Enqueuing
  BY <1>2 DEF Enqueuing
<1>3. ASSUME UNCHANGED <<received, processed, ignored, message_queue, queue, sender>>,
             loop = "decrement" <=> loop' = "decrement"
      PROVE  Conservation'
  BY <1>0, <1>2, <1>3
<1>4. CASE UNCHANGED vars
  BY <1>3, <1>4 DEF vars, loopVars, queueVars
<1>5. CASE (\E t \in Request : RequestTransition(t)) \/ HandlerStep \/ SourceStep
  <2>1. loop = "decrement" <=> loop' = "decrement"
    BY <1>0, <1>5 DEF ManagerLives, HandlerStep, SourceStep, RequestTransition, Return, StoreState,
       Throw, SpawnLoop, WaitForConfigured, SetActivate, WaitForActive, InterruptLoop,
       SetTerminate, WaitForTerminated, JoinLoop, ConfigureMiddleware, OpenSource, CloseSource,
       JoinSource, loopVars
  <2>2. QED
    BY <1>3, <1>5, <2>1, ControllerFrame
<1>6. CASE LoopStep
  <2>0. Enqueuing' = Enqueuing /\ received' = received
    BY <1>2, <1>6, LoopFrame
  <2>1. CASE LoopConfigured \/ LoopWaitForActivate \/ LoopActivated \/ LoopTerminated
    <3>1. /\ UNCHANGED <<received, processed, ignored, message_queue, queue, sender>>
          /\ loop # "decrement" /\ loop' # "decrement"
      BY <2>1 DEF LoopConfigured, LoopWaitForActivate, LoopActivated, LoopTerminated, queueVars
    <3>2. QED
      BY <1>3, <3>1
  <2>2. CASE TakeQueue
    BY <1>0, <1>1, <2>0, <2>2 DEF TakeQueue, LoopContinues, LoopHoldsQueue
  <2>3. CASE RxReadState
    BY <1>0, <1>1, <2>0, <2>3 DEF RxReadState, queueVars
  <2>4. CASE RxReadTransition
    BY <1>0, <1>1, <2>0, <2>4 DEF RxReadTransition, queueVars
  <2>5. CASE RxCallback
    BY <1>0, <1>1, <2>0, <2>5 DEF RxCallback, queueVars
  <2>6. CASE LoopDecrement
    <3>1. queue # <<>> /\ loop = "decrement" /\ loop' # "decrement"
      BY <1>0, <2>6 DEF LoopDecrement, LoopHoldsQueue, LoopContinues
    <3>2. Len(queue') = Len(queue) - 1
      BY <1>0, <2>6, <3>1 DEF LoopDecrement, TypeOK
    <3>3. QED
      BY <1>0, <1>1, <2>0, <2>6, <3>1, <3>2 DEF LoopDecrement
  <2>7. QED
    BY <1>6, <2>1, <2>2, <2>3, <2>4, <2>5, <2>6 DEF LoopStep
<1>7. ASSUME NEW s \in Senders, Deliver(s) PROVE Conservation'
  <2>1. s \notin Enqueuing /\ Enqueuing' = Enqueuing \cup {s}
    BY <1>0, <1>7 DEF Deliver, EventRecieved, Enqueuing, TypeOK
  <2>2. Cardinality(Enqueuing') = Cardinality(Enqueuing) + 1
    BY <2>1, EnqueuingCount
  <2>3. QED
    BY <1>0, <1>1, <1>7, <2>2 DEF Deliver, EventRecieved, loopVars, queueVars
<1>8. ASSUME NEW s \in Senders, EnqueueReadState(s) PROVE Conservation'
  <2>1. CASE state = "RUNNING"
    <3>1. Enqueuing' = Enqueuing
      BY <1>0, <1>8, <2>1 DEF EnqueueReadState, Enqueuing, TypeOK
    <3>2. QED
      BY <1>0, <1>8, <2>1, <3>1 DEF EnqueueReadState, loopVars, queueVars
  <2>2. CASE state # "RUNNING"
    <3>1. s \in Enqueuing /\ Enqueuing' = Enqueuing \ {s}
      BY <1>0, <1>8, <2>2 DEF EnqueueReadState, Enqueuing, TypeOK
    <3>2. Cardinality(Enqueuing') = Cardinality(Enqueuing) - 1
      BY <3>1, EnqueuingCount
    <3>3. QED
      BY <1>0, <1>1, <1>8, <2>2, <3>2 DEF EnqueueReadState, loopVars, queueVars
  <2>3. QED
    BY <2>1, <2>2
<1>9. ASSUME NEW s \in Senders, EnqueueReadTransition(s) PROVE Conservation'
  <2>1. s \in Enqueuing /\ Enqueuing' = Enqueuing \ {s}
    BY <1>0, <1>9 DEF EnqueueReadTransition, Enqueuing, TypeOK
  <2>2. Cardinality(Enqueuing') = Cardinality(Enqueuing) - 1
    BY <2>1, EnqueuingCount
  <2>3. CASE message_queue' = Append(message_queue, pushed + 1) /\ UNCHANGED ignored
    <3>1. Len(message_queue') = Len(message_queue) + 1
      BY <1>0, <2>3 DEF TypeOK
    <3>2. QED
      BY <1>0, <1>1, <1>9, <2>2, <2>3, <3>1 DEF EnqueueReadTransition, loopVars
  <2>4. CASE UNCHANGED message_queue /\ ignored' = ignored + 1
    BY <1>0, <1>1, <1>9, <2>2, <2>4 DEF EnqueueReadTransition, loopVars
  <2>5. QED
    BY <1>9, <2>3, <2>4 DEF EnqueueReadTransition
<1>10. QED
  BY <1>4, <1>5, <1>6, <1>7, <1>8, <1>9 DEF Next, SenderStep

-----------------------------------------------------------------------------
(* The theorems. *)

(* The initial state of a port satisfies the invariant. *)
LEMMA PortInvInit == Init => PortInv
<1> SUFFICES ASSUME Init PROVE PortInv
  OBVIOUS
<1> USE DEF Init, MachineInit
<1>1. TypeOK
  <2>1. /\ state \in State /\ transition \in Transition /\ op \in Transition
        /\ ctl \in ControlPoint /\ loop \in LoopPoint
    BY DEF State, Transition, Request, ControlPoint, LoopPoint
  <2>2. running \in BOOLEAN /\ terminate \in BOOLEAN /\ source \in BOOLEAN
    OBVIOUS
  <2>3. sender \in [Senders -> {"idle", "received", "sawRunning"}]
    OBVIOUS
  <2>4. QED
    BY <2>1, <2>2, <2>3, ManagerTypes DEF TypeOK
<1>2. HandlerMatchesRequest /\ ManagerLives /\ LoopHoldsQueue /\ SourceJoined /\ LateOnce
  BY ManagerTypes DEF HandlerMatchesRequest, ManagerLives, LoopHoldsQueue, SourceJoined, LateOnce,
     AtMostOneLateCallback
<1>3. QueueBounded /\ InOrder
  BY PortAssumption DEF QueueBounded, InOrder
<1>4. Conservation
  <2>1. Enqueuing = {}
    BY DEF Enqueuing
  <2>2. Cardinality(Enqueuing) = 0
    BY <2>1, FS_EmptySet
  <2>3. QED
    BY <2>2 DEF Conservation, Unsettled
<1>5. QED
  BY <1>1, <1>2, <1>3, <1>4 DEF PortInv

(* Every step of the controller, the loop or a sender preserves PortInv. *)
LEMMA PortInvStep == PortInv /\ [Next]_vars => PortInv'
  BY TypeStep, HandlerMatchesStep, ManagerStep, LoopHoldsStep, SourceJoinedStep, LateStep,
     ConservationStep, QueueBoundedStep, InOrderStep DEF PortInv

(* PortInv holds in every reachable state. *)
THEOREM PortInvariant == Spec => []PortInv
  BY PortInvInit, PortInvStep, PTL DEF Spec

(* Type correctness of the port: processing_count_ never goes below zero. *)
THEOREM PortTypeCorrect == Spec => []TypeOK
<1>1. PortInv => TypeOK
  BY DEF PortInv
<1>2. QED
  BY <1>1, PortInvariant, PTL

(* No message is lost or counted twice, for any number of senders. *)
THEOREM MessagesConserved == Spec => []Conservation
<1>1. PortInv => Conservation
  BY DEF PortInv
<1>2. QED
  BY <1>1, PortInvariant, PTL

(* The limit set with SetMaxQueueSize holds for every limit. *)
THEOREM QueueStaysBounded == Spec => []QueueBounded
<1>1. PortInv => QueueBounded
  BY DEF PortInv
<1>2. QED
  BY <1>1, PortInvariant, PTL

(* Messages reach rx in the order of their pushes. *)
THEOREM MessagesInOrder == Spec => []InOrder
<1>1. PortInv => InOrder
  BY DEF PortInv
<1>2. QED
  BY <1>1, PortInvariant, PTL

(* At most one callback starts after Passivate. *)
THEOREM OneLateCallback == Spec => []AtMostOneLateCallback
<1>1. PortInv => AtMostOneLateCallback
  BY DEF PortInv, LateOnce
<1>2. QED
  BY <1>1, PortInvariant, PTL

(* After Terminate no thread is left in the port. *)
THEOREM PortQuietAfterTerminate == Spec => []TerminatedIsQuiet
<1>1. PortInv => TerminatedIsQuiet
  <2> SUFFICES ASSUME PortInv, state = "NOT_CONFIGURED", ctl = "idle"
               PROVE  /\ loop = "none" /\ ~thread_manager.live
                      /\ queue = <<>> /\ processing_count = 0
                      /\ Enqueuing = {}
    BY DEF TerminatedIsQuiet
  <2>1. loop = "none" /\ ~thread_manager.live
    BY DEF PortInv, ManagerLives, HandlerMatchesRequest
  <2>2. queue = <<>>
    BY <2>1 DEF PortInv, LoopHoldsQueue
  <2>3. processing_count = 0
    BY <2>2 DEF PortInv, QueueBounded
  <2>4. Enqueuing = {}
    BY DEF PortInv, SourceJoined, Enqueuing
  <2>5. QED
    BY <2>1, <2>2, <2>3, <2>4
<1>2. QED
  BY <1>1, PortInvariant, PTL

(* The runtime_errors of HandleConfigure and HandleActivate cannot occur. *)
THEOREM PortGuardsNeverFire == Spec => []GuardsNeverFire
<1>1. PortInv => GuardsNeverFire
  BY DEF PortInv, GuardsNeverFire, ManagerLives, HandlerMatchesRequest
<1>2. QED
  BY <1>1, PortInvariant, PTL

(* The port implements the ledger of its counters: by Conservation a       *)
(* message that is settled was still outstanding.                          *)
THEOREM PortImplementsLedger == Spec => ImplementsLedger
<1>1. Init => Ledger!LedgerInit
  BY DEF Init, Ledger!LedgerInit
<1>2. PortInv /\ [Next]_vars => [Ledger!LedgerNext]_(Ledger!ledger)
  <2> SUFFICES ASSUME PortInv, [Next]_vars PROVE [Ledger!LedgerNext]_(Ledger!ledger)
    OBVIOUS
  <2> USE DEF Ledger!LedgerNext, Ledger!CountReceived, Ledger!CountProcessed,
              Ledger!CountIgnored, Ledger!ledger
  <2>0. TypeOK /\ LoopHoldsQueue /\ Conservation
    BY DEF PortInv
  <2>1. /\ Len(queue) \in Nat /\ Len(message_queue) \in Nat /\ Cardinality(Enqueuing) \in Nat
        /\ received \in Nat /\ processed \in Nat /\ ignored \in Nat
    BY <2>0, EnqueuingCount DEF TypeOK
  <2>2. ASSUME loop \in {"rx", "rxTransition", "callback"} PROVE processed + ignored < received
    <3>1. Len(queue) > 0
      BY <2>0, <2>2 DEF LoopHoldsQueue, TypeOK
    <3>2. QED
      BY <2>0, <2>1, <2>2, <3>1 DEF Conservation, Unsettled
  <2>3. ASSUME NEW s \in Senders, sender[s] # "idle" PROVE processed + ignored < received
    <3>1. Cardinality(Enqueuing) >= 1
      BY <2>3, EnqueuingCount DEF Enqueuing
    <3>2. Unsettled \in Nat
      BY <2>0, <2>1 DEF Unsettled, LoopHoldsQueue, TypeOK
    <3>3. QED
      BY <2>0, <2>1, <3>1, <3>2 DEF Conservation
  <2>4. CASE UNCHANGED vars
    BY <2>4 DEF vars, counterVars
  <2>5. CASE (\E t \in Request : RequestTransition(t)) \/ HandlerStep \/ SourceStep
    BY <2>5, ControllerFrame DEF counterVars
  <2>6. CASE LoopStep
    <3>1. CASE RxReadState
      BY <2>2, <3>1 DEF RxReadState
    <3>2. CASE RxReadTransition
      BY <2>2, <3>2 DEF RxReadTransition
    <3>3. CASE RxCallback
      BY <2>2, <3>3 DEF RxCallback
    <3>4. CASE LoopConfigured \/ LoopWaitForActivate \/ LoopActivated \/ TakeQueue
               \/ LoopDecrement \/ LoopTerminated
      BY <3>4 DEF LoopConfigured, LoopWaitForActivate, LoopActivated, TakeQueue, LoopDecrement,
         LoopTerminated, counterVars
    <3>5. QED
      BY <2>6, <3>1, <3>2, <3>3, <3>4 DEF LoopStep
  <2>7. ASSUME NEW s \in Senders, Deliver(s) PROVE [Ledger!LedgerNext]_(Ledger!ledger)
    BY <2>7 DEF Deliver, EventRecieved
  <2>8. ASSUME NEW s \in Senders, SenderStep(s) PROVE [Ledger!LedgerNext]_(Ledger!ledger)
    BY <2>3, <2>8 DEF SenderStep, EnqueueReadState, EnqueueReadTransition
  <2>9. QED
    BY <2>4, <2>5, <2>6, <2>7, <2>8 DEF Next
<1>3. QED
  BY <1>1, <1>2, PortInvariant, PTL DEF Spec, ImplementsLedger, Ledger!LedgerSpec
=============================================================================
