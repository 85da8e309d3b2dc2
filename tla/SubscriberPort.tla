--------------------------- MODULE SubscriberPort ---------------------------
(***************************************************************************)
(* The receiving side of every port of the runtime environment:            *)
(* src/re/src/core/ports/pubsub/subscriberport.hpp with the StateMachine   *)
(* and ThreadManager it owns.  Three kinds of thread meet here:            *)
(*   - the controller, which runs the lifecycle transitions;               *)
(*   - the ProcessLoop thread, created by Configure, joined by Terminate;  *)
(*   - the Senders, the receive threads of the middleware subclass (zmq,   *)
(*     qpid, rti, ospl) or of PeriodicPort, which call EnqueueMessage.     *)
(*                                                                         *)
(* The middleware subclasses wrap every handler in the same way: they      *)
(* start their receive thread in Configure, release it in Activate before  *)
(* this class is activated, and join it in Terminate before this class is  *)
(* terminated.  After Passivate a receive thread may run on until that     *)
(* join (zmq stops it earlier, which is one of the behaviours here).       *)
(*                                                                         *)
(* A message is the number of its push.  The callback is user code and may *)
(* take any time; an exception it throws is caught and the event counts as *)
(* processed, so it needs no step of its own.                              *)
(***************************************************************************)
EXTENDS Integers, Sequences, FiniteSets, StateMachine, ThreadManager

CONSTANTS
  Senders,         \* threads that call EnqueueMessage
  MaxQueueSize,    \* max_queue_size_; -1 is no limit
  MaxReceived,     \* bound: messages that ever arrive
  MaxConfigures,   \* bound: Configure calls that are begun
  NoSender         \* queue_mutex_ is not held across steps

ASSUME PortAssumption ==
  /\ NoSender \notin Senders
  /\ IsFiniteSet(Senders)
  /\ MaxQueueSize \in Nat \cup {-1}
  /\ MaxReceived \in Nat
  /\ MaxConfigures \in Nat

VARIABLES
  thread_manager,     \* the ThreadManager of ProcessLoop
  loop,               \* program counter of the ProcessLoop thread
  running,            \* local of ProcessLoop
  queue,              \* local of ProcessLoop; its head is the message in rx
  message_queue,
  processing_count,
  terminate,          \* terminate_
  queue_mutex,        \* the sender inside EnqueueMessage's critical section
  sender,             \* program counter of each sender
  source,             \* the subclass's receive thread is released
  received, processed, ignored,   \* the counters of Port
  pushed,             \* history: messages ever put in message_queue
  late,               \* history: callbacks begun in this activation after Passivate
  configures          \* history: Configure calls begun

loopVars    == <<thread_manager, loop, running, queue>>
queueVars   == <<message_queue, processing_count, terminate, pushed>>
senderVars  == <<queue_mutex, sender, source>>
counterVars == <<received, processed, ignored>>
historyVars == <<late, configures>>

vars == <<machineVars, loopVars, queueVars, senderVars, counterVars, historyVars>>

ControlPoint == {"idle", "middleware", "spawn", "waitConfigured", "openSource",
                 "setActivate", "waitActive", "closeSource", "joinSource", "interrupt",
                 "setTerminate", "waitTerminated", "join", "return", "throw", "commit"}

LoopPoint == {"none", "start", "waitActivate", "activated", "wait", "rx",
              "rxTransition", "callback", "decrement", "terminating", "exit"}

Init ==
  /\ MachineInit
  /\ thread_manager = NullManager
  /\ loop = "none"
  /\ running = FALSE
  /\ queue = <<>>
  /\ message_queue = <<>>
  /\ processing_count = 0
  /\ terminate = FALSE
  /\ pushed = 0
  /\ queue_mutex = NoSender
  /\ sender = [s \in Senders |-> "idle"]
  /\ source = FALSE
  /\ received = 0 /\ processed = 0 /\ ignored = 0
  /\ late = 0
  /\ configures = 0

-----------------------------------------------------------------------------
(* Entering and leaving a transition. *)

(* The first step of the subclass's handler for t. *)
Entry(t) ==
  CASE t = "CONFIGURE" -> "middleware"
    [] t = "ACTIVATE"  -> "openSource"
    [] t = "PASSIVATE" -> "interrupt"
    [] t = "TERMINATE" -> "closeSource"

CountConfigure(t) ==
  /\ t = "CONFIGURE" => configures < MaxConfigures
  /\ configures' = IF t = "CONFIGURE" THEN configures + 1 ELSE configures

RequestTransition(t) ==
  /\ Begin(t, Entry(t))
  /\ CountConfigure(t)
  /\ UNCHANGED <<loopVars, queueVars, senderVars, counterVars, late>>

Return ==
  /\ ResetTransition
  /\ UNCHANGED <<loopVars, queueVars, senderVars, counterVars, historyVars>>

StoreState ==
  /\ Commit
  /\ late' = IF op = "ACTIVATE" THEN 0 ELSE late
  /\ UNCHANGED <<loopVars, queueVars, senderVars, counterVars, configures>>

Throw ==
  /\ HandlerThrew
  /\ UNCHANGED <<loopVars, queueVars, senderVars, counterVars, historyVars>>

-----------------------------------------------------------------------------
(* The subclass's part of the handlers. *)

(* Sockets are opened, or opening them throws (an endpoint that cannot be  *)
(* connected, an errant context left by an earlier failure).               *)
ConfigureMiddleware ==
  /\ \E to \in {"spawn", "throw"} : Goto("middleware", to)
  /\ UNCHANGED <<loopVars, queueVars, senderVars, counterVars, historyVars>>

OpenSource ==
  /\ Goto("openSource", "setActivate")
  /\ source' = TRUE
  /\ UNCHANGED <<loopVars, queueVars, queue_mutex, sender, counterVars, historyVars>>

CloseSource ==
  /\ Goto("closeSource", "joinSource")
  /\ source' = FALSE
  /\ UNCHANGED <<loopVars, queueVars, queue_mutex, sender, counterVars, historyVars>>

(* Faulty variant: the receive thread is not joined. *)
JoinSource_NoWait ==
  /\ Goto("joinSource", "interrupt")
  /\ UNCHANGED <<loopVars, queueVars, senderVars, counterVars, historyVars>>

JoinSource ==
  /\ \A s \in Senders : sender[s] = "idle"
  /\ Goto("joinSource", "interrupt")
  /\ UNCHANGED <<loopVars, queueVars, senderVars, counterVars, historyVars>>

-----------------------------------------------------------------------------
(* The handlers of SubscriberPort. *)

(* HandleConfigure: a second ThreadManager is an error. *)
SpawnLoop ==
  /\ IF thread_manager.live
       THEN /\ Goto("spawn", "throw")
            /\ UNCHANGED <<thread_manager, loop>>
       ELSE /\ Goto("spawn", "waitConfigured")
            /\ thread_manager' = NewManager
            /\ loop' = "start"
  /\ UNCHANGED <<running, queue, queueVars, senderVars, counterVars, historyVars>>

WaitForConfigured ==
  /\ WaitForState(thread_manager, "CONFIGURED")
  /\ Goto("waitConfigured", "return")
  /\ UNCHANGED <<loopVars, queueVars, senderVars, counterVars, historyVars>>

(* HandleActivate: ThreadManager::Activate, in two steps. *)
SetActivate ==
  /\ IF thread_manager.live
       THEN /\ Goto("setActivate", "waitActive")
            /\ thread_manager' = SetTransition(thread_manager, "ACTIVATE")
       ELSE /\ Goto("setActivate", "throw")
            /\ UNCHANGED thread_manager
  /\ UNCHANGED <<loop, running, queue, queueVars, senderVars, counterVars, historyVars>>

WaitForActive ==
  /\ WaitForState(thread_manager, "ACTIVE")
  /\ Goto("waitActive", "return")
  /\ UNCHANGED <<loopVars, queueVars, senderVars, counterVars, historyVars>>

(* Faulty variant: the messages being processed are forgotten. *)
InterruptLoop_ClearsCount ==
  /\ queue_mutex = NoSender
  /\ Goto("interrupt", IF op = "TERMINATE" THEN "setTerminate" ELSE "return")
  /\ terminate' = TRUE
  /\ processing_count' = 0
  /\ UNCHANGED <<loopVars, message_queue, pushed, senderVars, counterVars, historyVars>>

(* InterruptLoop: all of HandlePassivate, the first step of HandleTerminate. *)
InterruptLoop ==
  /\ queue_mutex = NoSender
  /\ Goto("interrupt", IF op = "TERMINATE" THEN "setTerminate" ELSE "return")
  /\ terminate' = TRUE
  /\ UNCHANGED <<loopVars, message_queue, processing_count, pushed, senderVars,
                 counterVars, historyVars>>

(* HandleTerminate: ThreadManager::Terminate, then its destructor.  Without *)
(* a manager there is nothing to stop.                                      *)
SetTerminate ==
  /\ IF thread_manager.live
       THEN /\ Goto("setTerminate", "waitTerminated")
            /\ thread_manager' = SetTransition(thread_manager, "TERMINATE")
       ELSE /\ Goto("setTerminate", "return")
            /\ UNCHANGED thread_manager
  /\ UNCHANGED <<loop, running, queue, queueVars, senderVars, counterVars, historyVars>>

WaitForTerminated ==
  /\ WaitForState(thread_manager, "TERMINATED")
  /\ Goto("waitTerminated", "join")
  /\ UNCHANGED <<loopVars, queueVars, senderVars, counterVars, historyVars>>

(* Faulty variant: the manager is not released. *)
JoinLoop_KeepsManager ==
  /\ loop = "exit"
  /\ Goto("join", "return")
  /\ loop' = "none"
  /\ UNCHANGED <<thread_manager, running, queue, queueVars, senderVars, counterVars,
                 historyVars>>

(* thread_manager_.reset(): the destructor waits for the thread's future. *)
JoinLoop ==
  /\ loop = "exit"
  /\ Goto("join", "return")
  /\ thread_manager' = NullManager
  /\ loop' = "none"
  /\ UNCHANGED <<running, queue, queueVars, senderVars, counterVars, historyVars>>

-----------------------------------------------------------------------------
(* The ProcessLoop thread. *)

LoopConfigured ==
  /\ loop = "start"
  /\ thread_manager' = SetState(thread_manager, "CONFIGURED")
  /\ loop' = "waitActivate"
  /\ UNCHANGED <<machineVars, running, queue, queueVars, senderVars, counterVars, historyVars>>

LoopWaitForActivate ==
  /\ loop = "waitActivate"
  /\ WaitForTransition(thread_manager, "ACTIVATE")
  /\ loop' = IF "ACTIVATE" \in thread_manager.transitions THEN "activated" ELSE "terminating"
  /\ UNCHANGED <<machineVars, thread_manager, running, queue, queueVars, senderVars,
                 counterVars, historyVars>>

LoopActivated ==
  /\ loop = "activated"
  /\ thread_manager' = SetState(thread_manager, "ACTIVE")
  /\ running' = TRUE
  /\ loop' = "wait"
  /\ UNCHANGED <<machineVars, queue, queueVars, senderVars, counterVars, historyVars>>

(* Where the loop goes with q left in its local queue and r its running flag. *)
LoopContinues(q, r) ==
  IF q # <<>> THEN "rx" ELSE IF r THEN "wait" ELSE "terminating"

(* Faulty variant: the flag is dropped when messages arrived with it. *)
TakeQueue_DropsFlag ==
  /\ loop = "wait"
  /\ queue_mutex = NoSender
  /\ terminate \/ message_queue # <<>>
  /\ queue' = message_queue
  /\ message_queue' = queue
  /\ processing_count' = processing_count + Len(message_queue)
  /\ running' = (running /\ ~(terminate /\ message_queue = <<>>))
  /\ terminate' = FALSE
  /\ loop' = LoopContinues(queue', running')
  /\ UNCHANGED <<machineVars, thread_manager, pushed, senderVars, counterVars, historyVars>>

(* Faulty variant: the loop sleeps until it is told to stop. *)
TakeQueue_WaitsForFlag ==
  /\ loop = "wait"
  /\ queue_mutex = NoSender
  /\ terminate
  /\ queue' = message_queue
  /\ message_queue' = queue
  /\ processing_count' = processing_count + Len(message_queue)
  /\ running' = FALSE
  /\ terminate' = FALSE
  /\ loop' = LoopContinues(queue', running')
  /\ UNCHANGED <<machineVars, thread_manager, pushed, senderVars, counterVars, historyVars>>

(* The critical section of the loop: wait, swap the queues, take the flag. *)
TakeQueue ==
  /\ loop = "wait"
  /\ queue_mutex = NoSender
  /\ terminate \/ message_queue # <<>>
  /\ queue' = message_queue
  /\ message_queue' = queue
  /\ processing_count' = processing_count + Len(message_queue)
  /\ running' = (running /\ ~terminate)
  /\ terminate' = FALSE
  /\ loop' = LoopContinues(queue', running')
  /\ UNCHANGED <<machineVars, thread_manager, pushed, senderVars, counterVars, historyVars>>

(* Faulty variant: process_event looks at transition_ only. *)
RxReadState_Skipped ==
  /\ loop = "rx"
  /\ loop' = "rxTransition"
  /\ UNCHANGED <<machineVars, thread_manager, running, queue, queueVars, senderVars,
                 counterVars, historyVars>>

(* rx: process_event reads state_ first, ... *)
RxReadState ==
  /\ loop = "rx"
  /\ \/ /\ state = "RUNNING"
        /\ loop' = "rxTransition"
        /\ UNCHANGED ignored
     \/ /\ state # "RUNNING"
        /\ loop' = "decrement"
        /\ ignored' = ignored + 1
  /\ UNCHANGED <<machineVars, thread_manager, running, queue, queueVars, senderVars,
                 received, processed, historyVars>>

(* Faulty variant: an ignored message still reaches the callback. *)
RxReadTransition_FallsThrough ==
  /\ loop = "rxTransition"
  /\ loop' = "callback"
  /\ ignored' = IF transition = "NO_TRANSITION" THEN ignored ELSE ignored + 1
  /\ UNCHANGED <<machineVars, thread_manager, running, queue, queueVars, senderVars,
                 received, processed, historyVars>>

(* ... and transition_ after it. *)
RxReadTransition ==
  /\ loop = "rxTransition"
  /\ \/ /\ transition = "NO_TRANSITION"
        /\ loop' = "callback"
        /\ late' = IF state = "NOT_RUNNING" THEN late + 1 ELSE late
        /\ UNCHANGED ignored
     \/ /\ transition # "NO_TRANSITION"
        /\ loop' = "decrement"
        /\ ignored' = ignored + 1
        /\ UNCHANGED late
  /\ UNCHANGED <<machineVars, thread_manager, running, queue, queueVars, senderVars,
                 received, processed, configures>>

(* The user's callback returns or throws, and EventProcessed counts it. *)
RxCallback ==
  /\ loop = "callback"
  /\ processed' = processed + 1
  /\ loop' = "decrement"
  /\ UNCHANGED <<machineVars, thread_manager, running, queue, queueVars, senderVars,
                 received, ignored, historyVars>>

(* Faulty variant: one message per wake-up. *)
LoopDecrement_OnePerWake ==
  /\ loop = "decrement"
  /\ queue_mutex = NoSender
  /\ processing_count' = processing_count - 1
  /\ queue' = Tail(queue)
  /\ loop' = IF running THEN "wait" ELSE "terminating"
  /\ UNCHANGED <<machineVars, thread_manager, running, message_queue, terminate, pushed,
                 senderVars, counterVars, historyVars>>

LoopDecrement ==
  /\ loop = "decrement"
  /\ queue_mutex = NoSender
  /\ processing_count' = processing_count - 1
  /\ queue' = Tail(queue)
  /\ loop' = LoopContinues(queue', running)
  /\ UNCHANGED <<machineVars, thread_manager, running, message_queue, terminate, pushed,
                 senderVars, counterVars, historyVars>>

LoopTerminated ==
  /\ loop = "terminating"
  /\ thread_manager' = SetState(thread_manager, "TERMINATED")
  /\ loop' = "exit"
  /\ UNCHANGED <<machineVars, running, queue, queueVars, senderVars, counterVars, historyVars>>

-----------------------------------------------------------------------------
(* EnqueueMessage, run by a sender. *)

(* EventRecieved, before the mutex is taken. *)
EventRecieved(s) ==
  /\ sender[s] = "idle"
  /\ received < MaxReceived
  /\ received' = received + 1
  /\ sender' = [sender EXCEPT ![s] = "received"]
  /\ UNCHANGED <<machineVars, loopVars, queueVars, queue_mutex, source, processed, ignored,
                 historyVars>>

Deliver(s) == source /\ EventRecieved(s)

(* queue_mutex_ is taken and process_event reads state_: when it is not    *)
(* RUNNING the message is ignored and the mutex released.                  *)
EnqueueReadState(s) ==
  /\ sender[s] = "received"
  /\ queue_mutex = NoSender
  /\ \/ /\ state = "RUNNING"
        /\ queue_mutex' = s
        /\ sender' = [sender EXCEPT ![s] = "sawRunning"]
        /\ UNCHANGED ignored
     \/ /\ state # "RUNNING"
        /\ ignored' = ignored + 1
        /\ sender' = [sender EXCEPT ![s] = "idle"]
        /\ UNCHANGED queue_mutex
  /\ UNCHANGED <<machineVars, loopVars, queueVars, source, received, processed, historyVars>>

(* Faulty variant: one too many. *)
HasRoom_OffByOne ==
  MaxQueueSize = -1 \/ MaxQueueSize >= Len(message_queue) + processing_count

HasRoom == MaxQueueSize = -1 \/ MaxQueueSize > Len(message_queue) + processing_count

(* Faulty variant: a message that is not queued is not counted either. *)
EnqueueReadTransition_Uncounted(s) ==
  /\ sender[s] = "sawRunning"
  /\ IF transition = "NO_TRANSITION" /\ HasRoom
       THEN /\ message_queue' = Append(message_queue, pushed + 1)
            /\ pushed' = pushed + 1
       ELSE UNCHANGED <<message_queue, pushed>>
  /\ queue_mutex' = NoSender
  /\ sender' = [sender EXCEPT ![s] = "idle"]
  /\ UNCHANGED <<machineVars, loopVars, processing_count, terminate, source, counterVars,
                 historyVars>>

(* Still under queue_mutex_, process_event reads transition_. *)
EnqueueReadTransition(s) ==
  /\ sender[s] = "sawRunning"
  /\ \/ /\ transition = "NO_TRANSITION" /\ HasRoom
        /\ message_queue' = Append(message_queue, pushed + 1)
        /\ pushed' = pushed + 1
        /\ UNCHANGED ignored
     \/ /\ ~(transition = "NO_TRANSITION" /\ HasRoom)
        /\ ignored' = ignored + 1
        /\ UNCHANGED <<message_queue, pushed>>
  /\ queue_mutex' = NoSender
  /\ sender' = [sender EXCEPT ![s] = "idle"]
  /\ UNCHANGED <<machineVars, loopVars, processing_count, terminate, source, received,
                 processed, historyVars>>

-----------------------------------------------------------------------------
HandlerStep ==
  \/ Return \/ StoreState \/ Throw
  \/ SpawnLoop \/ WaitForConfigured \/ SetActivate \/ WaitForActive
  \/ InterruptLoop \/ SetTerminate \/ WaitForTerminated \/ JoinLoop

SourceStep == ConfigureMiddleware \/ OpenSource \/ CloseSource \/ JoinSource

LoopStep ==
  \/ LoopConfigured \/ LoopWaitForActivate \/ LoopActivated \/ TakeQueue
  \/ RxReadState \/ RxReadTransition \/ RxCallback \/ LoopDecrement \/ LoopTerminated

SenderStep(s) == EnqueueReadState(s) \/ EnqueueReadTransition(s)

Next ==
  \/ \E t \in Request : RequestTransition(t)
  \/ HandlerStep
  \/ SourceStep
  \/ LoopStep
  \/ \E s \in Senders : Deliver(s) \/ SenderStep(s)

(* Threads that can go on do: the controller within a handler, the loop    *)
(* (callbacks return) and a sender inside EnqueueMessage.  Nobody has to   *)
(* request a transition or send a message.                                 *)
Fairness ==
  /\ WF_vars(HandlerStep \/ SourceStep)
  /\ WF_vars(LoopStep)
  /\ \A s \in Senders : WF_vars(SenderStep(s))

Spec == Init /\ [][Next]_vars

FairSpec == Spec /\ Fairness

-----------------------------------------------------------------------------
(* Properties. *)

(* Every variable keeps its type; the counters never become negative and   *)
(* the queues hold push numbers.                                           *)
TypeOK ==
  /\ state \in State
  /\ transition \in Transition
  /\ op \in Transition
  /\ ctl \in ControlPoint
  /\ thread_manager \in Manager
  /\ loop \in LoopPoint
  /\ running \in BOOLEAN
  /\ queue \in Seq(Nat)
  /\ message_queue \in Seq(Nat)
  /\ processing_count \in Nat
  /\ terminate \in BOOLEAN
  /\ pushed \in Nat
  /\ queue_mutex \in Senders \cup {NoSender}
  /\ sender \in [Senders -> {"idle", "received", "sawRunning"}]
  /\ source \in BOOLEAN
  /\ received \in Nat /\ processed \in Nat /\ ignored \in Nat
  /\ late \in Nat
  /\ configures \in Nat

(* Messages the loop has taken and not yet settled with rx. *)
Unsettled == Len(queue) - (IF loop = "decrement" THEN 1 ELSE 0)

(* Senders that have counted a message and not yet queued or ignored it. *)
Enqueuing == {s \in Senders : sender[s] # "idle"}

(* Every received message is in exactly one place: counted as processed or *)
(* ignored, waiting in message_queue_, in the loop's hands, or with the    *)
(* sender that is deciding about it.  No interleaving of EnqueueMessage,   *)
(* ProcessLoop and the lifecycle, restarts included, loses or doubles one. *)
Conservation ==
  received = processed + ignored + Len(message_queue) + Unsettled + Cardinality(Enqueuing)

(* The queue limit holds counting both the waiting messages and those the  *)
(* loop has swapped out: the test in EnqueueMessage and the push are       *)
(* separated by two reads of atomics, and processing_count_ lives on       *)
(* across restarts of the loop.                                            *)
QueueBounded ==
  /\ processing_count = Len(queue)
  /\ MaxQueueSize # -1 => Len(message_queue) + processing_count <= MaxQueueSize

(* Messages are handed to rx in the order of their pushes, with none       *)
(* skipped: the swap happens only when the local queue has been drained.   *)
InOrder ==
  /\ \A i \in 1..Len(queue) :
       queue[i] = pushed - Len(message_queue) - Len(queue) + i
  /\ \A i \in 1..Len(message_queue) :
       message_queue[i] = pushed - Len(message_queue) + i

(* After Terminate has returned nothing touches the port any more: the     *)
(* loop thread is joined with its local queue drained and no sender is     *)
(* inside EnqueueMessage.  The destructors rely on this.                   *)
TerminatedIsQuiet ==
  state = "NOT_CONFIGURED" /\ ctl = "idle" =>
    /\ loop = "none" /\ ~thread_manager.live
    /\ queue = <<>> /\ processing_count = 0
    /\ Enqueuing = {}

(* The runtime_errors of HandleConfigure and HandleActivate are never      *)
(* thrown: the ThreadManager lives exactly from Configure to Terminate,    *)
(* also after a Configure that failed in the middleware.                   *)
GuardsNeverFire ==
  /\ ctl = "spawn" => ~thread_manager.live
  /\ ctl \in {"setActivate", "setTerminate"} => thread_manager.live

(* Passivate does not wait for the loop and process_event is two reads, so *)
(* a callback can start after Passivate has returned; but only one can.    *)
AtMostOneLateCallback == late <= 1

(* No transition blocks for ever, whatever the loop and the senders do:    *)
(* the waits of Configure, Activate and Terminate are always answered.     *)
TransitionsComplete == ctl # "idle" ~> ctl = "idle"

(* The loop of a passivated port ends by itself: the one terminate_ flag   *)
(* reaches it even when it was set while the loop was processing.          *)
PassivatedLoopEnds == state = "NOT_RUNNING" ~> loop \in {"exit", "none"}

(* In the first activation a queued message is always taken by the loop,   *)
(* also when the port is passivated or terminated meanwhile.               *)
FirstActivationServes ==
  configures = 1 /\ state = "RUNNING" /\ ctl = "idle" /\ message_queue # <<>>
    ~> message_queue = <<>>

Ledger == INSTANCE MessageLedger

(* The port's counters implement the ledger: nothing is counted as         *)
(* processed or ignored before it was received, nor twice.                 *)
ImplementsLedger == Ledger!LedgerSpec

(* A RUNNING port has a loop to take its messages. *)
RunningPortHasLoop ==
  state = "RUNNING" /\ ctl = "idle" => loop \notin {"none", "terminating", "exit"}
=============================================================================
