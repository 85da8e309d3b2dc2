-------------------------- MODULE ExperimentControl --------------------------
(***************************************************************************)
(* One experiment: the ExecutionManager of the master process and the      *)
(* DeploymentManager of every slave process (src/re/src/nodemanager).      *)
(* The master process hosts a slave of its own, and the two share one      *)
(* Execution object.  In each process run                                  *)
(*   - main: it builds the DeploymentManager (SlaveStartup, the container, *)
(*     SlaveConfigured), waits in Execution::Start, then tears down;       *)
(*   - ProcessControlQueue, which applies the published control messages   *)
(*     and reports SlaveTerminated;                                        *)
(*   - the SlaveHeartbeater;                                               *)
(* and in the master also ExecutionLoop and the replier of the RMIs.       *)
(*                                                                         *)
(* A slave has one ProtoRequester, whose worker has one request under way  *)
(* at a time.  A caller that times out leaves its request to be handled    *)
(* late or never, and may leave the REQ socket waiting for the reply: the  *)
(* next request on that socket is refused and the socket replaced.         *)
(*                                                                         *)
(* The behaviours start when the ExecutionManager is constructed and its   *)
(* slaves are known; a slave that starts earlier only waits longer for its *)
(* first reply.                                                            *)
(***************************************************************************)
EXTENDS Naturals, Sequences, FiniteSets

CONSTANTS
  Slaves, Master,      \* the slaves of the experiment; the one in the master process
  Faulty,              \* slaves whose container may fail to build
  Interruptible,       \* processes that get SIGINT or, the master, a SHUTDOWN
  Timed,               \* duration_sec is not -1
  StartupRetries,      \* 3 in RequestDeployment
  HeartbeatRetries,    \* 5 in HeartbeatLoop
  StaleAfter,          \* failed heartbeats that can add up to 5000 ms
  MaxTimeouts,         \* bound: requests that time out while the master is up
  MaxLosses,           \* bound: publications that miss a slave
  MaxCrashes,          \* bound: processes that die
  MaxUpdates           \* bound: CONFIGURE messages from the environment manager

ASSUME ControlAssumption ==
  /\ IsFiniteSet(Slaves) /\ Master \in Slaves
  /\ Faulty \subseteq Slaves /\ Interruptible \subseteq Slaves
  /\ Timed \in BOOLEAN
  /\ StartupRetries \in Nat
  /\ HeartbeatRetries \in Nat \ {0} /\ StaleAfter \in Nat \ {0}
  /\ MaxTimeouts \in Nat /\ MaxLosses \in Nat /\ MaxCrashes \in Nat /\ MaxUpdates \in Nat

VARIABLES
  slave_status,        \* ExecutionManager: the state of each slave ...
  stale,               \* ... and whether its heartbeat_time is over 5000 ms old
  execute_promise, terminate_promise, execution_valid,
  exec,                \* program counter of ExecutionLoop
  main,                \* program counter of each process's main thread
  interrupted,         \* Execution::terminated
  retry_count,         \* local of RequestDeployment
  control,             \* program counter of ProcessControlQueue
  control_queue, terminate,
  container,           \* lifecycle of the slave's DeploymentContainer ...
  live,                \* ... and whether a port of its components runs
  beating, failures,   \* HeartbeatLoop runs; its retry_count
  wire,                \* the request the ProtoRequester's worker has under way
  socket,              \* the REQ socket may send, or first has to receive
  reply,               \* the reply to the request on the wire
  net,                 \* requests the master has not handled
  timeouts, losses, crashes, updates

masterVars == <<slave_status, stale, execute_promise, terminate_promise, execution_valid, exec>>
mainVars   == <<main, interrupted, retry_count>>
queueVars  == <<control, control_queue, terminate, container, live>>
beatVars   == <<beating, failures>>
rmiVars    == <<wire, socket, reply, net>>
faultVars  == <<timeouts, losses, crashes, updates>>

vars == <<masterVars, mainVars, queueVars, beatVars, rmiVars, faultVars>>

SlaveState == {"OFFLINE", "Registered", "CONFIGURED", "TERMINATED", "Error"}

ExecPoint == {"waitExecute", "activate", "running", "passivate", "terminate", "deregister",
              "remove", "interrupt", "done"}

MainPoint == {"off", "startup", "startupWait", "configure", "reportOk", "reportError",
              "reportWait", "online", "stopping", "join", "failing", "failJoin",
              "destroying", "destroyWait", "exited", "crashed"}

ControlPoint == {"off", "run", "report", "reportWait", "done", "failed"}

Function == {"SlaveStartup", "SlaveConfigured", "SlaveConfigureError", "SlaveTerminated"}

Message == {"CONFIGURE", "ACTIVATE", "PASSIVATE", "TERMINATE"}

Gone(s) == main[s] \in {"exited", "crashed"}

Init ==
  /\ slave_status = [s \in Slaves |-> "OFFLINE"]
  /\ stale = [s \in Slaves |-> FALSE]
  /\ execute_promise = "pending" /\ terminate_promise = FALSE
  /\ execution_valid = FALSE
  /\ exec = "waitExecute"
  /\ main = [s \in Slaves |-> "off"]
  /\ interrupted = [s \in Slaves |-> FALSE]
  /\ retry_count = [s \in Slaves |-> 0]
  /\ control = [s \in Slaves |-> "off"]
  /\ control_queue = [s \in Slaves |-> <<>>]
  /\ terminate = [s \in Slaves |-> FALSE]
  /\ container = [s \in Slaves |-> "none"]
  /\ live = [s \in Slaves |-> FALSE]
  /\ beating = [s \in Slaves |-> FALSE]
  /\ failures = [s \in Slaves |-> 0]
  /\ wire = [s \in Slaves |-> "none"]
  /\ socket = [s \in Slaves |-> "ready"]
  /\ reply = [s \in Slaves |-> "none"]
  /\ net = {}
  /\ timeouts = 0 /\ losses = 0 /\ crashes = 0 /\ updates = 0

-----------------------------------------------------------------------------
(* SendRequest, as its caller sees it. *)

Call(s, fn) ==
  /\ wire[s] = "none" /\ socket[s] = "ready"
  /\ wire' = [wire EXCEPT ![s] = fn]
  /\ net' = net \cup {[slave |-> s, fn |-> fn, late |-> FALSE]}
  /\ UNCHANGED <<socket, reply>>

(* The socket still waits for a reply: the request fails unsent. *)
Refused(s) ==
  /\ wire[s] = "none" /\ socket[s] = "sent"
  /\ socket' = [socket EXCEPT ![s] = "ready"]
  /\ UNCHANGED <<wire, reply, net>>

(* Faulty variant: the reply stays for the next request. *)
Answered_KeepsReply(s) ==
  /\ reply[s] # "none"
  /\ wire' = [wire EXCEPT ![s] = "none"]
  /\ UNCHANGED <<socket, net, reply>>

Answered(s) ==
  /\ reply[s] # "none"
  /\ wire' = [wire EXCEPT ![s] = "none"]
  /\ reply' = [reply EXCEPT ![s] = "none"]
  /\ UNCHANGED <<socket, net>>

(* A request takes too long: a budgeted fault, or nobody is there any more. *)
Unanswered ==
  \/ Gone(Master) /\ UNCHANGED timeouts
  \/ timeouts < MaxTimeouts /\ timeouts' = timeouts + 1

(* The caller gives up.  The worker may still have got the reply. *)
TimedOut(s) ==
  /\ Unanswered
  /\ LET request == [slave |-> s, fn |-> wire[s], late |-> FALSE]
     IN net' = IF request \in net
                 THEN (net \ {request}) \cup {[request EXCEPT !.late = TRUE]}
                 ELSE net
  /\ \E left \in {"ready", "sent"} :
       /\ reply[s] = "none" => left = "sent"
       /\ socket' = [socket EXCEPT ![s] = left]
  /\ wire' = [wire EXCEPT ![s] = "none"]
  /\ reply' = [reply EXCEPT ![s] = "none"]
  /\ UNCHANGED <<losses, crashes, updates>>

(* A late request never arrives. *)
LoseRequest(r) ==
  /\ r \in net /\ r.late
  /\ net' = net \ {r}
  /\ UNCHANGED <<masterVars, mainVars, queueVars, beatVars, wire, socket, reply, faultVars>>

-----------------------------------------------------------------------------
(* The main thread of a slave process: DeploymentManager's constructor. *)

Start(s) ==
  /\ main[s] = "off"
  /\ main' = [main EXCEPT ![s] = "startup"]
  /\ control' = [control EXCEPT ![s] = "run"]
  /\ UNCHANGED <<masterVars, interrupted, retry_count, control_queue, terminate, container, live,
                 beatVars, rmiVars, faultVars>>

SendStartup(s) ==
  /\ main[s] = "startup"
  /\ Call(s, "SlaveStartup")
  /\ main' = [main EXCEPT ![s] = "startupWait"]
  /\ UNCHANGED <<masterVars, interrupted, retry_count, queueVars, beatVars, faultVars>>

(* Another attempt, or the constructor gives up. *)
StartupFailed(s) ==
  /\ retry_count' = [retry_count EXCEPT ![s] = @ + 1]
  /\ main' = [main EXCEPT ![s] = IF retry_count'[s] > StartupRetries THEN "failing" ELSE "startup"]
  /\ UNCHANGED <<masterVars, interrupted, queueVars, beatVars>>

StartupRefused(s) ==
  /\ main[s] = "startup"
  /\ Refused(s)
  /\ StartupFailed(s)
  /\ UNCHANGED faultVars

StartupTimeout(s) ==
  /\ main[s] = "startupWait"
  /\ TimedOut(s)
  /\ StartupFailed(s)

(* An RMIException, the master's refusal, is not retried. *)
StartupReply(s) ==
  /\ main[s] = "startupWait"
  /\ Answered(s)
  /\ main' = [main EXCEPT ![s] = IF reply[s] = "ok" THEN "configure" ELSE "failing"]
  /\ UNCHANGED <<masterVars, interrupted, retry_count, queueVars, beatVars, faultVars>>

(* What a control message makes of the lifecycle of the container. *)
Apply(m, c) ==
  CASE m = "CONFIGURE" /\ c = "none"        -> "CONFIGURED"
    [] m = "ACTIVATE"  /\ c = "CONFIGURED"  -> "RUNNING"
    [] m = "PASSIVATE" /\ c = "RUNNING"     -> "NOT_RUNNING"
    [] m = "TERMINATE"                      -> "none"
    [] OTHER                                -> c

(* ... and whether its ports can run after it.  In a container that exists *)
(* CONFIGURE terminates, configures and activates each port that it names  *)
(* and that is configured, whatever the container's state; which it names, *)
(* and which of those transitions fail, is left open.                      *)
PortsAfter(m, c, running) ==
  CASE m = "CONFIGURE"                      -> IF c = "none" THEN {FALSE} ELSE BOOLEAN
    [] m = "ACTIVATE"  /\ c = "CONFIGURED"  -> {TRUE}
    [] m = "PASSIVATE" /\ c = "RUNNING"     -> {FALSE}
    [] m = "TERMINATE"                      -> {FALSE}
    [] OTHER                                -> {running}

ApplyPorts(s, m) ==
  \E running \in PortsAfter(m, container[s], live[s]) : live' = [live EXCEPT ![s] = running]

(* HandleContainerUpdate, whose exception becomes the report's success     *)
(* flag, and the start of the heartbeater.  An update may have built the   *)
(* container before.                                                       *)
BuildContainer(s) ==
  /\ main[s] = "configure"
  /\ \/ /\ container' = [container EXCEPT ![s] = Apply("CONFIGURE", @)]
        /\ main' = [main EXCEPT ![s] = "reportOk"]
     \/ /\ s \in Faulty
        /\ main' = [main EXCEPT ![s] = "reportError"]
        /\ UNCHANGED container
  /\ ApplyPorts(s, "CONFIGURE")
  /\ beating' = [beating EXCEPT ![s] = TRUE]
  /\ UNCHANGED <<masterVars, interrupted, retry_count, control, control_queue, terminate,
                 failures, rmiVars, faultVars>>

SendConfigured(s) ==
  /\ \/ main[s] = "reportOk" /\ Call(s, "SlaveConfigured")
     \/ main[s] = "reportError" /\ Call(s, "SlaveConfigureError")
  /\ main' = [main EXCEPT ![s] = "reportWait"]
  /\ UNCHANGED <<masterVars, interrupted, retry_count, queueVars, beatVars, faultVars>>

ConfiguredRefused(s) ==
  /\ main[s] \in {"reportOk", "reportError"}
  /\ Refused(s)
  /\ main' = [main EXCEPT ![s] = "failing"]
  /\ UNCHANGED <<masterVars, interrupted, retry_count, queueVars, beatVars, faultVars>>

ConfiguredTimeout(s) ==
  /\ main[s] = "reportWait"
  /\ TimedOut(s)
  /\ main' = [main EXCEPT ![s] = "failing"]
  /\ UNCHANGED <<masterVars, interrupted, retry_count, queueVars, beatVars>>

ConfiguredReply(s) ==
  /\ main[s] = "reportWait"
  /\ Answered(s)
  /\ main' = [main EXCEPT ![s] = IF reply[s] = "ok" THEN "online" ELSE "failing"]
  /\ UNCHANGED <<masterVars, interrupted, retry_count, queueVars, beatVars, faultVars>>

-----------------------------------------------------------------------------
(* The main thread: Execution::Start and the way out. *)

(* Terminate() in the constructor's catch block: stop the control queue, ... *)
Failing(s) ==
  /\ main[s] = "failing"
  /\ terminate' = [terminate EXCEPT ![s] = TRUE]
  /\ main' = [main EXCEPT ![s] = "failJoin"]
  /\ UNCHANGED <<masterVars, interrupted, retry_count, control, control_queue, container, live,
                 beatVars, rmiVars, faultVars>>

(* What goes with the DeploymentManager object. *)
DestroyDeployment(s) ==
  /\ container' = [container EXCEPT ![s] = "none"]
  /\ live' = [live EXCEPT ![s] = FALSE]
  /\ beating' = [beating EXCEPT ![s] = FALSE]

(* ... wait for it, and leave main; the master destroys ExecutionManager too. *)
FailJoined(s) ==
  /\ main[s] = "failJoin"
  /\ control[s] \in {"done", "failed"}
  /\ DestroyDeployment(s)
  /\ main' = [main EXCEPT ![s] = IF s = Master THEN "destroying" ELSE "exited"]
  /\ UNCHANGED <<masterVars, interrupted, retry_count, control, control_queue, terminate,
                 failures, rmiVars, faultVars>>

(* ExecutionManager::Terminate, the first terminate callback of the master *)
(* and its destructor: a promise that is satisfied already keeps its value.*)
TerminateExecution ==
  /\ \/ /\ main[Master] = "online" /\ interrupted[Master]
        /\ main' = [main EXCEPT ![Master] = "stopping"]
     \/ /\ main[Master] = "destroying"
        /\ main' = [main EXCEPT ![Master] = "destroyWait"]
  /\ execute_promise' = IF execute_promise = "pending" THEN "exception" ELSE execute_promise
  /\ terminate_promise' = TRUE
  /\ UNCHANGED <<slave_status, stale, execution_valid, exec, interrupted, retry_count,
                 queueVars, beatVars, rmiVars, faultVars>>

(* It returns when ExecutionLoop has; the DeploymentManager's callback is next. *)
ExecutionJoined ==
  /\ exec = "done"
  /\ \/ /\ main[Master] = "stopping"
        /\ main' = [main EXCEPT ![Master] = "join"]
        /\ terminate' = [terminate EXCEPT ![Master] = TRUE]
     \/ /\ main[Master] = "destroyWait"
        /\ main' = [main EXCEPT ![Master] = "exited"]
        /\ UNCHANGED terminate
  /\ UNCHANGED <<masterVars, interrupted, retry_count, control, control_queue, container, live,
                 beatVars, rmiVars, faultVars>>

(* DeploymentManager::Terminate, the one terminate callback of a slave. *)
TerminateDeployment(s) ==
  /\ s # Master
  /\ main[s] = "online" /\ interrupted[s]
  /\ terminate' = [terminate EXCEPT ![s] = TRUE]
  /\ main' = [main EXCEPT ![s] = "join"]
  /\ UNCHANGED <<masterVars, interrupted, retry_count, control, control_queue, container, live,
                 beatVars, rmiVars, faultVars>>

Exit(s) ==
  /\ main[s] = "join"
  /\ control[s] \in {"done", "failed"}
  /\ DestroyDeployment(s)
  /\ main' = [main EXCEPT ![s] = "exited"]
  /\ UNCHANGED <<masterVars, interrupted, retry_count, control, control_queue, terminate,
                 failures, rmiVars, faultVars>>

-----------------------------------------------------------------------------
(* ProcessControlQueue.  The queue and the local it is swapped into are    *)
(* one sequence: the loop only ends when both are empty.                   *)

ProcessMessage(s) ==
  /\ control[s] = "run" /\ control_queue[s] # <<>>
  /\ control_queue' = [control_queue EXCEPT ![s] = Tail(@)]
  /\ LET m == Head(control_queue[s])
     IN /\ \/ /\ container' = [container EXCEPT ![s] = Apply(m, @)]
              /\ terminate' = [terminate EXCEPT ![s] = @ \/ m = "TERMINATE"]
              /\ UNCHANGED control
           \/ /\ m = "CONFIGURE" /\ s \in Faulty   \* the exception ends the thread
              /\ control' = [control EXCEPT ![s] = "failed"]
              /\ UNCHANGED <<container, terminate>>
        /\ ApplyPorts(s, m)
  /\ UNCHANGED <<masterVars, mainVars, beatVars, rmiVars, faultVars>>

EndLoop(s) ==
  /\ control[s] = "run" /\ control_queue[s] = <<>> /\ terminate[s]
  /\ control' = [control EXCEPT ![s] = "report"]
  /\ UNCHANGED <<masterVars, mainVars, control_queue, terminate, container, live, beatVars, rmiVars,
                 faultVars>>

SendTerminated(s) ==
  /\ control[s] = "report"
  /\ Call(s, "SlaveTerminated")
  /\ control' = [control EXCEPT ![s] = "reportWait"]
  /\ UNCHANGED <<masterVars, mainVars, control_queue, terminate, container, live, beatVars,
                 faultVars>>

(* Reported: the heartbeater ends, and with it a slave that is not the master. *)
TerminatedReply(s) ==
  /\ control[s] = "reportWait"
  /\ Answered(s)
  /\ control' = [control EXCEPT ![s] = "done"]
  /\ beating' = [beating EXCEPT ![s] = FALSE]
  /\ interrupted' = [interrupted EXCEPT ![s] = @ \/ s # Master]
  /\ UNCHANGED <<masterVars, main, retry_count, control_queue, terminate, container, live, failures,
                 faultVars>>

(* reply_future.get() throws and ends the thread: nothing after it runs. *)
TerminatedRefused(s) ==
  /\ control[s] = "report"
  /\ Refused(s)
  /\ control' = [control EXCEPT ![s] = "failed"]
  /\ UNCHANGED <<masterVars, mainVars, control_queue, terminate, container, live, beatVars,
                 faultVars>>

TerminatedTimeout(s) ==
  /\ control[s] = "reportWait"
  /\ TimedOut(s)
  /\ control' = [control EXCEPT ![s] = "failed"]
  /\ UNCHANGED <<masterVars, mainVars, control_queue, terminate, container, live, beatVars>>

-----------------------------------------------------------------------------
(* HeartbeatLoop.  A heartbeat and its reply are one step. *)

Heartbeat(s) ==
  /\ beating[s] /\ ~Gone(Master)
  /\ wire[s] = "none" /\ socket[s] = "ready"
  /\ stale[s] \/ failures[s] > 0
  /\ stale' = [stale EXCEPT ![s] = FALSE]
  /\ failures' = [failures EXCEPT ![s] = 0]
  /\ UNCHANGED <<slave_status, execute_promise, terminate_promise, execution_valid, exec,
                 mainVars, queueVars, beating, rmiVars, faultVars>>

(* Faulty variant: the loop ends without the timeout callback. *)
HeartbeatFailed_Silent(s) ==
  /\ beating[s]
  /\ failures' = [failures EXCEPT ![s] = @ + 1]
  /\ beating' = [beating EXCEPT ![s] = failures'[s] < HeartbeatRetries]
  /\ UNCHANGED interrupted

(* Too many in a row: the loop ends with Execution::Interrupt. *)
HeartbeatFailed(s) ==
  /\ beating[s]
  /\ failures' = [failures EXCEPT ![s] = @ + 1]
  /\ beating' = [beating EXCEPT ![s] = failures'[s] < HeartbeatRetries]
  /\ interrupted' = [interrupted EXCEPT ![s] = @ \/ failures'[s] >= HeartbeatRetries]

HeartbeatTimeout(s) ==
  /\ HeartbeatFailed(s)
  /\ wire[s] = "none" /\ socket[s] = "ready"
  /\ Unanswered
  /\ socket' = [socket EXCEPT ![s] = "sent"]
  /\ UNCHANGED <<masterVars, main, retry_count, queueVars, wire, reply, net, losses, crashes,
                 updates>>

HeartbeatRefused(s) ==
  /\ HeartbeatFailed(s)
  /\ Refused(s)
  /\ UNCHANGED <<masterVars, main, retry_count, queueVars, faultVars>>

(* The master has had no heartbeat of s for 5000 ms: there is none, several *)
(* failed, or they wait behind a report that takes as long.  Only the wait  *)
(* for the slaves looks at the age of a heartbeat.  By then each slave that *)
(* beats has been heard: ExecutionLoop sleeps for a heartbeat period first. *)
GrowStale(s) ==
  /\ exec = "deregister" /\ ~stale[s]
  /\ ~beating[s] \/ failures[s] >= StaleAfter \/ control[s] = "reportWait"
  /\ stale' = [stale EXCEPT ![s] = TRUE]
  /\ UNCHANGED <<slave_status, execute_promise, terminate_promise, execution_valid, exec,
                 mainVars, queueVars, beatVars, rmiVars, faultVars>>

-----------------------------------------------------------------------------
(* ExecutionManager: the RMIs of the slaves, under slave_state_mutex_. *)

Count(status, x) == Cardinality({s \in Slaves : status[s] = x})

(* Faulty variant: a slave that failed counts as configured. *)
Decision_ErrorsStart(status) ==
  IF Count(status, "CONFIGURED") + Count(status, "Error") = Cardinality(Slaves) THEN "value"
  ELSE "pending"

(* HandleSlaveStateChange: what the states of the slaves decide. *)
Decision(status) ==
  IF Count(status, "CONFIGURED") = Cardinality(Slaves) THEN "value"
  ELSE IF Count(status, "CONFIGURED") + Count(status, "Error") = Cardinality(Slaves)
         THEN "exception"
         ELSE "pending"

(* SetSlaveState.  Setting the promise a second time throws, after the     *)
(* state has been stored, and the caller gets an RMIException.             *)
SetSlaveState(s, x, result) ==
  /\ slave_status' = [slave_status EXCEPT ![s] = x]
  /\ IF Decision(slave_status') = "pending"
       THEN result = "ok" /\ UNCHANGED execute_promise
       ELSE IF execute_promise = "pending"
              THEN result = "ok" /\ execute_promise' = Decision(slave_status')
              ELSE result = "rmi" /\ UNCHANGED execute_promise

Reject(result) == result = "rmi" /\ UNCHANGED <<slave_status, execute_promise>>

HandleSlaveStartup(s, result) ==
  IF slave_status[s] = "OFFLINE" THEN SetSlaveState(s, "Registered", result) ELSE Reject(result)

(* Faulty variant: the state of the slave is not looked at. *)
HandleSlaveConfigured_AnyState(s, success, result) ==
  SetSlaveState(s, IF success THEN "CONFIGURED" ELSE "Error", result)

HandleSlaveConfigured(s, success, result) ==
  IF slave_status[s] = "Registered"
    THEN SetSlaveState(s, IF success THEN "CONFIGURED" ELSE "Error", result)
    ELSE Reject(result)

HandleSlaveTerminated(s, result) == SetSlaveState(s, "TERMINATED", result)

(* ProtoReplier runs the callback of a request and answers it.  Nobody     *)
(* hears the answer to a late request.                                     *)
Serve(r) ==
  /\ r \in net /\ ~Gone(Master)
  /\ net' = net \ {r}
  /\ \E result \in {"ok", "rmi"} :
       /\ CASE r.fn = "SlaveStartup"        -> HandleSlaveStartup(r.slave, result)
            [] r.fn = "SlaveConfigured"     -> HandleSlaveConfigured(r.slave, TRUE, result)
            [] r.fn = "SlaveConfigureError" -> HandleSlaveConfigured(r.slave, FALSE, result)
            [] r.fn = "SlaveTerminated"     -> HandleSlaveTerminated(r.slave, result)
       /\ reply' = [reply EXCEPT ![r.slave] = IF r.late THEN @ ELSE result]
  /\ UNCHANGED <<stale, terminate_promise, execution_valid, exec, mainVars, queueVars, beatVars,
                 wire, socket, faultVars>>

-----------------------------------------------------------------------------
(* ExecutionManager: ExecutionLoop. *)

ExecStep(from, to) == exec = from /\ exec' = to

(* m arrives at those of the receivers that run. *)
Deliver(m, receivers) ==
  control_queue' = [s \in Slaves |->
    IF s \in receivers /\ main[s] # "off" /\ ~Gone(s) THEN Append(control_queue[s], m)
    ELSE control_queue[s]]

(* PushStateChange: every slave gets m, but for the losses. *)
Publish(m) ==
  \E lost \in SUBSET Slaves :
    /\ losses' = losses + Cardinality(lost)
    /\ losses' <= MaxLosses
    /\ Deliver(m, Slaves \ lost)

(* execute_future.get() returns, or throws what Terminate or an error put there. *)
ExecuteGranted ==
  /\ execute_promise = "value"
  /\ ExecStep("waitExecute", "activate")
  /\ execution_valid' = TRUE
  /\ UNCHANGED <<slave_status, stale, execute_promise, terminate_promise, mainVars, queueVars,
                 beatVars, rmiVars, faultVars>>

ExecuteDenied ==
  /\ execute_promise = "exception"
  /\ ExecStep("waitExecute", "terminate")
  /\ UNCHANGED <<slave_status, stale, execute_promise, terminate_promise, execution_valid,
                 mainVars, queueVars, beatVars, rmiVars, faultVars>>

PushStateChange(from, m, to) ==
  /\ ExecStep(from, to)
  /\ Publish(m)
  /\ UNCHANGED <<slave_status, stale, execute_promise, terminate_promise, execution_valid,
                 mainVars, control, terminate, container, live, beatVars, rmiVars, timeouts,
                 crashes, updates>>

(* terminate_future.wait_for: the duration is over or Terminate was called. *)
ExecutionOver ==
  /\ Timed \/ terminate_promise
  /\ ExecStep("running", "passivate")
  /\ UNCHANGED <<slave_status, stale, execute_promise, terminate_promise, execution_valid,
                 mainVars, queueVars, beatVars, rmiVars, faultVars>>

(* Faulty variant: silent slaves are waited for. *)
AllSlavesTerminated_NoTimeout ==
  execution_valid => \A s \in Slaves : slave_status[s] = "TERMINATED"

AllSlavesTerminated ==
  execution_valid => \A s \in Slaves : slave_status[s] = "TERMINATED" \/ stale[s]

(* Faulty variant: the slaves are not waited for. *)
Deregistered_NoWait ==
  /\ ExecStep("deregister", "remove")
  /\ UNCHANGED <<slave_status, stale, execute_promise, terminate_promise, execution_valid,
                 mainVars, queueVars, beatVars, rmiVars, faultVars>>

Deregistered ==
  /\ AllSlavesTerminated
  /\ ExecStep("deregister", "remove")
  /\ UNCHANGED <<slave_status, stale, execute_promise, terminate_promise, execution_valid,
                 mainVars, queueVars, beatVars, rmiVars, faultVars>>

(* RemoveDeployment, whose failure is only logged. *)
RemoveDeployment ==
  /\ ExecStep("remove", "interrupt")
  /\ UNCHANGED <<slave_status, stale, execute_promise, terminate_promise, execution_valid,
                 mainVars, queueVars, beatVars, rmiVars, faultVars>>

InterruptExecution ==
  /\ ExecStep("interrupt", "done")
  /\ interrupted' = [interrupted EXCEPT ![Master] = TRUE]
  /\ UNCHANGED <<slave_status, stale, execute_promise, terminate_promise, execution_valid,
                 main, retry_count, queueVars, beatVars, rmiVars, faultVars>>

-----------------------------------------------------------------------------
(* The surroundings. *)

(* SIGINT, or SHUTDOWN_EXPERIMENT from the environment manager. *)
Interrupt(s) ==
  /\ s \in Interruptible
  /\ main[s] # "off" /\ ~Gone(s) /\ ~interrupted[s]
  /\ interrupted' = [interrupted EXCEPT ![s] = TRUE]
  /\ UNCHANGED <<masterVars, main, retry_count, queueVars, beatVars, rmiVars, faultVars>>

(* CONFIGURE_EXPERIMENT from the environment manager is passed on.  It has *)
(* the nodes and containers that changed: to a slave it does not name, or  *)
(* that it does not reach, it is nothing.                                  *)
ExperimentUpdate ==
  /\ updates < MaxUpdates /\ ~Gone(Master)
  /\ updates' = updates + 1
  /\ \E changed \in SUBSET Slaves : Deliver("CONFIGURE", changed)
  /\ UNCHANGED <<masterVars, mainVars, control, terminate, container, live, beatVars, rmiVars,
                 timeouts, losses, crashes>>

(* The process of s dies. *)
Crash(s) ==
  /\ crashes < MaxCrashes
  /\ main[s] # "off" /\ ~Gone(s)
  /\ crashes' = crashes + 1
  /\ main' = [main EXCEPT ![s] = "crashed"]
  /\ control' = [control EXCEPT ![s] = "failed"]
  /\ wire' = [wire EXCEPT ![s] = "none"]
  /\ reply' = [reply EXCEPT ![s] = "none"]
  /\ net' = {[r EXCEPT !.late = @ \/ r.slave = s] : r \in net}
  /\ DestroyDeployment(s)
  /\ UNCHANGED <<masterVars, interrupted, retry_count, control_queue, terminate, failures,
                 socket, timeouts, losses, updates>>

-----------------------------------------------------------------------------
ExecutionStep ==
  /\ ~Gone(Master)
  /\ \/ ExecuteGranted
     \/ ExecuteDenied
     \/ PushStateChange("activate", "ACTIVATE", "running")
     \/ ExecutionOver
     \/ PushStateChange("passivate", "PASSIVATE", "terminate")
     \/ PushStateChange("terminate", "TERMINATE", "deregister")
     \/ Deregistered
     \/ RemoveDeployment
     \/ InterruptExecution

MainStep(s) ==
  \/ SendStartup(s) \/ StartupRefused(s) \/ StartupReply(s)
  \/ BuildContainer(s) \/ SendConfigured(s) \/ ConfiguredRefused(s) \/ ConfiguredReply(s)
  \/ Failing(s) \/ FailJoined(s) \/ TerminateDeployment(s) \/ Exit(s)
  \/ s = Master /\ (TerminateExecution \/ ExecutionJoined)

ControlStep(s) ==
  \/ ProcessMessage(s) \/ EndLoop(s)
  \/ SendTerminated(s) \/ TerminatedReply(s) \/ TerminatedRefused(s)

Timeout(s) == StartupTimeout(s) \/ ConfiguredTimeout(s) \/ TerminatedTimeout(s)

BeatStep(s) == Heartbeat(s) \/ HeartbeatRefused(s)

Next ==
  \/ ExecutionStep
  \/ \E r \in net : Serve(r) \/ LoseRequest(r)
  \/ \E s \in Slaves :
       \/ Start(s) \/ MainStep(s) \/ ControlStep(s) \/ Timeout(s)
       \/ BeatStep(s) \/ HeartbeatTimeout(s) \/ GrowStale(s)
       \/ Interrupt(s) \/ Crash(s)
  \/ ExperimentUpdate

(* Every thread that can go on does, a request on the wire is served, and  *)
(* a clock runs out: the duration, a silent slave's 5000 ms and, once the  *)
(* master is gone, a request's timeout.  Nothing makes a slave start, a    *)
(* fault happen or a late request arrive.                                  *)
Fairness ==
  /\ WF_vars(ExecutionStep)
  /\ WF_vars(\E r \in net : ~r.late /\ Serve(r))
  /\ \A s \in Slaves :
       /\ WF_vars(MainStep(s))
       /\ WF_vars(ControlStep(s))
       /\ WF_vars(Gone(Master) /\ Timeout(s))
       /\ WF_vars(BeatStep(s))
       /\ WF_vars(Gone(Master) /\ HeartbeatTimeout(s))
       /\ WF_vars(~beating[s] /\ GrowStale(s))

Spec == Init /\ [][Next]_vars

FairSpec == Spec /\ Fairness

-----------------------------------------------------------------------------
(* Properties. *)

(* Every variable keeps its type; a thread waits for exactly the request   *)
(* on the wire, and a reply answers one that is there.                     *)
TypeOK ==
  /\ slave_status \in [Slaves -> SlaveState]
  /\ stale \in [Slaves -> BOOLEAN]
  /\ execute_promise \in {"pending", "value", "exception"}
  /\ terminate_promise \in BOOLEAN /\ execution_valid \in BOOLEAN
  /\ exec \in ExecPoint
  /\ main \in [Slaves -> MainPoint]
  /\ interrupted \in [Slaves -> BOOLEAN]
  /\ retry_count \in [Slaves -> Nat]
  /\ control \in [Slaves -> ControlPoint]
  /\ control_queue \in [Slaves -> Seq(Message)]
  /\ terminate \in [Slaves -> BOOLEAN]
  /\ container \in [Slaves -> {"none", "CONFIGURED", "RUNNING", "NOT_RUNNING"}]
  /\ live \in [Slaves -> BOOLEAN]
  /\ beating \in [Slaves -> BOOLEAN]
  /\ failures \in [Slaves -> 0..HeartbeatRetries]
  /\ wire \in [Slaves -> Function \cup {"none"}]
  /\ socket \in [Slaves -> {"ready", "sent"}]
  /\ reply \in [Slaves -> {"none", "ok", "rmi"}]
  /\ net \subseteq [slave : Slaves, fn : Function, late : BOOLEAN]
  /\ \A s \in Slaves :
       wire[s] # "none" <=> main[s] \in {"startupWait", "reportWait"} \/ control[s] = "reportWait"
  /\ \A s \in Slaves : reply[s] # "none" => wire[s] # "none"

(* What the start of an execution waits for. *)
AllConfigured ==
  /\ execution_valid
  /\ \A t \in Slaves : slave_status[t] \in {"CONFIGURED", "TERMINATED"}

(* No container is activated, and as long as no update was published no    *)
(* port of a component runs, before every slave of the experiment has      *)
(* reported itself configured, whatever requests were repeated, late or    *)
(* lost: the execute promise is the barrier.  An update that finds a       *)
(* container built activates the ports it names at once.                   *)
StartsTogether ==
  \A s \in Slaves : container[s] = "RUNNING" \/ (live[s] /\ updates = 0) => AllConfigured

(* A slave that has deregistered stays so: a startup or configured report  *)
(* that arrives late does not bring it back, so the master's wait for its  *)
(* slaves is not undone.                                                   *)
TerminatedIsFinal ==
  [][\A s \in Slaves : slave_status[s] = "TERMINATED" => slave_status'[s] = "TERMINATED"]_vars

(* When the master of a valid execution removes the deployment nothing of  *)
(* it runs any more: no container and no port of a component.  Here as     *)
(* long as no request has timed out, without an operator who interrupts a  *)
(* slave, and with at most one update: a second CONFIGURE behind TERMINATE *)
(* activates the ports of the container that the first has built again.    *)
RemovedIsDown ==
  execution_valid /\ exec \in {"remove", "interrupt", "done"} /\ timeouts = 0 /\ updates <= 1 =>
    \A s \in Slaves : ~live[s] /\ container[s] \notin {"RUNNING", "NOT_RUNNING"}

(* A master that is told to stop does: ExecutionLoop's wait for the slaves *)
(* ends also when one of them crashed at any point, because it becomes     *)
(* stale.  Here without losses and timeouts: a slave that misses TERMINATE *)
(* and goes on beating, or whose SlaveTerminated report times out, keeps   *)
(* the master waiting.                                                     *)
InterruptedMasterExits == interrupted[Master] ~> Gone(Master)

(* Slaves die with the master: whatever a slave was doing when the master  *)
(* exited or crashed, its requests time out, its heartbeater gives up, and *)
(* its process ends.                                                       *)
SlavesDieWithMaster ==
  \A s \in Slaves : main[s] # "off" /\ Gone(Master) ~> Gone(s)

(* The wait of ExecutionLoop: the deployment is removed once every slave   *)
(* is offline (never started or terminated) or timed out.                  *)
WaitsForSlaves ==
  exec \in {"remove", "interrupt", "done"} =>
    \A s \in Slaves : slave_status[s] \in {"OFFLINE", "TERMINATED"} \/ stale[s] \/ ~beating[s]
=============================================================================
