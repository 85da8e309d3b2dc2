----------------------- MODULE ExperimentControlProofs -----------------------
(***************************************************************************)
(* Theorems about ExperimentControl for every set of slaves and every      *)
(* number of retries, timeouts, losses, crashes and updates.  ControlInv   *)
(* is the inductive invariant.  What is removed is down only where nothing *)
(* times out and only the master is interrupted: DownInv says more about   *)
(* those executions, with any number of lost publications, crashes and     *)
(* failing containers, and what ports do with at most one update.          *)
(***************************************************************************)
EXTENDS ExperimentControl, FiniteSetTheorems, TLAPS

MasterTyped ==
  /\ slave_status \in [Slaves -> SlaveState]
  /\ stale \in [Slaves -> BOOLEAN]
  /\ execute_promise \in {"pending", "value", "exception"}
  /\ terminate_promise \in BOOLEAN /\ execution_valid \in BOOLEAN
  /\ exec \in ExecPoint

MainTyped ==
  /\ main \in [Slaves -> MainPoint]
  /\ interrupted \in [Slaves -> BOOLEAN]
  /\ retry_count \in [Slaves -> Nat]

QueueTyped ==
  /\ control \in [Slaves -> ControlPoint]
  /\ control_queue \in [Slaves -> Seq(Message)]
  /\ terminate \in [Slaves -> BOOLEAN]
  /\ container \in [Slaves -> {"none", "CONFIGURED", "RUNNING", "NOT_RUNNING"}]
  /\ live \in [Slaves -> BOOLEAN]

(* The heartbeater of a slave starts with its container, and ends with the *)
(* last failure it may have.                                               *)
BeatTyped ==
  /\ beating \in [Slaves -> BOOLEAN]
  /\ failures \in [Slaves -> Nat]
  /\ \A s \in Slaves :
       /\ failures[s] <= HeartbeatRetries
       /\ beating[s] => failures[s] < HeartbeatRetries
       /\ main[s] \in {"off", "startup", "startupWait", "configure"} =>
            failures[s] = 0 /\ ~beating[s]

RmiTyped ==
  /\ wire \in [Slaves -> Function \cup {"none"}]
  /\ socket \in [Slaves -> {"ready", "sent"}]
  /\ reply \in [Slaves -> {"none", "ok", "rmi"}]
  /\ net \subseteq [slave : Slaves, fn : Function, late : BOOLEAN]

(* The request on the wire tells which thread waits for it, and where. *)
WireMatches ==
  \A s \in Slaves :
    /\ main[s] = "startupWait" <=> wire[s] = "SlaveStartup"
    /\ main[s] = "reportWait" <=> wire[s] \in {"SlaveConfigured", "SlaveConfigureError"}
    /\ control[s] = "reportWait" <=> wire[s] = "SlaveTerminated"
    /\ main[s] = "off" => control[s] = "off"

(* A request that is not late is the one on the wire and has no reply yet. *)
NetMatches ==
  /\ \A r \in net : ~r.late => wire[r.slave] = r.fn /\ reply[r.slave] = "none"
  /\ \A s \in Slaves : reply[s] # "none" => wire[s] # "none"

(* The barrier: ACTIVATE is sent by a valid execution, that by the promise, *)
(* and the promise was kept when all slaves were configured.                *)
ActivationValid ==
  \A s \in Slaves :
    /\ container[s] = "RUNNING" => execution_valid
    /\ \A i \in 1 .. Len(control_queue[s]) : control_queue[s][i] = "ACTIVATE" => execution_valid

ValidPromise ==
  /\ exec = "activate" => execution_valid
  /\ execution_valid => execute_promise = "value"

PromiseKept ==
  execute_promise = "value" => \A t \in Slaves : slave_status[t] \in {"CONFIGURED", "TERMINATED"}

NoConfigure(q) == \A i \in 1 .. Len(q) : q[i] # "CONFIGURE"

OneConfigure(q) ==
  \A i, j \in 1 .. Len(q) : q[i] = "CONFIGURE" /\ q[j] = "CONFIGURE" => i = j

(* Every CONFIGURE in a queue was published by an update of its own. *)
UpdatesCounted ==
  /\ updates \in Nat
  /\ \A s \in Slaves :
       /\ updates = 0 => NoConfigure(control_queue[s])
       /\ updates <= 1 => OneConfigure(control_queue[s])

(* The points of main before the container is built. *)
Unbuilt == {"off", "startup", "startupWait", "configure"}

(* Without updates main builds the container, and only ACTIVATE has its    *)
(* ports run.                                                              *)
PortsValid ==
  updates = 0 =>
    \A s \in Slaves :
      /\ live[s] => execution_valid
      /\ main[s] \in Unbuilt => container[s] = "none"

ControlInv ==
  /\ MasterTyped
  /\ MainTyped
  /\ QueueTyped
  /\ BeatTyped
  /\ RmiTyped
  /\ WireMatches
  /\ NetMatches
  /\ ActivationValid
  /\ ValidPromise
  /\ PromiseKept
  /\ UpdatesCounted
  /\ PortsValid

-----------------------------------------------------------------------------
(* What the slaves' states decide. *)

(* HandleSlaveStateChange lets the execution begin when all slaves are     *)
(* configured, and at no other time.                                       *)
LEMMA DecisionFacts ==
  ASSUME NEW status \in [Slaves -> SlaveState]
  PROVE  /\ Decision(status) \in {"pending", "value", "exception"}
         /\ Decision(status) = "value" => \A s \in Slaves : status[s] = "CONFIGURED"
<1>1. Decision(status) \in {"pending", "value", "exception"}
  BY DEF Decision
<1>2. ASSUME Decision(status) = "value" PROVE \A s \in Slaves : status[s] = "CONFIGURED"
  <2> DEFINE T == {s \in Slaves : status[s] = "CONFIGURED"}
  <2>1. Cardinality(T) = Cardinality(Slaves)
    BY <1>2 DEF Decision, Count
  <2>2. T = Slaves
    <3>1. T \in SUBSET Slaves /\ IsFiniteSet(Slaves)
      BY ControlAssumption
    <3> HIDE DEF T
    <3>2. QED
      BY <2>1, <3>1, FS_Subset
  <2>3. QED
    BY <2>2
<1>3. QED
  BY <1>1, <1>2

(* What serving a request does to the state of a slave. *)
StatusMoves(s, x) ==
  \/ slave_status[s] = "OFFLINE" /\ x = "Registered"
  \/ slave_status[s] = "Registered" /\ x \in {"CONFIGURED", "Error"}
  \/ x = "TERMINATED"

(* SetSlaveState stores the state, and keeps the promise once. *)
LEMMA SetSlaveStateFacts ==
  ASSUME ControlInv, NEW s \in Slaves, NEW x \in SlaveState, NEW result,
         SetSlaveState(s, x, result)
  PROVE  /\ slave_status' = [slave_status EXCEPT ![s] = x]
         /\ slave_status' \in [Slaves -> SlaveState]
         /\ \/ UNCHANGED execute_promise
            \/ execute_promise = "pending" /\ execute_promise' = Decision(slave_status')
<1>1. slave_status' = [slave_status EXCEPT ![s] = x]
  BY DEF SetSlaveState
<1>2. slave_status' \in [Slaves -> SlaveState]
  BY <1>1 DEF ControlInv, MasterTyped
<1>3. QED
  BY <1>1, <1>2 DEF SetSlaveState

(* Serving a request moves the state of its slave along, or rejects it. *)
LEMMA ServeFacts ==
  ASSUME ControlInv, NEW r \in net, Serve(r)
  PROVE  /\ r.slave \in Slaves /\ r.fn \in Function /\ r.late \in BOOLEAN
         /\ \/ UNCHANGED <<slave_status, execute_promise>>
            \/ \E x \in SlaveState :
                 /\ StatusMoves(r.slave, x)
                 /\ slave_status' = [slave_status EXCEPT ![r.slave] = x]
                 /\ slave_status' \in [Slaves -> SlaveState]
                 /\ \/ UNCHANGED execute_promise
                    \/ execute_promise = "pending" /\ execute_promise' = Decision(slave_status')
<1>1. r.slave \in Slaves /\ r.fn \in Function /\ r.late \in BOOLEAN
  BY DEF ControlInv, RmiTyped
<1> DEFINE Moved == \E x \in SlaveState :
                 /\ StatusMoves(r.slave, x)
                 /\ slave_status' = [slave_status EXCEPT ![r.slave] = x]
                 /\ slave_status' \in [Slaves -> SlaveState]
                 /\ \/ UNCHANGED execute_promise
                    \/ execute_promise = "pending" /\ execute_promise' = Decision(slave_status')
<1>2. ASSUME NEW x \in SlaveState, NEW result, StatusMoves(r.slave, x),
             SetSlaveState(r.slave, x, result)
      PROVE  Moved
  BY <1>1, <1>2, SetSlaveStateFacts
<1>3. PICK result \in {"ok", "rmi"} :
        CASE r.fn = "SlaveStartup"        -> HandleSlaveStartup(r.slave, result)
          [] r.fn = "SlaveConfigured"     -> HandleSlaveConfigured(r.slave, TRUE, result)
          [] r.fn = "SlaveConfigureError" -> HandleSlaveConfigured(r.slave, FALSE, result)
          [] r.fn = "SlaveTerminated"     -> HandleSlaveTerminated(r.slave, result)
  BY DEF Serve
<1>4. CASE r.fn = "SlaveStartup"
  <2>1. HandleSlaveStartup(r.slave, result)
    BY <1>3, <1>4
  <2>2. QED
    BY <1>1, <1>2, <2>1 DEF HandleSlaveStartup, Reject, StatusMoves, SlaveState
<1>5. CASE r.fn = "SlaveConfigured"
  <2>1. HandleSlaveConfigured(r.slave, TRUE, result)
    BY <1>3, <1>5
  <2>2. QED
    BY <1>1, <1>2, <2>1 DEF HandleSlaveConfigured, Reject, StatusMoves, SlaveState
<1>6. CASE r.fn = "SlaveConfigureError"
  <2>1. HandleSlaveConfigured(r.slave, FALSE, result)
    BY <1>3, <1>6
  <2>2. QED
    BY <1>1, <1>2, <2>1 DEF HandleSlaveConfigured, Reject, StatusMoves, SlaveState
<1>7. CASE r.fn = "SlaveTerminated"
  <2>1. HandleSlaveTerminated(r.slave, result)
    BY <1>3, <1>7
  <2>2. QED
    BY <1>1, <1>2, <2>1 DEF HandleSlaveTerminated, StatusMoves, SlaveState
<1>8. QED
  BY <1>1, <1>4, <1>5, <1>6, <1>7 DEF Function

-----------------------------------------------------------------------------
(* Each part of ControlInv is kept. *)

(* The messages that ExecutionLoop publishes. *)
Pushes ==
  \/ PushStateChange("activate", "ACTIVATE", "running")
  \/ PushStateChange("passivate", "PASSIVATE", "terminate")
  \/ PushStateChange("terminate", "TERMINATE", "deregister")

(* The actions of Next, each with its parameter. *)
LEMMA NextCases ==
  ASSUME [Next]_vars
  PROVE  \/ ExecuteGranted
         \/ ExecuteDenied
         \/ Pushes
         \/ ExecutionOver
         \/ Deregistered
         \/ RemoveDeployment
         \/ InterruptExecution
         \/ \E r \in net : Serve(r)
         \/ \E r \in net : LoseRequest(r)
         \/ \E s \in Slaves : Start(s)
         \/ \E s \in Slaves : SendStartup(s)
         \/ \E s \in Slaves : StartupRefused(s)
         \/ \E s \in Slaves : StartupTimeout(s)
         \/ \E s \in Slaves : StartupReply(s)
         \/ \E s \in Slaves : BuildContainer(s)
         \/ \E s \in Slaves : SendConfigured(s)
         \/ \E s \in Slaves : ConfiguredRefused(s)
         \/ \E s \in Slaves : ConfiguredTimeout(s)
         \/ \E s \in Slaves : ConfiguredReply(s)
         \/ \E s \in Slaves : Failing(s)
         \/ \E s \in Slaves : FailJoined(s)
         \/ \E s \in Slaves : TerminateDeployment(s)
         \/ \E s \in Slaves : Exit(s)
         \/ \E s \in Slaves : ProcessMessage(s)
         \/ \E s \in Slaves : EndLoop(s)
         \/ \E s \in Slaves : SendTerminated(s)
         \/ \E s \in Slaves : TerminatedReply(s)
         \/ \E s \in Slaves : TerminatedRefused(s)
         \/ \E s \in Slaves : TerminatedTimeout(s)
         \/ \E s \in Slaves : Heartbeat(s)
         \/ \E s \in Slaves : HeartbeatRefused(s)
         \/ \E s \in Slaves : HeartbeatTimeout(s)
         \/ \E s \in Slaves : GrowStale(s)
         \/ \E s \in Slaves : Interrupt(s)
         \/ \E s \in Slaves : Crash(s)
         \/ TerminateExecution
         \/ ExecutionJoined
         \/ ExperimentUpdate
         \/ UNCHANGED vars
BY DEF Next, ExecutionStep, Pushes, MainStep, ControlStep, Timeout, BeatStep

(* MasterTyped: the master's own variables. *)
LEMMA MasterTypedStep ==
  ASSUME ControlInv, [Next]_vars
  PROVE  MasterTyped'
<1>0. MasterTyped
  BY DEF ControlInv
<1>1. ASSUME ExecuteGranted \/ ExecuteDenied \/ ExecutionOver \/ Deregistered \/
             RemoveDeployment \/ InterruptExecution
      PROVE  MasterTyped'
  BY <1>0, <1>1
    DEF ExecuteGranted, ExecuteDenied, ExecutionOver, Deregistered, RemoveDeployment,
        InterruptExecution, ExecStep, MasterTyped, ExecPoint
<1>2. ASSUME Pushes PROVE MasterTyped'
  BY <1>0, <1>2 DEF Pushes, PushStateChange, ExecStep, MasterTyped, ExecPoint
<1>3. ASSUME TerminateExecution PROVE MasterTyped'
  BY <1>0, <1>3 DEF TerminateExecution, MasterTyped
<1>4. ASSUME NEW r \in net, Serve(r) PROVE MasterTyped'
  <2>1. slave_status' \in [Slaves -> SlaveState]
    BY <1>0, <1>4, ServeFacts DEF MasterTyped
  <2>2. execute_promise' \in {"pending", "value", "exception"}
    BY <1>0, <2>1, <1>4, ServeFacts, DecisionFacts DEF MasterTyped
  <2>3. QED
    BY <1>0, <2>1, <2>2, <1>4 DEF Serve, MasterTyped
<1>5. ASSUME NEW s \in Slaves, Heartbeat(s) \/ GrowStale(s) PROVE MasterTyped'
  BY <1>0, <1>5 DEF Heartbeat, GrowStale, MasterTyped
<1>6. ASSUME UNCHANGED <<slave_status, stale, execute_promise, terminate_promise, execution_valid, exec>>
      PROVE  MasterTyped'
  BY <1>0, <1>6 DEF MasterTyped
<1>7. QED
  BY <1>1, <1>2, <1>3, <1>4, <1>5, <1>6, NextCases
    DEF ExecutionJoined, ExperimentUpdate, Start, SendStartup, StartupRefused,
        StartupTimeout, StartupReply, BuildContainer, SendConfigured, ConfiguredRefused,
        ConfiguredTimeout, ConfiguredReply, Failing, FailJoined, TerminateDeployment, Exit,
        ProcessMessage, EndLoop, SendTerminated, TerminatedReply, TerminatedRefused,
        TerminatedTimeout, HeartbeatRefused, HeartbeatTimeout, Interrupt, Crash, LoseRequest,
        StartupFailed, masterVars, mainVars, queueVars, beatVars, rmiVars, faultVars, vars

(* MainTyped: the main threads. *)
LEMMA MainTypedStep ==
  ASSUME ControlInv, [Next]_vars
  PROVE  MainTyped'
<1>0. MainTyped
  BY DEF ControlInv
<1>1. ASSUME NEW s \in Slaves, Start(s) \/ SendStartup(s) \/ StartupRefused(s) \/
                               StartupTimeout(s) \/ StartupReply(s)
      PROVE  MainTyped'
  BY <1>0, <1>1
    DEF Start, SendStartup, StartupRefused, StartupTimeout, StartupReply, StartupFailed,
        MainTyped, MainPoint
<1>2. ASSUME NEW s \in Slaves, BuildContainer(s) \/ SendConfigured(s) \/
                               ConfiguredRefused(s) \/ ConfiguredTimeout(s) \/
                               ConfiguredReply(s)
      PROVE  MainTyped'
  BY <1>0, <1>2
    DEF BuildContainer, SendConfigured, ConfiguredRefused, ConfiguredTimeout,
        ConfiguredReply, MainTyped, MainPoint
<1>3. ASSUME NEW s \in Slaves, Failing(s) \/ FailJoined(s) \/ TerminateDeployment(s) \/
                               Exit(s)
      PROVE  MainTyped'
  BY <1>0, <1>3 DEF Failing, FailJoined, TerminateDeployment, Exit, MainTyped, MainPoint
<1>4. ASSUME TerminateExecution \/ ExecutionJoined \/ InterruptExecution PROVE MainTyped'
  BY <1>0, <1>4, ControlAssumption
    DEF TerminateExecution, ExecutionJoined, InterruptExecution, MainTyped, MainPoint
<1>5. ASSUME NEW s \in Slaves, TerminatedReply(s) \/ HeartbeatRefused(s) \/
                               HeartbeatTimeout(s) \/ Interrupt(s)
      PROVE  MainTyped'
  BY <1>0, <1>5
    DEF TerminatedReply, HeartbeatRefused, HeartbeatTimeout, Interrupt, HeartbeatFailed,
        MainTyped, MainPoint
<1>6. ASSUME NEW s \in Slaves, Crash(s) PROVE MainTyped'
  BY <1>0, <1>6 DEF Crash, MainTyped, MainPoint
<1>7. ASSUME UNCHANGED <<main, interrupted, retry_count>> PROVE MainTyped'
  BY <1>0, <1>7 DEF MainTyped
<1>8. QED
  BY <1>1, <1>2, <1>3, <1>4, <1>5, <1>6, <1>7, NextCases
    DEF ExecuteGranted, ExecuteDenied, ExecutionOver, Deregistered, RemoveDeployment,
        ExperimentUpdate, ProcessMessage, EndLoop, SendTerminated, TerminatedRefused,
        TerminatedTimeout, Heartbeat, GrowStale, Serve, LoseRequest, Pushes, PushStateChange,
        masterVars, mainVars, queueVars, beatVars, rmiVars, faultVars, vars

(* A message is sent to some of the slaves. *)
Sent(m) == \E receivers \in SUBSET Slaves : Deliver(m, receivers)

(* PushStateChange and ExperimentUpdate append a message to some queues. *)
LEMMA PublishFacts ==
  ASSUME ControlInv, NEW m \in Message, Sent(m)
  PROVE  /\ control_queue' \in [Slaves -> Seq(Message)]
         /\ \A s \in Slaves : \/ control_queue'[s] = control_queue[s]
                              \/ control_queue'[s] = Append(control_queue[s], m)
BY DEF Sent, Deliver, ControlInv, QueueTyped

(* Which messages are published, and from where. *)
LEMMA PushedMessages ==
  ASSUME Pushes \/ ExperimentUpdate
  PROVE  /\ \E m \in Message :
              /\ Sent(m)
              /\ m = "ACTIVATE" => exec = "activate"
              /\ m = "CONFIGURE" => updates' = updates + 1
              /\ m # "CONFIGURE" => updates' = updates
         /\ UNCHANGED <<control, terminate, container, live>>
<1>1. ASSUME NEW m \in Message, Publish(m) PROVE Sent(m)
  BY <1>1 DEF Publish, Sent
<1>2. CASE ExperimentUpdate
  BY <1>2 DEF ExperimentUpdate, Sent, Message
<1>3. CASE Pushes
  BY <1>1, <1>3 DEF Pushes, PushStateChange, ExecStep, Message
<1>4. QED
  BY <1>2, <1>3

(* A message is taken from the front of a queue. *)
LEMMA ProcessFacts ==
  ASSUME ControlInv, NEW s \in Slaves, ProcessMessage(s)
  PROVE  /\ Head(control_queue[s]) \in Message
         /\ Head(control_queue[s]) = control_queue[s][1] /\ 1 \in 1 .. Len(control_queue[s])
         /\ control_queue' = [control_queue EXCEPT ![s] = Tail(@)]
         /\ Tail(control_queue[s]) \in Seq(Message)
         /\ \A i \in 1 .. Len(Tail(control_queue[s])) :
              /\ i + 1 \in 1 .. Len(control_queue[s])
              /\ Tail(control_queue[s])[i] = control_queue[s][i + 1]
<1> DEFINE q == control_queue[s]
<1>1. q \in Seq(Message) /\ q # <<>>
  BY DEF ControlInv, QueueTyped, ProcessMessage
<1>2. control_queue' = [control_queue EXCEPT ![s] = Tail(@)]
  BY DEF ProcessMessage
<1> HIDE DEF q
<1>3. Head(q) \in Message /\ Head(q) = q[1] /\ 1 \in 1 .. Len(q) /\ Tail(q) \in Seq(Message)
  BY <1>1
<1>4. \A i \in 1 .. Len(Tail(q)) : i + 1 \in 1 .. Len(q) /\ Tail(q)[i] = q[i + 1]
  BY <1>1
<1>5. QED
  BY <1>2, <1>3, <1>4 DEF q

(* What a message makes of the ports of a slave. *)
LEMMA PortsFacts ==
  ASSUME QueueTyped, NEW s \in Slaves, NEW m, ApplyPorts(s, m)
  PROVE  /\ live' \in [Slaves -> BOOLEAN]
         /\ live'[s] \in PortsAfter(m, container[s], live[s])
         /\ \A t \in Slaves \ {s} : live'[t] = live[t]
<1>1. live \in [Slaves -> BOOLEAN]
  BY DEF QueueTyped
<1>2. PICK running \in PortsAfter(m, container[s], live[s]) : live' = [live EXCEPT ![s] = running]
  BY DEF ApplyPorts
<1>3. running \in BOOLEAN
  BY <1>1, <1>2 DEF PortsAfter
<1>4. QED
  BY <1>1, <1>2, <1>3

(* QueueTyped: the control queues and the containers. *)
LEMMA QueueTypedStep ==
  ASSUME ControlInv, [Next]_vars
  PROVE  QueueTyped'
<1>0. QueueTyped
  BY DEF ControlInv
<1>1. ASSUME NEW s \in Slaves, BuildContainer(s) PROVE QueueTyped'
  <2>1. live' \in [Slaves -> BOOLEAN]
    BY <1>0, <1>1, PortsFacts DEF BuildContainer
  <2>2. QED
    BY <1>0, <1>1, <2>1 DEF BuildContainer, Apply, QueueTyped
<1>8. ASSUME NEW s \in Slaves, Start(s) \/ Failing(s) \/ FailJoined(s) \/
                               TerminateDeployment(s) \/ Exit(s) \/ Crash(s)
      PROVE  QueueTyped'
  BY <1>0, <1>8
    DEF Start, Failing, FailJoined, TerminateDeployment, Exit, Crash,
        DestroyDeployment, QueueTyped, ControlPoint
<1>2. ASSUME ExecutionJoined PROVE QueueTyped'
  BY <1>0, <1>2, ControlAssumption DEF ExecutionJoined, QueueTyped, ControlPoint
<1>3. ASSUME NEW s \in Slaves, EndLoop(s) \/ SendTerminated(s) \/ TerminatedReply(s) \/
                               TerminatedRefused(s) \/ TerminatedTimeout(s)
      PROVE  QueueTyped'
  BY <1>0, <1>3
    DEF EndLoop, SendTerminated, TerminatedReply, TerminatedRefused, TerminatedTimeout,
        QueueTyped, ControlPoint
<1>4. ASSUME Pushes \/ ExperimentUpdate PROVE QueueTyped'
  BY <1>0, <1>4, PublishFacts, PushedMessages DEF QueueTyped
<1>5. ASSUME NEW s \in Slaves, ProcessMessage(s) PROVE QueueTyped'
  <2>1. control_queue' \in [Slaves -> Seq(Message)]
    BY <1>0, <1>5, ProcessFacts DEF QueueTyped
  <2>2. /\ control' \in [Slaves -> ControlPoint]
        /\ container' \in [Slaves -> {"none", "CONFIGURED", "RUNNING", "NOT_RUNNING"}]
    BY <1>0, <1>5 DEF ProcessMessage, Apply, QueueTyped, ControlPoint
  <2>3. terminate' \in [Slaves -> BOOLEAN]
    <3>1. \A b \in BOOLEAN : \A m : (b \/ m = "TERMINATE") \in BOOLEAN
      OBVIOUS
    <3>2. QED
      BY <1>0, <3>1, <1>5 DEF ProcessMessage, QueueTyped
  <2>4. live' \in [Slaves -> BOOLEAN]
    BY <1>0, <1>5, PortsFacts DEF ProcessMessage
  <2>5. QED
    BY <2>1, <2>2, <2>3, <2>4 DEF QueueTyped
<1>6. ASSUME UNCHANGED <<control, control_queue, terminate, container, live>>
      PROVE  QueueTyped'
  BY <1>0, <1>6 DEF QueueTyped
<1>7. QED
  BY <1>1, <1>2, <1>3, <1>4, <1>5, <1>6, <1>8, NextCases
    DEF ExecuteGranted, ExecuteDenied, ExecutionOver, Deregistered, RemoveDeployment,
        InterruptExecution, TerminateExecution, SendStartup, StartupRefused, StartupTimeout,
        StartupReply, SendConfigured, ConfiguredRefused, ConfiguredTimeout, ConfiguredReply,
        Heartbeat, HeartbeatRefused, HeartbeatTimeout, GrowStale, Interrupt, Serve,
        LoseRequest, StartupFailed, masterVars, mainVars, queueVars, beatVars, rmiVars,
        faultVars, vars

(* BeatTyped: the heartbeater counts no further than HeartbeatRetries. *)
LEMMA BeatTypedStep ==
  ASSUME ControlInv, [Next]_vars
  PROVE  BeatTyped'
<1>0. BeatTyped /\ main \in [Slaves -> MainPoint]
  BY DEF ControlInv, MainTyped
<1>1. ASSUME NEW s \in Slaves, Start(s) \/ SendStartup(s) \/ StartupRefused(s) \/
                               StartupTimeout(s) \/ StartupReply(s)
      PROVE  BeatTyped'
  BY <1>0, <1>1
    DEF Start, SendStartup, StartupRefused, StartupTimeout, StartupReply, StartupFailed,
        BeatTyped, beatVars
<1>2. ASSUME NEW s \in Slaves, SendConfigured(s) \/ ConfiguredRefused(s) \/
                               ConfiguredTimeout(s) \/ ConfiguredReply(s) \/ Failing(s) \/
                               TerminateDeployment(s)
      PROVE  BeatTyped'
  BY <1>0, <1>2
    DEF SendConfigured, ConfiguredRefused, ConfiguredTimeout, ConfiguredReply, Failing,
        TerminateDeployment, BeatTyped, beatVars
<1>3. ASSUME TerminateExecution \/ ExecutionJoined PROVE BeatTyped'
  BY <1>0, <1>3 DEF TerminateExecution, ExecutionJoined, BeatTyped, beatVars
<1>4. ASSUME NEW s \in Slaves, BuildContainer(s) PROVE BeatTyped'
  BY <1>0, <1>4, ControlAssumption DEF BuildContainer, BeatTyped
<1>5. ASSUME NEW s \in Slaves, FailJoined(s) \/ Exit(s) \/ Crash(s) PROVE BeatTyped'
  BY <1>0, <1>5 DEF FailJoined, Exit, Crash, DestroyDeployment, BeatTyped
<1>6. ASSUME NEW s \in Slaves, TerminatedReply(s) PROVE BeatTyped'
  BY <1>0, <1>6 DEF TerminatedReply, BeatTyped
<1>7. ASSUME NEW s \in Slaves, Heartbeat(s) PROVE BeatTyped'
  BY <1>0, <1>7, ControlAssumption DEF Heartbeat, BeatTyped, mainVars
<1>8. ASSUME NEW s \in Slaves, HeartbeatRefused(s) \/ HeartbeatTimeout(s) PROVE BeatTyped'
  <2>1. /\ beating[s] /\ main' = main
        /\ failures' = [failures EXCEPT ![s] = @ + 1]
        /\ beating' = [beating EXCEPT ![s] = failures'[s] < HeartbeatRetries]
    BY <1>8 DEF HeartbeatRefused, HeartbeatTimeout, HeartbeatFailed
  <2>2. /\ failures[s] \in Nat /\ failures[s] < HeartbeatRetries /\ HeartbeatRetries \in Nat
        /\ main[s] \notin {"off", "startup", "startupWait", "configure"}
    BY <1>0, <2>1, ControlAssumption DEF BeatTyped
  <2>3. /\ failures' \in [Slaves -> Nat] /\ failures'[s] = failures[s] + 1
        /\ \A t \in Slaves \ {s} : failures'[t] = failures[t] /\ beating'[t] = beating[t]
    BY <1>0, <2>1, <2>2 DEF BeatTyped
  <2>4. failures'[s] <= HeartbeatRetries
    BY <2>2, <2>3
  <2>5. beating' \in [Slaves -> BOOLEAN] /\ (beating'[s] => failures'[s] < HeartbeatRetries)
    <3> DEFINE b == failures'[s] < HeartbeatRetries
    <3>1. b \in BOOLEAN /\ beating' = [beating EXCEPT ![s] = b] /\ beating \in [Slaves -> BOOLEAN]
      BY <1>0, <2>1 DEF BeatTyped
    <3> HIDE DEF b
    <3>2. beating' \in [Slaves -> BOOLEAN] /\ beating'[s] = b
      BY <3>1
    <3>3. QED
      BY <3>2 DEF b
  <2>6. QED
    BY <1>0, <2>1, <2>2, <2>3, <2>4, <2>5 DEF BeatTyped
<1>9. ASSUME UNCHANGED <<main, beating, failures>> PROVE BeatTyped'
  BY <1>0, <1>9 DEF BeatTyped
<1>10. QED
  BY <1>1, <1>2, <1>3, <1>4, <1>5, <1>6, <1>7, <1>8, <1>9, NextCases
    DEF ExecuteGranted, ExecuteDenied, ExecutionOver, Deregistered, RemoveDeployment,
        InterruptExecution, ExperimentUpdate, ProcessMessage, EndLoop, SendTerminated,
        TerminatedRefused, TerminatedTimeout, GrowStale, Interrupt, Serve, LoseRequest,
        Pushes, PushStateChange, masterVars, mainVars, queueVars, beatVars, rmiVars,
        faultVars, vars

(* The steps of a ProtoRequester keep the types of its state. *)
LEMMA RequestTypes ==
  ASSUME RmiTyped, NEW s \in Slaves,
         \/ \E fn \in Function : Call(s, fn)
         \/ Refused(s) \/ Answered(s) \/ TimedOut(s)
  PROVE  RmiTyped'
<1>1. ASSUME NEW fn \in Function, Call(s, fn) PROVE RmiTyped'
  <2> DEFINE request == [slave |-> s, fn |-> fn, late |-> FALSE]
  <2>1. request \in [slave : Slaves, fn : Function, late : BOOLEAN]
    OBVIOUS
  <2>2. net' = net \cup {request}
    BY <1>1 DEF Call
  <2>3. wire' \in [Slaves -> Function \cup {"none"}]
    BY <1>1 DEF Call, RmiTyped
  <2> HIDE DEF request
  <2>4. QED
    BY <1>1, <2>1, <2>2, <2>3 DEF Call, RmiTyped
<1>2. CASE Refused(s)
  BY <1>2 DEF Refused, RmiTyped
<1>3. CASE Answered(s)
  BY <1>3 DEF Answered, RmiTyped
<1>4. CASE TimedOut(s)
  <2> DEFINE request == [slave |-> s, fn |-> wire[s], late |-> FALSE]
             Request == [slave : Slaves, fn : Function, late : BOOLEAN]
  <2>1. /\ wire' \in [Slaves -> Function \cup {"none"}]
        /\ socket' \in [Slaves -> {"ready", "sent"}]
        /\ reply' \in [Slaves -> {"none", "ok", "rmi"}]
    BY <1>4 DEF TimedOut, RmiTyped
  <2>2. net \subseteq Request
    BY DEF RmiTyped
  <2>3. request \in Request => [request EXCEPT !.late = TRUE] \in Request
    OBVIOUS
  <2>4. net' = IF request \in net THEN (net \ {request}) \cup {[request EXCEPT !.late = TRUE]}
                 ELSE net
    BY <1>4 DEF TimedOut
  <2>5. net' \subseteq Request
    <3> HIDE DEF request, Request
    <3>1. QED
      BY <2>2, <2>3, <2>4
  <2>6. QED
    BY <2>1, <2>5 DEF RmiTyped
<1>5. QED
  BY <1>1, <1>2, <1>3, <1>4

(* RmiTyped: the requests and replies. *)
LEMMA RmiTypedStep ==
  ASSUME ControlInv, [Next]_vars
  PROVE  RmiTyped'
<1>0. RmiTyped
  BY DEF ControlInv
<1>1. ASSUME NEW s \in Slaves, SendStartup(s) \/ StartupRefused(s) \/ StartupTimeout(s) \/
                               StartupReply(s) \/ SendConfigured(s) \/
                               ConfiguredRefused(s) \/ ConfiguredTimeout(s) \/
                               ConfiguredReply(s) \/ SendTerminated(s) \/
                               TerminatedReply(s) \/ TerminatedRefused(s) \/
                               TerminatedTimeout(s) \/ HeartbeatRefused(s)
      PROVE  RmiTyped'
  BY <1>0, <1>1, RequestTypes
    DEF SendStartup, StartupRefused, StartupTimeout, StartupReply, SendConfigured,
        ConfiguredRefused, ConfiguredTimeout, ConfiguredReply, SendTerminated,
        TerminatedReply, TerminatedRefused, TerminatedTimeout, HeartbeatRefused, Function
<1>2. ASSUME NEW s \in Slaves, HeartbeatTimeout(s) PROVE RmiTyped'
  BY <1>0, <1>2 DEF HeartbeatTimeout, RmiTyped
<1>3. ASSUME NEW r \in net, LoseRequest(r) PROVE RmiTyped'
  BY <1>0, <1>3 DEF LoseRequest, RmiTyped
<1>4. ASSUME NEW r \in net, Serve(r) PROVE RmiTyped'
  BY <1>0, <1>4, ServeFacts DEF Serve, RmiTyped
<1>5. ASSUME NEW s \in Slaves, Crash(s) PROVE RmiTyped'
  <2>1. /\ wire' \in [Slaves -> Function \cup {"none"}]
        /\ socket' \in [Slaves -> {"ready", "sent"}]
        /\ reply' \in [Slaves -> {"none", "ok", "rmi"}]
    BY <1>0, <1>5 DEF Crash, RmiTyped
  <2>2. ASSUME NEW q \in net
        PROVE  [q EXCEPT !.late = @ \/ q.slave = s] \in [slave : Slaves, fn : Function, late : BOOLEAN]
    BY <1>0 DEF RmiTyped
  <2>3. net' = {[q EXCEPT !.late = @ \/ q.slave = s] : q \in net}
    BY <1>5 DEF Crash
  <2>4. QED
    BY <2>1, <2>2, <2>3 DEF RmiTyped
<1>6. ASSUME UNCHANGED <<wire, socket, reply, net>> PROVE RmiTyped'
  BY <1>0, <1>6 DEF RmiTyped
<1>7. QED
  BY <1>1, <1>2, <1>3, <1>4, <1>5, <1>6, NextCases
    DEF ExecuteGranted, ExecuteDenied, ExecutionOver, Deregistered, RemoveDeployment,
        InterruptExecution, TerminateExecution, ExecutionJoined, ExperimentUpdate, Start,
        BuildContainer, Failing, FailJoined, TerminateDeployment, Exit, ProcessMessage,
        EndLoop, Heartbeat, GrowStale, Interrupt, Pushes, PushStateChange, masterVars,
        mainVars, queueVars, beatVars, rmiVars, faultVars, vars

(* WireMatches: one request at a time, and one thread that waits for it. *)
LEMMA WireMatchesStep ==
  ASSUME ControlInv, [Next]_vars
  PROVE  WireMatches'
<1>0. /\ WireMatches /\ main \in [Slaves -> MainPoint] /\ control \in [Slaves -> ControlPoint]
      /\ wire \in [Slaves -> Function \cup {"none"}]
  BY DEF ControlInv, MainTyped, QueueTyped, RmiTyped
<1>1. ASSUME NEW s \in Slaves, Start(s) PROVE WireMatches'
  BY <1>0, <1>1 DEF Start, WireMatches, rmiVars
<1>2. ASSUME NEW s \in Slaves, SendStartup(s) \/ StartupRefused(s) \/ StartupTimeout(s) \/
                               StartupReply(s)
      PROVE  WireMatches'
  BY <1>0, <1>2
    DEF SendStartup, StartupRefused, StartupTimeout, StartupReply, Call, Refused, TimedOut,
        Answered, StartupFailed, WireMatches, queueVars
<1>3. ASSUME NEW s \in Slaves, SendConfigured(s) \/ ConfiguredRefused(s) \/
                               ConfiguredTimeout(s) \/ ConfiguredReply(s)
      PROVE  WireMatches'
  BY <1>0, <1>3
    DEF SendConfigured, ConfiguredRefused, ConfiguredTimeout, ConfiguredReply, Call, Refused,
        TimedOut, Answered, WireMatches, queueVars
<1>4. ASSUME NEW s \in Slaves, BuildContainer(s) \/ Failing(s) \/ FailJoined(s) \/
                               TerminateDeployment(s) \/ Exit(s)
      PROVE  WireMatches'
  BY <1>0, <1>4
    DEF BuildContainer, Failing, FailJoined, TerminateDeployment, Exit, WireMatches, rmiVars
<1>5. ASSUME TerminateExecution \/ ExecutionJoined PROVE WireMatches'
  BY <1>0, <1>5, ControlAssumption
    DEF TerminateExecution, ExecutionJoined, WireMatches, rmiVars, queueVars
<1>6. ASSUME NEW s \in Slaves, ProcessMessage(s) \/ EndLoop(s) PROVE WireMatches'
  BY <1>0, <1>6 DEF ProcessMessage, EndLoop, WireMatches, rmiVars, mainVars
<1>7. ASSUME NEW s \in Slaves, SendTerminated(s) \/ TerminatedReply(s) \/
                               TerminatedRefused(s) \/ TerminatedTimeout(s)
      PROVE  WireMatches'
  BY <1>0, <1>7
    DEF SendTerminated, TerminatedReply, TerminatedRefused, TerminatedTimeout, Call, Refused,
        TimedOut, Answered, WireMatches, mainVars
<1>8. ASSUME NEW s \in Slaves, Crash(s) PROVE WireMatches'
  BY <1>0, <1>8 DEF Crash, WireMatches
<1>9. ASSUME UNCHANGED <<main, control, wire>> PROVE WireMatches'
  BY <1>0, <1>9 DEF WireMatches
<1>10. QED
  BY <1>1, <1>2, <1>3, <1>4, <1>5, <1>6, <1>7, <1>8, <1>9, NextCases
    DEF ExecuteGranted, ExecuteDenied, ExecutionOver, Deregistered, RemoveDeployment,
        InterruptExecution, ExperimentUpdate, Heartbeat, HeartbeatRefused, HeartbeatTimeout,
        GrowStale, Interrupt, Serve, LoseRequest, Pushes, PushStateChange, masterVars,
        mainVars, queueVars, beatVars, rmiVars, faultVars, vars, Refused

(* NetMatches is kept by the steps of a ProtoRequester. *)
LEMMA RequestMatches ==
  ASSUME RmiTyped, NetMatches, NEW s \in Slaves,
         \/ \E fn \in Function : Call(s, fn)
         \/ Refused(s) \/ Answered(s) \/ TimedOut(s)
  PROVE  NetMatches'
<1>0. \A q \in net : q \in [slave : Slaves, fn : Function, late : BOOLEAN]
  BY DEF RmiTyped
<1>1. \A q \in net : q.fn # "none"
  BY <1>0 DEF Function
<1>2. wire \in [Slaves -> Function \cup {"none"}] /\ reply \in [Slaves -> {"none", "ok", "rmi"}]
  BY DEF RmiTyped
<1>3. ASSUME NEW fn \in Function, Call(s, fn) PROVE NetMatches'
  <2> DEFINE request == [slave |-> s, fn |-> fn, late |-> FALSE]
  <2>1. /\ wire[s] = "none" /\ wire' = [wire EXCEPT ![s] = fn] /\ reply' = reply
        /\ net' = net \cup {request}
    BY <1>3 DEF Call
  <2>2. reply[s] = "none" /\ fn # "none"
    BY <2>1 DEF NetMatches, Function
  <2>3. \A q \in net : ~q.late => q.slave # s
    BY <1>1, <2>1 DEF NetMatches
  <2>4. \A q \in net : ~q.late => wire'[q.slave] = q.fn /\ reply'[q.slave] = "none"
    BY <1>0, <1>2, <2>1, <2>3 DEF NetMatches
  <2>5. request.slave = s /\ request.fn = fn
    OBVIOUS
  <2>6. wire'[s] = fn /\ \A t \in Slaves \ {s} : wire'[t] = wire[t]
    BY <1>2, <2>1
  <2> HIDE DEF request
  <2>7. \A q \in net' : ~q.late => wire'[q.slave] = q.fn /\ reply'[q.slave] = "none"
    BY <2>1, <2>2, <2>4, <2>5, <2>6
  <2>8. \A t \in Slaves : reply'[t] # "none" => wire'[t] # "none"
    BY <2>1, <2>2, <2>6 DEF NetMatches
  <2>9. QED
    BY <2>7, <2>8 DEF NetMatches
<1>4. CASE Refused(s)
  BY <1>4 DEF Refused, NetMatches
<1>5. CASE Answered(s)
  <2>1. \A q \in net : ~q.late => q.slave # s
    BY <1>5 DEF Answered, NetMatches
  <2>2. QED
    BY <1>0, <1>2, <1>5, <2>1 DEF Answered, NetMatches
<1>6. CASE TimedOut(s)
  <2> DEFINE request == [slave |-> s, fn |-> wire[s], late |-> FALSE]
             overdue == [request EXCEPT !.late = TRUE]
  <2>1. /\ wire' = [wire EXCEPT ![s] = "none"] /\ reply' = [reply EXCEPT ![s] = "none"]
        /\ net' = IF request \in net THEN (net \ {request}) \cup {overdue} ELSE net
    BY <1>6 DEF TimedOut
  <2>2. ASSUME NEW q \in net, ~q.late, q.slave = s PROVE q = request
    <3>1. q.fn = wire[s] /\ q.late = FALSE
      BY <1>0, <2>2 DEF NetMatches
    <3>2. QED
      BY <1>0, <2>2, <3>1
  <2>3. overdue.late
    OBVIOUS
  <2> HIDE DEF request, overdue
  <2>4. \A q \in net' : ~q.late => q \in net /\ q.slave # s
    BY <2>1, <2>2, <2>3
  <2>5. QED
    BY <1>0, <1>2, <2>1, <2>4 DEF NetMatches
<1>7. QED
  BY <1>3, <1>4, <1>5, <1>6

(* NetMatches: a reply is for the request on the wire. *)
LEMMA NetMatchesStep ==
  ASSUME ControlInv, [Next]_vars
  PROVE  NetMatches'
<1>0. RmiTyped /\ NetMatches
  BY DEF ControlInv
<1>1. ASSUME NEW s \in Slaves, SendStartup(s) \/ StartupRefused(s) \/ StartupTimeout(s) \/
                               StartupReply(s) \/ SendConfigured(s) \/
                               ConfiguredRefused(s) \/ ConfiguredTimeout(s) \/
                               ConfiguredReply(s) \/ SendTerminated(s) \/
                               TerminatedReply(s) \/ TerminatedRefused(s) \/
                               TerminatedTimeout(s) \/ HeartbeatRefused(s)
      PROVE  NetMatches'
  BY <1>0, <1>1, RequestMatches
    DEF SendStartup, StartupRefused, StartupTimeout, StartupReply, SendConfigured,
        ConfiguredRefused, ConfiguredTimeout, ConfiguredReply, SendTerminated,
        TerminatedReply, TerminatedRefused, TerminatedTimeout, HeartbeatRefused, Function
<1>2. ASSUME NEW r \in net, LoseRequest(r) PROVE NetMatches'
  BY <1>0, <1>2 DEF LoseRequest, NetMatches
<1>3. ASSUME NEW r \in net, Serve(r) PROVE NetMatches'
  <2>1. /\ net' = net \ {r} /\ wire' = wire
        /\ \E result \in {"ok", "rmi"} : reply' = [reply EXCEPT ![r.slave] = IF r.late THEN @ ELSE result]
    BY <1>3 DEF Serve
  <2>2. CASE r.late
    <3>1. reply' = reply
      BY <1>0, <2>1, <2>2 DEF RmiTyped
    <3>2. QED
      BY <1>0, <2>1, <3>1 DEF NetMatches
  <2>3. CASE ~r.late
    <3>1. r.slave \in Slaves /\ wire[r.slave] = r.fn /\ r.fn # "none"
      BY <1>0, <2>3 DEF NetMatches, RmiTyped, Function
    <3>2. ASSUME NEW q \in net', ~q.late PROVE q.slave # r.slave
      <4>1. q \in net /\ q # r /\ wire[q.slave] = q.fn
        BY <1>0, <2>1, <3>2 DEF NetMatches
      <4>2. /\ q \in [slave : Slaves, fn : Function, late : BOOLEAN]
            /\ r \in [slave : Slaves, fn : Function, late : BOOLEAN]
        BY <1>0, <4>1 DEF RmiTyped
      <4>3. q.late = r.late
        BY <2>3, <3>2, <4>2
      <4>4. QED
        BY <3>1, <4>1, <4>2, <4>3
    <3>3. \A t \in Slaves \ {r.slave} : reply'[t] = reply[t]
      BY <1>0, <2>1 DEF RmiTyped
    <3>4. \A q \in net' : q.slave \in Slaves
      BY <1>0, <2>1 DEF RmiTyped
    <3>5. QED
      BY <1>0, <2>1, <3>1, <3>2, <3>3, <3>4 DEF NetMatches
  <2>4. QED
    BY <2>2, <2>3
<1>4. ASSUME NEW s \in Slaves, Crash(s) PROVE NetMatches'
  <2>1. /\ wire' = [wire EXCEPT ![s] = "none"] /\ reply' = [reply EXCEPT ![s] = "none"]
        /\ net' = {[q EXCEPT !.late = @ \/ q.slave = s] : q \in net}
    BY <1>4 DEF Crash
  <2>2. ASSUME NEW o \in net', ~o.late
        PROVE  o.slave \in Slaves \ {s} /\ wire[o.slave] = o.fn /\ reply[o.slave] = "none"
    <3>1. PICK q \in net : o = [q EXCEPT !.late = @ \/ q.slave = s]
      BY <2>1
    <3>2. q \in [slave : Slaves, fn : Function, late : BOOLEAN]
      BY <1>0 DEF RmiTyped
    <3>3. o.slave = q.slave /\ o.fn = q.fn /\ (o.late <=> q.late \/ q.slave = s)
      BY <3>1, <3>2
    <3>4. QED
      BY <1>0, <2>2, <3>2, <3>3 DEF NetMatches
  <2>3. QED
    BY <1>0, <2>1, <2>2 DEF NetMatches, RmiTyped
<1>5. ASSUME UNCHANGED <<wire, reply, net>> PROVE NetMatches'
  BY <1>0, <1>5 DEF NetMatches
<1>6. QED
  BY <1>1, <1>2, <1>3, <1>4, <1>5, NextCases
    DEF ExecuteGranted, ExecuteDenied, ExecutionOver, Deregistered, RemoveDeployment,
        InterruptExecution, TerminateExecution, ExecutionJoined, ExperimentUpdate, Start,
        BuildContainer, Failing, FailJoined, TerminateDeployment, Exit, ProcessMessage,
        EndLoop, Heartbeat, HeartbeatTimeout, GrowStale, Interrupt, Pushes, PushStateChange,
        masterVars, mainVars, queueVars, beatVars, rmiVars, faultVars, vars

(* ActivationValid: a component runs because ACTIVATE was published. *)
LEMMA ActivationValidStep ==
  ASSUME ControlInv, [Next]_vars
  PROVE  ActivationValid'
<1>0. ActivationValid /\ QueueTyped /\ ValidPromise
  BY DEF ControlInv
<1>1. ASSUME ExecuteGranted PROVE ActivationValid'
  BY <1>0, <1>1 DEF ExecuteGranted, ActivationValid
<1>2. ASSUME NEW s \in Slaves, BuildContainer(s) \/ FailJoined(s) \/ Exit(s) \/ Crash(s)
      PROVE  ActivationValid'
  <2>1. UNCHANGED <<control_queue, execution_valid>>
    BY <1>2 DEF BuildContainer, FailJoined, Exit, Crash, masterVars
  <2>2. \A t \in Slaves : container'[t] = "RUNNING" => container[t] = "RUNNING"
    BY <1>0, <1>2 DEF BuildContainer, Apply, FailJoined, Exit, Crash, DestroyDeployment, QueueTyped
  <2>3. QED
    BY <1>0, <2>1, <2>2 DEF ActivationValid
<1>3. ASSUME Pushes \/ ExperimentUpdate PROVE ActivationValid'
  <2>1. /\ container' = container /\ execution_valid' = execution_valid
        /\ \E m \in Message : Sent(m) /\ (m = "ACTIVATE" => exec = "activate")
    BY <1>3, PushedMessages DEF Pushes, PushStateChange, ExperimentUpdate, masterVars
  <2>2. PICK m \in Message : Sent(m) /\ (m = "ACTIVATE" => exec = "activate")
    BY <2>1
  <2>3. ASSUME NEW s \in Slaves, NEW i \in 1 .. Len(control_queue'[s]),
               control_queue'[s][i] = "ACTIVATE"
        PROVE  execution_valid
    <3>1. CASE control_queue'[s] = control_queue[s]
      BY <1>0, <2>3, <3>1 DEF ActivationValid
    <3>2. CASE control_queue'[s] = Append(control_queue[s], m)
      <4>1. control_queue[s] \in Seq(Message) /\ Len(control_queue[s]) \in Nat
        BY <1>0 DEF QueueTyped
      <4>2. CASE i \in 1 .. Len(control_queue[s])
        BY <1>0, <2>3, <3>2, <4>1, <4>2 DEF ActivationValid
      <4>3. CASE i = Len(control_queue[s]) + 1
        <5>1. control_queue'[s][i] = m
          BY <3>2, <4>1, <4>3
        <5>2. QED
          BY <1>0, <2>2, <2>3, <5>1 DEF ValidPromise
      <4>4. QED
        BY <2>3, <3>2, <4>1, <4>2, <4>3
    <3>3. QED
      BY <2>2, <3>1, <3>2, PublishFacts
  <2>4. QED
    BY <1>0, <2>1, <2>3 DEF ActivationValid
<1>4. ASSUME NEW s \in Slaves, ProcessMessage(s) PROVE ActivationValid'
  <2>1. /\ execution_valid' = execution_valid
        /\ \/ container' = container
           \/ container' = [container EXCEPT ![s] = Apply(Head(control_queue[s]), @)]
    BY <1>4 DEF ProcessMessage, masterVars
  <2>2. container'[s] = "RUNNING" => container[s] = "RUNNING" \/ Head(control_queue[s]) = "ACTIVATE"
    BY <1>0, <2>1 DEF Apply, QueueTyped
  <2>3. \A t \in Slaves \ {s} : container'[t] = container[t]
    BY <1>0, <2>1 DEF QueueTyped
  <2>4. Head(control_queue[s]) = "ACTIVATE" => execution_valid
    BY <1>0, <1>4, ProcessFacts DEF ActivationValid
  <2>5. \A i \in 1 .. Len(Tail(control_queue[s])) :
          Tail(control_queue[s])[i] = "ACTIVATE" => execution_valid
    <3> DEFINE q == control_queue[s]
               t == Tail(q)
    <3>1. \A i \in 1 .. Len(t) : i + 1 \in 1 .. Len(q) /\ t[i] = q[i + 1]
      BY <1>4, ProcessFacts
    <3>2. \A i \in 1 .. Len(q) : q[i] = "ACTIVATE" => execution_valid
      BY <1>0 DEF ActivationValid
    <3> HIDE DEF q, t
    <3>3. \A i \in 1 .. Len(t) : t[i] = "ACTIVATE" => execution_valid
      BY <3>1, <3>2
    <3>4. QED
      BY <3>3 DEF q, t
  <2>6. control_queue' = [control_queue EXCEPT ![s] = Tail(@)]
    BY <1>4 DEF ProcessMessage
  <2>7. /\ control_queue'[s] = Tail(control_queue[s])
        /\ \A t \in Slaves \ {s} : control_queue'[t] = control_queue[t]
    BY <1>0, <2>6 DEF QueueTyped
  <2>8. \A t \in Slaves : container'[t] = "RUNNING" => execution_valid'
    BY <1>0, <2>1, <2>2, <2>3, <2>4 DEF ActivationValid
  <2>9. ASSUME NEW t \in Slaves
        PROVE  \A i \in 1 .. Len(control_queue'[t]) :
                 control_queue'[t][i] = "ACTIVATE" => execution_valid'
    <3>1. CASE t = s
      BY <2>1, <2>5, <2>7, <3>1
    <3>2. CASE t # s
      BY <1>0, <2>1, <2>7, <3>2 DEF ActivationValid
    <3>3. QED
      BY <3>1, <3>2
  <2>10. QED
    BY <2>8, <2>9 DEF ActivationValid
<1>5. ASSUME UNCHANGED <<container, control_queue, execution_valid>>
      PROVE  ActivationValid'
  BY <1>0, <1>5 DEF ActivationValid
<1>6. QED
  BY <1>1, <1>2, <1>3, <1>4, <1>5, NextCases
    DEF ExecuteDenied, ExecutionOver, Deregistered, RemoveDeployment, InterruptExecution,
        TerminateExecution, ExecutionJoined, Start, SendStartup, StartupRefused,
        StartupTimeout, StartupReply, SendConfigured, ConfiguredRefused, ConfiguredTimeout,
        ConfiguredReply, Failing, TerminateDeployment, EndLoop, SendTerminated,
        TerminatedReply, TerminatedRefused, TerminatedTimeout, Heartbeat, HeartbeatRefused,
        HeartbeatTimeout, GrowStale, Interrupt, Serve, LoseRequest, StartupFailed,
        masterVars, mainVars, queueVars, beatVars, rmiVars, faultVars, vars

(* ValidPromise: an execution is valid when its promise was kept. *)
LEMMA ValidPromiseStep ==
  ASSUME ControlInv, [Next]_vars
  PROVE  ValidPromise'
<1>0. ValidPromise
  BY DEF ControlInv
<1>1. ASSUME ExecuteGranted \/ ExecuteDenied \/ ExecutionOver \/ Deregistered \/
             RemoveDeployment \/ InterruptExecution
      PROVE  ValidPromise'
  BY <1>0, <1>1
    DEF ExecuteGranted, ExecuteDenied, ExecutionOver, Deregistered, RemoveDeployment,
        InterruptExecution, ExecStep, ValidPromise
<1>2. ASSUME Pushes PROVE ValidPromise'
  BY <1>0, <1>2 DEF Pushes, PushStateChange, ExecStep, ValidPromise
<1>3. ASSUME TerminateExecution PROVE ValidPromise'
  BY <1>0, <1>3 DEF TerminateExecution, ValidPromise
<1>4. ASSUME NEW r \in net, Serve(r) PROVE ValidPromise'
  BY <1>0, <1>4, ServeFacts DEF Serve, ValidPromise
<1>5. ASSUME UNCHANGED <<exec, execution_valid, execute_promise>> PROVE ValidPromise'
  BY <1>0, <1>5 DEF ValidPromise
<1>6. QED
  BY <1>1, <1>2, <1>3, <1>4, <1>5, NextCases
    DEF ExecutionJoined, ExperimentUpdate, Start, SendStartup, StartupRefused,
        StartupTimeout, StartupReply, BuildContainer, SendConfigured, ConfiguredRefused,
        ConfiguredTimeout, ConfiguredReply, Failing, FailJoined, TerminateDeployment, Exit,
        ProcessMessage, EndLoop, SendTerminated, TerminatedReply, TerminatedRefused,
        TerminatedTimeout, Heartbeat, HeartbeatRefused, HeartbeatTimeout, GrowStale,
        Interrupt, Crash, LoseRequest, StartupFailed, masterVars, mainVars, queueVars,
        beatVars, rmiVars, faultVars, vars

(* PromiseKept: the slaves were all configured, and can only terminate. *)
LEMMA PromiseKeptStep ==
  ASSUME ControlInv, [Next]_vars
  PROVE  PromiseKept'
<1>0. PromiseKept /\ MasterTyped
  BY DEF ControlInv
<1>1. ASSUME TerminateExecution PROVE PromiseKept'
  BY <1>0, <1>1 DEF TerminateExecution, PromiseKept
<1>2. ASSUME NEW r \in net, Serve(r) PROVE PromiseKept'
  <2>1. CASE UNCHANGED <<slave_status, execute_promise>>
    BY <1>0, <2>1 DEF PromiseKept
  <2>2. ASSUME NEW x \in SlaveState, StatusMoves(r.slave, x), r.slave \in Slaves,
               slave_status' = [slave_status EXCEPT ![r.slave] = x],
               UNCHANGED execute_promise
        PROVE  PromiseKept'
    BY <1>0, <2>2 DEF PromiseKept, StatusMoves, MasterTyped
  <2>3. ASSUME slave_status' \in [Slaves -> SlaveState], execute_promise' = Decision(slave_status')
        PROVE  PromiseKept'
    BY <2>3, DecisionFacts DEF PromiseKept
  <2>4. QED
    BY <1>2, <2>1, <2>2, <2>3, ServeFacts
<1>3. ASSUME UNCHANGED <<execute_promise, slave_status>> PROVE PromiseKept'
  BY <1>0, <1>3 DEF PromiseKept
<1>4. QED
  BY <1>1, <1>2, <1>3, NextCases
    DEF ExecuteGranted, ExecuteDenied, ExecutionOver, Deregistered, RemoveDeployment,
        InterruptExecution, ExecutionJoined, ExperimentUpdate, Start, SendStartup,
        StartupRefused, StartupTimeout, StartupReply, BuildContainer, SendConfigured,
        ConfiguredRefused, ConfiguredTimeout, ConfiguredReply, Failing, FailJoined,
        TerminateDeployment, Exit, ProcessMessage, EndLoop, SendTerminated, TerminatedReply,
        TerminatedRefused, TerminatedTimeout, Heartbeat, HeartbeatRefused, HeartbeatTimeout,
        GrowStale, Interrupt, Crash, LoseRequest, Pushes, PushStateChange, StartupFailed,
        masterVars, mainVars, queueVars, beatVars, rmiVars, faultVars, vars

(* What happens to the CONFIGUREs of a queue. *)
LEMMA ConfigureFacts ==
  ASSUME NEW q \in Seq(Message)
  PROVE  /\ \A m \in Message \ {"CONFIGURE"} :
              /\ NoConfigure(q) => NoConfigure(Append(q, m))
              /\ OneConfigure(q) => OneConfigure(Append(q, m))
         /\ NoConfigure(q) => OneConfigure(q) /\ OneConfigure(Append(q, "CONFIGURE"))
         /\ q # <<>> =>
              /\ NoConfigure(q) => Head(q) # "CONFIGURE" /\ NoConfigure(Tail(q))
              /\ OneConfigure(q) => OneConfigure(Tail(q))
              /\ OneConfigure(q) /\ Head(q) = "CONFIGURE" => NoConfigure(Tail(q))
<1>1. ASSUME NEW m \in Message
      PROVE  /\ m # "CONFIGURE" /\ NoConfigure(q) => NoConfigure(Append(q, m))
             /\ m # "CONFIGURE" /\ OneConfigure(q) => OneConfigure(Append(q, m))
             /\ NoConfigure(q) => OneConfigure(q) /\ OneConfigure(Append(q, m))
  <2> DEFINE n == Len(q) + 1
             p == Append(q, m)
  <2>1. /\ Len(q) \in Nat /\ Len(p) = n /\ p[n] = m
        /\ \A i \in 1 .. Len(q) : p[i] = q[i]
        /\ \A i \in 1 .. n : i \in 1 .. Len(q) \/ i = n
    OBVIOUS
  <2> HIDE DEF n, p
  <2>2. QED
    BY <2>1 DEF NoConfigure, OneConfigure, p
<1>2. ASSUME q # <<>>
      PROVE  /\ NoConfigure(q) => Head(q) # "CONFIGURE" /\ NoConfigure(Tail(q))
             /\ OneConfigure(q) => OneConfigure(Tail(q))
             /\ OneConfigure(q) /\ Head(q) = "CONFIGURE" => NoConfigure(Tail(q))
  <2> DEFINE h == Head(q)
             t == Tail(q)
  <2>1. /\ Len(q) \in Nat \ {0} /\ h = q[1] /\ Len(t) = Len(q) - 1
        /\ \A i \in 1 .. Len(t) : t[i] = q[i + 1]
    BY <1>2
  <2> HIDE DEF h, t
  <2>2. 1 \in 1 .. Len(q) /\ \A i \in 1 .. Len(t) : i + 1 \in 1 .. Len(q) /\ i + 1 # 1
    BY <2>1
  <2>3. NoConfigure(q) => h # "CONFIGURE" /\ NoConfigure(t)
    BY <2>1, <2>2 DEF NoConfigure
  <2>4. ASSUME OneConfigure(q), NEW i \in 1 .. Len(t), NEW j \in 1 .. Len(t),
               t[i] = "CONFIGURE", t[j] = "CONFIGURE"
        PROVE  i = j
    <3>1. i + 1 = j + 1
      BY <2>1, <2>2, <2>4 DEF OneConfigure
    <3>2. QED
      BY <3>1
  <2>5. OneConfigure(q) /\ h = "CONFIGURE" => NoConfigure(t)
    BY <2>1, <2>2 DEF NoConfigure, OneConfigure
  <2>6. QED
    BY <2>3, <2>4, <2>5 DEF OneConfigure, h, t
<1>3. QED
  BY <1>1, <1>2 DEF Message

(* Only an update counts as one. *)
LEMMA UpdatesKept ==
  ASSUME [Next]_vars, ~ExperimentUpdate
  PROVE  UNCHANGED updates
BY NextCases
  DEF ExecuteGranted, ExecuteDenied, ExecutionOver, Deregistered, RemoveDeployment,
      InterruptExecution, TerminateExecution, ExecutionJoined, Pushes, PushStateChange, Start,
      SendStartup, StartupRefused, StartupTimeout, StartupReply, BuildContainer,
      SendConfigured, ConfiguredRefused, ConfiguredTimeout, ConfiguredReply, Failing,
      FailJoined, TerminateDeployment, Exit, ProcessMessage, EndLoop, SendTerminated,
      TerminatedReply, TerminatedRefused, TerminatedTimeout, Heartbeat, HeartbeatRefused,
      HeartbeatTimeout, GrowStale, Interrupt, Crash, Serve, LoseRequest, TimedOut, faultVars,
      vars

(* UpdatesCounted: an update adds one CONFIGURE to a queue. *)
LEMMA UpdatesCountedStep ==
  ASSUME ControlInv, [Next]_vars
  PROVE  UpdatesCounted'
<1>0. UpdatesCounted /\ QueueTyped
  BY DEF ControlInv
<1>1. ASSUME Pushes \/ ExperimentUpdate PROVE UpdatesCounted'
  <2>1. PICK m \in Message :
          /\ Sent(m)
          /\ m = "CONFIGURE" => updates' = updates + 1
          /\ m # "CONFIGURE" => updates' = updates
    BY <1>1, PushedMessages
  <2>2. updates' \in Nat
    BY <1>0, <2>1 DEF UpdatesCounted
  <2>3. ASSUME NEW s \in Slaves
        PROVE  /\ updates' = 0 => NoConfigure(control_queue'[s])
               /\ updates' <= 1 => OneConfigure(control_queue'[s])
    <3> DEFINE q == control_queue[s]
    <3>1. q \in Seq(Message) /\ control_queue'[s] \in {q, Append(q, m)}
      BY <1>0, <2>1, PublishFacts DEF QueueTyped
    <3>2. /\ updates \in Nat
          /\ updates = 0 => NoConfigure(q)
          /\ updates <= 1 => OneConfigure(q)
      BY <1>0 DEF UpdatesCounted
    <3> HIDE DEF q
    <3>3. CASE m = "CONFIGURE"
      <4>1. updates' # 0 /\ (updates' <= 1 => updates = 0)
        BY <2>1, <3>2, <3>3
      <4>2. QED
        BY <3>1, <3>2, <3>3, <4>1, ConfigureFacts
    <3>4. CASE m # "CONFIGURE"
      BY <2>1, <3>1, <3>2, <3>4, ConfigureFacts
    <3>5. QED
      BY <3>3, <3>4
  <2>4. QED
    BY <2>2, <2>3 DEF UpdatesCounted
<1>2. ASSUME NEW t \in Slaves, ProcessMessage(t) PROVE UpdatesCounted'
  <2>1. updates' = updates
    BY <1>2 DEF ProcessMessage, faultVars
  <2>2. ASSUME NEW s \in Slaves
        PROVE  /\ updates = 0 => NoConfigure(control_queue'[s])
               /\ updates <= 1 => OneConfigure(control_queue'[s])
    <3> DEFINE q == control_queue[s]
    <3>1. q \in Seq(Message) /\ (control_queue'[s] = q \/ (q # <<>> /\ control_queue'[s] = Tail(q)))
      BY <1>0, <1>2 DEF QueueTyped, ProcessMessage
    <3>2. /\ updates = 0 => NoConfigure(q)
          /\ updates <= 1 => OneConfigure(q)
      BY <1>0 DEF UpdatesCounted
    <3> HIDE DEF q
    <3>3. QED
      BY <3>1, <3>2, ConfigureFacts
  <2>3. QED
    BY <1>0, <2>1, <2>2 DEF UpdatesCounted
<1>3. ASSUME UNCHANGED <<control_queue, updates>> PROVE UpdatesCounted'
  BY <1>0, <1>3 DEF UpdatesCounted
<1>4. QED
  BY <1>1, <1>2, <1>3, NextCases, UpdatesKept
    DEF ExecuteGranted, ExecuteDenied, ExecutionOver, Deregistered, RemoveDeployment,
        InterruptExecution, TerminateExecution, ExecutionJoined, Start, SendStartup,
        StartupRefused, StartupTimeout, StartupReply, BuildContainer, SendConfigured,
        ConfiguredRefused, ConfiguredTimeout, ConfiguredReply, Failing, FailJoined,
        TerminateDeployment, Exit, EndLoop, SendTerminated, TerminatedReply,
        TerminatedRefused, TerminatedTimeout, Heartbeat, HeartbeatRefused, HeartbeatTimeout,
        GrowStale, Interrupt, Crash, Serve, LoseRequest, StartupFailed, queueVars, vars

(* PortsValid: without an update nothing finds a container to reconfigure. *)
LEMMA PortsValidStep ==
  ASSUME ControlInv, [Next]_vars
  PROVE  PortsValid'
<1> SUFFICES ASSUME updates' = 0, NEW s \in Slaves
             PROVE  /\ live'[s] => execution_valid'
                    /\ main'[s] \in Unbuilt => container'[s] = "none"
  BY DEF PortsValid
<1>1. updates = 0 /\ ~ExperimentUpdate
  BY UpdatesKept DEF ExperimentUpdate, ControlInv, UpdatesCounted
<1>0. /\ QueueTyped /\ MainTyped /\ ActivationValid /\ NoConfigure(control_queue[s])
      /\ live[s] => execution_valid
      /\ main[s] \in Unbuilt => container[s] = "none"
  BY <1>1 DEF ControlInv, PortsValid, UpdatesCounted
<1> DEFINE Goal == /\ live'[s] => execution_valid'
                   /\ main'[s] \in Unbuilt => container'[s] = "none"
<1>2. ASSUME NEW t \in Slaves, BuildContainer(t) PROVE Goal
  <2>1. CASE t = s
    <3>1. container[s] = "none"
      BY <1>0, <1>2, <2>1 DEF BuildContainer, Unbuilt
    <3>2. ~live'[s]
      BY <1>0, <1>2, <2>1, <3>1, PortsFacts DEF BuildContainer, PortsAfter
    <3>3. main'[s] \notin Unbuilt
      BY <1>0, <1>2, <2>1 DEF BuildContainer, MainTyped, Unbuilt
    <3>4. QED
      BY <3>2, <3>3
  <2>2. CASE t # s
    <3>1. live'[s] = live[s]
      BY <1>0, <1>2, <2>2, PortsFacts DEF BuildContainer
    <3>2. QED
      BY <1>0, <1>2, <2>2, <3>1 DEF BuildContainer, MainTyped, QueueTyped, masterVars
  <2>3. QED
    BY <2>1, <2>2
<1>3. ASSUME NEW t \in Slaves, ProcessMessage(t) PROVE Goal
  <2>1. UNCHANGED <<main, execution_valid>>
    BY <1>3 DEF ProcessMessage, mainVars, masterVars
  <2>2. CASE t = s
    <3> DEFINE m == Head(control_queue[s])
    <3>1. control_queue[s] \in Seq(Message) /\ control_queue[s] # <<>>
      BY <1>0, <1>3, <2>2 DEF QueueTyped, ProcessMessage
    <3>2. m # "CONFIGURE" /\ (m = "ACTIVATE" => execution_valid)
      BY <1>0, <1>3, <2>2, <3>1, ConfigureFacts, ProcessFacts DEF ActivationValid
    <3>3. live'[s] \in PortsAfter(m, container[s], live[s])
      BY <1>0, <1>3, <2>2, PortsFacts DEF ProcessMessage
    <3>4. container'[s] = container[s] \/ container'[s] = Apply(m, container[s])
      BY <1>0, <1>3, <2>2 DEF ProcessMessage, QueueTyped
    <3> HIDE DEF m
    <3>5. live'[s] => execution_valid
      BY <1>0, <3>2, <3>3 DEF PortsAfter
    <3>6. container[s] = "none" => container'[s] = "none"
      BY <3>2, <3>4 DEF Apply
    <3>7. QED
      BY <1>0, <2>1, <3>5, <3>6
  <2>3. CASE t # s
    <3>1. live'[s] = live[s] /\ container'[s] = container[s]
      BY <1>0, <1>3, <2>3, PortsFacts DEF ProcessMessage, QueueTyped
    <3>2. QED
      BY <1>0, <2>1, <3>1
  <2>4. QED
    BY <2>2, <2>3
<1>4. ASSUME NEW t \in Slaves, FailJoined(t) \/ Exit(t) \/ Crash(t) PROVE Goal
  BY <1>0, <1>4, ControlAssumption
    DEF FailJoined, Exit, Crash, DestroyDeployment, Unbuilt, MainTyped, QueueTyped, masterVars
<1>5. ASSUME UNCHANGED <<live, container>>, execution_valid => execution_valid',
             main'[s] \in Unbuilt => main[s] \in Unbuilt
      PROVE  Goal
  BY <1>0, <1>5
<1>6. ASSUME NEW t \in Slaves,
             \/ Start(t) \/ SendStartup(t) \/ StartupRefused(t) \/ StartupTimeout(t)
             \/ StartupReply(t) \/ SendConfigured(t) \/ ConfiguredRefused(t)
             \/ ConfiguredTimeout(t) \/ ConfiguredReply(t) \/ Failing(t)
             \/ TerminateDeployment(t)
      PROVE  Goal
  BY <1>0, <1>5, <1>6
    DEF Start, SendStartup, StartupRefused, StartupTimeout, StartupReply, SendConfigured,
        ConfiguredRefused, ConfiguredTimeout, ConfiguredReply, Failing, TerminateDeployment,
        StartupFailed, Unbuilt, MainTyped, masterVars, queueVars
<1>7. ASSUME TerminateExecution \/ ExecutionJoined PROVE Goal
  BY <1>0, <1>5, <1>7, ControlAssumption
    DEF TerminateExecution, ExecutionJoined, Unbuilt, MainTyped, masterVars, queueVars
<1>8. ASSUME UNCHANGED <<main, live, container, execution_valid>> PROVE Goal
  BY <1>0, <1>8
<1>10. ASSUME ExecuteGranted PROVE Goal
  BY <1>0, <1>10 DEF ExecuteGranted, mainVars, queueVars
<1>9. QED
  BY <1>1, <1>2, <1>3, <1>4, <1>6, <1>7, <1>8, <1>10, NextCases
    DEF ExecuteDenied, ExecutionOver, Deregistered, RemoveDeployment,
        InterruptExecution, Pushes, PushStateChange, EndLoop, SendTerminated, TerminatedReply,
        TerminatedRefused, TerminatedTimeout, Heartbeat, HeartbeatRefused, HeartbeatTimeout,
        GrowStale, Interrupt, Serve, LoseRequest, masterVars, mainVars, queueVars, vars

-----------------------------------------------------------------------------
(* The theorems. *)

(* No slave has started, and the master waits for all of them. *)
LEMMA ControlInit ==
  ASSUME Init
  PROVE  ControlInv
<1>1. MasterTyped /\ MainTyped
  BY DEF Init, MasterTyped, MainTyped, SlaveState, ExecPoint, MainPoint
<1>2. QueueTyped
  BY DEF Init, QueueTyped, ControlPoint
<1>3. BeatTyped
  BY ControlAssumption DEF Init, BeatTyped
<1>4. RmiTyped /\ WireMatches /\ NetMatches
  BY DEF Init, RmiTyped, WireMatches, NetMatches
<1>5. ActivationValid /\ ValidPromise /\ PromiseKept
  BY DEF Init, ActivationValid, ValidPromise, PromiseKept
<1>6. UpdatesCounted /\ PortsValid
  BY DEF Init, UpdatesCounted, NoConfigure, OneConfigure, PortsValid
<1>7. QED
  BY <1>1, <1>2, <1>3, <1>4, <1>5, <1>6 DEF ControlInv

(* ControlInv holds in every reachable state, whatever times out, is lost  *)
(* or crashes.                                                             *)
THEOREM ControlInvariant == Spec => []ControlInv
<1>1. ASSUME ControlInv, [Next]_vars PROVE ControlInv'
  BY <1>1, MasterTypedStep, MainTypedStep, QueueTypedStep, BeatTypedStep, RmiTypedStep,
     WireMatchesStep, NetMatchesStep, ActivationValidStep, ValidPromiseStep, PromiseKeptStep,
     UpdatesCountedStep, PortsValidStep
    DEF ControlInv
<1>2. QED
  BY <1>1, ControlInit, PTL DEF Spec

(* TypeOK: the types, and a thread waits exactly while its request is on   *)
(* the wire.                                                               *)
THEOREM ControlTypes == Spec => []TypeOK
<1>1. ASSUME ControlInv PROVE TypeOK
  <2>1. failures \in [Slaves -> 0 .. HeartbeatRetries]
    BY <1>1, ControlAssumption DEF ControlInv, BeatTyped
  <2>2. \A s \in Slaves :
          wire[s] # "none" <=> main[s] \in {"startupWait", "reportWait"} \/ control[s] = "reportWait"
    BY <1>1 DEF ControlInv, RmiTyped, WireMatches, Function
  <2>3. QED
    BY <1>1, <2>1, <2>2 DEF ControlInv, MasterTyped, MainTyped, QueueTyped, BeatTyped, RmiTyped,
                            NetMatches, TypeOK
<1>2. QED
  BY <1>1, ControlInvariant, PTL

(* StartsTogether: no container is activated, and without updates no port  *)
(* of a component runs, before every slave is configured.                  *)
THEOREM SlavesStartTogether == Spec => []StartsTogether
<1>1. ASSUME ControlInv PROVE StartsTogether
  BY <1>1 DEF ControlInv, ActivationValid, ValidPromise, PromiseKept, PortsValid, StartsTogether,
              AllConfigured
<1>2. QED
  BY <1>1, ControlInvariant, PTL

(* TerminatedIsFinal: no request, however late, brings a slave back that   *)
(* has deregistered.                                                       *)
THEOREM TerminatedStays == Spec => TerminatedIsFinal
<1>1. ASSUME ControlInv, [Next]_vars
      PROVE  [\A s \in Slaves : slave_status[s] = "TERMINATED" => slave_status'[s] = "TERMINATED"]_vars
  <2>1. ASSUME NEW r \in net, Serve(r)
        PROVE  \A s \in Slaves : slave_status[s] = "TERMINATED" => slave_status'[s] = "TERMINATED"
    BY <1>1, <2>1, ServeFacts DEF StatusMoves, ControlInv, MasterTyped
  <2>2. ASSUME UNCHANGED slave_status
        PROVE  \A s \in Slaves : slave_status[s] = "TERMINATED" => slave_status'[s] = "TERMINATED"
    BY <2>2
  <2>3. QED
    BY <1>1, <2>1, <2>2, NextCases
      DEF ExecuteGranted, ExecuteDenied, ExecutionOver, Deregistered, RemoveDeployment,
          InterruptExecution, TerminateExecution, ExecutionJoined, ExperimentUpdate, Pushes,
          PushStateChange, Start, SendStartup, StartupRefused, StartupTimeout, StartupReply,
          BuildContainer, SendConfigured, ConfiguredRefused, ConfiguredTimeout,
          ConfiguredReply, Failing, FailJoined, TerminateDeployment, Exit, ProcessMessage,
          EndLoop, SendTerminated, TerminatedReply, TerminatedRefused, TerminatedTimeout,
          Heartbeat, HeartbeatRefused, HeartbeatTimeout, GrowStale, Interrupt, Crash,
          LoseRequest, StartupFailed, masterVars, mainVars, queueVars, beatVars, rmiVars,
          faultVars, vars
<1>2. QED
  BY <1>1, ControlInvariant, PTL DEF Spec, TerminatedIsFinal
-----------------------------------------------------------------------------
(* The removal of the deployment where no request times out while the      *)
(* master is up and only the master is interrupted; publications still get *)
(* lost, processes crash at any point, containers fail to build and        *)
(* experiments are updated.                                                *)

Undisturbed == MaxTimeouts = 0 /\ Interruptible \subseteq {Master}

Faultless == timeouts = 0

(* The execution goes well: the master is there, its promise is not broken *)
(* and the deployment is not removed yet.                                  *)
OnCourse ==
  /\ ~Gone(Master)
  /\ execute_promise # "exception"
  /\ exec \notin {"remove", "interrupt", "done"}

(* The points of main after the report to the master, and before the end. *)
Reported == {"reportWait", "online", "stopping", "join"}

(* No request of the slave has failed, and it beats. *)
Healthy(s) ==
  /\ failures[s] = 0 /\ socket[s] = "ready"
  /\ (main[s] \in Reported \cup {"reportOk", "reportError"} /\ control[s] # "done" => beating[s])
  /\ main[s] \notin {"failing", "failJoin", "destroying", "destroyWait"}

(* What the master knows of the slave follows its main thread. *)
Position(s) ==
  /\ main[s] \in {"off", "startup"} => slave_status[s] = "OFFLINE"
  /\ main[s] = "startupWait" =>
       slave_status[s] = IF reply[s] = "none" THEN "OFFLINE" ELSE "Registered"
  /\ main[s] \in {"configure", "reportOk", "reportError"} => slave_status[s] = "Registered"
  /\ main[s] = "reportWait" /\ reply[s] = "none" => slave_status[s] = "Registered"
  /\ reply[s] = "rmi" => control[s] = "reportWait"
  /\ control[s] = "off" => main[s] = "off"

NoTerminate(q) == \A i \in 1 .. Len(q) : q[i] # "TERMINATE"

NoActivate(q) == \A i \in 1 .. Len(q) : q[i] # "ACTIVATE"

(* A TERMINATE in the queue has no ACTIVATE behind it. *)
TerminateIsLast(q) ==
  \A i, j \in 1 .. Len(q) : i < j /\ q[i] = "TERMINATE" => q[j] # "ACTIVATE"

(* Nobody asked the slave to stop, unless it is the master's, and it is heard. *)
Unasked(s) == ~terminate[s] /\ (interrupted[s] => s = Master) /\ ~stale[s]

(* TERMINATE was not published yet, ... *)
NotYet(s) ==
  /\ Unasked(s) /\ control[s] \in {"off", "run", "failed"} /\ main[s] # "join"
  /\ NoTerminate(control_queue[s])

(* ... it waits in the queue, or missed the slave, ... *)
Ordered(s) ==
  /\ Unasked(s) /\ control[s] \in {"run", "failed"} /\ main[s] \in Reported \ {"join"}
  /\ control[s] = "run" => TerminateIsLast(control_queue[s])

(* No port runs; the one update there may be builds the container again,   *)
(* and nothing configures it a second time.                                *)
Cold(s) ==
  updates <= 1 =>
    /\ ~live[s]
    /\ container[s] = "none" \/ (updates = 1 /\ NoConfigure(control_queue[s]))

(* ... or the slave has executed it. *)
Over(s) ==
  /\ terminate[s] /\ control[s] # "off" /\ main[s] \in Reported
  /\ NoActivate(control_queue[s])
  /\ container[s] \in {"none", "CONFIGURED"}
  /\ Cold(s)

SlaveOnCourse(s) ==
  /\ Healthy(s) /\ Position(s)
  /\ exec # "deregister" => NotYet(s)
  /\ exec = "deregister" => Ordered(s) \/ Over(s)

SlavesOnCourse == OnCourse => \A s \in Slaves : Gone(s) \/ SlaveOnCourse(s)

(* A slave that deregisters, or has, is over or gone. *)
Settled(s) == exec = "deregister" /\ (Gone(s) \/ Over(s))

NetOnCourse ==
  OnCourse =>
    \A r \in net :
      /\ r.late => Gone(r.slave)
      /\ r.fn = "SlaveTerminated" => Settled(r.slave)

StatusOnCourse ==
  OnCourse =>
    /\ \A s \in Slaves : slave_status[s] = "TERMINATED" => Settled(s)
    /\ exec # "waitExecute" => execution_valid

(* A process that has ended runs nothing. *)
GoneIsDown ==
  \A s \in Slaves : main[s] \in {"destroying", "destroyWait", "exited", "crashed"} =>
    container[s] = "none" /\ ~live[s] /\ control[s] \in {"done", "failed"}

(* What runs nothing, and will not. *)
Down(s) ==
  /\ container[s] \notin {"RUNNING", "NOT_RUNNING"}
  /\ main[s] \notin Unbuilt
  /\ Cold(s)
  /\ control[s] \in {"done", "failed"} \/ NoActivate(control_queue[s])

StaysDown ==
  execution_valid /\ exec \in {"remove", "interrupt", "done"} => \A s \in Slaves : Down(s)

DownInv ==
  /\ Faultless
  /\ GoneIsDown
  /\ SlavesOnCourse
  /\ NetOnCourse
  /\ StatusOnCourse
  /\ StaysDown

-----------------------------------------------------------------------------
(* Control queues. *)

(* What a published message makes of a queue. *)
LEMMA AppendFacts ==
  ASSUME NEW q \in Seq(Message), NEW m \in Message
  PROVE  /\ NoTerminate(q) /\ m # "TERMINATE" => NoTerminate(Append(q, m))
         /\ NoTerminate(q) => TerminateIsLast(q)
         /\ TerminateIsLast(q) /\ m # "ACTIVATE" => TerminateIsLast(Append(q, m))
         /\ NoActivate(q) /\ m # "ACTIVATE" => NoActivate(Append(q, m))
<1> DEFINE n == Len(q) + 1
           p == Append(q, m)
<1>1. /\ Len(q) \in Nat /\ Len(p) = n /\ p[n] = m
      /\ \A i \in 1 .. Len(q) : p[i] = q[i]
      /\ \A i \in 1 .. n : i \in 1 .. Len(q) \/ i = n
  OBVIOUS
<1>2. \A i, j \in 1 .. n : i < j => i \in 1 .. Len(q)
  BY <1>1
<1> HIDE DEF n, p
<1>3. NoTerminate(q) /\ m # "TERMINATE" => NoTerminate(p)
  BY <1>1 DEF NoTerminate
<1>4. NoTerminate(q) => TerminateIsLast(q)
  BY DEF NoTerminate, TerminateIsLast
<1>5. TerminateIsLast(q) /\ m # "ACTIVATE" => TerminateIsLast(p)
  BY <1>1, <1>2 DEF TerminateIsLast
<1>6. NoActivate(q) /\ m # "ACTIVATE" => NoActivate(p)
  BY <1>1 DEF NoActivate
<1>7. QED
  BY <1>3, <1>4, <1>5, <1>6 DEF p

(* What is left of a queue when its first message is taken. *)
LEMMA TailFacts ==
  ASSUME NEW q \in Seq(Message), q # <<>>
  PROVE  /\ NoTerminate(q) => Head(q) # "TERMINATE" /\ NoTerminate(Tail(q))
         /\ TerminateIsLast(q) => TerminateIsLast(Tail(q))
         /\ TerminateIsLast(q) /\ Head(q) = "TERMINATE" => NoActivate(Tail(q))
         /\ NoActivate(q) => Head(q) # "ACTIVATE" /\ NoActivate(Tail(q))
<1> DEFINE h == Head(q)
           t == Tail(q)
<1>1. /\ Len(q) \in Nat \ {0} /\ h = q[1] /\ Len(t) = Len(q) - 1
      /\ \A i \in 1 .. Len(t) : t[i] = q[i + 1]
  OBVIOUS
<1> HIDE DEF h, t
<1>2. 1 \in 1 .. Len(q) /\ \A i \in 1 .. Len(t) : i + 1 \in 1 .. Len(q) /\ 1 < i + 1
  BY <1>1
<1>3. NoTerminate(q) => h # "TERMINATE" /\ NoTerminate(t)
  BY <1>1, <1>2 DEF NoTerminate
<1>4. NoActivate(q) => h # "ACTIVATE" /\ NoActivate(t)
  BY <1>1, <1>2 DEF NoActivate
<1>5. ASSUME TerminateIsLast(q) PROVE TerminateIsLast(t)
  <2>1. ASSUME NEW i \in 1 .. Len(t), NEW j \in 1 .. Len(t), i < j, t[i] = "TERMINATE"
        PROVE  t[j] # "ACTIVATE"
    <3>1. i + 1 < j + 1 /\ q[i + 1] = "TERMINATE"
      BY <1>1, <2>1
    <3>2. q[j + 1] # "ACTIVATE"
      BY <1>2, <1>5, <3>1 DEF TerminateIsLast
    <3>3. QED
      BY <1>1, <3>2
  <2>2. QED
    BY <2>1 DEF TerminateIsLast
<1>6. ASSUME TerminateIsLast(q), h = "TERMINATE" PROVE NoActivate(t)
  <2>1. \A i \in 1 .. Len(t) : q[i + 1] # "ACTIVATE"
    BY <1>1, <1>2, <1>6 DEF TerminateIsLast
  <2>2. QED
    BY <1>1, <2>1 DEF NoActivate
<1>7. QED
  BY <1>3, <1>4, <1>5, <1>6 DEF h, t

-----------------------------------------------------------------------------
(* Which slave a step is about. *)

SameSlave(s) ==
  /\ main'[s] = main[s] /\ interrupted'[s] = interrupted[s]
  /\ slave_status'[s] = slave_status[s] /\ stale'[s] = stale[s]
  /\ control'[s] = control[s] /\ control_queue'[s] = control_queue[s]
  /\ terminate'[s] = terminate[s] /\ container'[s] = container[s]
  /\ live'[s] = live[s] /\ updates' = updates
  /\ beating'[s] = beating[s] /\ failures'[s] = failures[s]
  /\ socket'[s] = socket[s] /\ reply'[s] = reply[s]

(* Steps that a slave on course does not take ... *)
Fails(s) ==
  \/ StartupRefused(s) \/ StartupTimeout(s) \/ ConfiguredRefused(s) \/ ConfiguredTimeout(s)
  \/ TerminatedRefused(s) \/ TerminatedTimeout(s) \/ HeartbeatRefused(s) \/ HeartbeatTimeout(s)
  \/ Failing(s) \/ FailJoined(s)

(* ... and those it takes. *)
Reports(s) ==
  \/ Start(s) \/ SendStartup(s) \/ StartupReply(s) \/ BuildContainer(s)
  \/ SendConfigured(s) \/ ConfiguredReply(s)

Stops(s) ==
  \/ TerminateDeployment(s) \/ Exit(s)
  \/ EndLoop(s) \/ SendTerminated(s) \/ TerminatedReply(s)
  \/ Heartbeat(s) \/ GrowStale(s) \/ Interrupt(s) \/ Crash(s)

MasterStops(s) == s = Master /\ (TerminateExecution \/ ExecutionJoined \/ InterruptExecution)

SlaveStep(s) == Fails(s) \/ Reports(s) \/ Stops(s) \/ MasterStops(s) \/ ProcessMessage(s)

(* ExecutionLoop moves and does nothing else. *)
Moves == ExecuteGranted \/ ExecuteDenied \/ ExecutionOver \/ Deregistered \/ RemoveDeployment

(* The steps of Next by the slaves they concern: one, all or none. *)
LEMMA StepCases ==
  ASSUME [Next]_vars
  PROVE  \/ \E s \in Slaves : SlaveStep(s)
         \/ \E r \in net : Serve(r)
         \/ \E r \in net : LoseRequest(r)
         \/ Moves
         \/ Pushes \/ ExperimentUpdate
         \/ UNCHANGED vars
BY NextCases, ControlAssumption DEF SlaveStep, Fails, Reports, Stops, MasterStops, Moves

(* Nothing is pushed and nothing decided once the master is gone. *)
LEMMA MasterActs ==
  ASSUME [Next]_vars, exec' # exec
  PROVE  ~Gone(Master)
<1>1. ASSUME NEW s \in Slaves,
             \/ Start(s) \/ MainStep(s) \/ ControlStep(s) \/ Timeout(s)
             \/ BeatStep(s) \/ HeartbeatTimeout(s) \/ GrowStale(s)
             \/ Interrupt(s) \/ Crash(s)
      PROVE  exec' = exec
  BY <1>1
    DEF Start, SendStartup, StartupRefused, StartupTimeout, StartupReply, BuildContainer,
        SendConfigured, ConfiguredRefused, ConfiguredTimeout, ConfiguredReply, Failing,
        FailJoined, TerminateDeployment, Exit, ProcessMessage, EndLoop, SendTerminated,
        TerminatedReply, TerminatedRefused, TerminatedTimeout, Heartbeat, HeartbeatRefused,
        HeartbeatTimeout, GrowStale, Interrupt, Crash, StartupFailed, TerminateExecution,
        ExecutionJoined, MainStep, ControlStep, Timeout, BeatStep, masterVars
<1>2. ASSUME NEW r \in net, Serve(r) \/ LoseRequest(r) PROVE exec' = exec
  BY <1>2 DEF Serve, LoseRequest, masterVars
<1>3. ExperimentUpdate \/ UNCHANGED vars => exec' = exec
  BY DEF ExperimentUpdate, masterVars, vars
<1>4. ExecutionStep => ~Gone(Master)
  BY DEF ExecutionStep
<1>5. QED
  BY <1>1, <1>2, <1>3, <1>4 DEF Next

(* No step of a slave is an update. *)
LEMMA SlaveUpdates ==
  ASSUME NEW t \in Slaves, SlaveStep(t)
  PROVE  updates' = updates
BY DEF SlaveStep, Fails, Reports, Stops, MasterStops, Start, SendStartup, StartupRefused,
       StartupTimeout, StartupReply, BuildContainer, SendConfigured, ConfiguredRefused,
       ConfiguredTimeout, ConfiguredReply, Failing, FailJoined, TerminateDeployment, Exit,
       ProcessMessage, EndLoop, SendTerminated, TerminatedReply, TerminatedRefused,
       TerminatedTimeout, Heartbeat, HeartbeatRefused, HeartbeatTimeout, GrowStale, Interrupt,
       Crash, TerminateExecution, ExecutionJoined, InterruptExecution, TimedOut, faultVars

(* A step of one slave leaves every other slave as it is. *)
LEMMA OneSlaveSteps ==
  ASSUME ControlInv, NEW t \in Slaves, SlaveStep(t), NEW s \in Slaves, s # t
  PROVE  SameSlave(s)
<1>0. MasterTyped /\ MainTyped /\ QueueTyped /\ BeatTyped /\ RmiTyped /\ updates' = updates
  BY SlaveUpdates DEF ControlInv
<1>1. CASE StartupRefused(t) \/ StartupTimeout(t) \/ ConfiguredRefused(t) \/ ConfiguredTimeout(t)
  BY <1>0, <1>1
    DEF StartupRefused, StartupTimeout, ConfiguredRefused, ConfiguredTimeout, StartupFailed,
        Refused, TimedOut, SameSlave, MainTyped, RmiTyped, masterVars, queueVars, beatVars
<1>2. CASE TerminatedRefused(t) \/ TerminatedTimeout(t) \/ HeartbeatRefused(t) \/ HeartbeatTimeout(t)
  BY <1>0, <1>2
    DEF TerminatedRefused, TerminatedTimeout, HeartbeatRefused, HeartbeatTimeout,
        HeartbeatFailed, Refused, TimedOut, SameSlave, MainTyped, QueueTyped, BeatTyped,
        RmiTyped, masterVars, mainVars, queueVars, beatVars
<1>3. CASE Failing(t) \/ FailJoined(t) \/ TerminateDeployment(t) \/ Exit(t)
  BY <1>0, <1>3
    DEF Failing, FailJoined, TerminateDeployment, Exit, DestroyDeployment, SameSlave,
        MainTyped, QueueTyped, BeatTyped, masterVars, beatVars, rmiVars
<1>4. CASE Start(t) \/ SendStartup(t) \/ StartupReply(t) \/ SendConfigured(t) \/ ConfiguredReply(t)
  BY <1>0, <1>4
    DEF Start, SendStartup, StartupReply, SendConfigured, ConfiguredReply, Call, Answered,
        SameSlave, MainTyped, QueueTyped, RmiTyped, masterVars, queueVars, beatVars, rmiVars
<1>5. CASE BuildContainer(t) \/ EndLoop(t)
  <2>1. live'[s] = live[s]
    BY <1>0, <1>5, PortsFacts DEF BuildContainer, EndLoop
  <2>2. QED
    BY <1>0, <1>5, <2>1
      DEF BuildContainer, EndLoop, SameSlave, MainTyped, QueueTyped, BeatTyped, masterVars,
          mainVars, beatVars, rmiVars
<1>6. CASE SendTerminated(t) \/ TerminatedReply(t)
  BY <1>0, <1>6
    DEF SendTerminated, TerminatedReply, Call, Answered, SameSlave, MainTyped, QueueTyped,
        BeatTyped, RmiTyped, masterVars, mainVars, beatVars
<1>7. CASE Heartbeat(t) \/ GrowStale(t) \/ Interrupt(t)
  BY <1>0, <1>7
    DEF Heartbeat, GrowStale, Interrupt, SameSlave, MasterTyped, MainTyped, BeatTyped,
        masterVars, mainVars, queueVars, beatVars, rmiVars
<1>8. CASE Crash(t)
  BY <1>0, <1>8
    DEF Crash, DestroyDeployment, SameSlave, MainTyped, QueueTyped, BeatTyped, RmiTyped,
        masterVars
<1>9. CASE MasterStops(t)
  BY <1>0, <1>9
    DEF MasterStops, TerminateExecution, ExecutionJoined, InterruptExecution, SameSlave,
        MainTyped, QueueTyped, masterVars, queueVars, beatVars, rmiVars
<1>10. CASE ProcessMessage(t)
  <2>1. live'[s] = live[s]
    BY <1>0, <1>10, PortsFacts DEF ProcessMessage
  <2>2. QED
    BY <1>0, <1>10, <2>1
      DEF ProcessMessage, SameSlave, QueueTyped, masterVars, mainVars, beatVars, rmiVars
<1>11. QED
  BY <1>1, <1>2, <1>3, <1>4, <1>5, <1>6, <1>7, <1>8, <1>9, <1>10
    DEF SlaveStep, Fails, Reports, Stops

(* A slave that nothing happens to stays where it is. *)
LEMMA SameSlaveStays ==
  ASSUME NEW s \in Slaves, SameSlave(s), SlaveOnCourse(s),
         exec = "deregister" <=> exec' = "deregister"
  PROVE  SlaveOnCourse(s)'
<1>1. Healthy(s)' /\ Position(s)'
  BY DEF SameSlave, SlaveOnCourse, Healthy, Position
<1>2. /\ NotYet(s) => NotYet(s)'
      /\ Ordered(s) => Ordered(s)'
      /\ Over(s) => Over(s)'
  BY DEF SameSlave, NotYet, Ordered, Over, Cold, Unasked
<1>3. QED
  BY <1>1, <1>2 DEF SlaveOnCourse

-----------------------------------------------------------------------------
(* The course of an execution. *)

(* What is never undone. *)
LEMMA Irreversible ==
  ASSUME ControlInv, [Next]_vars
  PROVE  /\ \A s \in Slaves : Gone(s) => Gone(s)'
         /\ \A s \in Slaves : terminate[s] => terminate'[s]
         /\ execute_promise = "exception" => execute_promise' = "exception"
         /\ exec \in {"remove", "interrupt", "done"} => exec' \in {"remove", "interrupt", "done"}
         /\ exec = "deregister" => exec' \in {"deregister", "remove"}
<1>0. MasterTyped /\ MainTyped /\ QueueTyped /\ Master \in Slaves
  BY ControlAssumption DEF ControlInv
<1>1. ASSUME NEW s \in Slaves, Gone(s) PROVE Gone(s)'
  <2>1. ASSUME NEW t \in Slaves, SlaveStep(t) PROVE Gone(s)'
    <3>1. CASE t # s
      BY <1>1, <2>1, <3>1, OneSlaveSteps DEF SameSlave, Gone
    <3>2. CASE t = s
      BY <1>0, <1>1, <2>1, <3>2
        DEF SlaveStep, Fails, Reports, Stops, MasterStops, Gone, MainTyped, Start, SendStartup,
            StartupRefused, StartupTimeout, StartupReply, BuildContainer, SendConfigured,
            ConfiguredRefused, ConfiguredTimeout, ConfiguredReply, Failing, FailJoined,
            TerminateDeployment, Exit, ProcessMessage, EndLoop, SendTerminated,
            TerminatedReply, TerminatedRefused, TerminatedTimeout, Heartbeat,
            HeartbeatRefused, HeartbeatTimeout, GrowStale, Interrupt, Crash,
            TerminateExecution, ExecutionJoined, InterruptExecution, mainVars
    <3>3. QED
      BY <3>1, <3>2
  <2>2. ASSUME UNCHANGED main PROVE Gone(s)'
    BY <1>1, <2>2 DEF Gone
  <2>3. QED
    BY <2>1, <2>2, StepCases
      DEF Serve, LoseRequest, Moves, ExecuteGranted, ExecuteDenied, ExecutionOver,
          Deregistered, RemoveDeployment, Pushes, PushStateChange, ExperimentUpdate, mainVars,
          vars
<1>2. ASSUME NEW s \in Slaves, terminate[s] PROVE terminate'[s]
  <2>1. ASSUME NEW t \in Slaves, ProcessMessage(t) PROVE terminate'[s]
    <3>1. CASE UNCHANGED terminate
      BY <1>2, <3>1
    <3>2. CASE terminate' = [terminate EXCEPT ![t] = @ \/ Head(control_queue[t]) = "TERMINATE"]
      <4>1. CASE s = t
        BY <1>0, <1>2, <3>2, <4>1 DEF QueueTyped
      <4>2. CASE s # t
        BY <1>0, <1>2, <3>2, <4>2 DEF QueueTyped
      <4>3. QED
        BY <4>1, <4>2
    <3>3. QED
      BY <2>1, <3>1, <3>2 DEF ProcessMessage
  <2>2. ASSUME NEW t \in Slaves, terminate' = [terminate EXCEPT ![t] = TRUE]
        PROVE  terminate'[s]
    BY <1>0, <1>2, <2>2 DEF QueueTyped
  <2>3. ASSUME UNCHANGED terminate PROVE terminate'[s]
    BY <1>2, <2>3
  <2>4. QED
    BY <1>0, <2>1, <2>2, <2>3, NextCases
      DEF ExecuteGranted, ExecuteDenied, ExecutionOver, Deregistered, RemoveDeployment,
          InterruptExecution, TerminateExecution, ExecutionJoined, ExperimentUpdate, Pushes,
          PushStateChange, Start, SendStartup, StartupRefused, StartupTimeout, StartupReply,
          BuildContainer, SendConfigured, ConfiguredRefused, ConfiguredTimeout,
          ConfiguredReply, Failing, FailJoined, TerminateDeployment, Exit, EndLoop,
          SendTerminated, TerminatedReply, TerminatedRefused, TerminatedTimeout, Heartbeat,
          HeartbeatRefused, HeartbeatTimeout, GrowStale, Interrupt, Crash, Serve, LoseRequest,
          StartupFailed, queueVars, vars
<1>3. execute_promise = "exception" => execute_promise' = "exception"
  <2>1. ASSUME NEW r \in net, Serve(r), execute_promise = "exception"
        PROVE  execute_promise' = "exception"
    BY <2>1, ServeFacts
  <2>2. QED
    BY <2>1, NextCases
      DEF ExecuteGranted, ExecuteDenied, ExecutionOver, Deregistered, RemoveDeployment,
          InterruptExecution, TerminateExecution, ExecutionJoined, ExperimentUpdate, Pushes,
          PushStateChange, Start, SendStartup, StartupRefused, StartupTimeout, StartupReply,
          BuildContainer, SendConfigured, ConfiguredRefused, ConfiguredTimeout,
          ConfiguredReply, Failing, FailJoined, TerminateDeployment, Exit, ProcessMessage,
          EndLoop, SendTerminated, TerminatedReply, TerminatedRefused, TerminatedTimeout,
          Heartbeat, HeartbeatRefused, HeartbeatTimeout, GrowStale, Interrupt, Crash,
          LoseRequest, StartupFailed, masterVars, vars
<1>4. /\ exec \in {"remove", "interrupt", "done"} => exec' \in {"remove", "interrupt", "done"}
      /\ exec = "deregister" => exec' \in {"deregister", "remove"}
  BY NextCases
    DEF ExecuteGranted, ExecuteDenied, ExecutionOver, Deregistered, RemoveDeployment,
        InterruptExecution, TerminateExecution, ExecutionJoined, ExperimentUpdate, Pushes,
        PushStateChange, Start, SendStartup, StartupRefused, StartupTimeout, StartupReply,
        BuildContainer, SendConfigured, ConfiguredRefused, ConfiguredTimeout,
        ConfiguredReply, Failing, FailJoined, TerminateDeployment, Exit, ProcessMessage,
        EndLoop, SendTerminated, TerminatedReply, TerminatedRefused, TerminatedTimeout,
        Heartbeat, HeartbeatRefused, HeartbeatTimeout, GrowStale, Interrupt, Crash, Serve,
        LoseRequest, StartupFailed, ExecStep, masterVars, vars
<1>5. QED
  BY <1>1, <1>2, <1>3, <1>4

(* An execution that has left its course does not come back. *)
LEMMA CourseKept ==
  ASSUME ControlInv, [Next]_vars, OnCourse'
  PROVE  OnCourse
BY Irreversible, ControlAssumption DEF OnCourse

(* A slave that is on course does not fail. *)
LEMMA NoFailure ==
  ASSUME Undisturbed, Faultless, OnCourse, NEW s \in Slaves, SlaveOnCourse(s)
  PROVE  ~Fails(s)
<1>1. ~Unanswered
  BY DEF Unanswered, Undisturbed, Faultless, OnCourse
<1>2. QED
  BY <1>1
    DEF Fails, StartupRefused, StartupTimeout, ConfiguredRefused, ConfiguredTimeout,
        TerminatedRefused, TerminatedTimeout, HeartbeatRefused, HeartbeatTimeout, Failing,
        FailJoined, Refused, TimedOut, SlaveOnCourse, Healthy

(* The way of a slave to its report. *)
LEMMA ReportingOnCourse ==
  ASSUME ControlInv, NEW s \in Slaves, SlaveOnCourse(s), Reports(s)
  PROVE  SlaveOnCourse(s)'
<1>0. MainTyped /\ QueueTyped /\ BeatTyped /\ RmiTyped /\ WireMatches /\ NetMatches
  BY DEF ControlInv
<1>1. exec' = exec /\ updates' = updates
  BY SlaveUpdates
     DEF SlaveStep, Reports, Start, SendStartup, StartupReply, BuildContainer, SendConfigured,
         ConfiguredReply, masterVars
<1>2. CASE Start(s)
  <2>1. control[s] = "off" /\ reply[s] # "rmi"
    BY <1>0, <1>2 DEF Start, WireMatches, NetMatches, SlaveOnCourse, Position
  <2>2. QED
    BY <1>0, <1>1, <1>2, <2>1
      DEF Start, SlaveOnCourse, Healthy, Position, NotYet, Ordered, Over, Cold, Unasked, Reported,
          MainTyped, QueueTyped, masterVars, beatVars, rmiVars
<1>3. CASE SendStartup(s)
  <2>1. wire[s] = "none" /\ reply[s] = "none"
    BY <1>0, <1>3 DEF SendStartup, Call, NetMatches, RmiTyped
  <2>2. QED
    BY <1>0, <1>1, <1>3, <2>1
      DEF SendStartup, Call, SlaveOnCourse, Healthy, Position, NotYet, Ordered, Over, Cold, Unasked,
          Reported, MainTyped, masterVars, queueVars, beatVars
<1>4. CASE StartupReply(s)
  <2>1. reply[s] = "ok"
    BY <1>0, <1>4 DEF StartupReply, Answered, WireMatches, RmiTyped, SlaveOnCourse, Position
  <2>2. QED
    BY <1>0, <1>1, <1>4, <2>1
      DEF StartupReply, Answered, SlaveOnCourse, Healthy, Position, NotYet, Ordered, Over, Cold,
          Unasked, Reported, MainTyped, RmiTyped, masterVars, queueVars, beatVars
<1>5. CASE BuildContainer(s)
  BY <1>0, <1>1, <1>5
    DEF BuildContainer, SlaveOnCourse, Healthy, Position, NotYet, Ordered, Over, Cold, Unasked,
        Reported, MainTyped, QueueTyped, BeatTyped, masterVars, rmiVars
<1>6. CASE SendConfigured(s)
  <2>1. wire[s] = "none" /\ reply[s] = "none"
    BY <1>0, <1>6 DEF SendConfigured, Call, NetMatches, RmiTyped
  <2>2. QED
    BY <1>0, <1>1, <1>6, <2>1
      DEF SendConfigured, Call, SlaveOnCourse, Healthy, Position, NotYet, Ordered, Over, Cold, Unasked,
          Reported, MainTyped, masterVars, queueVars, beatVars
<1>7. CASE ConfiguredReply(s)
  <2>1. reply[s] = "ok"
    BY <1>0, <1>7 DEF ConfiguredReply, Answered, WireMatches, RmiTyped, SlaveOnCourse, Position
  <2>2. QED
    BY <1>0, <1>1, <1>7, <2>1
      DEF ConfiguredReply, Answered, SlaveOnCourse, Healthy, Position, NotYet, Ordered, Over, Cold,
          Unasked, Reported, MainTyped, RmiTyped, masterVars, queueVars, beatVars
<1>8. QED
  BY <1>2, <1>3, <1>4, <1>5, <1>6, <1>7 DEF Reports

(* The way of a slave to its end. *)
LEMMA StoppingOnCourse ==
  ASSUME Undisturbed, ControlInv, NEW s \in Slaves, SlaveOnCourse(s), Stops(s)
  PROVE  Gone(s)' \/ SlaveOnCourse(s)'
<1>0. /\ MasterTyped /\ MainTyped /\ QueueTyped /\ BeatTyped /\ RmiTyped /\ WireMatches
      /\ NetMatches
  BY DEF ControlInv
<1>1. exec' = exec /\ updates' = updates
  BY SlaveUpdates
     DEF SlaveStep, Stops, TerminateDeployment, Exit, EndLoop, SendTerminated, TerminatedReply, Heartbeat,
         GrowStale, Interrupt, Crash, masterVars
<1>2. CASE TerminateDeployment(s)
  BY <1>0, <1>1, <1>2
    DEF TerminateDeployment, SlaveOnCourse, Healthy, Position, NotYet, Ordered, Over, Cold, Unasked,
        Reported, MainTyped, QueueTyped, masterVars, beatVars, rmiVars
<1>3. CASE Exit(s) \/ Crash(s)
  BY <1>0, <1>3 DEF Exit, Crash, Gone, MainTyped
<1>4. CASE EndLoop(s)
  <2>1. Over(s) /\ exec = "deregister"
    BY <1>4 DEF EndLoop, SlaveOnCourse, NotYet, Ordered, Unasked
  <2>2. reply[s] # "rmi"
    BY <1>4 DEF EndLoop, SlaveOnCourse, Position
  <2>3. QED
    BY <1>0, <1>1, <1>4, <2>1, <2>2
      DEF EndLoop, SlaveOnCourse, Healthy, Position, Over, Cold, Reported, QueueTyped, masterVars,
          mainVars, beatVars, rmiVars
<1>5. CASE SendTerminated(s)
  <2>1. Over(s) /\ exec = "deregister"
    BY <1>5 DEF SendTerminated, SlaveOnCourse, NotYet, Ordered
  <2>2. wire[s] = "none" /\ reply[s] = "none"
    BY <1>0, <1>5 DEF SendTerminated, Call, NetMatches, RmiTyped
  <2>3. QED
    BY <1>0, <1>1, <1>5, <2>1, <2>2
      DEF SendTerminated, Call, SlaveOnCourse, Healthy, Position, Over, Cold, Reported, QueueTyped,
          masterVars, mainVars, beatVars
<1>6. CASE TerminatedReply(s)
  <2>1. Over(s) /\ exec = "deregister" /\ main[s] # "reportWait"
    BY <1>0, <1>6 DEF TerminatedReply, SlaveOnCourse, NotYet, Ordered, WireMatches
  <2>2. QED
    BY <1>0, <1>1, <1>6, <2>1
      DEF TerminatedReply, Answered, SlaveOnCourse, Healthy, Position, Over, Cold, Reported,
          QueueTyped, RmiTyped, BeatTyped, masterVars
<1>7. CASE Heartbeat(s)
  BY <1>0, <1>1, <1>7
    DEF Heartbeat, SlaveOnCourse, Healthy, Position, NotYet, Ordered, Over, Cold, Unasked, Reported,
        MasterTyped, BeatTyped, mainVars, queueVars, rmiVars
<1>8. CASE GrowStale(s)
  <2>1. exec = "deregister" /\ Over(s)
    BY <1>8, ControlAssumption
      DEF GrowStale, SlaveOnCourse, Healthy, Ordered, Reported
  <2>2. QED
    BY <1>0, <1>1, <1>8, <2>1
      DEF GrowStale, SlaveOnCourse, Healthy, Position, Over, Cold, mainVars, queueVars, beatVars,
          rmiVars
<1>9. CASE Interrupt(s)
  <2>1. s = Master
    BY <1>9 DEF Interrupt, Undisturbed
  <2>2. QED
    BY <1>0, <1>1, <1>9, <2>1
      DEF Interrupt, SlaveOnCourse, Healthy, Position, NotYet, Ordered, Over, Cold, Unasked, Reported,
          masterVars, queueVars, beatVars, rmiVars
<1>10. QED
  BY <1>2, <1>3, <1>4, <1>5, <1>6, <1>7, <1>8, <1>9 DEF Stops

(* A slave that has no ports running and takes a control message other     *)
(* than ACTIVATE has none after it.                                        *)
LEMMA ColdStays ==
  ASSUME ControlInv, NEW s \in Slaves, ProcessMessage(s), Cold(s),
         container[s] \notin {"RUNNING", "NOT_RUNNING"}, Head(control_queue[s]) # "ACTIVATE"
  PROVE  Cold(s)'
<1> DEFINE q == control_queue[s]
           m == Head(q)
<1>0. QueueTyped /\ updates' = updates
  BY DEF ControlInv, ProcessMessage, faultVars
<1>1. /\ q \in Seq(Message) /\ q # <<>> /\ control_queue'[s] = Tail(q)
      /\ \/ container'[s] = Apply(m, container[s])
         \/ m = "CONFIGURE" /\ container'[s] = container[s]
  BY <1>0 DEF ProcessMessage, QueueTyped
<1>2. live'[s] \in PortsAfter(m, container[s], live[s])
  BY <1>0, PortsFacts DEF ProcessMessage
<1>3. updates <= 1 => OneConfigure(q)
  BY DEF ControlInv, UpdatesCounted
<1>4. updates \in Nat /\ (updates = 0 => NoConfigure(q))
  BY DEF ControlInv, UpdatesCounted
<1> HIDE DEF q
<1>5. /\ NoConfigure(q) => m # "CONFIGURE" /\ NoConfigure(Tail(q))
      /\ OneConfigure(q) /\ m = "CONFIGURE" => NoConfigure(Tail(q))
  BY <1>1, ConfigureFacts
<1>6. CASE m = "CONFIGURE"
  <2> SUFFICES ASSUME updates <= 1
               PROVE  /\ ~live'[s]
                      /\ container'[s] = "none" \/ (updates = 1 /\ NoConfigure(Tail(q)))
    BY <1>0, <1>1 DEF Cold
  <2>1. container[s] = "none"
    BY <1>5, <1>6 DEF Cold, q
  <2>2. updates = 1 /\ NoConfigure(Tail(q))
    BY <1>3, <1>4, <1>5, <1>6
  <2>3. QED
    BY <1>2, <1>6, <2>1, <2>2 DEF PortsAfter
<1>7. CASE m # "CONFIGURE"
  <2>1. live'[s] \in {live[s], FALSE} /\ (container'[s] = container[s] \/ container'[s] = "none")
    BY <1>1, <1>2, <1>7 DEF PortsAfter, Apply, m, q
  <2>2. QED
    BY <1>0, <1>1, <1>5, <2>1 DEF Cold, q
<1>8. QED
  BY <1>6, <1>7

(* The update finds a slave that has executed TERMINATE without container. *)
LEMMA ColdWhenPublished ==
  ASSUME ControlInv, Pushes \/ ExperimentUpdate, NEW s \in Slaves, Cold(s)
  PROVE  Cold(s)'
<1> DEFINE q == control_queue[s]
<1>1. PICK m \in Message :
        /\ Sent(m)
        /\ m = "CONFIGURE" => updates' = updates + 1
        /\ m # "CONFIGURE" => updates' = updates
  BY PushedMessages
<1>2. UNCHANGED <<container, live>> /\ updates \in Nat
  BY PushedMessages DEF ControlInv, UpdatesCounted
<1>3. q \in Seq(Message) /\ control_queue'[s] \in {q, Append(q, m)}
  BY <1>1, PublishFacts DEF ControlInv, QueueTyped
<1> HIDE DEF q
<1>4. CASE m = "CONFIGURE"
  <2>1. updates' <= 1 => updates = 0
    BY <1>1, <1>2, <1>4
  <2>2. updates = 0 => ~live[s] /\ container[s] = "none"
    BY DEF Cold
  <2>3. QED
    BY <1>2, <2>1, <2>2 DEF Cold
<1>5. CASE m # "CONFIGURE"
  <2>1. NoConfigure(q) => NoConfigure(control_queue'[s])
    BY <1>3, <1>5, ConfigureFacts
  <2>2. QED
    BY <1>1, <1>2, <1>5, <2>1 DEF Cold, q
<1>6. QED
  BY <1>4, <1>5

(* A slave takes a control message. *)
LEMMA ProcessingOnCourse ==
  ASSUME ControlInv, NEW s \in Slaves, SlaveOnCourse(s), ProcessMessage(s)
  PROVE  SlaveOnCourse(s)'
<1> DEFINE q == control_queue[s]
           m == Head(q)
<1>0. QueueTyped
  BY DEF ControlInv
<1>1. /\ control[s] = "run" /\ q \in Seq(Message) /\ q # <<>>
      /\ control_queue'[s] = Tail(q)
  BY <1>0 DEF ProcessMessage, QueueTyped
<1>2. \/ /\ container'[s] = Apply(m, container[s]) /\ control'[s] = "run"
         /\ terminate' = [terminate EXCEPT ![s] = @ \/ m = "TERMINATE"]
      \/ /\ m = "CONFIGURE" /\ control'[s] = "failed"
         /\ container'[s] = container[s] /\ terminate' = terminate
  BY <1>0, <1>1 DEF ProcessMessage, QueueTyped
<1>3. UNCHANGED <<exec, main, interrupted, slave_status, stale, beating, failures, socket, reply>>
  BY DEF ProcessMessage, masterVars, mainVars, beatVars, rmiVars
<1>12. live'[s] \in PortsAfter(m, container[s], live[s])
  BY <1>0, PortsFacts DEF ProcessMessage
<1> HIDE DEF q, m
<1>4. /\ terminate'[s] \in BOOLEAN
      /\ terminate'[s] <=> terminate[s] \/ m = "TERMINATE"
  <2>1. CASE terminate' = [terminate EXCEPT ![s] = @ \/ m = "TERMINATE"]
    BY <1>0, <2>1 DEF QueueTyped
  <2>2. CASE m = "CONFIGURE" /\ terminate' = terminate
    BY <1>0, <2>2 DEF QueueTyped
  <2>3. QED
    BY <1>2, <2>1, <2>2
<1>5. /\ NoTerminate(q) => m # "TERMINATE" /\ NoTerminate(Tail(q))
      /\ TerminateIsLast(q) => TerminateIsLast(Tail(q))
      /\ TerminateIsLast(q) /\ m = "TERMINATE" => NoActivate(Tail(q))
      /\ NoActivate(q) => m # "ACTIVATE" /\ NoActivate(Tail(q))
  BY <1>1, TailFacts DEF m
<1>6. Healthy(s)' /\ Position(s)'
  BY <1>1, <1>2, <1>3 DEF SlaveOnCourse, Healthy, Position
<1>7. ASSUME exec # "deregister" PROVE NotYet(s)'
  <2>1. NotYet(s) /\ NoTerminate(q)
    BY <1>7 DEF SlaveOnCourse, NotYet, q
  <2>2. Unasked(s)'
    BY <1>3, <1>4, <1>5, <2>1 DEF NotYet, Unasked
  <2>3. QED
    BY <1>1, <1>2, <1>3, <1>5, <2>1, <2>2 DEF NotYet
<1>8. ASSUME Ordered(s), m = "TERMINATE" PROVE Over(s)'
  <2>1. NoActivate(Tail(q)) /\ container'[s] = "none" /\ terminate'[s] /\ control'[s] = "run"
    BY <1>1, <1>2, <1>4, <1>5, <1>8 DEF Ordered, Apply, q
  <2>2. ~live'[s]
    BY <1>8, <1>12 DEF PortsAfter
  <2>3. QED
    BY <1>1, <1>3, <1>8, <2>1, <2>2 DEF Ordered, Over, Cold
<1>9. ASSUME Ordered(s), m # "TERMINATE" PROVE Ordered(s)'
  <2>1. Unasked(s)' /\ TerminateIsLast(Tail(q))
    BY <1>1, <1>3, <1>4, <1>5, <1>9 DEF Ordered, Unasked, q
  <2>2. QED
    BY <1>1, <1>2, <1>3, <1>9, <2>1 DEF Ordered
<1>10. ASSUME Over(s) PROVE Over(s)'
  <2>1. m # "ACTIVATE" /\ NoActivate(Tail(q)) /\ terminate'[s]
    BY <1>4, <1>5, <1>10 DEF Over, q
  <2>2. container'[s] \in {"none", "CONFIGURED"} /\ control'[s] # "off"
    BY <1>2, <1>10, <2>1 DEF Over, Apply
  <2>3. Cold(s)'
    BY <1>1, <1>2, <1>10, <1>12, <2>1, ColdStays DEF Over, q, m
  <2>4. QED
    BY <1>1, <1>3, <1>10, <2>1, <2>2, <2>3 DEF Over
<1>11. QED
  BY <1>3, <1>6, <1>7, <1>8, <1>9, <1>10 DEF SlaveOnCourse

(* The master is told to terminate, or its execution has ended. *)
LEMMA MasterOnCourse ==
  ASSUME ControlInv, OnCourse, NEW s \in Slaves, SlaveOnCourse(s), MasterStops(s)
  PROVE  SlaveOnCourse(s)'
<1>0. MainTyped /\ QueueTyped /\ updates' = updates
  BY SlaveUpdates DEF ControlInv, SlaveStep
<1>1. s = Master /\ TerminateExecution
  BY DEF MasterStops, ExecutionJoined, InterruptExecution, ExecStep, OnCourse
<1>2. QED
  BY <1>0, <1>1
    DEF TerminateExecution, SlaveOnCourse, Healthy, Position, NotYet, Ordered, Over, Cold, Unasked,
        Reported, MainTyped, queueVars, beatVars, rmiVars

(* What an RMI of a slave does to its state, and when it is refused. *)
LEMMA ServedStatus ==
  ASSUME ControlInv, NEW r \in net, Serve(r)
  PROVE  /\ r.fn # "SlaveTerminated" => slave_status'[r.slave] \in
              {slave_status[r.slave], "Registered", "CONFIGURED", "Error"}
         /\ \A t \in Slaves \ {r.slave} : slave_status'[t] = slave_status[t]
         /\ \A t \in Slaves \ {r.slave} : reply'[t] = reply[t]
         /\ r.late => reply' = reply
         /\ ~r.late /\ execute_promise = "pending" =>
              /\ r.fn = "SlaveStartup" /\ slave_status[r.slave] = "OFFLINE" =>
                   slave_status'[r.slave] = "Registered" /\ reply'[r.slave] = "ok"
              /\ r.fn \in {"SlaveConfigured", "SlaveConfigureError"}
                   /\ slave_status[r.slave] = "Registered" => reply'[r.slave] = "ok"
<1> DEFINE s == r.slave
<1>0. slave_status \in [Slaves -> SlaveState] /\ reply \in [Slaves -> {"none", "ok", "rmi"}]
  BY DEF ControlInv, MasterTyped, RmiTyped
<1>1. s \in Slaves /\ r.fn \in Function
  BY DEF ControlInv, RmiTyped
<1>2. PICK result \in {"ok", "rmi"} :
        /\ CASE r.fn = "SlaveStartup"        -> HandleSlaveStartup(s, result)
             [] r.fn = "SlaveConfigured"     -> HandleSlaveConfigured(s, TRUE, result)
             [] r.fn = "SlaveConfigureError" -> HandleSlaveConfigured(s, FALSE, result)
             [] r.fn = "SlaveTerminated"     -> HandleSlaveTerminated(s, result)
        /\ reply' = [reply EXCEPT ![s] = IF r.late THEN @ ELSE result]
  BY DEF Serve
<1>3. /\ \A t \in Slaves \ {s} : reply'[t] = reply[t]
      /\ r.late => reply' = reply
      /\ ~r.late => reply'[s] = result
  BY <1>0, <1>1, <1>2
<1>4. ASSUME NEW x, SetSlaveState(s, x, result)
      PROVE  /\ slave_status'[s] = x
             /\ \A t \in Slaves \ {s} : slave_status'[t] = slave_status[t]
             /\ execute_promise = "pending" => result = "ok"
  BY <1>0, <1>1, <1>4 DEF SetSlaveState
<1> HIDE DEF s
<1>5. CASE r.fn = "SlaveStartup"
  <2>1. HandleSlaveStartup(s, result)
    BY <1>2, <1>5
  <2>2. CASE slave_status[s] = "OFFLINE"
    <3>1. SetSlaveState(s, "Registered", result)
      BY <2>1, <2>2 DEF HandleSlaveStartup
    <3>2. QED
      BY <1>3, <1>4, <1>5, <3>1 DEF s
  <2>3. CASE slave_status[s] # "OFFLINE"
    BY <1>3, <1>5, <2>1, <2>3 DEF HandleSlaveStartup, Reject, s
  <2>4. QED
    BY <2>2, <2>3
<1>6. CASE r.fn = "SlaveConfigured" \/ r.fn = "SlaveConfigureError"
  <2>1. \E success \in BOOLEAN : HandleSlaveConfigured(s, success, result)
    BY <1>2, <1>6
  <2>2. CASE slave_status[s] = "Registered"
    <3>1. \E x \in {"CONFIGURED", "Error"} : SetSlaveState(s, x, result)
      BY <2>1, <2>2 DEF HandleSlaveConfigured
    <3>2. QED
      BY <1>3, <1>4, <1>6, <2>2, <3>1 DEF s
  <2>3. CASE slave_status[s] # "Registered"
    BY <1>3, <1>6, <2>1, <2>3 DEF HandleSlaveConfigured, Reject, s
  <2>4. QED
    BY <2>2, <2>3
<1>7. CASE r.fn = "SlaveTerminated"
  <2>1. SetSlaveState(s, "TERMINATED", result)
    BY <1>2, <1>7 DEF HandleSlaveTerminated
  <2>2. QED
    BY <1>3, <1>4, <1>7, <2>1 DEF s
<1>8. QED
  BY <1>1, <1>5, <1>6, <1>7 DEF Function

(* The master serves a slave that is on course: nothing is refused. *)
LEMMA ServedOnCourse ==
  ASSUME ControlInv, OnCourse, NetOnCourse, NEW r \in net, Serve(r),
         NEW s \in Slaves, ~Gone(s), SlaveOnCourse(s)
  PROVE  SlaveOnCourse(s)'
<1>1. /\ UNCHANGED <<exec, main, interrupted, stale, control, control_queue, terminate, container, live>>
      /\ UNCHANGED <<beating, failures, socket, updates>>
  BY DEF Serve, mainVars, queueVars, beatVars, faultVars
<1>2. CASE s # r.slave
  BY <1>1, <1>2, ServedStatus, SameSlaveStays DEF SameSlave
<1>3. CASE s = r.slave
  <2>1. ~r.late /\ wire[s] = r.fn /\ reply[s] = "none" /\ r.fn \in Function
    BY <1>3 DEF ControlInv, NetMatches, NetOnCourse, RmiTyped
  <2>2. slave_status[s] \in {"OFFLINE", "Registered"} => execute_promise = "pending"
    BY DEF OnCourse, ControlInv, PromiseKept, MasterTyped
  <2>3. /\ NotYet(s) => NotYet(s)'
        /\ Ordered(s) => Ordered(s)'
        /\ Over(s) => Over(s)'
    BY <1>1 DEF NotYet, Ordered, Over, Cold, Unasked
  <2>4. Healthy(s)'
    BY <1>1 DEF SlaveOnCourse, Healthy
  <2>5. Position(s)'
    <3>1. CASE r.fn = "SlaveStartup"
      <4>1. main[s] = "startupWait" /\ slave_status[s] = "OFFLINE"
        BY <2>1, <3>1 DEF ControlInv, WireMatches, SlaveOnCourse, Position
      <4>2. slave_status'[s] = "Registered" /\ reply'[s] = "ok"
        BY <1>3, <2>1, <2>2, <3>1, <4>1, ServedStatus
      <4>3. QED
        BY <1>1, <4>1, <4>2 DEF SlaveOnCourse, Position
    <3>2. CASE r.fn \in {"SlaveConfigured", "SlaveConfigureError"}
      <4>1. main[s] = "reportWait" /\ slave_status[s] = "Registered"
        BY <2>1, <3>2 DEF ControlInv, WireMatches, SlaveOnCourse, Position
      <4>2. reply'[s] = "ok"
        BY <1>3, <2>1, <2>2, <3>2, <4>1, ServedStatus
      <4>3. QED
        BY <1>1, <4>1, <4>2 DEF SlaveOnCourse, Position
    <3>3. CASE r.fn = "SlaveTerminated"
      <4>1. control[s] = "reportWait" /\ main[s] # "reportWait"
        BY <2>1, <3>3 DEF ControlInv, WireMatches
      <4>2. main[s] \in Reported
        BY <4>1 DEF SlaveOnCourse, NotYet, Ordered, Over
      <4>3. QED
        BY <1>1, <4>1, <4>2 DEF SlaveOnCourse, Position, Reported
    <3>4. QED
      BY <2>1, <3>1, <3>2, <3>3 DEF Function
  <2>6. QED
    BY <1>1, <2>3, <2>4, <2>5 DEF SlaveOnCourse
<1>4. QED
  BY <1>2, <1>3

(* A message is published: TERMINATE finds every slave configured. *)
LEMMA PublishedOnCourse ==
  ASSUME ControlInv, DownInv, OnCourse, Pushes \/ ExperimentUpdate,
         NEW s \in Slaves, ~Gone(s), SlaveOnCourse(s)
  PROVE  SlaveOnCourse(s)'
<1> DEFINE q == control_queue[s]
<1>1. PICK m \in Message :
        /\ Sent(m)
        /\ \/ m = "ACTIVATE" /\ exec = "activate" /\ exec' = "running"
           \/ m = "PASSIVATE" /\ exec = "passivate" /\ exec' = "terminate"
           \/ m = "TERMINATE" /\ exec = "terminate" /\ exec' = "deregister"
           \/ m = "CONFIGURE" /\ exec' = exec
  BY DEF Pushes, PushStateChange, Publish, Sent, ExecStep, ExperimentUpdate, Message, masterVars
<1>2. /\ UNCHANGED <<main, interrupted, slave_status, stale, control, terminate, container, live>>
      /\ UNCHANGED <<beating, failures, socket, reply>>
  BY DEF Pushes, PushStateChange, ExperimentUpdate, masterVars, mainVars, beatVars, rmiVars
<1>3. control_queue'[s] \in {q, Append(q, m)}
  BY <1>1, PublishFacts
<1>4. q \in Seq(Message)
  BY DEF ControlInv, QueueTyped
<1> HIDE DEF q
<1>5. /\ NoTerminate(q) /\ m # "TERMINATE" => NoTerminate(Append(q, m))
      /\ NoTerminate(q) => TerminateIsLast(q)
      /\ TerminateIsLast(q) /\ m # "ACTIVATE" => TerminateIsLast(Append(q, m))
      /\ NoActivate(q) /\ m # "ACTIVATE" => NoActivate(Append(q, m))
  BY <1>4, AppendFacts
<1>6. Healthy(s)' /\ Position(s)'
  BY <1>2 DEF SlaveOnCourse, Healthy, Position
<1>7. CASE exec' # "deregister"
  <2>1. m # "TERMINATE" /\ NotYet(s) /\ NoTerminate(q)
    BY <1>1, <1>7 DEF SlaveOnCourse, NotYet, q
  <2>2. NotYet(s)'
    BY <1>2, <1>3, <1>5, <2>1 DEF NotYet, Unasked
  <2>3. QED
    BY <1>6, <1>7, <2>2 DEF SlaveOnCourse
<1>8. CASE exec' = "deregister" /\ m = "TERMINATE"
  <2>1. exec = "terminate" /\ NotYet(s) /\ NoTerminate(q)
    BY <1>1, <1>8 DEF SlaveOnCourse, NotYet, q
  <2>2. slave_status[s] = "CONFIGURED"
    BY <2>1 DEF DownInv, StatusOnCourse, Settled, ControlInv, ValidPromise, PromiseKept
  <2>3. main[s] \in Reported \ {"join"}
    <3>1. main[s] \in MainPoint
      BY DEF ControlInv, MainTyped
    <3>2. main[s] \notin {"off", "startup", "startupWait", "configure", "reportOk", "reportError"}
      BY <2>2 DEF SlaveOnCourse, Position
    <3>3. QED
      BY <2>1, <3>1, <3>2 DEF SlaveOnCourse, Healthy, NotYet, MainPoint, Reported, Gone
  <2>4. control[s] \in {"run", "failed"}
    BY <2>1, <2>3 DEF NotYet, SlaveOnCourse, Position, Reported
  <2>5. TerminateIsLast(control_queue'[s])
    BY <1>3, <1>5, <1>8, <2>1
  <2>6. Ordered(s)'
    BY <1>2, <2>1, <2>3, <2>4, <2>5 DEF Ordered, NotYet, Unasked
  <2>7. QED
    BY <1>6, <1>8, <2>6 DEF SlaveOnCourse
<1>9. CASE exec' = "deregister" /\ m # "TERMINATE"
  <2>1. exec = "deregister" /\ m # "ACTIVATE"
    BY <1>1, <1>9
  <2>2. Ordered(s) => Ordered(s)'
    BY <1>2, <1>3, <1>5, <2>1 DEF Ordered, Unasked, q
  <2>3. Over(s) => Over(s)'
    BY <1>2, <1>3, <1>5, <2>1, ColdWhenPublished DEF Over, q
  <2>4. QED
    BY <1>6, <1>9, <2>1, <2>2, <2>3 DEF SlaveOnCourse
<1>10. QED
  BY <1>7, <1>8, <1>9

(* SlavesOnCourse is kept. *)
LEMMA SlavesOnCourseStep ==
  ASSUME Undisturbed, ControlInv, DownInv, [Next]_vars
  PROVE  SlavesOnCourse'
<1> SUFFICES ASSUME OnCourse', NEW s \in Slaves
             PROVE  Gone(s)' \/ SlaveOnCourse(s)'
  BY DEF SlavesOnCourse
<1>1. OnCourse
  BY CourseKept
<1>2. CASE Gone(s)
  BY <1>2, Irreversible
<1>3. CASE ~Gone(s)
  <2>0. SlaveOnCourse(s)
    BY <1>1, <1>3 DEF DownInv, SlavesOnCourse
  <2>1. ASSUME NEW t \in Slaves, SlaveStep(t), t # s PROVE SlaveOnCourse(s)'
    <3>1. SameSlave(s)
      BY <2>1, OneSlaveSteps
    <3>2. exec' = "deregister" <=> exec = "deregister"
      BY <2>1, <1>1
        DEF SlaveStep, Fails, Reports, Stops, MasterStops, Start, SendStartup,
            StartupRefused, StartupTimeout, StartupReply, BuildContainer, SendConfigured,
            ConfiguredRefused, ConfiguredTimeout, ConfiguredReply, Failing, FailJoined,
            TerminateDeployment, Exit, ProcessMessage, EndLoop, SendTerminated,
            TerminatedReply, TerminatedRefused, TerminatedTimeout, Heartbeat,
            HeartbeatRefused, HeartbeatTimeout, GrowStale, Interrupt, Crash, StartupFailed,
            TerminateExecution, ExecutionJoined, InterruptExecution, ExecStep, masterVars
    <3>3. QED
      BY <2>0, <3>1, <3>2, SameSlaveStays
  <2>2. ASSUME SlaveStep(s) PROVE Gone(s)' \/ SlaveOnCourse(s)'
    BY <1>1, <2>0, <2>2, NoFailure, ReportingOnCourse, StoppingOnCourse, MasterOnCourse,
       ProcessingOnCourse
      DEF SlaveStep, DownInv
  <2>3. ASSUME NEW r \in net, Serve(r) PROVE SlaveOnCourse(s)'
    BY <1>1, <1>3, <2>0, <2>3, ServedOnCourse DEF DownInv
  <2>4. ASSUME Pushes \/ ExperimentUpdate PROVE SlaveOnCourse(s)'
    BY <1>1, <1>3, <2>0, <2>4, PublishedOnCourse
  <2>5. ASSUME Moves PROVE SlaveOnCourse(s)'
    <3>1. SameSlave(s)
      BY <2>5
        DEF Moves, ExecuteGranted, ExecuteDenied, ExecutionOver, Deregistered,
            RemoveDeployment, SameSlave, mainVars, queueVars, beatVars, rmiVars, faultVars
    <3>2. exec' = "deregister" <=> exec = "deregister"
      BY <2>5
        DEF Moves, ExecuteGranted, ExecuteDenied, ExecutionOver, Deregistered,
            RemoveDeployment, ExecStep, OnCourse
    <3>3. QED
      BY <2>0, <3>1, <3>2, SameSlaveStays
  <2>6. ASSUME UNCHANGED vars \/ \E r \in net : LoseRequest(r) PROVE SlaveOnCourse(s)'
    <3>1. SameSlave(s) /\ exec' = exec
      BY <2>6 DEF LoseRequest, SameSlave, masterVars, mainVars, queueVars, beatVars, rmiVars, faultVars,
                   vars
    <3>2. QED
      BY <2>0, <3>1, SameSlaveStays
  <2>7. QED
    BY <2>1, <2>2, <2>3, <2>4, <2>5, <2>6, StepCases
<1>4. QED
  BY <1>2, <1>3

(* A slave that is over stays so until its process ends. *)
LEMMA SettledStays ==
  ASSUME Undisturbed, ControlInv, DownInv, [Next]_vars, OnCourse', NEW s \in Slaves, Settled(s)
  PROVE  Settled(s)'
<1>1. exec' = "deregister"
  BY Irreversible DEF Settled, OnCourse
<1>2. CASE Gone(s)
  BY <1>1, <1>2, Irreversible DEF Settled
<1>3. CASE Over(s) /\ ~Gone(s)'
  <2>1. terminate'[s]
    BY <1>3, Irreversible DEF Over
  <2>2. SlaveOnCourse(s)'
    BY <1>3, SlavesOnCourseStep DEF SlavesOnCourse
  <2>3. Over(s)'
    BY <1>1, <2>1, <2>2 DEF SlaveOnCourse, Ordered, Unasked
  <2>4. QED
    BY <1>1, <2>3 DEF Settled
<1>4. QED
  BY <1>1, <1>2, <1>3 DEF Settled

(* On course a request is new, or was there and is late when its slave is gone. *)
LEMMA RequestsOnCourse ==
  ASSUME Undisturbed, ControlInv, DownInv, [Next]_vars, OnCourse, NEW o \in net'
  PROVE  \/ ~o.late /\ o.slave \in Slaves /\ (o.fn = "SlaveTerminated" => Settled(o.slave))
         \/ \E r \in net :
              /\ o.slave = r.slave /\ o.fn = r.fn
              /\ o.late => r.late \/ Gone(r.slave)'
<1> DEFINE New == ~o.late /\ o.slave \in Slaves /\ (o.fn = "SlaveTerminated" => Settled(o.slave))
           Old == \E r \in net : /\ o.slave = r.slave /\ o.fn = r.fn
                                 /\ o.late => r.late \/ Gone(r.slave)'
<1>0. ~Unanswered
  BY DEF Unanswered, Undisturbed, DownInv, Faultless, OnCourse
<1>1. ASSUME net' \subseteq net PROVE Old
  BY <1>1
<1>2. ASSUME NEW s \in Slaves, NEW fn \in Function, Call(s, fn),
             fn = "SlaveTerminated" => Settled(s)
      PROVE  New \/ Old
  <2> DEFINE request == [slave |-> s, fn |-> fn, late |-> FALSE]
  <2>1. request.slave = s /\ request.fn = fn /\ request.late = FALSE
    OBVIOUS
  <2>2. net' = net \cup {request}
    BY <1>2 DEF Call
  <2> HIDE DEF request
  <2>3. QED
    BY <1>2, <2>1, <2>2
<1>3. ASSUME NEW s \in Slaves, SendStartup(s) \/ SendConfigured(s) PROVE New \/ Old
  BY <1>2, <1>3 DEF SendStartup, SendConfigured, Function
<1>4. ASSUME NEW s \in Slaves, SendTerminated(s) PROVE New \/ Old
  <2>1. control[s] = "report" /\ ~Gone(s)
    BY <1>4 DEF SendTerminated, DownInv, GoneIsDown, Gone
  <2>2. Settled(s)
    BY <2>1 DEF DownInv, SlavesOnCourse, SlaveOnCourse, NotYet, Ordered, Settled
  <2>3. QED
    BY <1>2, <1>4, <2>2 DEF SendTerminated, Function
<1>5. ASSUME NEW s \in Slaves, Crash(s) PROVE Old
  <2>1. PICK r \in net : o = [r EXCEPT !.late = @ \/ r.slave = s]
    BY <1>5 DEF Crash
  <2>2. r \in [slave : Slaves, fn : Function, late : BOOLEAN]
    BY DEF ControlInv, RmiTyped
  <2>3. o.slave = r.slave /\ o.fn = r.fn /\ (o.late <=> r.late \/ r.slave = s)
    BY <2>1, <2>2
  <2>4. Gone(s)'
    BY <1>5 DEF Crash, Gone, ControlInv, MainTyped
  <2>5. QED
    BY <2>3, <2>4
<1> HIDE DEF New, Old
<1>6. New \/ Old
  BY <1>0, <1>1, <1>3, <1>4, <1>5, NextCases
    DEF ExecuteGranted, ExecuteDenied, ExecutionOver, Deregistered, RemoveDeployment,
        InterruptExecution, TerminateExecution, ExecutionJoined, ExperimentUpdate, Pushes,
        PushStateChange, Start, StartupRefused, StartupTimeout, StartupReply, BuildContainer,
        ConfiguredRefused, ConfiguredTimeout, ConfiguredReply, Failing, FailJoined,
        TerminateDeployment, Exit, ProcessMessage, EndLoop, TerminatedReply,
        TerminatedRefused, TerminatedTimeout, Heartbeat, HeartbeatRefused, HeartbeatTimeout,
        GrowStale, Interrupt, Serve, LoseRequest, Refused, Answered, TimedOut, rmiVars, vars
<1>7. QED
  BY <1>6 DEF New, Old

(* NetOnCourse: only a slave that is over reports SlaveTerminated. *)
LEMMA NetOnCourseStep ==
  ASSUME Undisturbed, ControlInv, DownInv, [Next]_vars
  PROVE  NetOnCourse'
<1> SUFFICES ASSUME OnCourse', NEW o \in net'
             PROVE  /\ o.late => Gone(o.slave)'
                    /\ o.fn = "SlaveTerminated" => Settled(o.slave)'
  BY DEF NetOnCourse
<1>1. OnCourse
  BY CourseKept
<1>2. CASE ~o.late /\ o.slave \in Slaves /\ (o.fn = "SlaveTerminated" => Settled(o.slave))
  BY <1>2, SettledStays
<1>3. ASSUME NEW r \in net, o.slave = r.slave, o.fn = r.fn, o.late => r.late \/ Gone(r.slave)'
      PROVE  /\ o.late => Gone(o.slave)'
             /\ o.fn = "SlaveTerminated" => Settled(o.slave)'
  <2>1. /\ r.slave \in Slaves /\ (r.late => Gone(r.slave))
        /\ r.fn = "SlaveTerminated" => Settled(r.slave)
    BY <1>1 DEF ControlInv, RmiTyped, DownInv, NetOnCourse
  <2>2. QED
    BY <1>3, <2>1, SettledStays, Irreversible
<1>4. QED
  BY <1>1, <1>2, <1>3, RequestsOnCourse

(* StatusOnCourse: the master holds a slave for terminated when it is over. *)
LEMMA StatusOnCourseStep ==
  ASSUME Undisturbed, ControlInv, DownInv, [Next]_vars
  PROVE  StatusOnCourse'
<1> SUFFICES ASSUME OnCourse'
             PROVE  /\ \A s \in Slaves : slave_status'[s] = "TERMINATED" => Settled(s)'
                    /\ exec' # "waitExecute" => execution_valid'
  BY DEF StatusOnCourse
<1>1. OnCourse
  BY CourseKept
<1>2. ASSUME NEW s \in Slaves, slave_status'[s] = "TERMINATED" PROVE Settled(s)'
  <2>1. ASSUME NEW r \in net, Serve(r), slave_status[s] # "TERMINATED" PROVE Settled(s)
    <3>1. s = r.slave /\ r.fn = "SlaveTerminated"
      BY <1>2, <2>1, ServedStatus
    <3>2. QED
      BY <1>1, <3>1 DEF DownInv, NetOnCourse
  <2>2. (\E r \in net : Serve(r)) \/ UNCHANGED slave_status
    BY NextCases
      DEF ExecuteGranted, ExecuteDenied, ExecutionOver, Deregistered, RemoveDeployment,
          InterruptExecution, TerminateExecution, ExecutionJoined, ExperimentUpdate, Pushes,
          PushStateChange, Start, SendStartup, StartupRefused, StartupTimeout, StartupReply,
          BuildContainer, SendConfigured, ConfiguredRefused, ConfiguredTimeout,
          ConfiguredReply, Failing, FailJoined, TerminateDeployment, Exit, ProcessMessage,
          EndLoop, SendTerminated, TerminatedReply, TerminatedRefused, TerminatedTimeout,
          Heartbeat, HeartbeatRefused, HeartbeatTimeout, GrowStale, Interrupt, Crash,
          LoseRequest, StartupFailed, masterVars, vars
  <2>3. Settled(s)
    BY <1>1, <1>2, <2>1, <2>2 DEF DownInv, StatusOnCourse
  <2>4. QED
    BY <2>3, SettledStays
<1>3. exec' # "waitExecute" => execution_valid'
  <2>1. exec # "waitExecute" => execution_valid
    BY <1>1 DEF DownInv, StatusOnCourse
  <2>2. ASSUME Moves \/ InterruptExecution PROVE exec' # "waitExecute" => execution_valid'
    BY <1>1, <2>1, <2>2
      DEF OnCourse, Moves, ExecuteGranted, ExecuteDenied, ExecutionOver, Deregistered,
          RemoveDeployment, InterruptExecution, ExecStep
  <2>3. ASSUME Pushes PROVE exec' # "waitExecute" => execution_valid'
    BY <2>1, <2>3 DEF Pushes, PushStateChange, ExecStep
  <2>4. ASSUME UNCHANGED <<exec, execution_valid>>
        PROVE  exec' # "waitExecute" => execution_valid'
    BY <2>1, <2>4
  <2>5. QED
    BY <2>2, <2>3, <2>4, NextCases
      DEF Moves, TerminateExecution, ExecutionJoined, ExperimentUpdate, Start, SendStartup,
          StartupRefused, StartupTimeout, StartupReply, BuildContainer, SendConfigured,
          ConfiguredRefused, ConfiguredTimeout, ConfiguredReply, Failing, FailJoined,
          TerminateDeployment, Exit, ProcessMessage, EndLoop, SendTerminated,
          TerminatedReply, TerminatedRefused, TerminatedTimeout, Heartbeat, HeartbeatRefused,
          HeartbeatTimeout, GrowStale, Interrupt, Crash, Serve, LoseRequest, StartupFailed,
          masterVars, vars
<1>4. QED
  BY <1>2, <1>3

(* GoneIsDown: the container goes with the process. *)
LEMMA GoneIsDownStep ==
  ASSUME ControlInv, GoneIsDown, [Next]_vars
  PROVE  GoneIsDown'
<1> DEFINE Ended == {"destroying", "destroyWait", "exited", "crashed"}
<1> SUFFICES ASSUME NEW s \in Slaves, main'[s] \in Ended
             PROVE  container'[s] = "none" /\ ~live'[s] /\ control'[s] \in {"done", "failed"}
  BY DEF GoneIsDown
<1>0. /\ MainTyped /\ QueueTyped
      /\ main[s] \in Ended => container[s] = "none" /\ ~live[s] /\ control[s] \in {"done", "failed"}
  BY DEF ControlInv, GoneIsDown
<1>1. ASSUME NEW t \in Slaves, SlaveStep(t), t # s
      PROVE  container'[s] = "none" /\ ~live'[s] /\ control'[s] \in {"done", "failed"}
  BY <1>0, <1>1, OneSlaveSteps DEF SameSlave
<1>2. ASSUME Fails(s) PROVE container'[s] = "none" /\ ~live'[s] /\ control'[s] \in {"done", "failed"}
  BY <1>0, <1>2
    DEF Fails, StartupRefused, StartupTimeout, ConfiguredRefused, ConfiguredTimeout,
        TerminatedRefused, TerminatedTimeout, HeartbeatRefused, HeartbeatTimeout, Failing,
        FailJoined, StartupFailed, DestroyDeployment, MainTyped, QueueTyped, mainVars, queueVars
<1>3. ASSUME Reports(s) PROVE container'[s] = "none" /\ ~live'[s] /\ control'[s] \in {"done", "failed"}
  BY <1>0, <1>3
    DEF Reports, Start, SendStartup, StartupReply, BuildContainer, SendConfigured,
        ConfiguredReply, MainTyped, QueueTyped
<1>4. ASSUME Stops(s) PROVE container'[s] = "none" /\ ~live'[s] /\ control'[s] \in {"done", "failed"}
  BY <1>0, <1>4
    DEF Stops, TerminateDeployment, Exit, EndLoop, SendTerminated, TerminatedReply, Heartbeat,
        GrowStale, Interrupt, Crash, DestroyDeployment, MainTyped, QueueTyped, mainVars,
        queueVars
<1>5. ASSUME MasterStops(s) PROVE container'[s] = "none" /\ ~live'[s] /\ control'[s] \in {"done", "failed"}
  BY <1>0, <1>5
    DEF MasterStops, TerminateExecution, ExecutionJoined, InterruptExecution, MainTyped,
        QueueTyped, queueVars
<1>6. ASSUME ProcessMessage(s) PROVE container'[s] = "none" /\ ~live'[s] /\ control'[s] \in {"done", "failed"}
  BY <1>0, <1>6 DEF ProcessMessage, mainVars
<1>7. ASSUME UNCHANGED <<main, control, container, live>>
      PROVE  container'[s] = "none" /\ ~live'[s] /\ control'[s] \in {"done", "failed"}
  BY <1>0, <1>7
<1>8. QED
  BY <1>1, <1>2, <1>3, <1>4, <1>5, <1>6, <1>7, StepCases
    DEF SlaveStep, Serve, LoseRequest, Moves, ExecuteGranted, ExecuteDenied, ExecutionOver,
        Deregistered, RemoveDeployment, Pushes, PushStateChange, ExperimentUpdate, mainVars,
        queueVars, vars

(* Faultless: the budget for timeouts is zero. *)
LEMMA FaultlessStep ==
  ASSUME Undisturbed, Faultless, [Next]_vars
  PROVE  Faultless'
<1>1. Unanswered => timeouts' = 0
  BY DEF Unanswered, Undisturbed, Faultless
<1>2. QED
  BY <1>1, NextCases
    DEF Faultless, ExecuteGranted, ExecuteDenied, ExecutionOver, Deregistered,
        RemoveDeployment, InterruptExecution, TerminateExecution, ExecutionJoined, Pushes,
        PushStateChange, ExperimentUpdate, Start, SendStartup, StartupRefused,
        StartupTimeout, StartupReply, BuildContainer, SendConfigured, ConfiguredRefused,
        ConfiguredTimeout, ConfiguredReply, Failing, FailJoined, TerminateDeployment, Exit,
        ProcessMessage, EndLoop, SendTerminated, TerminatedReply, TerminatedRefused,
        TerminatedTimeout, Heartbeat, HeartbeatRefused, HeartbeatTimeout, GrowStale,
        Interrupt, Crash, Serve, LoseRequest, TimedOut, faultVars, vars

(* StaysDown: the deployment is removed when every slave is over, gone or  *)
(* has grown stale, which on course only those do, and nothing activates a *)
(* slave any more.                                                         *)
LEMMA StaysDownStep ==
  ASSUME Undisturbed, ControlInv, DownInv, [Next]_vars
  PROVE  StaysDown'
<1> DEFINE Removed == {"remove", "interrupt", "done"}
<1> SUFFICES ASSUME execution_valid', exec' \in Removed, NEW s \in Slaves PROVE Down(s)'
  BY DEF StaysDown
<1>0. MainTyped /\ QueueTyped
  BY DEF ControlInv
<1>1. CASE exec \notin Removed
  <2>1. /\ Deregistered
        /\ UNCHANGED <<execute_promise, execution_valid, slave_status, stale>>
    BY <1>1, NextCases
      DEF ExecuteGranted, ExecuteDenied, ExecutionOver, Deregistered, RemoveDeployment,
          InterruptExecution, TerminateExecution, ExecutionJoined, ExperimentUpdate, Pushes,
          PushStateChange, Start, SendStartup, StartupRefused, StartupTimeout, StartupReply,
          BuildContainer, SendConfigured, ConfiguredRefused, ConfiguredTimeout,
          ConfiguredReply, Failing, FailJoined, TerminateDeployment, Exit, ProcessMessage,
          EndLoop, SendTerminated, TerminatedReply, TerminatedRefused, TerminatedTimeout,
          Heartbeat, HeartbeatRefused, HeartbeatTimeout, GrowStale, Interrupt, Crash, Serve,
          LoseRequest, StartupFailed, ExecStep, masterVars, vars
  <2>2. OnCourse
    <3>1. ~Gone(Master)
      BY <1>1, MasterActs
    <3>2. execute_promise # "exception"
      BY <2>1 DEF ControlInv, ValidPromise
    <3>3. QED
      BY <1>1, <3>1, <3>2 DEF OnCourse
  <2>3. exec = "deregister" /\ (slave_status[s] = "TERMINATED" \/ stale[s])
    BY <2>1 DEF Deregistered, ExecStep, AllSlavesTerminated
  <2>4. Gone(s) \/ Over(s)
    <3>1. CASE slave_status[s] = "TERMINATED"
      BY <2>2, <3>1 DEF DownInv, StatusOnCourse, Settled
    <3>2. CASE stale[s]
      BY <2>2, <2>3, <3>2 DEF DownInv, SlavesOnCourse, SlaveOnCourse, Ordered, Unasked
    <3>3. QED
      BY <2>3, <3>1, <3>2
  <2>5. Down(s)
    BY <2>4 DEF DownInv, GoneIsDown, Gone, Over, Reported, Unbuilt, Cold, Down
  <2>6. QED
    BY <2>1, <2>5 DEF Deregistered, Down, Cold, mainVars, queueVars, faultVars
<1>2. CASE exec \in Removed
  <2>0. Down(s)
    <3>1. execution_valid
      BY <1>2, NextCases
        DEF ExecuteGranted, ExecuteDenied, ExecutionOver, Deregistered, RemoveDeployment,
            InterruptExecution, TerminateExecution, ExecutionJoined, ExperimentUpdate, Pushes,
            PushStateChange, Start, SendStartup, StartupRefused, StartupTimeout, StartupReply,
            BuildContainer, SendConfigured, ConfiguredRefused, ConfiguredTimeout,
            ConfiguredReply, Failing, FailJoined, TerminateDeployment, Exit, ProcessMessage,
            EndLoop, SendTerminated, TerminatedReply, TerminatedRefused, TerminatedTimeout,
            Heartbeat, HeartbeatRefused, HeartbeatTimeout, GrowStale, Interrupt, Crash, Serve,
            LoseRequest, StartupFailed, ExecStep, masterVars, vars
    <3>2. QED
      BY <1>2, <3>1 DEF DownInv, StaysDown
  <2>1. ASSUME NEW t \in Slaves, SlaveStep(t), t # s PROVE Down(s)'
    BY <2>0, <2>1, OneSlaveSteps DEF SameSlave, Down, Cold
  <2>10. SlaveStep(s) => updates' = updates
    BY SlaveUpdates
  <2>2. ASSUME Fails(s) PROVE Down(s)'
    BY <1>0, <2>0, <2>2, <2>10
      DEF SlaveStep, Down, Cold, Unbuilt, MainTyped, mainVars, Fails, StartupRefused,
          StartupTimeout, ConfiguredRefused, ConfiguredTimeout,
          TerminatedRefused, TerminatedTimeout, HeartbeatRefused, HeartbeatTimeout, Failing,
          FailJoined, StartupFailed, DestroyDeployment, QueueTyped, queueVars
  <2>3. ASSUME Reports(s) PROVE Down(s)'
    BY <1>0, <2>0, <2>3, <2>10
      DEF SlaveStep, Down, Cold, Unbuilt, MainTyped, Reports, Start, SendStartup, StartupReply,
          BuildContainer, SendConfigured, ConfiguredReply, QueueTyped, queueVars
  <2>4. ASSUME Stops(s) PROVE Down(s)'
    BY <1>0, <2>0, <2>4, <2>10
      DEF SlaveStep, Down, Cold, Unbuilt, MainTyped, Stops, TerminateDeployment, Exit, EndLoop,
          SendTerminated, TerminatedReply, Heartbeat, GrowStale, Interrupt, Crash,
          DestroyDeployment, QueueTyped, mainVars, queueVars
  <2>5. ASSUME MasterStops(s) PROVE Down(s)'
    BY <1>0, <2>0, <2>5, <2>10
      DEF SlaveStep, Down, Cold, Unbuilt, MainTyped, MasterStops, TerminateExecution,
          ExecutionJoined, InterruptExecution, QueueTyped, queueVars
  <2>6. ASSUME ProcessMessage(s) PROVE Down(s)'
    <3> DEFINE q == control_queue[s]
               m == Head(q)
    <3>1. /\ control[s] = "run" /\ q \in Seq(Message) /\ q # <<>>
          /\ control_queue'[s] = Tail(q)
          /\ \/ container'[s] = Apply(m, container[s]) /\ control'[s] = "run"
             \/ container'[s] = container[s] /\ control'[s] = "failed"
      BY <1>0, <2>6 DEF ProcessMessage, QueueTyped
    <3>2. NoActivate(q)
      BY <2>0, <3>1 DEF Down
    <3> HIDE DEF q
    <3>3. m # "ACTIVATE" /\ NoActivate(Tail(q))
      BY <3>1, <3>2, TailFacts
    <3>4. container'[s] \notin {"RUNNING", "NOT_RUNNING"}
      BY <2>0, <3>1, <3>3 DEF Down, Apply
    <3>5. Cold(s)'
      BY <2>0, <2>6, <3>1, <3>3, ColdStays DEF Down, q
    <3>6. main' = main
      BY <2>6 DEF ProcessMessage, mainVars
    <3>7. QED
      BY <2>0, <3>1, <3>3, <3>4, <3>5, <3>6 DEF Down
  <2>7. ASSUME Pushes \/ ExperimentUpdate PROVE Down(s)'
    <3>1. PICK m \in Message : Sent(m) /\ (m = "ACTIVATE" => exec = "activate")
      BY <2>7, PushedMessages
    <3>2. /\ m # "ACTIVATE" /\ control_queue[s] \in Seq(Message)
          /\ UNCHANGED <<control, container>>
      BY <1>0, <1>2, <2>7, <3>1, PushedMessages DEF QueueTyped
    <3>3. NoActivate(control_queue[s]) => NoActivate(Append(control_queue[s], m))
      BY <3>2, AppendFacts
    <3>4. NoActivate(control_queue[s]) => NoActivate(control_queue'[s])
      BY <3>1, <3>3, PublishFacts
    <3>5. Cold(s)' /\ main' = main
      BY <2>0, <2>7, ColdWhenPublished
        DEF Down, Pushes, PushStateChange, ExperimentUpdate, mainVars
    <3>6. QED
      BY <2>0, <3>2, <3>4, <3>5 DEF Down
  <2>8. ASSUME UNCHANGED <<main, control, control_queue, container, live, updates>>
        PROVE  Down(s)'
    BY <2>0, <2>8 DEF Down, Cold
  <2>9. QED
    BY <2>1, <2>2, <2>3, <2>4, <2>5, <2>6, <2>7, <2>8, StepCases
      DEF SlaveStep, Serve, LoseRequest, Moves, ExecuteGranted, ExecuteDenied, ExecutionOver,
          Deregistered, RemoveDeployment, mainVars, queueVars, faultVars, vars
<1>3. QED
  BY <1>1, <1>2

(* No slave has started, and nothing was published. *)
LEMMA DownInit ==
  ASSUME Init
  PROVE  DownInv
<1>1. Faultless /\ GoneIsDown /\ NetOnCourse /\ StatusOnCourse /\ StaysDown
  BY DEF Init, Faultless, GoneIsDown, NetOnCourse, StatusOnCourse, StaysDown
<1>2. SlavesOnCourse
  BY ControlAssumption
    DEF Init, SlavesOnCourse, SlaveOnCourse, Healthy, Position, NotYet, Unasked, NoTerminate,
        Reported
<1>3. QED
  BY <1>1, <1>2 DEF DownInv

(* RemovedIsDown: when the master of a valid execution removes the         *)
(* deployment no container of it runs and no port of a component does,     *)
(* whichever processes crash and whichever publications are lost, as long  *)
(* as no request times out while the master is up, no slave but the        *)
(* master's is interrupted and the experiment is updated at most once.     *)
THEOREM RemovedWhenDown ==
  ASSUME Undisturbed
  PROVE  Spec => []RemovedIsDown
<1>1. ASSUME ControlInv, DownInv, [Next]_vars PROVE DownInv'
  BY <1>1, FaultlessStep, GoneIsDownStep, SlavesOnCourseStep, NetOnCourseStep,
     StatusOnCourseStep, StaysDownStep
    DEF DownInv
<1>2. ASSUME DownInv PROVE RemovedIsDown
  BY <1>2 DEF DownInv, StaysDown, Down, Cold, RemovedIsDown
<1>3. QED
  BY <1>1, <1>2, DownInit, ControlInvariant, PTL DEF Spec
=============================================================================
