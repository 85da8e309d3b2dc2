------------------------- MODULE EnvironmentManager -------------------------
(***************************************************************************)
(* The environment manager (src/re/src/environmentmanager): one process    *)
(* that registers experiments, gives them ports and answers their masters. *)
(*   - The replier of the DeploymentRegister is one thread: it registers,  *)
(*     shuts down and inspects experiments and admits node managers.       *)
(*   - Every admitted master, and every admitted logan server, gets a      *)
(*     DeploymentHandler with a thread of its own, bound to a manager port,*)
(*     which answers the peer until it says END_HEARTBEAT or is silent for *)
(*     2 + 4 + 8 seconds.                                                  *)
(*   - CleanupTask destroys the handlers that removed their deployment.    *)
(* A callback that takes experiment_mutex_ more than once is several steps.*)
(* Experiments are found by name, so a handler may meet a later experiment *)
(* of the same name; gen tells the two apart and is not in the code.       *)
(*                                                                         *)
(* One node stands for the host of the masters: its PortTracker gives each *)
(* experiment the two ports of its master.  Ports of components belong to  *)
(* Node objects, which free them unconditionally, and are left out.        *)
(***************************************************************************)
EXTENDS Naturals, Sequences, FiniteSets, Functions

CONSTANTS
  Names,               \* experiment names
  Feeds,               \* Feeds[n]: experiments that consume external ports of n
  ManagerPorts,        \* the manager ports, in the order they are handed out
  NodePorts,           \* the ports of the node
  MaxHandlers,         \* bound: DeploymentHandlers at one time
  MaxRegistrations,    \* bound: PopulateExperiment calls that find the name unused
  MaxInspects,         \* bound: InspectExperiment calls
  MaxCrashes,          \* bound: peers that die
  MaxLosses            \* bound: replies that reach the peer too late

ASSUME EnvironmentAssumption ==
  /\ Feeds \in [Names -> SUBSET Names]
  /\ ManagerPorts \in Seq(Nat) /\ IsInjective(ManagerPorts)
  /\ NodePorts \in Seq(Nat) /\ IsInjective(NodePorts)
  /\ MaxHandlers \in Nat /\ MaxRegistrations \in Nat /\ MaxInspects \in Nat
  /\ MaxCrashes \in Nat /\ MaxLosses \in Nat

VARIABLES
  experiment_map,                  \* name -> experiment, for the registered names
  available_node_manager_ports,    \* unique_queue of the Environment
  available_ports,                 \* unique_queue of the node's PortTracker
  handlers,                        \* id -> DeploymentHandler, with its peer
  reg,                             \* the node manager registration under way, if any
  fault,                           \* why the process ended
  generation, taken, abandoned,  \* history
  inspects, crashes, losses

portVars  == <<available_node_manager_ports, available_ports>>
boundVars == <<inspects, crashes, losses>>
histVars  == <<generation, taken, abandoned>>

vars == <<experiment_map, portVars, handlers, reg, fault, histVars, boundVars>>

Experiment == [state : {"CONFIGURED", "ACTIVE"}, gen : Nat, manager_port : Nat,
               master_ports : Seq(Nat), dirty : BOOLEAN, shutdown : BOOLEAN]

(* pc is where the handler's thread is, seen the experiment it has a       *)
(* reference to; peer is the process at the other end, none where the      *)
(* reply to its registration was lost.                                     *)
Handler == [kind : {"EXECUTION_MASTER", "LOGAN_SERVER"}, name : Names, port : Nat,
            pc : {"start", "poll", "info", "activate", "dirty", "timedOut", "ended"},
            seen : Nat, removed : BOOLEAN,
            peer : {"none", "up", "running", "told", "leaving", "gone"}]

Idle == [pc |-> "idle"]

HandlerIds == 1..MaxHandlers

Init ==
  /\ experiment_map = [n \in {} |-> Idle]
  /\ available_node_manager_ports = ManagerPorts
  /\ available_ports = NodePorts
  /\ handlers = [h \in {} |-> Idle]
  /\ reg = Idle
  /\ fault = "none"
  /\ generation = 0 /\ taken = {} /\ abandoned = {}
  /\ inspects = 0 /\ crashes = 0 /\ losses = 0

-----------------------------------------------------------------------------
(* Helpers. *)

Registered(n) == n \in DOMAIN experiment_map

Exists(n, g) == Registered(n) /\ experiment_map[n].gen = g

InState(n, s) == Registered(n) /\ experiment_map[n].state = s

(* unique_queue::push: a value that is there is not queued again. *)
Push(q, p) == IF p \in Range(q) THEN q ELSE Append(q, p)

PushAll(q, ps) == CASE Len(ps) = 0 -> q
                    [] Len(ps) = 1 -> Push(q, ps[1])
                    [] OTHER       -> Push(Push(q, ps[1]), ps[2])

(* Faulty variant: a consumer that is not registered is looked up with []. *)
UpdateConsumers_Inserts(n, experiments) ==
  [c \in DOMAIN experiments \cup Feeds[n] |->
     IF c \in DOMAIN experiments THEN experiments[c] ELSE Idle]

(* AddExternalProducerPort and RemoveExternalProducerPort: UpdatePort on   *)
(* the experiments that consume what n produces.                           *)
UpdateConsumers(n, experiments) ==
  [c \in DOMAIN experiments |->
     IF c \in Feeds[n] THEN [experiments[c] EXCEPT !.dirty = TRUE] ELSE experiments[c]]

Handle(h, f, x) == [handlers EXCEPT ![h][f] = x]

CountLoss(lost) ==
  /\ lost => losses < MaxLosses
  /\ losses' = IF lost THEN losses + 1 ELSE losses

(* ~Experiment: the ports of the master are only freed when it was ACTIVE. *)
FreePorts(e) ==
  /\ available_node_manager_ports' = Push(available_node_manager_ports, e.manager_port)
  /\ available_ports' = IF e.state = "ACTIVE" THEN PushAll(available_ports, e.master_ports)
                        ELSE available_ports

(* RemoveExperimentInternal, for a registered name. *)
RemoveExperimentInternal(n) ==
  /\ experiment_map' = UpdateConsumers(n, Restrict(experiment_map, DOMAIN experiment_map \ {n}))
  /\ FreePorts(experiment_map[n])

(* GetProto clears the dirty flag, whoever asked. *)
GetProto(n) == experiment_map' = [experiment_map EXCEPT ![n].dirty = FALSE]

(* History: a SHUTDOWN_EXPERIMENT that goes to somebody who is not its     *)
(* master, or to a master that has stopped waiting for the reply.          *)
TakenBy(n) == IF experiment_map[n].shutdown THEN taken \cup {experiment_map[n].gen} ELSE taken

-----------------------------------------------------------------------------
(* The replier of the DeploymentRegister. *)

(* The ports GetPort gives the master: none where the queue is empty. *)
MasterPorts == SubSeq(available_ports, 1, IF Len(available_ports) < 2 THEN Len(available_ports) ELSE 2)

(* CheckValidity, as far as ports go. *)
CheckValidity(ports) == Len(ports) = 2

(* PopulateExperiment, under both mutexes.  The model that was sent is     *)
(* refused before its external ports are known, or after that, with the    *)
(* ports of the master taken or not, or it is good.                        *)
PopulateExperiment(n) ==
  /\ reg = Idle /\ ~Registered(n)
  /\ generation < MaxRegistrations
  /\ available_node_manager_ports # <<>>
  /\ generation' = generation + 1
  /\ LET port == Head(available_node_manager_ports)
         rest == Tail(available_node_manager_ports)
         left == SubSeq(available_ports, Len(MasterPorts) + 1, Len(available_ports))
         new == [state |-> "CONFIGURED", gen |-> generation', manager_port |-> port,
                 master_ports |-> MasterPorts, dirty |-> FALSE, shutdown |-> FALSE]
     IN \/ /\ available_node_manager_ports' = Push(rest, port)
           /\ UNCHANGED <<experiment_map, available_ports>>
        \/ /\ available_node_manager_ports' = Push(rest, port)
           /\ available_ports' \in {available_ports, left}
           /\ experiment_map' = UpdateConsumers(n, experiment_map)
        \/ /\ CheckValidity(MasterPorts)
           /\ available_node_manager_ports' = rest
           /\ available_ports' = left
           /\ experiment_map' = [c \in DOMAIN experiment_map \cup {n} |->
                IF c = n THEN new ELSE UpdateConsumers(n, experiment_map)[c]]
  /\ UNCHANGED <<handlers, reg, fault, taken, abandoned, boundVars>>

(* Faulty variant: the flag that makes the next heartbeat look is not set. *)
ShutdownExperiment_NotDirty(n) ==
  /\ reg = Idle /\ Registered(n)
  /\ IF experiment_map[n].state = "ACTIVE"
       THEN /\ experiment_map' = [experiment_map EXCEPT ![n].shutdown = TRUE]
            /\ UNCHANGED portVars
       ELSE RemoveExperimentInternal(n)
  /\ UNCHANGED <<handlers, reg, fault, histVars, boundVars>>

(* Faulty variant: the manager port is freed with the order to shut down. *)
ShutdownExperiment_FreesPort(n) ==
  /\ reg = Idle /\ Registered(n)
  /\ IF experiment_map[n].state = "ACTIVE"
       THEN /\ experiment_map' = [experiment_map EXCEPT ![n].shutdown = TRUE, ![n].dirty = TRUE]
            /\ available_node_manager_ports' =
                 Push(available_node_manager_ports, experiment_map[n].manager_port)
            /\ UNCHANGED available_ports
       ELSE RemoveExperimentInternal(n)
  /\ UNCHANGED <<handlers, reg, fault, histVars, boundVars>>

(* ShutdownExperiment: an active experiment is marked, any other removed. *)
ShutdownExperiment(n) ==
  /\ reg = Idle /\ Registered(n)
  /\ IF experiment_map[n].state = "ACTIVE"
       THEN /\ ~experiment_map[n].shutdown
            /\ experiment_map' = [experiment_map EXCEPT ![n].shutdown = TRUE, ![n].dirty = TRUE]
            /\ UNCHANGED portVars
       ELSE RemoveExperimentInternal(n)
  /\ UNCHANGED <<handlers, reg, fault, histVars, boundVars>>

(* InspectExperiment: the operator gets the message a master would. *)
InspectExperiment(n) ==
  /\ reg = Idle /\ Registered(n)
  /\ inspects < MaxInspects
  /\ inspects' = inspects + 1
  /\ GetProto(n)
  /\ taken' = TakenBy(n)
  /\ UNCHANGED <<portVars, handlers, reg, fault, generation, abandoned, crashes, losses>>

(* Handlers have no names in the code: the smallest free number will do. *)
FreeId(h) == h \notin DOMAIN handlers /\ \A i \in 1..(h - 1) : i \in DOMAIN handlers

(* HandleNodeManagerRegistration of the master container: the checks, ... *)
CheckRegistration(n) ==
  /\ reg = Idle
  /\ InState(n, "CONFIGURED")
  /\ \E h \in HandlerIds : FreeId(h)
  /\ reg' = [pc |-> "construct", name |-> n, gen |-> experiment_map[n].gen]
  /\ UNCHANGED <<experiment_map, portVars, handlers, fault, histVars, boundVars>>

NewHandler(h, kind, n, port, peer) ==
  handlers' = [i \in DOMAIN handlers \cup {h} |->
    IF i = h THEN [kind |-> kind, name |-> n, port |-> port, pc |-> "start", seen |-> 0,
                   removed |-> FALSE, peer |-> peer]
    ELSE handlers[i]]

(* ... the DeploymentHandler, which looks the experiment up again, ... *)
ConstructHandler ==
  /\ reg.pc = "construct"
  /\ IF Registered(reg.name)
       THEN \E h \in HandlerIds :
              /\ FreeId(h)
              /\ NewHandler(h, "EXECUTION_MASTER", reg.name,
                            experiment_map[reg.name].manager_port, "none")
              /\ reg' = [pc |-> "reply", name |-> reg.name, gen |-> reg.gen, handler |-> h]
       ELSE reg' = Idle /\ UNCHANGED handlers
  /\ UNCHANGED <<experiment_map, portVars, fault, histVars, boundVars>>

(* ... and the reply, made from the references taken by the checks.  It    *)
(* may fail or come too late, and then nobody talks to the handler.        *)
ReplyRegistration ==
  /\ reg.pc = "reply"
  /\ IF Exists(reg.name, reg.gen)
       THEN \E peer \in {"none", "up"} :
              /\ CountLoss(peer = "none")
              /\ handlers' = Handle(reg.handler, "peer", peer)
              /\ UNCHANGED fault
       ELSE fault' = "dangling" /\ UNCHANGED <<handlers, losses>>
  /\ reg' = Idle
  /\ UNCHANGED <<experiment_map, portVars, histVars, inspects, crashes>>

(* HandleLoganRegistration: the server gets a manager port of its own. *)
LoganRegistration(n) ==
  /\ reg = Idle /\ Registered(n)
  /\ available_node_manager_ports # <<>>
  /\ available_node_manager_ports' = Tail(available_node_manager_ports)
  /\ \E h \in HandlerIds :
       /\ FreeId(h)
       /\ NewHandler(h, "LOGAN_SERVER", n, Head(available_node_manager_ports), "running")
  /\ UNCHANGED <<experiment_map, available_ports, reg, fault, histVars, boundVars>>

-----------------------------------------------------------------------------
(* The thread of a DeploymentHandler. *)

Bound(port) == \E h \in DOMAIN handlers : handlers[h].port = port /\ handlers[h].pc \notin {"start", "ended"}

(* HeartbeatLoop starts the replier, which is when the port is bound.  The *)
(* function is noexcept: a port in use ends the process.                   *)
StartReplier(h) ==
  /\ handlers[h].pc = "start"
  /\ IF Bound(handlers[h].port)
       THEN fault' = "bind" /\ UNCHANGED handlers
       ELSE handlers' = Handle(h, "pc", "poll") /\ UNCHANGED fault
  /\ UNCHANGED <<experiment_map, portVars, reg, histVars, boundVars>>

(* HandleGetExperimentInfo: the experiment is looked up; a master that is  *)
(* refused gives up.                                                       *)
GetExperimentInfo(h) ==
  /\ handlers[h].kind = "EXECUTION_MASTER"
  /\ handlers[h].pc = "poll" /\ handlers[h].peer = "up"
  /\ handlers' = IF InState(handlers[h].name, "CONFIGURED")
                   THEN [handlers EXCEPT ![h].pc = "info",
                                         ![h].seen = experiment_map[handlers[h].name].gen]
                   ELSE Handle(h, "peer", "leaving")
  /\ UNCHANGED <<experiment_map, portVars, reg, fault, histVars, boundVars>>

(* The end of a request whose callback threw. *)
Refuse(h) ==
  handlers' = [handlers EXCEPT ![h].pc = "poll",
                               ![h].peer = IF @ = "up" THEN "leaving" ELSE @]

(* ... GetProto(name, true) looks it up by name again, ... *)
InfoProto(h) ==
  /\ handlers[h].pc = "info"
  /\ IF Registered(handlers[h].name)
       THEN /\ GetProto(handlers[h].name)
            /\ taken' = TakenBy(handlers[h].name)
            /\ handlers' = Handle(h, "pc", "activate")
       ELSE Refuse(h) /\ UNCHANGED <<experiment_map, taken>>
  /\ UNCHANGED <<portVars, reg, fault, generation, abandoned, boundVars>>

(* Faulty variant: SetActive does not look at the state. *)
SetActive_Unchecked(h) ==
  /\ handlers[h].pc = "activate"
  /\ LET n == handlers[h].name IN
     IF Exists(n, handlers[h].seen)
       THEN /\ experiment_map' = [experiment_map EXCEPT ![n].state = "ACTIVE"]
            /\ handlers' = [handlers EXCEPT ![h].pc = "poll",
                                            ![h].peer = IF @ = "up" THEN "running" ELSE @]
            /\ UNCHANGED fault
       ELSE fault' = "dangling" /\ UNCHANGED <<experiment_map, handlers>>
  /\ UNCHANGED <<portVars, reg, histVars, boundVars>>

(* ... and SetActive works on the reference.  The master that gets the     *)
(* reply too late leaves, and the experiment stays ACTIVE.                 *)
SetActive(h) ==
  /\ handlers[h].pc = "activate"
  /\ LET n == handlers[h].name IN
     IF Exists(n, handlers[h].seen)
       THEN /\ UNCHANGED fault
            /\ \/ /\ experiment_map[n].state = "CONFIGURED"
                  /\ experiment_map' = [experiment_map EXCEPT ![n].state = "ACTIVE"]
                  /\ \E answer \in {"running", "leaving"} :
                       /\ CountLoss(answer = "leaving")
                       /\ handlers' = [handlers EXCEPT ![h].pc = "poll",
                                          ![h].peer = IF @ = "up" THEN answer ELSE @]
               \/ /\ experiment_map[n].state = "ACTIVE"
                  /\ Refuse(h)
                  /\ UNCHANGED <<experiment_map, losses>>
       ELSE fault' = "dangling" /\ UNCHANGED <<experiment_map, handlers, losses>>
  /\ UNCHANGED <<portVars, reg, histVars, inspects, crashes>>

(* Faulty variant: only an experiment that is CONFIGURED counts as dirty. *)
HeartbeatDirty_ConfiguredOnly(h) ==
  /\ handlers[h].kind = "EXECUTION_MASTER"
  /\ handlers[h].pc = "poll" /\ handlers[h].peer \in {"running", "told"}
  /\ InState(handlers[h].name, "CONFIGURED") /\ experiment_map[handlers[h].name].dirty
  /\ handlers' = Handle(h, "pc", "dirty")
  /\ UNCHANGED <<experiment_map, portVars, reg, fault, histVars, boundVars>>

(* HandleHeartbeat of a master: ExperimentIsDirty, under one lock, ...     *)
(* The first heartbeat is sent a period after GetExperimentInfo.           *)
HeartbeatDirty(h) ==
  /\ handlers[h].kind = "EXECUTION_MASTER"
  /\ handlers[h].pc = "poll" /\ handlers[h].peer \in {"running", "told"}
  /\ Registered(handlers[h].name) /\ experiment_map[handlers[h].name].dirty
  /\ handlers' = Handle(h, "pc", "dirty")
  /\ UNCHANGED <<experiment_map, portVars, reg, fault, histVars, boundVars>>

(* ... and GetProto(name, false), under another: there is no message when  *)
(* the flag was cleared in between, and the missing message is copied.  A  *)
(* reply that takes longer than the Heartbeater waits is dropped: the next *)
(* heartbeat finds the flag cleared.                                       *)
HeartbeatProto(h) ==
  /\ handlers[h].pc = "dirty"
  /\ LET n == handlers[h].name IN
     \/ /\ ~Registered(n)
        /\ handlers' = Handle(h, "pc", "poll")
        /\ UNCHANGED <<experiment_map, fault, taken, losses>>
     \/ /\ Registered(n) /\ ~experiment_map[n].dirty
        /\ fault' = "null"
        /\ UNCHANGED <<experiment_map, handlers, taken, losses>>
     \/ /\ Registered(n) /\ experiment_map[n].dirty
        /\ GetProto(n)
        /\ \E lost \in BOOLEAN :
             /\ CountLoss(lost)
             /\ taken' = IF lost THEN TakenBy(n) ELSE taken
             /\ handlers' = [handlers EXCEPT ![h].pc = "poll",
                  ![h].peer = IF ~lost /\ experiment_map[n].shutdown /\ @ = "running"
                                THEN "told" ELSE @]
        /\ UNCHANGED fault
  /\ UNCHANGED <<portVars, reg, generation, abandoned, inspects, crashes>>

(* HandleHeartbeat of a logan server: told to stop once the name is free. *)
HeartbeatLogan(h) ==
  /\ handlers[h].kind = "LOGAN_SERVER"
  /\ handlers[h].pc = "poll" /\ handlers[h].peer = "running"
  /\ ~Registered(handlers[h].name)
  /\ handlers' = Handle(h, "peer", "leaving")
  /\ UNCHANGED <<experiment_map, portVars, reg, fault, histVars, boundVars>>

(* RemoveDeployment, once per handler: whatever has the name is removed. *)
RemoveDeployment(h) ==
  IF /\ ~handlers[h].removed /\ handlers[h].kind = "EXECUTION_MASTER"
     /\ Registered(handlers[h].name)
    THEN RemoveExperimentInternal(handlers[h].name)
    ELSE UNCHANGED <<experiment_map, portVars>>

(* The master has finished: HandleNodeManagerDeregisteration. *)
Deregister(h) ==
  /\ handlers[h].kind = "EXECUTION_MASTER"
  /\ handlers[h].pc = "poll" /\ handlers[h].peer \in {"running", "told"}
  /\ RemoveDeployment(h)
  /\ handlers' = [handlers EXCEPT ![h].removed = TRUE, ![h].peer = "leaving"]
  /\ UNCHANGED <<reg, fault, histVars, boundVars>>

(* END_HEARTBEAT: the replier stops and the deployment is not removed. *)
EndHeartbeat(h) ==
  /\ handlers[h].pc = "poll" /\ handlers[h].peer = "leaving"
  /\ handlers' = [handlers EXCEPT ![h].pc = "ended", ![h].peer = "gone"]
  /\ abandoned' = abandoned \cup {e.gen : e \in {experiment_map[n] :
                      n \in DOMAIN experiment_map \cap {handlers[h].name}}}
  /\ UNCHANGED <<experiment_map, portVars, reg, fault, generation, taken, boundVars>>

(* The peer has been silent for all the timeouts of the replier. *)
Timeout(h) ==
  /\ handlers[h].pc = "poll" /\ handlers[h].peer \in {"none", "gone"}
  /\ handlers' = Handle(h, "pc", "timedOut")
  /\ UNCHANGED <<experiment_map, portVars, reg, fault, histVars, boundVars>>

RemoveTimedOut(h) ==
  /\ handlers[h].pc = "timedOut"
  /\ RemoveDeployment(h)
  /\ handlers' = [handlers EXCEPT ![h].removed = TRUE, ![h].pc = "ended"]
  /\ UNCHANGED <<reg, fault, histVars, boundVars>>

(* CleanupTask destroys a handler that removed its deployment, and with it *)
(* the replier, once that is not in a callback.                            *)
CleanupTask(h) ==
  /\ handlers[h].removed /\ handlers[h].pc \in {"poll", "ended"}
  /\ handlers' = Restrict(handlers, DOMAIN handlers \ {h})
  /\ UNCHANGED <<experiment_map, portVars, reg, fault, histVars, boundVars>>

(* The process at the other end dies. *)
PeerCrash(h) ==
  /\ crashes < MaxCrashes
  /\ handlers[h].peer \in {"up", "running", "told", "leaving"}
  /\ crashes' = crashes + 1
  /\ handlers' = Handle(h, "peer", "gone")
  /\ UNCHANGED <<experiment_map, portVars, reg, fault, histVars, inspects, losses>>

-----------------------------------------------------------------------------
RegistrationStep == ConstructHandler \/ ReplyRegistration

(* What a handler's thread and its peer do of their own accord. *)
HandlerStep(h) ==
  \/ StartReplier(h) \/ GetExperimentInfo(h) \/ InfoProto(h) \/ SetActive(h)
  \/ HeartbeatDirty(h) \/ HeartbeatProto(h) \/ HeartbeatLogan(h)
  \/ EndHeartbeat(h) \/ Timeout(h) \/ RemoveTimedOut(h)
  \/ handlers[h].peer = "told" /\ Deregister(h)

Next ==
  /\ fault = "none"
  /\ \/ \E n \in Names :
          \/ PopulateExperiment(n) \/ ShutdownExperiment(n) \/ InspectExperiment(n)
          \/ CheckRegistration(n) \/ LoganRegistration(n)
     \/ RegistrationStep
     \/ \E h \in DOMAIN handlers :
          \/ HandlerStep(h) \/ Deregister(h) \/ CleanupTask(h) \/ PeerCrash(h)

(* The register's thread finishes what it began, a handler's thread goes   *)
(* on, its peer sends heartbeats or its silence is noticed, and a master   *)
(* that was told to shut down deregisters (InterruptedMasterExits of       *)
(* ExperimentControl).  No request of an operator has to come.             *)
Fairness ==
  /\ WF_vars(fault = "none" /\ RegistrationStep)
  /\ \A h \in HandlerIds :
       WF_vars(fault = "none" /\ h \in DOMAIN handlers /\ HandlerStep(h))

Spec == Init /\ [][Next]_vars /\ Fairness

-----------------------------------------------------------------------------
(* Properties. *)

(* Every variable keeps its type, and no queue of ports grows beyond the   *)
(* ports there are.                                                        *)
TypeOK ==
  /\ DOMAIN experiment_map \subseteq Names
  /\ \A n \in DOMAIN experiment_map : experiment_map[n] \in Experiment
  /\ available_node_manager_ports \in Seq(Range(ManagerPorts))
  /\ available_ports \in Seq(Range(NodePorts))
  /\ DOMAIN handlers \subseteq HandlerIds
  /\ \A h \in DOMAIN handlers : handlers[h] \in Handler
  /\ reg.pc \in {"idle", "construct", "reply"}
  /\ fault \in {"none", "bind", "null", "dangling"}
  /\ generation \in 0..MaxRegistrations
  /\ taken \subseteq 1..generation /\ abandoned \subseteq 1..generation
  /\ inspects \in 0..MaxInspects /\ crashes \in 0..MaxCrashes /\ losses \in 0..MaxLosses

(* Ports have one user.  Two registered experiments never share a manager  *)
(* port or a port of a master, and a port that one of them, or the handler *)
(* of a logan server, uses is not handed out again, however experiments    *)
(* come, fail and go.                                                      *)
PortsExclusive ==
  /\ IsInjective(available_node_manager_ports) /\ IsInjective(available_ports)
  /\ \A n \in DOMAIN experiment_map :
       LET e == experiment_map[n] IN
       /\ e.manager_port \notin Range(available_node_manager_ports)
       /\ Range(e.master_ports) \cap Range(available_ports) = {}
       /\ \A o \in DOMAIN experiment_map \ {n} :
            /\ experiment_map[o].manager_port # e.manager_port
            /\ Range(experiment_map[o].master_ports) \cap Range(e.master_ports) = {}
  /\ \A h \in DOMAIN handlers : handlers[h].kind = "LOGAN_SERVER" =>
       /\ handlers[h].port \notin Range(available_node_manager_ports)
       /\ \A n \in DOMAIN experiment_map : experiment_map[n].manager_port # handlers[h].port

(* An experiment runs under one master: of several that register for it,   *)
(* or were left over from an earlier experiment of its name, SetActive     *)
(* lets one through.                                                       *)
OneMaster ==
  \A h, i \in DOMAIN handlers :
    /\ handlers[h].peer \in {"running", "told"} /\ handlers[h].kind = "EXECUTION_MASTER"
    /\ handlers[i].peer \in {"running", "told"} /\ handlers[i].kind = "EXECUTION_MASTER"
    /\ handlers[h].seen = handlers[i].seen
    => h = i

(* A shutdown that was asked of an active experiment is waiting for a      *)
(* heartbeat, or has reached a master of that name, or such a master is    *)
(* gone.  Three things can take it away: an inspection, GetExperimentInfo  *)
(* of a second master that passed its check before the first became        *)
(* active, and a heartbeat's reply that came too late.  Nothing else does: *)
(* not a heartbeat between other requests, not an update of the external   *)
(* ports, not an earlier or later experiment of the name.                  *)
ShutdownNotLost ==
  \A n \in DOMAIN experiment_map :
    LET e == experiment_map[n] IN
    e.shutdown =>
      \/ e.dirty \/ e.gen \in taken \/ e.gen \in abandoned
      \/ \E h \in DOMAIN handlers :
           handlers[h].name = n /\ handlers[h].peer \in {"told", "leaving", "gone"}

ShuttingDown(g) == \E n \in Names : Exists(n, g) /\ experiment_map[n].shutdown

(* An active experiment that is shut down goes, also when its master       *)
(* crashes at any point; except where the message was taken away (see      *)
(* ShutdownNotLost), or the master left without deregistering it, or the   *)
(* process ended.                                                          *)
ShutdownCompletes ==
  \A g \in 1..MaxRegistrations :
    ShuttingDown(g) ~>
      ~ShuttingDown(g) \/ g \in taken \/ g \in abandoned \/ fault # "none"

(* A port that cannot be bound is reported to whoever registers            *)
(* (deploymenthandler.cpp:27), it does not end the environment manager.    *)
BindFailureReported == fault # "bind"
=============================================================================
