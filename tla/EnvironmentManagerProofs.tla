---------------------- MODULE EnvironmentManagerProofs ----------------------
(***************************************************************************)
(* Theorems about EnvironmentManager for every set of names, every supply  *)
(* of ports and every bound.  EnvInv is the inductive invariant.           *)
(***************************************************************************)
EXTENDS EnvironmentManager, SequenceTheorems, TLAPS

(* What the environment holds: the ports of an experiment come from the    *)
(* queues they go back to, and its number was given to no other.           *)
ExperimentsTyped ==
  /\ DOMAIN experiment_map \subseteq Names
  /\ \A n \in DOMAIN experiment_map :
       /\ experiment_map[n] \in Experiment
       /\ experiment_map[n].gen \in 1 .. generation
       /\ experiment_map[n].manager_port \in Range(ManagerPorts)
       /\ experiment_map[n].master_ports \in Seq(Range(NodePorts))
       /\ Len(experiment_map[n].master_ports) = 2

GenerationsDiffer ==
  \A n, o \in DOMAIN experiment_map :
    experiment_map[n].gen = experiment_map[o].gen => n = o

HandlersTyped ==
  /\ DOMAIN handlers \subseteq HandlerIds
  /\ \A h \in DOMAIN handlers : handlers[h] \in Handler /\ handlers[h].seen <= generation

(* The handler that a registration waits for has not met its peer. *)
RegistrationTyped ==
  /\ reg.pc \in {"idle", "construct", "reply"}
  /\ reg.pc # "idle" => reg.name \in Names
  /\ reg.pc = "reply" /\ reg.handler \in DOMAIN handlers => handlers[reg.handler].peer = "none"

PortsTyped ==
  /\ available_node_manager_ports \in Seq(Range(ManagerPorts))
  /\ available_ports \in Seq(Range(NodePorts))

HistoryTyped ==
  /\ fault \in {"none", "bind", "null", "dangling"}
  /\ generation \in 0 .. MaxRegistrations
  /\ taken \subseteq 1 .. generation /\ abandoned \subseteq 1 .. generation
  /\ inspects \in 0 .. MaxInspects /\ crashes \in 0 .. MaxCrashes /\ losses \in 0 .. MaxLosses

(* A master that runs an experiment is the reason that it is not CONFIGURED *)
(* any more: no other master can get it.                                    *)
Runs(h, g) ==
  /\ handlers[h].kind = "EXECUTION_MASTER" /\ handlers[h].peer \in {"running", "told"}
  /\ handlers[h].seen = g

RunTaken ==
  \A n \in DOMAIN experiment_map : experiment_map[n].state = "CONFIGURED" =>
    \A h \in DOMAIN handlers : ~Runs(h, experiment_map[n].gen)

(* A heartbeat in progress is one of a master that had the experiment, and  *)
(* a handler that removed its deployment has nothing left to do but to end. *)
HandlerPhases ==
  \A h \in DOMAIN handlers :
    /\ handlers[h].pc = "dirty" =>
         /\ handlers[h].kind = "EXECUTION_MASTER" /\ ~handlers[h].removed
         /\ handlers[h].peer \in {"running", "told", "gone"}
    /\ handlers[h].removed => handlers[h].pc = "ended" \/ handlers[h].peer \in {"leaving", "gone"}

(* A handler through which the experiment named n will still be removed, or *)
(* found abandoned.                                                         *)
WillRemove(h, n) ==
  /\ handlers[h].name = n /\ handlers[h].kind = "EXECUTION_MASTER"
  /\ ~handlers[h].removed /\ handlers[h].pc # "ended"
  /\ handlers[h].peer \in {"told", "leaving", "gone"}

ShutdownCarried ==
  \A n \in DOMAIN experiment_map : experiment_map[n].shutdown =>
    \/ experiment_map[n].dirty
    \/ experiment_map[n].gen \in taken \cup abandoned
    \/ \E h \in DOMAIN handlers : WillRemove(h, n)

EnvInv ==
  /\ ExperimentsTyped
  /\ GenerationsDiffer
  /\ HandlersTyped
  /\ RegistrationTyped
  /\ PortsTyped
  /\ HistoryTyped
  /\ PortsExclusive
  /\ RunTaken
  /\ OneMaster
  /\ HandlerPhases
  /\ ShutdownCarried

-----------------------------------------------------------------------------
(* Facts about the queues of ports. *)

(* unique_queue::push adds a port unless it is there. *)
LEMMA PushFacts ==
  \A S : \A q \in Seq(S), p \in S :
    /\ Push(q, p) \in Seq(S)
    /\ Range(Push(q, p)) = Range(q) \cup {p}
    /\ IsInjective(q) => IsInjective(Push(q, p))
<1> SUFFICES ASSUME NEW S, NEW q \in Seq(S), NEW p \in S
             PROVE  /\ Push(q, p) \in Seq(S)
                    /\ Range(Push(q, p)) = Range(q) \cup {p}
                    /\ IsInjective(q) => IsInjective(Push(q, p))
  OBVIOUS
<1>1. CASE p \in Range(q)
  BY <1>1 DEF Push
<1>2. CASE p \notin Range(q)
  <2>1. Push(q, p) = Append(q, p)
    BY <1>2 DEF Push
  <2>2. /\ Append(q, p) \in Seq(S) /\ DOMAIN q = 1 .. Len(q) /\ Len(q) \in Nat
        /\ DOMAIN Append(q, p) = 1 .. Len(q) + 1
        /\ Append(q, p)[Len(q) + 1] = p
        /\ \A i \in 1 .. Len(q) : Append(q, p)[i] = q[i]
    OBVIOUS
  <2>3. Range(Append(q, p)) = Range(q) \cup {p}
    <3>1. ASSUME NEW x \in Range(Append(q, p)) PROVE x \in Range(q) \cup {p}
      BY <2>2, <3>1 DEF Range
    <3>2. Range(q) \subseteq Range(Append(q, p))
      BY <2>2 DEF Range
    <3>3. p \in Range(Append(q, p))
      <4>1. Len(q) + 1 \in DOMAIN Append(q, p)
        BY <2>2
      <4>2. QED
        BY <2>2, <4>1 DEF Range
    <3>4. QED
      BY <3>1, <3>2, <3>3
  <2>4. ASSUME IsInjective(q) PROVE IsInjective(Append(q, p))
    <3>1. \A i \in 1 .. Len(q) : q[i] # p
      BY <1>2, <2>2 DEF Range
    <3>2. QED
      BY <2>2, <2>4, <3>1 DEF IsInjective
  <2>5. QED
    BY <2>1, <2>2, <2>3, <2>4
<1>3. QED
  BY <1>1, <1>2

(* The first k ports of a queue and those behind them. *)
LEMMA SplitFacts ==
  \A S : \A q \in Seq(S) : \A k \in 0 .. Len(q) :
    /\ SubSeq(q, 1, k) \in Seq(S) /\ Len(SubSeq(q, 1, k)) = k
    /\ SubSeq(q, k + 1, Len(q)) \in Seq(S)
    /\ Range(SubSeq(q, 1, k)) \subseteq Range(q)
    /\ Range(SubSeq(q, k + 1, Len(q))) \subseteq Range(q)
    /\ IsInjective(q) => /\ IsInjective(SubSeq(q, k + 1, Len(q)))
                         /\ Range(SubSeq(q, 1, k)) \cap Range(SubSeq(q, k + 1, Len(q))) = {}
<1> SUFFICES ASSUME NEW S, NEW q \in Seq(S), NEW k \in 0 .. Len(q)
             PROVE  /\ SubSeq(q, 1, k) \in Seq(S) /\ Len(SubSeq(q, 1, k)) = k
                    /\ SubSeq(q, k + 1, Len(q)) \in Seq(S)
                    /\ Range(SubSeq(q, 1, k)) \subseteq Range(q)
                    /\ Range(SubSeq(q, k + 1, Len(q))) \subseteq Range(q)
                    /\ IsInjective(q) =>
                         /\ IsInjective(SubSeq(q, k + 1, Len(q)))
                         /\ Range(SubSeq(q, 1, k)) \cap Range(SubSeq(q, k + 1, Len(q))) = {}
  OBVIOUS
<1> DEFINE front == SubSeq(q, 1, k)
           back  == SubSeq(q, k + 1, Len(q))
<1>1. DOMAIN q = 1 .. Len(q) /\ Len(q) \in Nat /\ k \in Nat /\ k <= Len(q)
  OBVIOUS
<1>2. front \in Seq(S) /\ Len(front) = k /\ DOMAIN front = 1 .. k
  OBVIOUS
<1>3. \A i \in 1 .. k : front[i] = q[i]
  OBVIOUS
<1>4. back \in Seq(S) /\ Len(back) = Len(q) - k /\ DOMAIN back = 1 .. Len(q) - k
  OBVIOUS
<1>5. \A i \in 1 .. Len(q) - k : back[i] = q[k + i]
  OBVIOUS
<1> HIDE DEF front, back
<1>6. Range(front) \subseteq Range(q)
  BY <1>1, <1>2, <1>3 DEF Range
<1>7. Range(back) \subseteq Range(q)
  <2>1. \A i \in 1 .. Len(q) - k : k + i \in 1 .. Len(q)
    BY <1>1
  <2>2. QED
    BY <1>1, <1>4, <1>5, <2>1 DEF Range
<1>8. ASSUME IsInjective(q) PROVE IsInjective(back)
  <2>1. \A i, j \in 1 .. Len(q) - k : q[k + i] = q[k + j] => k + i = k + j
    BY <1>1, <1>8 DEF IsInjective
  <2>2. \A i, j \in 1 .. Len(q) - k : back[i] = back[j] => k + i = k + j
    BY <1>5, <2>1
  <2>3. \A i, j \in 1 .. Len(q) - k : back[i] = back[j] => i = j
    BY <1>1, <2>2
  <2>4. QED
    BY <1>4, <2>3 DEF IsInjective
<1>9. ASSUME IsInjective(q) PROVE Range(front) \cap Range(back) = {}
  <2>1. ASSUME NEW i \in 1 .. k, NEW j \in 1 .. Len(q) - k PROVE front[i] # back[j]
    BY <1>1, <1>3, <1>5, <1>9 DEF IsInjective
  <2>2. QED
    BY <1>2, <1>4, <2>1 DEF Range
<1>10. QED
  BY <1>2, <1>4, <1>6, <1>7, <1>8, <1>9 DEF front, back

(* The first port is taken from a queue. *)
LEMMA TakeFacts ==
  \A S : \A q \in Seq(S) : q # <<>> =>
    /\ Head(q) \in S /\ Head(q) \in Range(q) /\ Tail(q) \in Seq(S)
    /\ Range(Tail(q)) \subseteq Range(q)
    /\ IsInjective(q) => IsInjective(Tail(q)) /\ Head(q) \notin Range(Tail(q))
<1> SUFFICES ASSUME NEW S, NEW q \in Seq(S), q # <<>>
             PROVE  /\ Head(q) \in S /\ Head(q) \in Range(q) /\ Tail(q) \in Seq(S)
                    /\ Range(Tail(q)) \subseteq Range(q)
                    /\ IsInjective(q) => IsInjective(Tail(q)) /\ Head(q) \notin Range(Tail(q))
  OBVIOUS
<1>1. /\ DOMAIN q = 1 .. Len(q) /\ Len(q) \in Nat /\ Len(q) >= 1 /\ 1 \in DOMAIN q
      /\ Head(q) = q[1] /\ q[1] \in S
  OBVIOUS
<1>2. Tail(q) \in Seq(S) /\ DOMAIN Tail(q) = 1 .. Len(q) - 1
  OBVIOUS
<1>3. \A i \in 1 .. Len(q) - 1 : Tail(q)[i] = q[i + 1] /\ i + 1 \in DOMAIN q
  BY <1>1
<1>4. Head(q) \in Range(q) /\ Range(Tail(q)) \subseteq Range(q)
  BY <1>1, <1>2, <1>3 DEF Range
<1>5. ASSUME IsInjective(q) PROVE IsInjective(Tail(q)) /\ Head(q) \notin Range(Tail(q))
  <2>1. \A i, j \in 1 .. Len(q) - 1 : Tail(q)[i] = Tail(q)[j] => i = j
    <3>1. \A i, j \in 1 .. Len(q) - 1 : q[i + 1] = q[j + 1] => i + 1 = j + 1
      BY <1>3, <1>5 DEF IsInjective
    <3>2. QED
      BY <1>1, <1>3, <3>1
  <2>2. \A i \in 1 .. Len(q) - 1 : q[i + 1] # q[1]
    <3>1. \A i \in 1 .. Len(q) - 1 : i + 1 # 1
      BY <1>1
    <3>2. QED
      BY <1>1, <1>3, <1>5, <3>1 DEF IsInjective
  <2>3. QED
    BY <1>1, <1>2, <1>3, <2>1, <2>2 DEF IsInjective, Range
<1>6. QED
  BY <1>1, <1>2, <1>4, <1>5

(* The two ports of a master go back to their queue. *)
LEMMA PushAllFacts ==
  \A S : \A q \in Seq(S), ps \in Seq(S) : Len(ps) = 2 =>
    /\ PushAll(q, ps) \in Seq(S)
    /\ Range(PushAll(q, ps)) = Range(q) \cup Range(ps)
    /\ IsInjective(q) => IsInjective(PushAll(q, ps))
<1> SUFFICES ASSUME NEW S, NEW q \in Seq(S), NEW ps \in Seq(S), Len(ps) = 2
             PROVE  /\ PushAll(q, ps) \in Seq(S)
                    /\ Range(PushAll(q, ps)) = Range(q) \cup Range(ps)
                    /\ IsInjective(q) => IsInjective(PushAll(q, ps))
  OBVIOUS
<1>1. PushAll(q, ps) = Push(Push(q, ps[1]), ps[2])
  BY DEF PushAll
<1>2. DOMAIN ps = {1, 2} /\ ps[1] \in S /\ ps[2] \in S
  <2>1. DOMAIN ps = 1 .. 2 /\ 1 .. 2 = {1, 2}
    OBVIOUS
  <2>2. \A i \in 1 .. Len(ps) : ps[i] \in S
    BY ElementOfSeq
  <2>3. QED
    BY <2>1, <2>2
<1>3. Range(ps) = {ps[1], ps[2]}
  BY <1>2 DEF Range
<1>4. /\ Push(q, ps[1]) \in Seq(S)
      /\ Range(Push(q, ps[1])) = Range(q) \cup {ps[1]}
      /\ IsInjective(q) => IsInjective(Push(q, ps[1]))
  BY <1>2, PushFacts
<1> DEFINE r == Push(q, ps[1])
<1>5. /\ Push(r, ps[2]) \in Seq(S)
      /\ Range(Push(r, ps[2])) = Range(r) \cup {ps[2]}
      /\ IsInjective(r) => IsInjective(Push(r, ps[2]))
  <2> HIDE DEF r
  <2>1. r \in Seq(S)
    BY <1>4 DEF r
  <2>2. QED
    BY <1>2, <2>1, PushFacts
<1>6. QED
  BY <1>1, <1>3, <1>4, <1>5

-----------------------------------------------------------------------------
(* What a step does to the experiments and to the handlers. *)

(* Experiments stay what they were, or go; none becomes CONFIGURED again. *)
MapShrinks ==
  /\ DOMAIN experiment_map' \subseteq DOMAIN experiment_map
  /\ \A c \in DOMAIN experiment_map' :
       /\ experiment_map'[c] \in Experiment
       /\ experiment_map'[c].gen = experiment_map[c].gen
       /\ experiment_map'[c].manager_port = experiment_map[c].manager_port
       /\ experiment_map'[c].master_ports = experiment_map[c].master_ports
       /\ experiment_map'[c].state = "CONFIGURED" => experiment_map[c].state = "CONFIGURED"

(* No shutdown is ordered, and no flag cleared. *)
FlagsKept ==
  \A c \in DOMAIN experiment_map' :
    /\ experiment_map'[c].shutdown = experiment_map[c].shutdown
    /\ experiment_map[c].dirty => experiment_map'[c].dirty

(* The outcome of PopulateExperiment where the model is good. *)
Registers(n) ==
  /\ ~Registered(n)
  /\ available_node_manager_ports # <<>> /\ CheckValidity(MasterPorts)
  /\ generation' = generation + 1
  /\ available_node_manager_ports' = Tail(available_node_manager_ports)
  /\ available_ports' = SubSeq(available_ports, Len(MasterPorts) + 1, Len(available_ports))
  /\ DOMAIN experiment_map' = DOMAIN experiment_map \cup {n}
  /\ experiment_map'[n] =
       [state |-> "CONFIGURED", gen |-> generation + 1,
        manager_port |-> Head(available_node_manager_ports),
        master_ports |-> MasterPorts, dirty |-> FALSE, shutdown |-> FALSE]
  /\ \A c \in DOMAIN experiment_map :
       /\ experiment_map'[c] \in Experiment
       /\ experiment_map'[c].gen = experiment_map[c].gen
       /\ experiment_map'[c].manager_port = experiment_map[c].manager_port
       /\ experiment_map'[c].master_ports = experiment_map[c].master_ports
       /\ experiment_map'[c].state = experiment_map[c].state
       /\ experiment_map'[c].shutdown = experiment_map[c].shutdown
       /\ experiment_map[c].dirty => experiment_map'[c].dirty
  /\ UNCHANGED <<handlers, taken, abandoned>>

(* A handler stays what it was; it does not begin to run an experiment. *)
Follows(old, new) ==
  /\ new \in Handler
  /\ new.seen <= generation
  /\ new.kind = old.kind /\ new.name = old.name /\ new.port = old.port
  /\ new.peer \in {"running", "told"} =>
       old.peer \in {"running", "told"} /\ new.seen = old.seen
  /\ old.peer = "none" /\ reg' = reg => new.peer = "none"
  /\ new.pc = "dirty" =>
       /\ new.kind = "EXECUTION_MASTER" /\ ~new.removed
       /\ new.peer \in {"running", "told", "gone"}
  /\ new.removed => new.pc = "ended" \/ new.peer \in {"leaving", "gone"}

HandlersShrink ==
  /\ DOMAIN handlers' \subseteq DOMAIN handlers
  /\ \A h \in DOMAIN handlers' : Follows(handlers[h], handlers'[h])

(* A manager port is taken, and the experiments stay as they are. *)
TakesPort(p) ==
  /\ available_node_manager_ports # <<>>
  /\ p = Head(available_node_manager_ports)
  /\ available_node_manager_ports' = Tail(available_node_manager_ports)
  /\ UNCHANGED <<experiment_map, available_ports>>

(* A handler is constructed, for a master without a peer or a logan server. *)
Admits(h) ==
  /\ h \in HandlerIds \ DOMAIN handlers
  /\ DOMAIN handlers' = DOMAIN handlers \cup {h}
  /\ \A i \in DOMAIN handlers : handlers'[i] = handlers[i]
  /\ handlers'[h] \in Handler
  /\ handlers'[h].pc = "start" /\ handlers'[h].seen = 0 /\ ~handlers'[h].removed
  /\ \/ handlers'[h].kind = "EXECUTION_MASTER" /\ handlers'[h].peer = "none"
     \/ handlers'[h].kind = "LOGAN_SERVER" /\ handlers'[h].peer = "running"
  /\ handlers'[h].kind = "LOGAN_SERVER" => TakesPort(handlers'[h].port)
  /\ reg' = reg => reg = Idle

(* The outcome of SetActive where the state was CONFIGURED. *)
Activates(h) ==
  /\ h \in DOMAIN handlers
  /\ DOMAIN handlers' = DOMAIN handlers
  /\ DOMAIN experiment_map' = DOMAIN experiment_map
  /\ Exists(handlers[h].name, handlers[h].seen)
  /\ experiment_map[handlers[h].name].state = "CONFIGURED"
  /\ experiment_map'[handlers[h].name].state = "ACTIVE"
  /\ \A i \in DOMAIN handlers \ {h} : handlers'[i] = handlers[i]
  /\ handlers'[h] \in Handler
  /\ handlers'[h].seen = handlers[h].seen /\ handlers'[h].kind = handlers[h].kind
  /\ handlers'[h].port = handlers[h].port
  /\ handlers[h].peer = "none" => handlers'[h].peer = "none"
  /\ handlers'[h].pc = "poll"
  /\ handlers'[h].removed => handlers'[h].peer \in {"leaving", "gone"}
  /\ reg' = reg

(* A faithful copy of the map shrinks to itself. *)
LEMMA MapSame ==
  ASSUME ExperimentsTyped, UNCHANGED experiment_map
  PROVE  MapShrinks
BY DEF ExperimentsTyped, MapShrinks

(* A handler that nothing happens to follows itself. *)
LEMMA FollowsSelf ==
  ASSUME HandlersTyped, HandlerPhases, NEW h \in DOMAIN handlers
  PROVE  Follows(handlers[h], handlers[h])
BY DEF HandlersTyped, HandlerPhases, Follows

(* So do all of them where none changes. *)
LEMMA HandlersSame ==
  ASSUME HandlersTyped, HandlerPhases, UNCHANGED handlers
  PROVE  HandlersShrink
BY FollowsSelf DEF HandlersShrink

(* Where one handler changes, only that one has to be looked at. *)
LEMMA OneFollows ==
  ASSUME HandlersTyped, HandlerPhases, NEW h,
         DOMAIN handlers' = DOMAIN handlers,
         \A i \in DOMAIN handlers \ {h} : handlers'[i] = handlers[i],
         h \in DOMAIN handlers => Follows(handlers[h], handlers'[h])
  PROVE  HandlersShrink
BY FollowsSelf DEF HandlersShrink

(* UpdatePort only marks consumers dirty. *)
LEMMA UpdateFacts ==
  ASSUME NEW n, NEW m, \A c \in DOMAIN m : m[c] \in Experiment
  PROVE  /\ DOMAIN UpdateConsumers(n, m) = DOMAIN m
         /\ \A c \in DOMAIN m :
              /\ UpdateConsumers(n, m)[c] \in Experiment
              /\ UpdateConsumers(n, m)[c].gen = m[c].gen
              /\ UpdateConsumers(n, m)[c].manager_port = m[c].manager_port
              /\ UpdateConsumers(n, m)[c].master_ports = m[c].master_ports
              /\ UpdateConsumers(n, m)[c].state = m[c].state
              /\ UpdateConsumers(n, m)[c].shutdown = m[c].shutdown
              /\ m[c].dirty => UpdateConsumers(n, m)[c].dirty
BY DEF UpdateConsumers, Experiment

(* RemoveExperimentInternal takes n out of the map, and nothing else. *)
LEMMA RemoveFacts ==
  ASSUME ExperimentsTyped, NEW n \in DOMAIN experiment_map, RemoveExperimentInternal(n)
  PROVE  /\ MapShrinks
         /\ DOMAIN experiment_map' = DOMAIN experiment_map \ {n}
         /\ FlagsKept
<1> DEFINE m == Restrict(experiment_map, DOMAIN experiment_map \ {n})
<1>1. /\ DOMAIN m = DOMAIN experiment_map \ {n}
      /\ \A c \in DOMAIN m : m[c] = experiment_map[c] /\ m[c] \in Experiment
  BY DEF Restrict, ExperimentsTyped
<1>2. experiment_map' = UpdateConsumers(n, m)
  BY DEF RemoveExperimentInternal
<1> HIDE DEF m
<1>3. QED
  BY <1>1, <1>2, UpdateFacts DEF MapShrinks, FlagsKept

(* GetProto clears one flag. *)
LEMMA ProtoFacts ==
  ASSUME ExperimentsTyped, NEW n \in DOMAIN experiment_map, GetProto(n)
  PROVE  /\ MapShrinks
         /\ DOMAIN experiment_map' = DOMAIN experiment_map
         /\ \A c \in DOMAIN experiment_map :
              experiment_map'[c].shutdown = experiment_map[c].shutdown
         /\ \A c \in DOMAIN experiment_map \ {n} : experiment_map'[c] = experiment_map[c]
BY DEF ExperimentsTyped, GetProto, MapShrinks, Experiment

(* The actions of Next, each with its parameter. *)
LEMMA NextCases ==
  ASSUME [Next]_vars
  PROVE  \/ \E n \in Names : PopulateExperiment(n)
         \/ \E n \in Names : ShutdownExperiment(n)
         \/ \E n \in Names : InspectExperiment(n)
         \/ \E n \in Names : CheckRegistration(n)
         \/ \E n \in Names : LoganRegistration(n)
         \/ ConstructHandler
         \/ ReplyRegistration
         \/ \E h \in DOMAIN handlers : StartReplier(h)
         \/ \E h \in DOMAIN handlers : GetExperimentInfo(h)
         \/ \E h \in DOMAIN handlers : InfoProto(h)
         \/ \E h \in DOMAIN handlers : SetActive(h)
         \/ \E h \in DOMAIN handlers : HeartbeatDirty(h)
         \/ \E h \in DOMAIN handlers : HeartbeatProto(h)
         \/ \E h \in DOMAIN handlers : HeartbeatLogan(h)
         \/ \E h \in DOMAIN handlers : Deregister(h)
         \/ \E h \in DOMAIN handlers : EndHeartbeat(h)
         \/ \E h \in DOMAIN handlers : Timeout(h)
         \/ \E h \in DOMAIN handlers : RemoveTimedOut(h)
         \/ \E h \in DOMAIN handlers : CleanupTask(h)
         \/ \E h \in DOMAIN handlers : PeerCrash(h)
         \/ UNCHANGED vars
BY DEF Next, RegistrationStep, HandlerStep

(* A registration fails without a new experiment, or succeeds. *)
LEMMA PopulateOutcome ==
  ASSUME EnvInv, NEW n \in Names, PopulateExperiment(n)
  PROVE  (MapShrinks /\ FlagsKept) \/ Registers(n)
<1> DEFINE u == UpdateConsumers(n, experiment_map)
<1>1. \A c \in DOMAIN experiment_map : experiment_map[c] \in Experiment
  BY DEF EnvInv, ExperimentsTyped
<1>2. /\ DOMAIN u = DOMAIN experiment_map
      /\ \A c \in DOMAIN experiment_map :
           /\ u[c] \in Experiment
           /\ u[c].gen = experiment_map[c].gen
           /\ u[c].manager_port = experiment_map[c].manager_port
           /\ u[c].master_ports = experiment_map[c].master_ports
           /\ u[c].state = experiment_map[c].state
           /\ u[c].shutdown = experiment_map[c].shutdown
           /\ experiment_map[c].dirty => u[c].dirty
  BY <1>1, UpdateFacts
<1>3. CASE UNCHANGED experiment_map
  BY <1>3, MapSame DEF EnvInv, FlagsKept
<1>4. CASE experiment_map' = u
  BY <1>2, <1>4 DEF MapShrinks, FlagsKept
<1> DEFINE new == [state |-> "CONFIGURED", gen |-> generation + 1,
                   manager_port |-> Head(available_node_manager_ports),
                   master_ports |-> MasterPorts, dirty |-> FALSE, shutdown |-> FALSE]
<1>5. CASE /\ CheckValidity(MasterPorts)
           /\ available_node_manager_ports' = Tail(available_node_manager_ports)
           /\ available_ports' = SubSeq(available_ports, Len(MasterPorts) + 1, Len(available_ports))
           /\ experiment_map' = [c \in DOMAIN experiment_map \cup {n} |-> IF c = n THEN new ELSE u[c]]
  <2>1. /\ n \notin DOMAIN experiment_map /\ available_node_manager_ports # <<>>
        /\ generation' = generation + 1 /\ UNCHANGED <<handlers, taken, abandoned>>
    BY DEF PopulateExperiment, Registered
  <2> HIDE DEF u, new
  <2>2. /\ DOMAIN experiment_map' = DOMAIN experiment_map \cup {n}
        /\ experiment_map'[n] = new
        /\ \A c \in DOMAIN experiment_map : experiment_map'[c] = u[c]
    BY <1>5, <2>1
  <2>3. QED
    BY <1>2, <1>5, <2>1, <2>2 DEF Registers, new, Registered
<1>6. QED
  BY <1>3, <1>4, <1>5 DEF PopulateExperiment

(* RemoveDeployment removes an experiment or does nothing. *)
LEMMA RemoveDeploymentFacts ==
  ASSUME ExperimentsTyped, NEW h, RemoveDeployment(h)
  PROVE  MapShrinks
BY RemoveFacts, MapSame DEF RemoveDeployment, Registered

(* Every step keeps the experiments, or removes some, or adds one. *)
LEMMA MapStep ==
  ASSUME EnvInv, [Next]_vars
  PROVE  MapShrinks \/ \E n \in Names : Registers(n)
<1>0. ExperimentsTyped
  BY DEF EnvInv
<1>1. ASSUME NEW n \in Names, PopulateExperiment(n) PROVE MapShrinks \/ Registers(n)
  BY <1>1, PopulateOutcome
<1>2. ASSUME NEW n \in Names, ShutdownExperiment(n) PROVE MapShrinks
  <2>1. n \in DOMAIN experiment_map
    BY <1>2 DEF ShutdownExperiment, Registered
  <2>2. CASE experiment_map' = [experiment_map EXCEPT ![n].shutdown = TRUE, ![n].dirty = TRUE]
    BY <1>0, <2>1, <2>2 DEF ExperimentsTyped, MapShrinks, Experiment
  <2>3. CASE RemoveExperimentInternal(n)
    BY <1>0, <2>1, <2>3, RemoveFacts
  <2>4. QED
    BY <1>2, <2>2, <2>3 DEF ShutdownExperiment
<1>3. ASSUME NEW n \in Names, InspectExperiment(n) PROVE MapShrinks
  BY <1>0, <1>3, ProtoFacts DEF InspectExperiment, Registered
<1>4. ASSUME NEW h \in DOMAIN handlers, InfoProto(h) PROVE MapShrinks
  BY <1>0, <1>4, ProtoFacts, MapSame DEF InfoProto, Registered
<1>5. ASSUME NEW h \in DOMAIN handlers, SetActive(h) PROVE MapShrinks
  <2>1. CASE UNCHANGED experiment_map
    BY <1>0, <2>1, MapSame
  <2>2. CASE /\ handlers[h].name \in DOMAIN experiment_map
             /\ experiment_map' = [experiment_map EXCEPT ![handlers[h].name].state = "ACTIVE"]
    BY <1>0, <2>2 DEF ExperimentsTyped, MapShrinks, Experiment
  <2>3. QED
    BY <1>5, <2>1, <2>2 DEF SetActive, Exists, Registered
<1>6. ASSUME NEW h \in DOMAIN handlers, HeartbeatProto(h) PROVE MapShrinks
  BY <1>0, <1>6, ProtoFacts, MapSame DEF HeartbeatProto, Registered
<1>7. ASSUME NEW h \in DOMAIN handlers, Deregister(h) \/ RemoveTimedOut(h) PROVE MapShrinks
  BY <1>0, <1>7, RemoveDeploymentFacts DEF Deregister, RemoveTimedOut
<1>8. ASSUME UNCHANGED experiment_map PROVE MapShrinks
  BY <1>0, <1>8, MapSame
<1>9. QED
  BY <1>1, <1>2, <1>3, <1>4, <1>5, <1>6, <1>7, <1>8, NextCases
    DEF CheckRegistration, LoganRegistration, ConstructHandler, ReplyRegistration,
        StartReplier, GetExperimentInfo, HeartbeatDirty, HeartbeatLogan, EndHeartbeat,
        Timeout, CleanupTask, PeerCrash, vars

(* A new handler. *)
LEMMA NewHandlerFacts ==
  ASSUME NEW h \in HandlerIds \ DOMAIN handlers, NEW k \in {"EXECUTION_MASTER", "LOGAN_SERVER"},
         NEW n \in Names, NEW p \in Nat, NEW r \in {"none", "running"},
         k = "EXECUTION_MASTER" <=> r = "none", reg' = reg => reg = Idle,
         k = "LOGAN_SERVER" => TakesPort(p),
         NewHandler(h, k, n, p, r)
  PROVE  Admits(h) /\ handlers'[h].kind = k /\ handlers'[h].port = p
BY DEF NewHandler, Admits, Handler

(* What a heartbeat that found its experiment dirty does: nothing, or it   *)
(* clears the flag, and then the order to shut down has reached the master *)
(* (b) or is lost with the reply.                                          *)
Answers(h, b) ==
  handlers' = [handlers EXCEPT ![h].pc = "poll",
                               ![h].peer = IF b /\ @ = "running" THEN "told" ELSE @]

LEMMA HeartbeatOutcome ==
  ASSUME EnvInv, NEW h \in DOMAIN handlers, HeartbeatProto(h)
  PROVE  \/ /\ UNCHANGED <<experiment_map, taken>>
            /\ UNCHANGED handlers \/ handlers' = Handle(h, "pc", "poll")
         \/ /\ handlers[h].name \in DOMAIN experiment_map
            /\ GetProto(handlers[h].name)
            /\ \E b \in BOOLEAN :
                 /\ Answers(h, b)
                 /\ \/ taken' = TakenBy(handlers[h].name)
                    \/ UNCHANGED taken /\ b = experiment_map[handlers[h].name].shutdown
<1> DEFINE n == handlers[h].name
<1>1. CASE /\ Registered(n) /\ experiment_map[n].dirty
           /\ GetProto(n)
           /\ \E lost \in BOOLEAN :
                /\ taken' = IF lost THEN TakenBy(n) ELSE taken
                /\ handlers' = [handlers EXCEPT ![h].pc = "poll",
                     ![h].peer = IF ~lost /\ experiment_map[n].shutdown /\ @ = "running"
                                   THEN "told" ELSE @]
  <2>1. n \in DOMAIN experiment_map /\ experiment_map[n].shutdown \in BOOLEAN
    BY <1>1 DEF Registered, EnvInv, ExperimentsTyped, Experiment
  <2>2. PICK lost \in BOOLEAN :
                /\ taken' = IF lost THEN TakenBy(n) ELSE taken
                /\ handlers' = [handlers EXCEPT ![h].pc = "poll",
                     ![h].peer = IF ~lost /\ experiment_map[n].shutdown /\ @ = "running"
                                   THEN "told" ELSE @]
    BY <1>1
  <2>3. CASE lost
    <3>1. Answers(h, FALSE) /\ taken' = TakenBy(n)
      BY <2>2, <2>3 DEF Answers
    <3>2. QED
      BY <1>1, <2>1, <3>1
  <2>4. CASE ~lost
    <3>1. Answers(h, experiment_map[n].shutdown) /\ UNCHANGED taken
      BY <2>2, <2>4 DEF Answers
    <3>2. QED
      BY <1>1, <2>1, <3>1
  <2>5. QED
    BY <2>3, <2>4
<1>2. QED
  BY <1>1 DEF HeartbeatProto

(* Every step keeps the handlers, or removes some, or adds one, or lets one *)
(* run its experiment.                                                      *)
LEMMA HandlersStep ==
  ASSUME EnvInv, [Next]_vars
  PROVE  \/ HandlersShrink
         \/ \E h \in HandlerIds : Admits(h)
         \/ \E h \in DOMAIN handlers : Activates(h)
<1>0. HandlersTyped /\ HandlerPhases
  BY DEF EnvInv
<1>1. ASSUME NEW n \in Names, LoganRegistration(n) PROVE \E h \in HandlerIds : Admits(h)
  <2>1. Head(available_node_manager_ports) \in Nat
    <3>1. available_node_manager_ports \in Seq(Range(ManagerPorts)) /\ available_node_manager_ports # <<>>
      BY <1>1 DEF EnvInv, PortsTyped, LoganRegistration
    <3>2. Head(available_node_manager_ports) \in Range(ManagerPorts)
      BY <3>1, TakeFacts
    <3>3. QED
      BY <3>2, EnvironmentAssumption DEF Range
  <2>2. PICK h \in HandlerIds :
          /\ FreeId(h)
          /\ NewHandler(h, "LOGAN_SERVER", n, Head(available_node_manager_ports), "running")
    BY <1>1 DEF LoganRegistration
  <2>3. reg = Idle /\ TakesPort(Head(available_node_manager_ports))
    BY <1>1 DEF LoganRegistration, TakesPort
  <2>4. QED
    BY <2>1, <2>2, <2>3, NewHandlerFacts DEF FreeId
<1>2. ASSUME ConstructHandler PROVE HandlersShrink \/ \E h \in HandlerIds : Admits(h)
  <2>1. CASE UNCHANGED handlers
    BY <1>0, <2>1, HandlersSame
  <2>2. CASE /\ Registered(reg.name)
             /\ \E h \in HandlerIds :
                  /\ FreeId(h)
                  /\ NewHandler(h, "EXECUTION_MASTER", reg.name,
                                experiment_map[reg.name].manager_port, "none")
    <3>1. reg.name \in Names /\ experiment_map[reg.name].manager_port \in Nat
      BY <2>2 DEF EnvInv, ExperimentsTyped, Registered, Experiment
    <3>2. reg'.pc # reg.pc
      BY <1>2 DEF ConstructHandler, Idle
    <3>3. QED
      BY <2>2, <3>1, <3>2, NewHandlerFacts DEF FreeId
  <2>3. QED
    BY <1>2, <2>1, <2>2 DEF ConstructHandler
<1> DEFINE Others(h) == /\ DOMAIN handlers' = DOMAIN handlers
                        /\ \A i \in DOMAIN handlers \ {h} : handlers'[i] = handlers[i]
<1>3. ASSUME ReplyRegistration PROVE HandlersShrink
  <2>1. CASE UNCHANGED handlers
    BY <1>0, <2>1, HandlersSame
  <2>2. CASE \E peer \in {"none", "up"} : handlers' = Handle(reg.handler, "peer", peer)
    <3> DEFINE h == reg.handler
    <3>1. reg.pc = "reply" /\ reg' = Idle /\ Idle.pc = "idle"
      BY <1>3 DEF ReplyRegistration, Idle
    <3>2. h \in DOMAIN handlers => handlers[h].peer = "none"
      BY <3>1 DEF EnvInv, RegistrationTyped
    <3>3. reg' # reg
      BY <3>1
    <3>4. Others(h)
      BY <2>2 DEF Handle
    <3>5. ASSUME h \in DOMAIN handlers PROVE Follows(handlers[h], handlers'[h])
      <4>1. handlers[h] \in Handler /\ handlers[h].seen <= generation
        BY <1>0, <3>5 DEF HandlersTyped
      <4>2. /\ handlers[h].pc # "dirty"
            /\ handlers[h].removed => handlers[h].pc = "ended"
        BY <1>0, <3>2, <3>5 DEF HandlerPhases
      <4>3. \E peer \in {"none", "up"} : handlers'[h] = [handlers[h] EXCEPT !.peer = peer]
        BY <2>2, <3>5 DEF Handle
      <4>4. QED
        BY <3>2, <3>3, <4>1, <4>2, <4>3 DEF Follows, Handler
    <3>6. QED
      BY <1>0, <3>4, <3>5, OneFollows
  <2>3. QED
    BY <1>3, <2>1, <2>2 DEF ReplyRegistration
<1>4. ASSUME NEW h \in DOMAIN handlers, GetExperimentInfo(h) PROVE HandlersShrink
  <2>0. handlers[h] \in Handler /\ handlers[h].seen <= generation
    BY <1>0 DEF HandlersTyped
  <2>1. handlers[h].pc = "poll" /\ handlers[h].peer = "up" /\ ~handlers[h].removed
    BY <1>0, <1>4 DEF GetExperimentInfo, HandlerPhases
  <2>2. CASE /\ handlers[h].name \in DOMAIN experiment_map
             /\ handlers' = [handlers EXCEPT ![h].pc = "info",
                                             ![h].seen = experiment_map[handlers[h].name].gen]
    <3>1. /\ experiment_map[handlers[h].name].gen \in Nat
          /\ experiment_map[handlers[h].name].gen <= generation
      BY <2>2 DEF EnvInv, ExperimentsTyped, HistoryTyped
    <3>2. handlers'[h] = [handlers[h] EXCEPT !.pc = "info", !.seen = experiment_map[handlers[h].name].gen]
      BY <2>2
    <3>3. Follows(handlers[h], handlers'[h])
      BY <2>0, <2>1, <3>1, <3>2 DEF Follows, Handler
    <3>4. Others(h)
      BY <2>2
    <3>5. QED
      BY <1>0, <3>3, <3>4, OneFollows
  <2>3. CASE handlers' = Handle(h, "peer", "leaving")
    <3>1. Follows(handlers[h], handlers'[h])
      BY <2>0, <2>1, <2>3 DEF Follows, Handler, Handle
    <3>2. Others(h)
      BY <2>3 DEF Handle
    <3>3. QED
      BY <1>0, <3>1, <3>2, OneFollows
  <2>4. QED
    BY <1>4, <2>2, <2>3 DEF GetExperimentInfo, InState, Registered
<1>5. ASSUME NEW h \in DOMAIN handlers, handlers[h].pc # "ended", Refuse(h) PROVE HandlersShrink
  <2>0. handlers[h] \in Handler /\ handlers[h].seen <= generation
    BY <1>0 DEF HandlersTyped
  <2>1. handlers[h].removed => handlers[h].peer \in {"leaving", "gone"}
    BY <1>0, <1>5 DEF HandlerPhases
  <2>2. handlers'[h] = [handlers[h] EXCEPT !.pc = "poll", !.peer = IF @ = "up" THEN "leaving" ELSE @]
    BY <1>5 DEF Refuse
  <2>3. Follows(handlers[h], handlers'[h])
    BY <2>0, <2>1, <2>2 DEF Follows, Handler
  <2>4. Others(h)
    BY <1>5 DEF Refuse
  <2>5. QED
    BY <1>0, <2>3, <2>4, OneFollows
<1>6. ASSUME NEW h \in DOMAIN handlers, handlers[h].pc # "ended", NEW x \in {"poll", "activate"},
             handlers' = Handle(h, "pc", x)
      PROVE  HandlersShrink
  <2>0. handlers[h] \in Handler /\ handlers[h].seen <= generation
    BY <1>0 DEF HandlersTyped
  <2>1. handlers[h].removed => handlers[h].peer \in {"leaving", "gone"}
    BY <1>0, <1>6 DEF HandlerPhases
  <2>2. handlers'[h] = [handlers[h] EXCEPT !.pc = x] /\ Others(h)
    BY <1>6 DEF Handle
  <2>3. Follows(handlers[h], handlers'[h])
    BY <2>0, <2>1, <2>2 DEF Follows, Handler
  <2>4. QED
    BY <1>0, <2>2, <2>3, OneFollows
<1>7. ASSUME NEW h \in DOMAIN handlers, InfoProto(h) PROVE HandlersShrink
  BY <1>5, <1>6, <1>7 DEF InfoProto
<1>8. ASSUME NEW h \in DOMAIN handlers, SetActive(h) PROVE HandlersShrink \/ Activates(h)
  <2>1. CASE UNCHANGED handlers
    BY <1>0, <2>1, HandlersSame
  <2>2. CASE Refuse(h)
    BY <1>5, <1>8, <2>2 DEF SetActive
  <2> DEFINE n == handlers[h].name
  <2>3. CASE /\ Exists(n, handlers[h].seen) /\ experiment_map[n].state = "CONFIGURED"
             /\ experiment_map' = [experiment_map EXCEPT ![n].state = "ACTIVE"]
             /\ \E answer \in {"running", "leaving"} :
                  handlers' = [handlers EXCEPT ![h].pc = "poll",
                                  ![h].peer = IF @ = "up" THEN answer ELSE @]
    <3>1. DOMAIN handlers' = DOMAIN handlers /\ DOMAIN experiment_map' = DOMAIN experiment_map
      BY <2>3
    <3>2. experiment_map'[n].state = "ACTIVE"
      BY <2>3 DEF EnvInv, ExperimentsTyped, Exists, Registered, Experiment
    <3>3. handlers[h] \in Handler /\ reg' = reg
      BY <1>0, <1>8 DEF HandlersTyped, SetActive
    <3>4. /\ \A i \in DOMAIN handlers \ {h} : handlers'[i] = handlers[i]
          /\ handlers'[h] \in Handler
          /\ handlers'[h].seen = handlers[h].seen /\ handlers'[h].kind = handlers[h].kind
          /\ handlers'[h].port = handlers[h].port
          /\ handlers[h].peer = "none" => handlers'[h].peer = "none"
          /\ handlers'[h].pc = "poll"
      BY <2>3, <3>3 DEF Handler
    <3>5. handlers'[h].removed => handlers'[h].peer \in {"leaving", "gone"}
      <4>1. handlers[h].pc = "activate"
        BY <1>8 DEF SetActive
      <4>2. handlers[h].removed => handlers[h].peer \in {"leaving", "gone"}
        BY <1>0, <4>1 DEF HandlerPhases
      <4>3. handlers'[h].removed = handlers[h].removed
        BY <2>3, <3>3 DEF Handler
      <4>4. handlers[h].peer # "up" => handlers'[h].peer = handlers[h].peer
        BY <2>3, <3>3 DEF Handler
      <4>5. QED
        BY <4>2, <4>3, <4>4
    <3>6. QED
      BY <2>3, <3>1, <3>2, <3>3, <3>4, <3>5 DEF Activates
  <2>4. QED
    BY <1>8, <2>1, <2>2, <2>3 DEF SetActive
<1>9. ASSUME NEW h \in DOMAIN handlers, HeartbeatDirty(h) PROVE HandlersShrink
  <2>0. handlers[h] \in Handler /\ handlers[h].seen <= generation
    BY <1>0 DEF HandlersTyped
  <2>1. handlers[h].kind = "EXECUTION_MASTER" /\ handlers[h].peer \in {"running", "told"} /\ ~handlers[h].removed
    BY <1>0, <1>9 DEF HeartbeatDirty, HandlerPhases
  <2>2. handlers'[h] = [handlers[h] EXCEPT !.pc = "dirty"] /\ Others(h)
    BY <1>9 DEF HeartbeatDirty, Handle
  <2>3. Follows(handlers[h], handlers'[h])
    BY <2>0, <2>1, <2>2 DEF Follows, Handler
  <2>4. QED
    BY <1>0, <2>2, <2>3, OneFollows
<1>10. ASSUME NEW h \in DOMAIN handlers, HeartbeatProto(h) PROVE HandlersShrink
  <2>1. CASE UNCHANGED handlers
    BY <1>0, <2>1, HandlersSame
  <2>2. CASE handlers' = Handle(h, "pc", "poll")
    BY <1>6, <1>10, <2>2 DEF HeartbeatProto
  <2>3. CASE \E b \in BOOLEAN : Answers(h, b)
    <3>0. handlers[h] \in Handler /\ handlers[h].seen <= generation
      BY <1>0 DEF HandlersTyped
    <3>1. ~handlers[h].removed
      BY <1>0, <1>10 DEF HeartbeatProto, HandlerPhases
    <3>2. \E b \in BOOLEAN : handlers'[h] = [handlers[h] EXCEPT !.pc = "poll",
                                !.peer = IF b /\ @ = "running" THEN "told" ELSE @]
      BY <2>3 DEF Answers
    <3>3. Follows(handlers[h], handlers'[h])
      BY <3>0, <3>1, <3>2 DEF Follows, Handler
    <3>4. Others(h)
      BY <2>3 DEF Answers
    <3>5. QED
      BY <1>0, <3>3, <3>4, OneFollows
  <2>4. QED
    BY <1>10, <2>1, <2>2, <2>3, HeartbeatOutcome
<1>11. ASSUME NEW h \in DOMAIN handlers, StartReplier(h) PROVE HandlersShrink
  <2>1. CASE UNCHANGED handlers
    BY <1>0, <2>1, HandlersSame
  <2>2. CASE handlers' = Handle(h, "pc", "poll")
    BY <1>6, <1>11, <2>2 DEF StartReplier
  <2>3. QED
    BY <1>11, <2>1, <2>2 DEF StartReplier
<1>12. ASSUME NEW h \in DOMAIN handlers, HeartbeatLogan(h) PROVE HandlersShrink
  <2>0. handlers[h] \in Handler /\ handlers[h].seen <= generation
    BY <1>0 DEF HandlersTyped
  <2>1. handlers[h].pc = "poll" /\ handlers[h].peer = "running"
    BY <1>0, <1>12 DEF HeartbeatLogan, HandlerPhases
  <2>2. handlers'[h] = [handlers[h] EXCEPT !.peer = "leaving"] /\ Others(h)
    BY <1>12 DEF HeartbeatLogan, Handle
  <2>3. Follows(handlers[h], handlers'[h])
    BY <2>0, <2>1, <2>2 DEF Follows, Handler
  <2>4. QED
    BY <1>0, <2>2, <2>3, OneFollows
<1>13. ASSUME NEW h \in DOMAIN handlers, Deregister(h) PROVE HandlersShrink
  <2>0. handlers[h] \in Handler /\ handlers[h].seen <= generation
    BY <1>0 DEF HandlersTyped
  <2>1. handlers[h].pc = "poll" /\ handlers[h].peer \in {"running", "told"}
    BY <1>0, <1>13 DEF Deregister, HandlerPhases
  <2>2. handlers'[h] = [handlers[h] EXCEPT !.removed = TRUE, !.peer = "leaving"] /\ Others(h)
    BY <1>13 DEF Deregister
  <2>3. Follows(handlers[h], handlers'[h])
    BY <2>0, <2>1, <2>2 DEF Follows, Handler
  <2>4. QED
    BY <1>0, <2>2, <2>3, OneFollows
<1>14. ASSUME NEW h \in DOMAIN handlers, EndHeartbeat(h) PROVE HandlersShrink
  <2>0. handlers[h] \in Handler /\ handlers[h].seen <= generation
    BY <1>0 DEF HandlersTyped
  <2>1. handlers[h].pc = "poll" /\ handlers[h].peer = "leaving"
    BY <1>0, <1>14 DEF EndHeartbeat, HandlerPhases
  <2>2. handlers'[h] = [handlers[h] EXCEPT !.pc = "ended", !.peer = "gone"] /\ Others(h)
    BY <1>14 DEF EndHeartbeat
  <2>3. Follows(handlers[h], handlers'[h])
    BY <2>0, <2>1, <2>2 DEF Follows, Handler
  <2>4. QED
    BY <1>0, <2>2, <2>3, OneFollows
<1>15. ASSUME NEW h \in DOMAIN handlers, Timeout(h) PROVE HandlersShrink
  <2>0. handlers[h] \in Handler /\ handlers[h].seen <= generation
    BY <1>0 DEF HandlersTyped
  <2>1. handlers[h].pc = "poll" /\ (handlers[h].removed => handlers[h].peer = "gone")
    BY <1>0, <1>15 DEF Timeout, HandlerPhases
  <2>2. handlers'[h] = [handlers[h] EXCEPT !.pc = "timedOut"] /\ Others(h)
    BY <1>15 DEF Timeout, Handle
  <2>3. Follows(handlers[h], handlers'[h])
    BY <2>0, <2>1, <2>2 DEF Follows, Handler
  <2>4. QED
    BY <1>0, <2>2, <2>3, OneFollows
<1>16. ASSUME NEW h \in DOMAIN handlers, RemoveTimedOut(h) PROVE HandlersShrink
  <2>0. handlers[h] \in Handler /\ handlers[h].seen <= generation
    BY <1>0 DEF HandlersTyped
  <2>1. handlers[h].pc = "timedOut"
    BY <1>0, <1>16 DEF RemoveTimedOut, HandlerPhases
  <2>2. handlers'[h] = [handlers[h] EXCEPT !.removed = TRUE, !.pc = "ended"] /\ Others(h)
    BY <1>16 DEF RemoveTimedOut
  <2>3. Follows(handlers[h], handlers'[h])
    BY <2>0, <2>1, <2>2 DEF Follows, Handler
  <2>4. QED
    BY <1>0, <2>2, <2>3, OneFollows
<1>17. ASSUME NEW h \in DOMAIN handlers, CleanupTask(h) PROVE HandlersShrink
  BY <1>0, <1>17, FollowsSelf DEF CleanupTask, HandlersShrink, Restrict
<1>18. ASSUME NEW h \in DOMAIN handlers, PeerCrash(h) PROVE HandlersShrink
  <2>0. handlers[h] \in Handler /\ handlers[h].seen <= generation
    BY <1>0 DEF HandlersTyped
  <2>1. /\ handlers[h].peer # "none"
        /\ handlers[h].pc = "dirty" => handlers[h].kind = "EXECUTION_MASTER" /\ ~handlers[h].removed
    BY <1>0, <1>18 DEF PeerCrash, HandlerPhases
  <2>2. handlers'[h] = [handlers[h] EXCEPT !.peer = "gone"] /\ Others(h)
    BY <1>18 DEF PeerCrash, Handle
  <2>3. Follows(handlers[h], handlers'[h])
    BY <2>0, <2>1, <2>2 DEF Follows, Handler
  <2>4. QED
    BY <1>0, <2>2, <2>3, OneFollows
<1>19. ASSUME UNCHANGED handlers PROVE HandlersShrink
  BY <1>0, <1>19, HandlersSame
<1>20. QED
  BY <1>1, <1>2, <1>3, <1>4, <1>7, <1>8, <1>9, <1>10, <1>11, <1>12, <1>13, <1>14,
     <1>15, <1>16, <1>17, <1>18, <1>19, NextCases
    DEF PopulateExperiment, ShutdownExperiment, InspectExperiment, CheckRegistration, vars

-----------------------------------------------------------------------------
(* Each part of EnvInv is kept. *)

(* The number of the next experiment only grows. *)
LEMMA GenerationStep ==
  ASSUME EnvInv, [Next]_vars
  PROVE  /\ generation \in Nat
         /\ \/ generation' = generation
            \/ generation < MaxRegistrations /\ generation' = generation + 1
<1>1. generation \in Nat
  BY DEF EnvInv, HistoryTyped
<1>2. QED
  BY <1>1, NextCases
    DEF PopulateExperiment, ShutdownExperiment, InspectExperiment, CheckRegistration,
        LoganRegistration, ConstructHandler, ReplyRegistration, StartReplier, GetExperimentInfo,
        InfoProto, SetActive, HeartbeatDirty, HeartbeatProto, HeartbeatLogan, Deregister,
        EndHeartbeat, Timeout, RemoveTimedOut, CleanupTask, PeerCrash, histVars, vars

(* The ports of a master that is given two. *)
LEMMA MasterPortsFacts ==
  ASSUME PortsTyped, CheckValidity(MasterPorts)
  PROVE  /\ Len(available_ports) \in Nat /\ 2 \in 0 .. Len(available_ports)
         /\ MasterPorts = SubSeq(available_ports, 1, 2)
         /\ Len(MasterPorts) = 2
<1>1. Len(available_ports) \in Nat /\ available_ports \in Seq(Range(NodePorts))
  BY DEF PortsTyped
<1>2. Len(MasterPorts) = 2
  BY DEF CheckValidity
<1>3. CASE Len(available_ports) < 2
  <2>1. MasterPorts = SubSeq(available_ports, 1, Len(available_ports))
    BY <1>3 DEF MasterPorts
  <2>2. Len(available_ports) \in 0 .. Len(available_ports)
    BY <1>1
  <2>3. Len(SubSeq(available_ports, 1, Len(available_ports))) = Len(available_ports)
    BY <1>1, <2>2, SplitFacts
  <2>4. QED
    BY <1>1, <1>2, <1>3, <2>1, <2>3
<1>4. CASE ~(Len(available_ports) < 2)
  BY <1>1, <1>2, <1>4 DEF MasterPorts
<1>5. QED
  BY <1>3, <1>4

(* What a successful registration hands out. *)
LEMMA RegistersPorts ==
  ASSUME EnvInv, NEW n \in Names, Registers(n)
  PROVE  /\ Head(available_node_manager_ports) \in Range(ManagerPorts)
         /\ Head(available_node_manager_ports) \in Range(available_node_manager_ports)
         /\ available_node_manager_ports' \in Seq(Range(ManagerPorts))
         /\ Range(available_node_manager_ports') \subseteq Range(available_node_manager_ports)
         /\ Head(available_node_manager_ports) \notin Range(available_node_manager_ports')
         /\ IsInjective(available_node_manager_ports')
         /\ MasterPorts \in Seq(Range(NodePorts)) /\ Len(MasterPorts) = 2
         /\ available_ports' \in Seq(Range(NodePorts))
         /\ Range(MasterPorts) \subseteq Range(available_ports)
         /\ Range(available_ports') \subseteq Range(available_ports)
         /\ Range(MasterPorts) \cap Range(available_ports') = {}
         /\ IsInjective(available_ports')
<1>1. /\ available_node_manager_ports \in Seq(Range(ManagerPorts))
      /\ available_ports \in Seq(Range(NodePorts))
      /\ IsInjective(available_node_manager_ports) /\ IsInjective(available_ports)
  BY DEF EnvInv, PortsTyped, PortsExclusive
<1>2. /\ available_node_manager_ports # <<>>
      /\ available_node_manager_ports' = Tail(available_node_manager_ports)
      /\ CheckValidity(MasterPorts)
      /\ available_ports' = SubSeq(available_ports, Len(MasterPorts) + 1, Len(available_ports))
  BY DEF Registers
<1>3. /\ 2 \in 0 .. Len(available_ports)
      /\ MasterPorts = SubSeq(available_ports, 1, 2)
      /\ Len(MasterPorts) = 2
  BY <1>2, MasterPortsFacts DEF EnvInv
<1>4. available_ports' = SubSeq(available_ports, 2 + 1, Len(available_ports))
  BY <1>2, <1>3
<1>5. /\ Head(available_node_manager_ports) \in Range(ManagerPorts)
      /\ Head(available_node_manager_ports) \in Range(available_node_manager_ports)
      /\ available_node_manager_ports' \in Seq(Range(ManagerPorts))
      /\ Range(available_node_manager_ports') \subseteq Range(available_node_manager_ports)
      /\ Head(available_node_manager_ports) \notin Range(available_node_manager_ports')
      /\ IsInjective(available_node_manager_ports')
  BY <1>1, <1>2, TakeFacts
<1>6. /\ MasterPorts \in Seq(Range(NodePorts))
      /\ available_ports' \in Seq(Range(NodePorts))
      /\ Range(MasterPorts) \subseteq Range(available_ports)
      /\ Range(available_ports') \subseteq Range(available_ports)
      /\ Range(MasterPorts) \cap Range(available_ports') = {}
      /\ IsInjective(available_ports')
  BY <1>1, <1>3, <1>4, SplitFacts
<1>7. QED
  BY <1>3, <1>5, <1>6

(* ExperimentsTyped: a new experiment gets ports of the queues. *)
LEMMA ExperimentsTypedStep ==
  ASSUME EnvInv, [Next]_vars
  PROVE  ExperimentsTyped'
<1>1. generation \in Nat /\ generation' \in Nat /\ generation <= generation'
  BY GenerationStep
<1>2. CASE MapShrinks
  <2>1. \A c \in DOMAIN experiment_map' : experiment_map'[c].gen \in 1 .. generation'
    BY <1>1, <1>2 DEF EnvInv, ExperimentsTyped, MapShrinks
  <2>2. QED
    BY <1>2, <2>1 DEF EnvInv, ExperimentsTyped, MapShrinks
<1>3. ASSUME NEW n \in Names, Registers(n) PROVE ExperimentsTyped'
  <2>1. /\ Head(available_node_manager_ports) \in Range(ManagerPorts)
        /\ MasterPorts \in Seq(Range(NodePorts)) /\ Len(MasterPorts) = 2
    BY <1>3, RegistersPorts
  <2>2. Range(ManagerPorts) \subseteq Nat /\ Range(NodePorts) \subseteq Nat
    BY EnvironmentAssumption DEF Range
  <2>3. MasterPorts \in Seq(Nat) /\ Head(available_node_manager_ports) \in Nat
    BY <2>1, <2>2
  <2>4. /\ DOMAIN experiment_map' = DOMAIN experiment_map \cup {n}
        /\ experiment_map'[n] =
             [state |-> "CONFIGURED", gen |-> generation + 1,
              manager_port |-> Head(available_node_manager_ports),
              master_ports |-> MasterPorts, dirty |-> FALSE, shutdown |-> FALSE]
        /\ generation' = generation + 1
    BY <1>3 DEF Registers
  <2>5. /\ experiment_map'[n] \in Experiment
        /\ experiment_map'[n].gen \in 1 .. generation'
    BY <1>1, <2>3, <2>4 DEF Experiment
  <2>6. /\ experiment_map'[n].manager_port \in Range(ManagerPorts)
        /\ experiment_map'[n].master_ports \in Seq(Range(NodePorts))
        /\ Len(experiment_map'[n].master_ports) = 2
    BY <2>1, <2>4
  <2>7. ASSUME NEW c \in DOMAIN experiment_map
        PROVE  /\ experiment_map'[c] \in Experiment
               /\ experiment_map'[c].gen \in 1 .. generation'
               /\ experiment_map'[c].manager_port \in Range(ManagerPorts)
               /\ experiment_map'[c].master_ports \in Seq(Range(NodePorts))
               /\ Len(experiment_map'[c].master_ports) = 2
    <3>1. /\ experiment_map'[c] \in Experiment
          /\ experiment_map'[c].gen = experiment_map[c].gen
          /\ experiment_map'[c].manager_port = experiment_map[c].manager_port
          /\ experiment_map'[c].master_ports = experiment_map[c].master_ports
      BY <1>3 DEF Registers
    <3>2. experiment_map[c].gen \in 1 .. generation
      BY DEF EnvInv, ExperimentsTyped
    <3>3. experiment_map[c].gen \in 1 .. generation'
      BY <1>1, <3>2
    <3>4. QED
      BY <3>1, <3>3 DEF EnvInv, ExperimentsTyped
  <2>8. DOMAIN experiment_map' \subseteq Names
    BY <2>4 DEF EnvInv, ExperimentsTyped
  <2>9. QED
    BY <2>4, <2>5, <2>6, <2>7, <2>8 DEF ExperimentsTyped
<1>4. QED
  BY <1>2, <1>3, MapStep

(* GenerationsDiffer: a new experiment has a number nobody had. *)
LEMMA GenerationsDifferStep ==
  ASSUME EnvInv, [Next]_vars
  PROVE  GenerationsDiffer'
<1>1. CASE MapShrinks
  BY <1>1 DEF EnvInv, GenerationsDiffer, MapShrinks
<1>2. ASSUME NEW n \in Names, Registers(n) PROVE GenerationsDiffer'
  <2>1. generation \in Nat
    BY GenerationStep
  <2>2. experiment_map'[n].gen = generation + 1
    BY <1>2 DEF Registers
  <2>3. \A c \in DOMAIN experiment_map :
          experiment_map[c].gen \in 1 .. generation /\ experiment_map'[c].gen = experiment_map[c].gen
    BY <1>2 DEF EnvInv, ExperimentsTyped, Registers
  <2>4. \A c \in DOMAIN experiment_map : experiment_map'[c].gen # experiment_map'[n].gen
    BY <2>1, <2>2, <2>3
  <2>5. QED
    BY <1>2, <2>3, <2>4 DEF EnvInv, GenerationsDiffer, Registers
<1>3. QED
  BY <1>1, <1>2, MapStep

(* HandlersTyped and HandlerPhases, from what a step does to the handlers. *)
LEMMA HandlersTypedStep ==
  ASSUME EnvInv, [Next]_vars
  PROVE  HandlersTyped' /\ HandlerPhases'
<1>0. /\ \A h \in DOMAIN handlers : handlers[h] \in Handler /\ handlers[h].seen <= generation
      /\ DOMAIN handlers \subseteq HandlerIds
      /\ HandlerPhases
  BY DEF EnvInv, HandlersTyped
<1>1. generation \in Nat /\ generation' \in Nat /\ generation <= generation'
  BY GenerationStep
<1>2. CASE HandlersShrink
  <2>1. \A h \in DOMAIN handlers' :
          handlers'[h].seen \in Nat /\ handlers'[h].seen <= generation
    BY <1>2 DEF HandlersShrink, Follows, Handler
  <2>2. \A h \in DOMAIN handlers' : handlers'[h].seen <= generation'
    BY <1>1, <2>1
  <2>3. QED
    BY <1>0, <1>2, <2>2 DEF HandlersTyped, HandlerPhases, HandlersShrink, Follows
<1>3. ASSUME NEW h \in HandlerIds, Admits(h) PROVE HandlersTyped' /\ HandlerPhases'
  <2>1. \A i \in DOMAIN handlers' : handlers'[i] \in Handler /\ handlers'[i].seen <= generation
    BY <1>0, <1>1, <1>3 DEF Admits
  <2>2. \A i \in DOMAIN handlers' : handlers'[i].seen \in Nat
    BY <2>1 DEF Handler
  <2>3. \A i \in DOMAIN handlers' : handlers'[i].seen <= generation'
    BY <1>1, <2>1, <2>2
  <2>4. DOMAIN handlers' \subseteq HandlerIds'
    BY <1>0, <1>3 DEF Admits, HandlerIds
  <2>5. HandlerPhases'
    BY <1>0, <1>3 DEF Admits, HandlerPhases
  <2>6. QED
    BY <2>1, <2>3, <2>4, <2>5 DEF HandlersTyped
<1>4. ASSUME NEW h \in DOMAIN handlers, Activates(h) PROVE HandlersTyped' /\ HandlerPhases'
  <2>1. \A i \in DOMAIN handlers' : handlers'[i] \in Handler /\ handlers'[i].seen <= generation
    BY <1>0, <1>4 DEF Activates
  <2>2. \A i \in DOMAIN handlers' : handlers'[i].seen \in Nat
    BY <2>1 DEF Handler
  <2>3. \A i \in DOMAIN handlers' : handlers'[i].seen <= generation'
    BY <1>1, <2>1, <2>2
  <2>4. HandlerPhases'
    BY <1>0, <1>4 DEF Activates, HandlerPhases
  <2>5. QED
    BY <1>0, <1>4, <2>1, <2>3, <2>4 DEF HandlersTyped, Activates, HandlerIds
<1>5. QED
  BY <1>2, <1>3, <1>4, HandlersStep

(* RegistrationTyped: the register waits for a handler that it constructed. *)
LEMMA RegistrationTypedStep ==
  ASSUME EnvInv, [Next]_vars
  PROVE  RegistrationTyped'
<1>0. RegistrationTyped /\ Idle.pc = "idle"
  BY DEF EnvInv, Idle
<1>1. CASE reg' = reg
  <2>1. CASE HandlersShrink
    BY <1>0, <1>1, <2>1 DEF RegistrationTyped, HandlersShrink, Follows
  <2>2. CASE \E h \in HandlerIds : Admits(h)
    BY <1>0, <1>1, <2>2 DEF RegistrationTyped, Admits
  <2>3. CASE \E h \in DOMAIN handlers : Activates(h)
    BY <1>0, <1>1, <2>3 DEF RegistrationTyped, Activates
  <2>4. QED
    BY <2>1, <2>2, <2>3, HandlersStep
<1>2. ASSUME NEW n \in Names, CheckRegistration(n) PROVE RegistrationTyped'
  <2>1. reg' = [pc |-> "construct", name |-> n, gen |-> experiment_map[n].gen]
    BY <1>2 DEF CheckRegistration
  <2>2. QED
    BY <2>1 DEF RegistrationTyped
<1>3. CASE reg' = Idle
  BY <1>0, <1>3 DEF RegistrationTyped
<1>4. CASE \E h \in HandlerIds :
             /\ FreeId(h)
             /\ NewHandler(h, "EXECUTION_MASTER", reg.name,
                           experiment_map[reg.name].manager_port, "none")
             /\ reg.pc = "construct"
             /\ reg' = [pc |-> "reply", name |-> reg.name, gen |-> reg.gen, handler |-> h]
  <2>1. PICK h \in HandlerIds :
             /\ NewHandler(h, "EXECUTION_MASTER", reg.name,
                           experiment_map[reg.name].manager_port, "none")
             /\ reg.pc = "construct"
             /\ reg' = [pc |-> "reply", name |-> reg.name, gen |-> reg.gen, handler |-> h]
    BY <1>4
  <2>2. reg'.pc = "reply" /\ reg'.name = reg.name /\ reg'.handler = h /\ reg.name \in Names
    BY <1>0, <2>1 DEF RegistrationTyped
  <2>3. handlers'[h].peer = "none"
    BY <2>1 DEF NewHandler
  <2>4. QED
    BY <2>2, <2>3 DEF RegistrationTyped
<1>5. QED
  BY <1>1, <1>2, <1>3, <1>4, NextCases
    DEF PopulateExperiment, ShutdownExperiment, InspectExperiment,
        LoganRegistration, ConstructHandler, ReplyRegistration, StartReplier, GetExperimentInfo,
        InfoProto, SetActive, HeartbeatDirty, HeartbeatProto, HeartbeatLogan, Deregister,
        EndHeartbeat, Timeout, RemoveTimedOut, CleanupTask, PeerCrash, vars

(* What goes into the history of an experiment that was shut down. *)
LEMMA TakenFacts ==
  ASSUME EnvInv, NEW n \in DOMAIN experiment_map
  PROVE  TakenBy(n) \subseteq 1 .. generation /\ taken \subseteq TakenBy(n)
BY DEF EnvInv, HistoryTyped, ExperimentsTyped, TakenBy

(* HistoryTyped: each counter stays within its bound. *)
LEMMA HistoryTypedStep ==
  ASSUME EnvInv, [Next]_vars
  PROVE  HistoryTyped'
<1>0. HistoryTyped
  BY DEF EnvInv
<1>1. generation' \in 0 .. MaxRegistrations /\ 1 .. generation \subseteq 1 .. generation'
  <2>1. generation \in Nat /\ generation <= MaxRegistrations /\ MaxRegistrations \in Nat
    BY <1>0, EnvironmentAssumption DEF HistoryTyped
  <2>2. QED
    BY <2>1, GenerationStep
<1>2. fault' \in {"none", "bind", "null", "dangling"}
  BY <1>0, NextCases
    DEF HistoryTyped, PopulateExperiment, ShutdownExperiment, InspectExperiment, CheckRegistration,
        LoganRegistration, ConstructHandler, ReplyRegistration, StartReplier, GetExperimentInfo,
        InfoProto, SetActive, HeartbeatDirty, HeartbeatProto, HeartbeatLogan, Deregister,
        EndHeartbeat, Timeout, RemoveTimedOut, CleanupTask, PeerCrash, vars
<1>3. taken' \subseteq 1 .. generation
  <2>1. ASSUME NEW n \in Names, InspectExperiment(n) PROVE taken' \subseteq 1 .. generation
    BY <2>1, TakenFacts DEF InspectExperiment, Registered
  <2>2. ASSUME NEW h \in DOMAIN handlers, InfoProto(h) PROVE taken' \subseteq 1 .. generation
    BY <1>0, <2>2, TakenFacts DEF InfoProto, Registered, HistoryTyped
  <2>3. ASSUME UNCHANGED taken PROVE taken' \subseteq 1 .. generation
    BY <1>0, <2>3 DEF HistoryTyped
  <2>4. ASSUME NEW h \in DOMAIN handlers, HeartbeatProto(h) PROVE taken' \subseteq 1 .. generation
    BY <2>3, <2>4, HeartbeatOutcome, TakenFacts
  <2>5. QED
    BY <2>1, <2>2, <2>3, <2>4, NextCases
      DEF PopulateExperiment, ShutdownExperiment, CheckRegistration,
          LoganRegistration, ConstructHandler, ReplyRegistration, StartReplier, GetExperimentInfo,
          SetActive, HeartbeatDirty, HeartbeatLogan, Deregister,
          EndHeartbeat, Timeout, RemoveTimedOut, CleanupTask, PeerCrash, histVars, vars
<1>4. abandoned' \subseteq 1 .. generation
  <2>1. ASSUME NEW h \in DOMAIN handlers, EndHeartbeat(h) PROVE abandoned' \subseteq 1 .. generation
    BY <1>0, <2>1 DEF EndHeartbeat, HistoryTyped, EnvInv, ExperimentsTyped
  <2>2. ASSUME UNCHANGED abandoned PROVE abandoned' \subseteq 1 .. generation
    BY <1>0, <2>2 DEF HistoryTyped
  <2>3. QED
    BY <2>1, <2>2, NextCases
      DEF PopulateExperiment, ShutdownExperiment, InspectExperiment, CheckRegistration,
          LoganRegistration, ConstructHandler, ReplyRegistration, StartReplier, GetExperimentInfo,
          InfoProto, SetActive, HeartbeatDirty, HeartbeatProto, HeartbeatLogan, Deregister,
          Timeout, RemoveTimedOut, CleanupTask, PeerCrash, histVars, vars
<1>5. /\ inspects' = inspects \/ (inspects < MaxInspects /\ inspects' = inspects + 1)
      /\ crashes' = crashes \/ (crashes < MaxCrashes /\ crashes' = crashes + 1)
      /\ losses' = losses \/ (losses < MaxLosses /\ losses' = losses + 1)
  BY NextCases
    DEF PopulateExperiment, ShutdownExperiment, InspectExperiment, CheckRegistration,
        LoganRegistration, ConstructHandler, ReplyRegistration, StartReplier, GetExperimentInfo,
        InfoProto, SetActive, HeartbeatDirty, HeartbeatProto, HeartbeatLogan, Deregister,
        EndHeartbeat, Timeout, RemoveTimedOut, CleanupTask, PeerCrash, CountLoss, boundVars, vars
<1>6. /\ inspects \in 0 .. MaxInspects /\ crashes \in 0 .. MaxCrashes /\ losses \in 0 .. MaxLosses
      /\ MaxInspects \in Nat /\ MaxCrashes \in Nat /\ MaxLosses \in Nat
  BY <1>0, EnvironmentAssumption DEF HistoryTyped
<1>7. inspects' \in 0 .. MaxInspects /\ crashes' \in 0 .. MaxCrashes /\ losses' \in 0 .. MaxLosses
  BY <1>5, <1>6
<1>8. QED
  BY <1>1, <1>2, <1>3, <1>4, <1>7 DEF HistoryTyped

(* OneMaster: SetActive finds an experiment that nobody runs. *)
LEMMA OneMasterStep ==
  ASSUME EnvInv, [Next]_vars
  PROVE  OneMaster'
<1>0. OneMaster
  BY DEF EnvInv
<1>1. CASE HandlersShrink
  BY <1>0, <1>1 DEF OneMaster, HandlersShrink, Follows
<1>2. ASSUME NEW h \in HandlerIds, Admits(h) PROVE OneMaster'
  BY <1>0, <1>2 DEF OneMaster, Admits
<1>3. ASSUME NEW h \in DOMAIN handlers, Activates(h) PROVE OneMaster'
  <2>1. \A i \in DOMAIN handlers : ~Runs(i, handlers[h].seen)
    BY <1>3 DEF EnvInv, RunTaken, Activates, Exists, Registered
  <2>2. \A i \in DOMAIN handlers \ {h} :
          /\ handlers'[i] = handlers[i]
          /\ ~(/\ handlers[i].peer \in {"running", "told"} /\ handlers[i].kind = "EXECUTION_MASTER"
               /\ handlers[i].seen = handlers'[h].seen)
    BY <1>3, <2>1 DEF Activates, Runs
  <2>3. DOMAIN handlers' = DOMAIN handlers
    BY <1>3 DEF Activates
  <2>4. QED
    BY <1>0, <2>2, <2>3 DEF OneMaster
<1>4. QED
  BY <1>1, <1>2, <1>3, HandlersStep

(* RunTaken: the experiment that is being run is not CONFIGURED. *)
LEMMA RunTakenStep ==
  ASSUME EnvInv, [Next]_vars
  PROVE  RunTaken'
<1>0. RunTaken
  BY DEF EnvInv
<1>1. CASE MapShrinks
  <2>1. CASE HandlersShrink
    BY <1>0, <1>1, <2>1 DEF RunTaken, Runs, MapShrinks, HandlersShrink, Follows
  <2>2. ASSUME NEW h \in HandlerIds, Admits(h) PROVE RunTaken'
    BY <1>0, <1>1, <2>2 DEF RunTaken, Runs, MapShrinks, Admits
  <2>3. ASSUME NEW h \in DOMAIN handlers, Activates(h) PROVE RunTaken'
    <3>1. SUFFICES ASSUME NEW n \in DOMAIN experiment_map', experiment_map'[n].state = "CONFIGURED",
                          NEW i \in DOMAIN handlers'
                   PROVE  ~Runs(i, experiment_map[n].gen)'
      BY DEF RunTaken
    <3>2. n \in DOMAIN experiment_map /\ experiment_map[n].state = "CONFIGURED"
          /\ experiment_map'[n].gen = experiment_map[n].gen
      BY <1>1, <3>1 DEF MapShrinks
    <3>3. CASE i = h
      <4>1. n # handlers[h].name
        BY <2>3, <3>1 DEF Activates
      <4>2. /\ handlers[h].name \in DOMAIN experiment_map
            /\ experiment_map[handlers[h].name].gen = handlers[h].seen
        BY <2>3 DEF Activates, Exists, Registered
      <4>3. experiment_map[n].gen # handlers[h].seen
        BY <3>2, <4>1, <4>2 DEF EnvInv, GenerationsDiffer
      <4>4. handlers'[h].seen = handlers[h].seen
        BY <2>3 DEF Activates
      <4>5. QED
        BY <3>2, <3>3, <4>3, <4>4 DEF Runs
    <3>4. CASE i # h
      <4>1. i \in DOMAIN handlers /\ handlers'[i] = handlers[i]
        BY <2>3, <3>4 DEF Activates
      <4>2. ~Runs(i, experiment_map[n].gen)
        BY <1>0, <3>2, <4>1 DEF RunTaken
      <4>3. QED
        BY <3>2, <4>1, <4>2 DEF Runs
    <3>5. QED
      BY <3>3, <3>4
  <2>4. QED
    BY <2>1, <2>2, <2>3, HandlersStep
<1>2. ASSUME NEW n \in Names, Registers(n) PROVE RunTaken'
  <2>1. handlers' = handlers /\ experiment_map'[n].gen = generation + 1
        /\ DOMAIN experiment_map' = DOMAIN experiment_map \cup {n}
    BY <1>2 DEF Registers
  <2>2. \A h \in DOMAIN handlers : handlers[h].seen \in Nat /\ handlers[h].seen <= generation
    BY DEF EnvInv, HandlersTyped, Handler
  <2>3. generation \in Nat
    BY GenerationStep
  <2>4. \A h \in DOMAIN handlers : handlers[h].seen # experiment_map'[n].gen
    BY <2>1, <2>2, <2>3
  <2>5. \A c \in DOMAIN experiment_map :
          /\ experiment_map'[c].gen = experiment_map[c].gen
          /\ experiment_map'[c].state = experiment_map[c].state
    BY <1>2 DEF Registers
  <2>6. QED
    BY <1>0, <2>1, <2>4, <2>5 DEF RunTaken, Runs
<1>3. QED
  BY <1>1, <1>2, MapStep

-----------------------------------------------------------------------------
(* Ports. *)

(* RemoveExperimentInternal gives the queues the ports of the experiment. *)
LEMMA RemovePorts ==
  ASSUME EnvInv, NEW n \in DOMAIN experiment_map, RemoveExperimentInternal(n)
  PROVE  /\ available_node_manager_ports' \in Seq(Range(ManagerPorts))
         /\ Range(available_node_manager_ports') =
              Range(available_node_manager_ports) \cup {experiment_map[n].manager_port}
         /\ IsInjective(available_node_manager_ports')
         /\ available_ports' \in Seq(Range(NodePorts))
         /\ Range(available_ports') \subseteq
              Range(available_ports) \cup Range(experiment_map[n].master_ports)
         /\ IsInjective(available_ports')
<1>1. /\ available_node_manager_ports \in Seq(Range(ManagerPorts))
      /\ available_ports \in Seq(Range(NodePorts))
      /\ IsInjective(available_node_manager_ports) /\ IsInjective(available_ports)
  BY DEF EnvInv, PortsTyped, PortsExclusive
<1>2. /\ experiment_map[n].manager_port \in Range(ManagerPorts)
      /\ experiment_map[n].master_ports \in Seq(Range(NodePorts))
      /\ Len(experiment_map[n].master_ports) = 2
  BY DEF EnvInv, ExperimentsTyped
<1>3. /\ available_node_manager_ports' =
           Push(available_node_manager_ports, experiment_map[n].manager_port)
      /\ \/ available_ports' = PushAll(available_ports, experiment_map[n].master_ports)
         \/ available_ports' = available_ports
  BY DEF RemoveExperimentInternal, FreePorts
<1>4. /\ available_node_manager_ports' \in Seq(Range(ManagerPorts))
      /\ Range(available_node_manager_ports') =
           Range(available_node_manager_ports) \cup {experiment_map[n].manager_port}
      /\ IsInjective(available_node_manager_ports')
  BY <1>1, <1>2, <1>3, PushFacts
<1>5. CASE available_ports' = available_ports
  BY <1>1, <1>4, <1>5
<1>6. CASE available_ports' = PushAll(available_ports, experiment_map[n].master_ports)
  <2>1. /\ available_ports' \in Seq(Range(NodePorts))
        /\ Range(available_ports') = Range(available_ports) \cup Range(experiment_map[n].master_ports)
        /\ IsInjective(available_ports')
    BY <1>1, <1>2, <1>6, PushAllFacts
  <2>2. QED
    BY <1>4, <2>1
<1>7. QED
  BY <1>3, <1>5, <1>6

(* A queue loses ports and gains none, the experiments and the handlers    *)
(* keep theirs.                                                            *)
QueuesShrink ==
  /\ available_node_manager_ports' \in Seq(Range(ManagerPorts))
  /\ Range(available_node_manager_ports') \subseteq Range(available_node_manager_ports)
  /\ IsInjective(available_node_manager_ports')
  /\ available_ports' \in Seq(Range(NodePorts))
  /\ Range(available_ports') \subseteq Range(available_ports)
  /\ IsInjective(available_ports')

(* The queues do not change. *)
LEMMA QueuesSame ==
  ASSUME EnvInv, UNCHANGED portVars
  PROVE  QueuesShrink
BY DEF EnvInv, PortsTyped, PortsExclusive, QueuesShrink, portVars

(* A registration that fails gives the manager port back. *)
LEMMA PopulatePorts ==
  ASSUME EnvInv, NEW n \in Names, PopulateExperiment(n)
  PROVE  QueuesShrink
<1> DEFINE q == available_node_manager_ports
<1>1. /\ q \in Seq(Range(ManagerPorts)) /\ q # <<>> /\ IsInjective(q)
      /\ available_ports \in Seq(Range(NodePorts)) /\ IsInjective(available_ports)
  BY DEF EnvInv, PortsTyped, PortsExclusive, PopulateExperiment
<1>2. /\ Head(q) \in Range(ManagerPorts) /\ Head(q) \in Range(q)
      /\ Tail(q) \in Seq(Range(ManagerPorts)) /\ Range(Tail(q)) \subseteq Range(q)
      /\ IsInjective(Tail(q))
  BY <1>1, TakeFacts
<1>3. /\ Push(Tail(q), Head(q)) \in Seq(Range(ManagerPorts))
      /\ Range(Push(Tail(q), Head(q))) = Range(Tail(q)) \cup {Head(q)}
      /\ IsInjective(Push(Tail(q), Head(q)))
  <2> DEFINE r == Tail(q)
             p == Head(q)
  <2>1. r \in Seq(Range(ManagerPorts)) /\ p \in Range(ManagerPorts) /\ IsInjective(r)
    BY <1>2
  <2> HIDE DEF r, p
  <2>2. /\ Push(r, p) \in Seq(Range(ManagerPorts))
        /\ Range(Push(r, p)) = Range(r) \cup {p}
        /\ IsInjective(Push(r, p))
    BY <2>1, PushFacts
  <2>3. QED
    BY <2>2 DEF r, p
<1>4. q' \in {Tail(q), Push(Tail(q), Head(q))}
  BY DEF PopulateExperiment
<1>5. /\ q' \in Seq(Range(ManagerPorts)) /\ Range(q') \subseteq Range(q) /\ IsInjective(q')
  <2>1. CASE q' = Tail(q)
    BY <1>2, <2>1
  <2>2. CASE q' = Push(Tail(q), Head(q))
    BY <1>2, <1>3, <2>2
  <2>3. QED
    BY <1>4, <2>1, <2>2
<1> DEFINE k == Len(MasterPorts)
           left == SubSeq(available_ports, k + 1, Len(available_ports))
<1>6. k \in 0 .. Len(available_ports)
  <2>1. Len(available_ports) \in Nat
    BY <1>1
  <2>2. CASE Len(available_ports) < 2
    <3>1. /\ MasterPorts = SubSeq(available_ports, 1, Len(available_ports))
          /\ Len(available_ports) \in 0 .. Len(available_ports)
      BY <2>1, <2>2 DEF MasterPorts
    <3>2. Len(SubSeq(available_ports, 1, Len(available_ports))) = Len(available_ports)
      BY <1>1, <3>1, SplitFacts
    <3>3. QED
      BY <3>1, <3>2
  <2>3. CASE ~(Len(available_ports) < 2)
    <3>1. MasterPorts = SubSeq(available_ports, 1, 2) /\ 2 \in 0 .. Len(available_ports)
      BY <2>1, <2>3 DEF MasterPorts
    <3>2. Len(SubSeq(available_ports, 1, 2)) = 2
      BY <1>1, <3>1, SplitFacts
    <3>3. QED
      BY <3>1, <3>2
  <2>4. QED
    BY <2>2, <2>3
<1>7. /\ left \in Seq(Range(NodePorts)) /\ Range(left) \subseteq Range(available_ports)
      /\ IsInjective(left)
  <2> HIDE DEF k
  <2>1. QED
    BY <1>1, <1>6, SplitFacts
<1>8. available_ports' \in {available_ports, left}
  BY DEF PopulateExperiment
<1>9. /\ available_ports' \in Seq(Range(NodePorts)) /\ IsInjective(available_ports')
      /\ Range(available_ports') \subseteq Range(available_ports)
  <2> HIDE DEF left
  <2>1. QED
    BY <1>1, <1>7, <1>8
<1>10. QED
  BY <1>5, <1>9 DEF QueuesShrink

(* The queues shrink, or RemoveExperimentInternal fills them. *)
LEMMA QueuesStep ==
  ASSUME EnvInv, [Next]_vars
  PROVE  QueuesShrink \/ \E n \in DOMAIN experiment_map : RemoveExperimentInternal(n)
<1>1. ASSUME NEW n \in Names, PopulateExperiment(n) PROVE QueuesShrink
  BY <1>1, PopulatePorts
<1>2. ASSUME NEW n \in Names, ShutdownExperiment(n)
      PROVE  QueuesShrink \/ \E c \in DOMAIN experiment_map : RemoveExperimentInternal(c)
  BY <1>2, QueuesSame DEF ShutdownExperiment, Registered
<1>3. ASSUME NEW n \in Names, LoganRegistration(n) PROVE QueuesShrink
  <2>1. /\ available_node_manager_ports \in Seq(Range(ManagerPorts))
        /\ IsInjective(available_node_manager_ports)
        /\ available_ports \in Seq(Range(NodePorts)) /\ IsInjective(available_ports)
    BY DEF EnvInv, PortsTyped, PortsExclusive
  <2>2. /\ available_node_manager_ports # <<>>
        /\ available_node_manager_ports' = Tail(available_node_manager_ports)
        /\ available_ports' = available_ports
    BY <1>3 DEF LoganRegistration
  <2>3. /\ available_node_manager_ports' \in Seq(Range(ManagerPorts))
        /\ Range(available_node_manager_ports') \subseteq Range(available_node_manager_ports)
        /\ IsInjective(available_node_manager_ports')
    BY <2>1, <2>2, TakeFacts
  <2>4. QED
    BY <2>1, <2>2, <2>3 DEF QueuesShrink
<1>4. ASSUME NEW h, RemoveDeployment(h)
      PROVE  QueuesShrink \/ \E c \in DOMAIN experiment_map : RemoveExperimentInternal(c)
  BY <1>4, QueuesSame DEF RemoveDeployment, Registered
<1>5. ASSUME UNCHANGED portVars PROVE QueuesShrink
  BY <1>5, QueuesSame
<1>6. QED
  BY <1>1, <1>2, <1>3, <1>4, <1>5, NextCases
    DEF InspectExperiment, CheckRegistration, ConstructHandler, ReplyRegistration,
        StartReplier, GetExperimentInfo, InfoProto, SetActive, HeartbeatDirty, HeartbeatProto,
        HeartbeatLogan, Deregister, EndHeartbeat, Timeout, RemoveTimedOut, CleanupTask,
        PeerCrash, vars

(* The handlers of logan servers are those there were. *)
LogansKept ==
  \A h \in DOMAIN handlers' : handlers'[h].kind = "LOGAN_SERVER" =>
    /\ h \in DOMAIN handlers /\ handlers[h].kind = "LOGAN_SERVER"
    /\ handlers'[h].port = handlers[h].port

(* A new one has taken a port of its own. *)
LEMMA LogansStep ==
  ASSUME EnvInv, [Next]_vars
  PROVE  LogansKept \/ \E h \in HandlerIds : Admits(h) /\ TakesPort(handlers'[h].port)
<1>1. CASE HandlersShrink
  BY <1>1 DEF HandlersShrink, Follows, LogansKept
<1>2. ASSUME NEW h \in HandlerIds, Admits(h) PROVE LogansKept \/ TakesPort(handlers'[h].port)
  BY <1>2 DEF Admits, LogansKept
<1>3. ASSUME NEW h \in DOMAIN handlers, Activates(h) PROVE LogansKept
  BY <1>3 DEF Activates, LogansKept
<1>4. QED
  BY <1>1, <1>2, <1>3, HandlersStep

(* PortsTyped: every port goes back to the queue it came from. *)
LEMMA PortsTypedStep ==
  ASSUME EnvInv, [Next]_vars
  PROVE  PortsTyped'
BY QueuesStep, RemovePorts DEF QueuesShrink, PortsTyped

(* Two experiments share no port, in the form that the proof uses. *)
LEMMA ExclusiveFacts ==
  ASSUME EnvInv
  PROVE  /\ \A n \in DOMAIN experiment_map :
              /\ experiment_map[n].manager_port \notin Range(available_node_manager_ports)
              /\ Range(experiment_map[n].master_ports) \cap Range(available_ports) = {}
         /\ \A n, o \in DOMAIN experiment_map : n # o =>
              /\ experiment_map[o].manager_port # experiment_map[n].manager_port
              /\ Range(experiment_map[o].master_ports) \cap Range(experiment_map[n].master_ports) = {}
         /\ \A h \in DOMAIN handlers : handlers[h].kind = "LOGAN_SERVER" =>
              /\ handlers[h].port \notin Range(available_node_manager_ports)
              /\ \A n \in DOMAIN experiment_map : experiment_map[n].manager_port # handlers[h].port
BY DEF EnvInv, PortsExclusive

(* And the form in which it is put back together. *)
LEMMA ExclusiveIntro ==
  ASSUME IsInjective(available_node_manager_ports'), IsInjective(available_ports'),
         \A n \in DOMAIN experiment_map' :
           /\ experiment_map'[n].manager_port \notin Range(available_node_manager_ports')
           /\ Range(experiment_map'[n].master_ports) \cap Range(available_ports') = {},
         \A n, o \in DOMAIN experiment_map' : n # o =>
           /\ experiment_map'[o].manager_port # experiment_map'[n].manager_port
           /\ Range(experiment_map'[o].master_ports) \cap Range(experiment_map'[n].master_ports) = {},
         \A h \in DOMAIN handlers' : handlers'[h].kind = "LOGAN_SERVER" =>
           /\ handlers'[h].port \notin Range(available_node_manager_ports')
           /\ \A n \in DOMAIN experiment_map' : experiment_map'[n].manager_port # handlers'[h].port
  PROVE  PortsExclusive'
<1>1. \A n \in DOMAIN experiment_map' :
        LET e == experiment_map'[n] IN
        /\ e.manager_port \notin Range(available_node_manager_ports')
        /\ Range(e.master_ports) \cap Range(available_ports') = {}
        /\ \A o \in DOMAIN experiment_map' \ {n} :
             /\ experiment_map'[o].manager_port # e.manager_port
             /\ Range(experiment_map'[o].master_ports) \cap Range(e.master_ports) = {}
  OBVIOUS
<1>2. QED
  BY <1>1 DEF PortsExclusive

(* PortsExclusive: a port that is handed out was in its queue, and one that *)
(* is put back belonged to the experiment that goes.                        *)
LEMMA PortsExclusiveStep ==
  ASSUME EnvInv, [Next]_vars
  PROVE  PortsExclusive'
<1>1. ASSUME NEW n \in DOMAIN experiment_map, RemoveExperimentInternal(n) PROVE PortsExclusive'
  <2>1. /\ MapShrinks
        /\ DOMAIN experiment_map' = DOMAIN experiment_map \ {n}
    BY <1>1, RemoveFacts DEF EnvInv
  <2>2. LogansKept
    BY <2>1, LogansStep DEF TakesPort
  <2>3. /\ Range(available_node_manager_ports') =
             Range(available_node_manager_ports) \cup {experiment_map[n].manager_port}
        /\ Range(available_ports') \subseteq
             Range(available_ports) \cup Range(experiment_map[n].master_ports)
        /\ IsInjective(available_node_manager_ports') /\ IsInjective(available_ports')
    BY <1>1, RemovePorts
  <2>4. \A c \in DOMAIN experiment_map' :
          /\ experiment_map'[c].manager_port \notin Range(available_node_manager_ports')
          /\ Range(experiment_map'[c].master_ports) \cap Range(available_ports') = {}
    BY <2>1, <2>3, ExclusiveFacts DEF MapShrinks
  <2>5. \A c, o \in DOMAIN experiment_map' : c # o =>
          /\ experiment_map'[o].manager_port # experiment_map'[c].manager_port
          /\ Range(experiment_map'[o].master_ports) \cap Range(experiment_map'[c].master_ports) = {}
    BY <2>1, ExclusiveFacts DEF MapShrinks
  <2>6. \A h \in DOMAIN handlers' : handlers'[h].kind = "LOGAN_SERVER" =>
          /\ handlers'[h].port \notin Range(available_node_manager_ports')
          /\ \A c \in DOMAIN experiment_map' : experiment_map'[c].manager_port # handlers'[h].port
    BY <2>1, <2>2, <2>3, ExclusiveFacts DEF MapShrinks, LogansKept
  <2>7. QED
    BY <2>3, <2>4, <2>5, <2>6, ExclusiveIntro
<1>2. ASSUME NEW n \in Names, Registers(n) PROVE PortsExclusive'
  <2> DEFINE p == Head(available_node_manager_ports)
  <2>1. /\ p \in Range(available_node_manager_ports)
        /\ Range(available_node_manager_ports') \subseteq Range(available_node_manager_ports)
        /\ p \notin Range(available_node_manager_ports')
        /\ IsInjective(available_node_manager_ports')
        /\ Range(MasterPorts) \subseteq Range(available_ports)
        /\ Range(available_ports') \subseteq Range(available_ports)
        /\ Range(MasterPorts) \cap Range(available_ports') = {}
        /\ IsInjective(available_ports')
    BY <1>2, RegistersPorts
  <2>2. /\ DOMAIN experiment_map' = DOMAIN experiment_map \cup {n} /\ n \notin DOMAIN experiment_map
        /\ experiment_map'[n].manager_port = p /\ experiment_map'[n].master_ports = MasterPorts
        /\ \A c \in DOMAIN experiment_map :
             /\ experiment_map'[c].manager_port = experiment_map[c].manager_port
             /\ experiment_map'[c].master_ports = experiment_map[c].master_ports
        /\ handlers' = handlers
    BY <1>2 DEF Registers, Registered
  <2> HIDE DEF p
  <2>3. \A c \in DOMAIN experiment_map' :
          /\ experiment_map'[c].manager_port \notin Range(available_node_manager_ports')
          /\ Range(experiment_map'[c].master_ports) \cap Range(available_ports') = {}
    BY <2>1, <2>2, ExclusiveFacts
  <2>4. \A c \in DOMAIN experiment_map :
          /\ experiment_map'[c].manager_port # p
          /\ Range(experiment_map'[c].master_ports) \cap Range(MasterPorts) = {}
    BY <2>1, <2>2, ExclusiveFacts
  <2>5. \A c, o \in DOMAIN experiment_map' : c # o =>
          /\ experiment_map'[o].manager_port # experiment_map'[c].manager_port
          /\ Range(experiment_map'[o].master_ports) \cap Range(experiment_map'[c].master_ports) = {}
    BY <2>2, <2>4, ExclusiveFacts
  <2>6. \A h \in DOMAIN handlers' : handlers'[h].kind = "LOGAN_SERVER" =>
          /\ handlers'[h].port \notin Range(available_node_manager_ports')
          /\ \A c \in DOMAIN experiment_map' : experiment_map'[c].manager_port # handlers'[h].port
    BY <2>1, <2>2, ExclusiveFacts
  <2>7. QED
    BY <2>1, <2>3, <2>5, <2>6, ExclusiveIntro
<1>3. ASSUME QueuesShrink, MapShrinks PROVE PortsExclusive'
  <2>1. \A c \in DOMAIN experiment_map' :
          /\ experiment_map'[c].manager_port \notin Range(available_node_manager_ports')
          /\ Range(experiment_map'[c].master_ports) \cap Range(available_ports') = {}
    BY <1>3, ExclusiveFacts DEF QueuesShrink, MapShrinks
  <2>2. \A c, o \in DOMAIN experiment_map' : c # o =>
          /\ experiment_map'[o].manager_port # experiment_map'[c].manager_port
          /\ Range(experiment_map'[o].master_ports) \cap Range(experiment_map'[c].master_ports) = {}
    BY <1>3, ExclusiveFacts DEF MapShrinks
  <2>3. \A h \in DOMAIN handlers' : handlers'[h].kind = "LOGAN_SERVER" =>
          /\ handlers'[h].port \notin Range(available_node_manager_ports')
          /\ \A c \in DOMAIN experiment_map' : experiment_map'[c].manager_port # handlers'[h].port
    <3>1. CASE LogansKept
      BY <1>3, <3>1, ExclusiveFacts DEF QueuesShrink, MapShrinks, LogansKept
    <3>2. ASSUME NEW h \in HandlerIds, Admits(h), TakesPort(handlers'[h].port)
          PROVE  \A i \in DOMAIN handlers' : handlers'[i].kind = "LOGAN_SERVER" =>
                   /\ handlers'[i].port \notin Range(available_node_manager_ports')
                   /\ \A c \in DOMAIN experiment_map' :
                        experiment_map'[c].manager_port # handlers'[i].port
      <4>1. /\ available_node_manager_ports \in Seq(Range(ManagerPorts))
            /\ IsInjective(available_node_manager_ports)
        BY DEF EnvInv, PortsTyped, PortsExclusive
      <4>2. /\ handlers'[h].port \in Range(available_node_manager_ports)
            /\ handlers'[h].port \notin Range(available_node_manager_ports')
        BY <3>2, <4>1, TakeFacts DEF TakesPort
      <4>3. /\ DOMAIN handlers' = DOMAIN handlers \cup {h}
            /\ \A i \in DOMAIN handlers : handlers'[i] = handlers[i]
        BY <3>2 DEF Admits
      <4>4. QED
        BY <1>3, <4>2, <4>3, ExclusiveFacts DEF QueuesShrink, MapShrinks
    <3>3. QED
      BY <3>1, <3>2, LogansStep
  <2>4. QED
    BY <1>3, <2>1, <2>2, <2>3, ExclusiveIntro DEF QueuesShrink
<1>4. QED
  BY <1>1, <1>2, <1>3, QueuesStep, MapStep

-----------------------------------------------------------------------------
(* The order to shut down. *)

(* What was taken or abandoned stays so. *)
LEMMA HistoryGrows ==
  ASSUME EnvInv, [Next]_vars
  PROVE  taken \subseteq taken' /\ abandoned \subseteq abandoned'
<1>1. taken \subseteq taken'
  BY NextCases
    DEF PopulateExperiment, ShutdownExperiment, InspectExperiment, CheckRegistration,
        LoganRegistration, ConstructHandler, ReplyRegistration, StartReplier, GetExperimentInfo,
        InfoProto, SetActive, HeartbeatDirty, HeartbeatProto, HeartbeatLogan, Deregister,
        EndHeartbeat, Timeout, RemoveTimedOut, CleanupTask, PeerCrash, TakenBy, histVars, vars
<1>2. abandoned \subseteq abandoned'
  BY NextCases
    DEF PopulateExperiment, ShutdownExperiment, InspectExperiment, CheckRegistration,
        LoganRegistration, ConstructHandler, ReplyRegistration, StartReplier, GetExperimentInfo,
        InfoProto, SetActive, HeartbeatDirty, HeartbeatProto, HeartbeatLogan, Deregister,
        EndHeartbeat, Timeout, RemoveTimedOut, CleanupTask, PeerCrash, histVars, vars
<1>3. QED
  BY <1>1, <1>2

(* A handler that will remove the experiment c still will, or it was found *)
(* to be abandoned.                                                        *)
WitnessKept(h, c) ==
  \/ h \in DOMAIN handlers' /\ WillRemove(h, c)'
  \/ experiment_map[c].gen \in abandoned'

(* Only one handler changes, and it keeps its promise. *)
LEMMA OneWitness ==
  ASSUME NEW h, DOMAIN handlers' = DOMAIN handlers,
         \A i \in DOMAIN handlers \ {h} : handlers'[i] = handlers[i],
         NEW i \in DOMAIN handlers, NEW c, WillRemove(i, c),
         i = h => WitnessKept(h, c)
  PROVE  WitnessKept(i, c)
<1>1. CASE i = h
  BY <1>1
<1>2. CASE i # h
  BY <1>2 DEF WillRemove, WitnessKept
<1>3. QED
  BY <1>1, <1>2

(* RemoveDeployment of a handler that will remove c removes it. *)
LEMMA RemovesWhatItMust ==
  ASSUME EnvInv, NEW h \in DOMAIN handlers, RemoveDeployment(h), NEW c, WillRemove(h, c)
  PROVE  c \notin DOMAIN experiment_map'
<1>1. CASE c \in DOMAIN experiment_map
  <2>1. RemoveExperimentInternal(c)
    BY <1>1 DEF RemoveDeployment, WillRemove, Registered
  <2>2. QED
    BY <1>1, <2>1, RemoveFacts DEF EnvInv
<1>2. CASE c \notin DOMAIN experiment_map
  BY <1>2 DEF RemoveDeployment, WillRemove, Registered
<1>3. QED
  BY <1>1, <1>2

(* A handler keeps its promise until the experiment is gone. *)
LEMMA WitnessStep ==
  ASSUME EnvInv, [Next]_vars,
         NEW c \in DOMAIN experiment_map, c \in DOMAIN experiment_map',
         NEW i \in DOMAIN handlers, WillRemove(i, c)
  PROVE  WitnessKept(i, c)
<1>0. \A h \in DOMAIN handlers : handlers[h] \in Handler
  BY DEF EnvInv, HandlersTyped
<1> DEFINE Others(h) == /\ DOMAIN handlers' = DOMAIN handlers
                        /\ \A j \in DOMAIN handlers \ {h} : handlers'[j] = handlers[j]
<1>1. CASE UNCHANGED handlers
  BY <1>1 DEF WillRemove, WitnessKept
<1>2. ASSUME NEW h, \A j \in DOMAIN handlers : handlers'[j] = handlers[j],
             DOMAIN handlers' = DOMAIN handlers \cup {h}
      PROVE  WitnessKept(i, c)
  BY <1>2 DEF WillRemove, WitnessKept
<1>3. CASE ReplyRegistration
  <2>1. CASE \E peer \in {"none", "up"} : handlers' = Handle(reg.handler, "peer", peer)
    <3>1. Others(reg.handler)
      BY <2>1 DEF Handle
    <3>2. reg.handler \in DOMAIN handlers => handlers[reg.handler].peer = "none"
      BY <1>3 DEF EnvInv, RegistrationTyped, ReplyRegistration
    <3>3. i # reg.handler
      BY <3>2 DEF WillRemove
    <3>4. QED
      BY <3>1, <3>3, OneWitness
  <2>2. QED
    BY <1>1, <1>3, <2>1 DEF ReplyRegistration
<1>4. ASSUME NEW h \in DOMAIN handlers, NEW x \in {"poll", "activate", "dirty", "timedOut"},
             handlers' = Handle(h, "pc", x)
      PROVE  WitnessKept(i, c)
  <2>1. Others(h) /\ handlers'[h] = [handlers[h] EXCEPT !.pc = x]
    BY <1>4 DEF Handle
  <2>2. i = h => WitnessKept(h, c)
    BY <1>0, <2>1 DEF WillRemove, WitnessKept, Handler
  <2>3. QED
    BY <2>1, <2>2, OneWitness
<1>5. ASSUME NEW h \in DOMAIN handlers, Others(h), handlers[h].peer \in {"up", "running"} \/ handlers[h].kind = "LOGAN_SERVER"
      PROVE  WitnessKept(i, c)
  <2>1. i # h
    BY <1>5 DEF WillRemove
  <2>2. QED
    BY <1>5, <2>1, OneWitness
<1>6. ASSUME NEW h \in DOMAIN handlers, NEW x \in {"up", "running"}, NEW y \in {"running", "leaving", "told"},
             handlers' = [handlers EXCEPT ![h].pc = "poll", ![h].peer = IF @ = x THEN y ELSE @]
      PROVE  WitnessKept(i, c)
  <2>1. /\ Others(h)
        /\ handlers'[h] = [handlers[h] EXCEPT !.pc = "poll", !.peer = IF @ = x THEN y ELSE @]
    BY <1>6
  <2>2. i = h => WitnessKept(h, c)
    BY <1>0, <2>1 DEF WillRemove, WitnessKept, Handler
  <2>3. QED
    BY <2>1, <2>2, OneWitness
<1>7. ASSUME NEW h \in DOMAIN handlers, StartReplier(h) PROVE WitnessKept(i, c)
  BY <1>1, <1>4, <1>7 DEF StartReplier
<1>8. ASSUME NEW h \in DOMAIN handlers, GetExperimentInfo(h) PROVE WitnessKept(i, c)
  <2>1. Others(h) /\ handlers[h].peer = "up"
    BY <1>8 DEF GetExperimentInfo, Handle
  <2>2. QED
    BY <1>5, <2>1
<1>9. ASSUME NEW h \in DOMAIN handlers, InfoProto(h) PROVE WitnessKept(i, c)
  BY <1>4, <1>6, <1>9 DEF InfoProto, Refuse
<1>10. ASSUME NEW h \in DOMAIN handlers, SetActive(h) PROVE WitnessKept(i, c)
  BY <1>1, <1>6, <1>10 DEF SetActive, Refuse
<1>11. ASSUME NEW h \in DOMAIN handlers, HeartbeatDirty(h) PROVE WitnessKept(i, c)
  BY <1>4, <1>11 DEF HeartbeatDirty
<1>12. ASSUME NEW h \in DOMAIN handlers, HeartbeatProto(h) PROVE WitnessKept(i, c)
  <2>1. CASE \E b \in BOOLEAN : Answers(h, b)
    <3>1. PICK b \in BOOLEAN : Answers(h, b)
      BY <2>1
    <3>2. /\ Others(h)
          /\ handlers'[h] = [handlers[h] EXCEPT !.pc = "poll",
                               !.peer = IF b /\ @ = "running" THEN "told" ELSE @]
      BY <3>1 DEF Answers
    <3>3. i = h => WitnessKept(h, c)
      BY <1>0, <3>2 DEF WillRemove, WitnessKept, Handler
    <3>4. QED
      BY <3>2, <3>3, OneWitness
  <2>2. QED
    BY <1>1, <1>4, <1>12, <2>1, HeartbeatOutcome
<1>13. ASSUME NEW h \in DOMAIN handlers, HeartbeatLogan(h) PROVE WitnessKept(i, c)
  <2>1. Others(h) /\ handlers[h].kind = "LOGAN_SERVER"
    BY <1>13 DEF HeartbeatLogan, Handle
  <2>2. QED
    BY <1>5, <2>1
<1>14. ASSUME NEW h \in DOMAIN handlers, Deregister(h) \/ RemoveTimedOut(h) PROVE WitnessKept(i, c)
  <2>1. RemoveDeployment(h) /\ Others(h)
    BY <1>14 DEF Deregister, RemoveTimedOut
  <2>2. i # h
    BY <2>1, RemovesWhatItMust
  <2>3. QED
    BY <2>1, <2>2, OneWitness
<1>15. ASSUME NEW h \in DOMAIN handlers, EndHeartbeat(h) PROVE WitnessKept(i, c)
  <2>1. Others(h)
    BY <1>15 DEF EndHeartbeat
  <2>2. i = h => experiment_map[c].gen \in abandoned'
    BY <1>15 DEF EndHeartbeat, WillRemove
  <2>3. i = h => WitnessKept(h, c)
    BY <2>2 DEF WitnessKept
  <2>4. QED
    BY <2>1, <2>3, OneWitness
<1>16. ASSUME NEW h \in DOMAIN handlers, Timeout(h) PROVE WitnessKept(i, c)
  BY <1>4, <1>16 DEF Timeout
<1>17. ASSUME NEW h \in DOMAIN handlers, CleanupTask(h) PROVE WitnessKept(i, c)
  BY <1>17 DEF CleanupTask, Restrict, WillRemove, WitnessKept
<1>18. ASSUME NEW h \in DOMAIN handlers, PeerCrash(h) PROVE WitnessKept(i, c)
  <2>1. Others(h) /\ handlers'[h] = [handlers[h] EXCEPT !.peer = "gone"]
    BY <1>18 DEF PeerCrash, Handle
  <2>2. i = h => WitnessKept(h, c)
    BY <1>0, <2>1 DEF WillRemove, WitnessKept, Handler
  <2>3. QED
    BY <2>1, <2>2, OneWitness
<1>19. ASSUME NEW n \in Names, LoganRegistration(n) PROVE WitnessKept(i, c)
  BY <1>2, <1>19 DEF LoganRegistration, NewHandler, FreeId
<1>20. CASE ConstructHandler
  BY <1>1, <1>2, <1>20 DEF ConstructHandler, NewHandler, FreeId
<1>21. QED
  BY <1>1, <1>3, <1>7, <1>8, <1>9, <1>10, <1>11, <1>12, <1>13, <1>14, <1>15, <1>16, <1>17,
     <1>18, <1>19, <1>20, NextCases
    DEF PopulateExperiment, ShutdownExperiment, InspectExperiment, CheckRegistration, vars

(* The flag of an experiment that is shut down stays, or the message went  *)
(* to a handler that will remove it, or was taken.                         *)
FlagAccounted(c) ==
  experiment_map'[c].shutdown =>
    \/ experiment_map'[c].dirty
    \/ /\ experiment_map[c].shutdown
       /\ experiment_map[c].dirty => \/ experiment_map[c].gen \in taken'
                                     \/ \E h \in DOMAIN handlers' : WillRemove(h, c)'

(* GetProto whose message does not reach a master of the experiment. *)
LEMMA TakenAccounted ==
  ASSUME EnvInv, NEW n \in DOMAIN experiment_map, GetProto(n), taken' = TakenBy(n),
         NEW c \in DOMAIN experiment_map
  PROVE  FlagAccounted(c)
<1>1. experiment_map'[c].shutdown = experiment_map[c].shutdown
  BY ProtoFacts DEF EnvInv
<1>2. CASE c = n
  BY <1>1, <1>2 DEF FlagAccounted, TakenBy
<1>3. CASE c # n
  <2>1. experiment_map'[c] = experiment_map[c]
    BY <1>3, ProtoFacts DEF EnvInv
  <2>2. QED
    BY <2>1 DEF FlagAccounted
<1>4. QED
  BY <1>2, <1>3

(* Nobody clears the flag without the order being accounted for. *)
LEMMA FlagStep ==
  ASSUME EnvInv, [Next]_vars,
         NEW c \in DOMAIN experiment_map, c \in DOMAIN experiment_map'
  PROVE  FlagAccounted(c)
<1>0. experiment_map[c] \in Experiment
  BY DEF EnvInv, ExperimentsTyped
<1>1. CASE FlagsKept
  BY <1>1 DEF FlagsKept, FlagAccounted
<1>2. CASE UNCHANGED experiment_map
  BY <1>2 DEF FlagAccounted
<1>3. ASSUME NEW n \in Names, PopulateExperiment(n) PROVE FlagAccounted(c)
  <2>1. CASE Registers(n)
    BY <2>1 DEF Registers, FlagAccounted
  <2>2. QED
    BY <1>1, <1>3, <2>1, PopulateOutcome
<1>4. ASSUME NEW n \in Names, ShutdownExperiment(n) PROVE FlagAccounted(c)
  <2>1. n \in DOMAIN experiment_map
    BY <1>4 DEF ShutdownExperiment, Registered
  <2>2. CASE experiment_map' = [experiment_map EXCEPT ![n].shutdown = TRUE, ![n].dirty = TRUE]
    <3>1. CASE c = n
      <4>1. experiment_map'[c].dirty
        BY <1>0, <2>2, <3>1 DEF Experiment
      <4>2. QED
        BY <4>1 DEF FlagAccounted
    <3>2. CASE c # n
      <4>1. experiment_map'[c] = experiment_map[c]
        BY <2>2, <3>2
      <4>2. QED
        BY <4>1 DEF FlagAccounted
    <3>3. QED
      BY <3>1, <3>2
  <2>3. CASE RemoveExperimentInternal(n)
    BY <1>1, <2>1, <2>3, RemoveFacts DEF EnvInv
  <2>4. QED
    BY <1>4, <2>2, <2>3 DEF ShutdownExperiment
<1>5. ASSUME NEW n \in Names, InspectExperiment(n) PROVE FlagAccounted(c)
  BY <1>5, TakenAccounted DEF InspectExperiment, Registered
<1>6. ASSUME NEW h \in DOMAIN handlers, InfoProto(h) PROVE FlagAccounted(c)
  BY <1>2, <1>6, TakenAccounted DEF InfoProto, Registered
<1>7. ASSUME NEW h \in DOMAIN handlers, SetActive(h) PROVE FlagAccounted(c)
  <2>1. CASE experiment_map' = [experiment_map EXCEPT ![handlers[h].name].state = "ACTIVE"]
    <3>1. /\ experiment_map'[c].shutdown = experiment_map[c].shutdown
          /\ experiment_map'[c].dirty = experiment_map[c].dirty
      BY <1>0, <2>1 DEF Experiment
    <3>2. QED
      BY <3>1 DEF FlagAccounted
  <2>2. QED
    BY <1>2, <1>7, <2>1 DEF SetActive
<1>8. ASSUME NEW h \in DOMAIN handlers, HeartbeatProto(h) PROVE FlagAccounted(c)
  <2> DEFINE n == handlers[h].name
  <2>1. CASE UNCHANGED experiment_map
    BY <1>2, <2>1
  <2>2. CASE n \in DOMAIN experiment_map /\ GetProto(n) /\ taken' = TakenBy(n)
    BY <2>2, TakenAccounted
  <2>3. CASE /\ n \in DOMAIN experiment_map /\ GetProto(n)
             /\ Answers(h, experiment_map[n].shutdown)
    <3>1. experiment_map'[c].shutdown = experiment_map[c].shutdown
      BY <2>3, ProtoFacts DEF EnvInv
    <3>2. CASE c # n
      <4>1. experiment_map'[c] = experiment_map[c]
        BY <2>3, <3>2, ProtoFacts DEF EnvInv
      <4>2. QED
        BY <4>1 DEF FlagAccounted
    <3>3. CASE c = n
      <4>1. handlers[h].pc = "dirty" /\ handlers[h] \in Handler
        BY <1>8 DEF HeartbeatProto, EnvInv, HandlersTyped
      <4>2. /\ handlers[h].kind = "EXECUTION_MASTER" /\ ~handlers[h].removed
            /\ handlers[h].peer \in {"running", "told", "gone"}
        BY <4>1 DEF EnvInv, HandlerPhases
      <4>3. ASSUME experiment_map[n].shutdown PROVE h \in DOMAIN handlers' /\ WillRemove(h, c)'
        <5>1. /\ h \in DOMAIN handlers'
              /\ handlers'[h] = [handlers[h] EXCEPT !.pc = "poll",
                                    !.peer = IF @ = "running" THEN "told" ELSE @]
          BY <2>3, <4>3 DEF Answers
        <5>2. QED
          BY <3>3, <4>1, <4>2, <5>1 DEF WillRemove, Handler
      <4>4. QED
        BY <3>1, <3>3, <4>3 DEF FlagAccounted
    <3>4. QED
      BY <3>2, <3>3
  <2>4. QED
    BY <1>8, <2>1, <2>2, <2>3, HeartbeatOutcome
<1>9. ASSUME NEW h \in DOMAIN handlers, Deregister(h) \/ RemoveTimedOut(h) PROVE FlagAccounted(c)
  BY <1>1, <1>2, <1>9, RemoveFacts DEF Deregister, RemoveTimedOut, RemoveDeployment, Registered, EnvInv
<1>10. QED
  BY <1>2, <1>3, <1>4, <1>5, <1>6, <1>7, <1>8, <1>9, NextCases
    DEF CheckRegistration, LoganRegistration, ConstructHandler, ReplyRegistration,
        StartReplier, GetExperimentInfo, HeartbeatDirty, HeartbeatLogan, EndHeartbeat,
        Timeout, CleanupTask, PeerCrash, vars

(* ShutdownCarried: from the three lemmas above. *)
LEMMA ShutdownCarriedStep ==
  ASSUME EnvInv, [Next]_vars
  PROVE  ShutdownCarried'
<1> SUFFICES ASSUME NEW c \in DOMAIN experiment_map', experiment_map'[c].shutdown
             PROVE  \/ experiment_map'[c].dirty
                    \/ experiment_map'[c].gen \in taken' \cup abandoned'
                    \/ \E h \in DOMAIN handlers' : WillRemove(h, c)'
  BY DEF ShutdownCarried
<1>1. c \in DOMAIN experiment_map /\ experiment_map'[c].gen = experiment_map[c].gen
  <2>1. CASE MapShrinks
    BY <2>1 DEF MapShrinks
  <2>2. ASSUME NEW n \in Names, Registers(n)
        PROVE  c \in DOMAIN experiment_map /\ experiment_map'[c].gen = experiment_map[c].gen
    <3>1. c # n
      BY <2>2 DEF Registers
    <3>2. QED
      BY <2>2, <3>1 DEF Registers
  <2>3. QED
    BY <2>1, <2>2, MapStep
<1>2. FlagAccounted(c)
  BY <1>1, FlagStep
<1>3. CASE experiment_map'[c].dirty
  BY <1>3
<1>4. CASE /\ experiment_map[c].shutdown
           /\ experiment_map[c].dirty => \/ experiment_map[c].gen \in taken'
                                         \/ \E h \in DOMAIN handlers' : WillRemove(h, c)'
  <2>1. CASE experiment_map[c].dirty
    BY <1>1, <1>4, <2>1
  <2>2. CASE experiment_map[c].gen \in taken \cup abandoned
    BY <1>1, <2>2, HistoryGrows
  <2>3. ASSUME NEW h \in DOMAIN handlers, WillRemove(h, c)
        PROVE  \/ experiment_map'[c].gen \in abandoned'
               \/ \E i \in DOMAIN handlers' : WillRemove(i, c)'
    <3>1. WitnessKept(h, c)
      BY <1>1, <2>3, WitnessStep
    <3>2. QED
      BY <1>1, <3>1 DEF WitnessKept
  <2>4. QED
    BY <1>1, <1>4, <2>1, <2>2, <2>3 DEF EnvInv, ShutdownCarried
<1>5. QED
  BY <1>2, <1>3, <1>4 DEF FlagAccounted

-----------------------------------------------------------------------------
(* The theorems. *)

(* Nothing is registered at first, and every port is in its queue. *)
LEMMA EnvInit ==
  ASSUME Init
  PROVE  EnvInv
<1>1. DOMAIN experiment_map = {} /\ DOMAIN handlers = {}
  BY DEF Init
<1>2. ExperimentsTyped /\ GenerationsDiffer /\ HandlersTyped
  BY <1>1 DEF ExperimentsTyped, GenerationsDiffer, HandlersTyped
<1>3. RegistrationTyped
  BY <1>1 DEF Init, Idle, RegistrationTyped
<1>4. ManagerPorts \in Seq(Range(ManagerPorts)) /\ NodePorts \in Seq(Range(NodePorts))
  <2>1. \A q \in Seq(Nat) : q \in Seq(Range(q))
    <3> SUFFICES ASSUME NEW q \in Seq(Nat) PROVE q \in Seq(Range(q))
      OBVIOUS
    <3>1. q \in [1 .. Len(q) -> Nat] /\ Len(q) \in Nat
      OBVIOUS
    <3>2. q \in [1 .. Len(q) -> Range(q)]
      BY <3>1 DEF Range
    <3>3. QED
      BY <3>1, <3>2, SeqDef
  <2>2. QED
    BY <2>1, EnvironmentAssumption
<1>5. PortsTyped
  BY <1>4 DEF Init, PortsTyped
<1>6. PortsExclusive
  BY <1>1, EnvironmentAssumption DEF Init, PortsExclusive
<1>7. HistoryTyped
  BY EnvironmentAssumption DEF Init, HistoryTyped
<1>8. RunTaken /\ OneMaster /\ HandlerPhases /\ ShutdownCarried
  BY <1>1 DEF RunTaken, OneMaster, HandlerPhases, ShutdownCarried
<1>9. QED
  BY <1>2, <1>3, <1>5, <1>6, <1>7, <1>8 DEF EnvInv

(* EnvInv holds in every reachable state of the environment manager. *)
THEOREM EnvInvariant == Spec => []EnvInv
<1>1. ASSUME EnvInv, [Next]_vars PROVE EnvInv'
  BY <1>1, ExperimentsTypedStep, GenerationsDifferStep, HandlersTypedStep, RegistrationTypedStep,
     PortsTypedStep, HistoryTypedStep, PortsExclusiveStep, RunTakenStep, OneMasterStep,
     ShutdownCarriedStep DEF EnvInv
<1>2. QED
  BY <1>1, EnvInit, PTL DEF Spec

(* TypeOK: every variable keeps its type, and the counters their bounds. *)
THEOREM EnvTypes == Spec => []TypeOK
<1>1. ASSUME EnvInv PROVE TypeOK
  BY <1>1 DEF EnvInv, TypeOK, ExperimentsTyped, HandlersTyped, RegistrationTyped, PortsTyped,
              HistoryTyped
<1>2. QED
  BY <1>1, EnvInvariant, PTL

(* PortsExclusive: no manager port and no port of a master has two users,  *)
(* however many experiments are registered, fail, run and are removed.     *)
THEOREM PortsStayExclusive == Spec => []PortsExclusive
BY EnvInvariant, PTL DEF EnvInv

(* OneMaster: of the masters that register for an experiment at most one   *)
(* gets to run it.                                                         *)
THEOREM OneMasterRuns == Spec => []OneMaster
BY EnvInvariant, PTL DEF EnvInv

(* ShutdownNotLost: an order to shut down is pending, or has reached a     *)
(* master, or was taken away by an inspection, a second master or a late   *)
(* reply, or abandoned with the experiment.                                *)
THEOREM ShutdownIsNotLost == Spec => []ShutdownNotLost
<1>1. ASSUME EnvInv PROVE ShutdownNotLost
  BY <1>1 DEF EnvInv, ShutdownCarried, ShutdownNotLost, WillRemove
<1>2. QED
  BY <1>1, EnvInvariant, PTL

=============================================================================
