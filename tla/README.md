# A TLA+ development for SEM's runtime environment

SEM is a tool set for modelling distributed systems and running the models. MEDEA (`src/medea`)
draws a model; the runtime environment `re` (`src/re`) deploys it as components on nodes, connects
them with middleware and controls the experiment. This development is about `re`: the C++ that
decides when a thread starts and ends, who may run, and what happens when a message is late.

## 1. The system

Processes. One **environment manager** hands out ports and knows every experiment. On each node
runs a **node manager**; one of them is the **master** of an experiment, and all of them, the master's
own process too, are **slaves** that host containers of components. Components talk through
**ports**, each with threads of its own.

| Component | State | Operations | Interacts with | What is hard | What makes it correct |
|---|---|---|---|---|---|
| StateMachine, Activatable | `state_`, `transition_`, a mutex | Configure, Activate, Passivate, Terminate, process_event | owned by every port, worker, component | two atomics, written one after the other, read by others without the lock | no one acts on a combination that never held |
| ThreadManager | sets of states and transitions, a future | Configure/Activate/Terminate and the waits | owned by a port; shared with its thread | each side waits for the other, with no timeout | every wait is answered |
| SubscriberPort (and the zmq one) | shared and local queue, `processing_count_`, `terminate_`, counters | EnqueueMessage, ProcessLoop, rx, the handlers | middleware thread, user callback | three kinds of threads, restarts | nothing lost, doubled or reordered; limit kept; quiet after Terminate |
| PeriodicPort | `interupt_`, rate, a second ThreadManager | TickLoop, SetFrequency | is a SubscriberPort | two threads to stop in order | one tick at a time; stops when told |
| ExecutionManager | a state and a heartbeat time per slave, two promises, `execution_valid_` | RMIs of slaves, ExecutionLoop, Terminate | slaves by RMI and publication; environment manager | late, repeated and lost requests, crashed slaves | everyone starts together; ends when told |
| DeploymentManager, SlaveHeartbeater | control queue, containers, `terminate_` | startup, ProcessControlQueue, heartbeats | master | timeouts in three threads that share a socket | dies with its master |
| ProtoRequester, ProtoReplier | request queue, REQ socket, `context_`; callbacks, REP socket, retry count | SendRequest, destructor; Bind, Start, callbacks, Terminate | used by all of the above | a caller's timeout against a reply under way; two mutexes around one condition variable | an answer belongs to its request; everyone who waits is released |
| Environment, Experiment | experiments by name, queues of free ports, dirty flags | populate, shut down, remove, GetProto | handlers and the register | destructors on any thread, lookups by name under a lock that is released in between | a port has one user; a shutdown arrives |
| DeploymentRegister, DeploymentHandler | handlers with a thread each | registration, heartbeat, deregistration, cleanup | node managers and logan servers | silent peers, second registrations | an experiment has one master |
| DeploymentContainer, Component, BehaviourContainer | a tree of activatables | transitions fan out, ports are reconfigured | slaves, ports | a child refuses a transition | children agree with their parent |
| Requester and replier ports | a context each, sockets, counters | SendRequest, ProcessRequest, the handlers | component threads, middleware | a context is destroyed under the threads that use it | transitions return; quiet when passivated; the counters' promise |
| Publisher ports | counters | Send | middleware | nothing of its own | |
| ProtoWriter, CachedProtoWriter | queue, cache file, `writer_terminate_` | PushMessage, WriteQueue, Terminate | slaves log through them | a disk that fails, a terminate in the middle of a retry | what was pushed is published, in order, before Terminate returns |
| ProtoReceiver, logan server | receive queue, converter's queue, SQL transaction | ZmqReceiver, ProtoConverter, destructors | writers | three threads shut down one after the other | what was received is committed |

`PROJECT.json` lists the components with their sources and the hazards with the lines where they bite.

## 2. Modules

    StateMachine   ThreadManager    MessageLedger (abstract)
        |     \     /     |              |      |
        |  SubscriberPort-|--implements--+      |
        |    |            |                     |
        | PeriodicPort    |                     |
        |                 |                     |
        +-- RequestReply -+---- implements -----+

    RemoteCall (abstract)      LogChannel (abstract)
        | implemented by           | implemented by
    ProtoRmi                   LogPipeline           ExperimentControl    EnvironmentManager

Each of SubscriberPort, PeriodicPort, RequestReply, ProtoRmi, LogPipeline, ExperimentControl and
EnvironmentManager has an MC module that gives its constants values, and a Proofs module with its theorems.

The code lives in `src/re`; the paths below are relative to it.

**StateMachine** (`src/core/statemachine.cpp`). `transition_state` holds `state_mutex_` throughout, so
`ctl` is the program counter of whoever holds it. `Begin` publishes `transition_` and enters the
handler, `ResetTransition` and `Commit` are the two writes at its end, in the code's order, and
`HandlerThrew` is the exception path. A request that the table refuses changes nothing and is no step.

**ThreadManager** (`src/core/threadmanager.cpp`). Operators on a record: its two sets only grow, and a
condition wait with a predicate is a guard on them.

**MessageLedger** (`src/core/ports/port.cpp`). The abstract specification of the counters: a message is
received, and later processed or ignored, once.

**SubscriberPort** (`src/core/ports/pubsub/subscriberport.hpp`,
`src/middleware/zmq/pubsub/subscriberport.hpp`). One action per critical section or per access to an
atomic. `RequestTransition` and the actions up to `JoinLoop` are the controller; the `Loop...`, `Rx...`
actions and `TakeQueue` the ProcessLoop thread; `Deliver`, `EnqueueReadState`, `EnqueueReadTransition`
a receive thread in `EnqueueMessage`, which holds `queue_mutex_` between the two reads of
process_event. The zmq port stops its receive thread in Passivate and the others run on until
Terminate; the model allows both, so it is about every subclass. A message is the number of its
push. `pushed`, `late` and `configures` are history.

**PeriodicPort** (`src/core/ports/periodicport.cpp`). Extends SubscriberPort: its one sender is the tick
thread, its handlers run the tick part and then the inherited one. The rate is zero or positive,
which is what TickLoop tests; a period may elapse at any time.

**ExperimentControl** (`src/nodemanager/executionmanager.cpp`, `deploymentmanager.cpp`,
`slaveheartbeater.cpp`, `nodemanager.cpp`). The master's ExecutionLoop (`exec`) and the replier
(`Serve`), and for each process its main thread (`main`), ProcessControlQueue (`control`) and heartbeats.
The requester is modelled by what its callers see: one request `wire`d at a time; a caller that gives up
(`TimedOut`) leaves a request that may be served late, and a `socket` on which the next request is
refused. Publications may miss slaves. A heartbeat and its reply are one step. `stale` is "the last
heartbeat is older than 5000 ms". Of a slave's container (`src/nodemanager/deploymentcontainer.cpp`) the model keeps
its lifecycle state (`container`, `Apply`) and whether ports of its components can run (`live`, `PortsAfter`): the two
differ because a CONFIGURE of a container that exists terminates, configures and activates the ports it names,
whatever the state of the container.

**EnvironmentManager** (`src/environmentmanager`). The register's replier thread, a thread per
DeploymentHandler, its peer, and CleanupTask. Callbacks that lock `experiment_mutex_` more than once are
split there: `CheckRegistration`, `ConstructHandler`, `ReplyRegistration`; `GetExperimentInfo`,
`InfoProto`, `SetActive`; `HeartbeatDirty`, `HeartbeatProto`. Where the code follows a reference whose
object is gone, copies a null message or lets an exception out of a noexcept function, `fault` says
so and the process stops. The reply to a heartbeat, like that to a registration, may miss its peer's timeout; the
dirty flag is cleared all the same (`HeartbeatProto`). `gen` numbers experiments, so that one can be told from a later one with its
name; `taken` and `abandoned` are history.

**ProtoRmi** (`re_common/zmq/protorequester`, `re_common/zmq/protoreplier`). Callers queue requests and
wait with a timeout of their own; the worker (`ProcessRequests`) sends them one at a time. Its wait is two
steps, `WorkerCheck`, where the predicate is evaluated, and `WorkerSleeps`, where `request_mutex_` is
released, because the destructor (`UnsetContext`, `NotifyAndTerminate`, `Destroyed`) changes what the predicate
reads without that mutex. After a timeout the REQ socket still awaits a reply: the next send is refused,
its caller gets the error and the socket is replaced, or a late reply arrives first and is dropped with it.
The replier has its silence timeouts, its callback (reply, exception, ShutdownException) and Terminate.
**RemoteCall** is what it promises: a call ends once, with the result of its own callback or a
failure, and the callback runs at most once. ExperimentControl and EnvironmentManager use the pair as their
code meets it: one request at a time, a timeout that may be overtaken, a refused request.

**LogPipeline** (`re_common/zmq/protowriter`, `re_common/zmq/protoreceiver`, `logan/src/server`). A live or a
cached writer, the PUB/SUB connection, the receiver's two threads and the database. A cached event goes
to a file in batches and is published when the writer terminates; a file may not open (`OpenFails`) and
a disk may fail in the middle of a batch (`WriteBatch`), which leaves a `Torn` record (`cut` remembers it);
ReadMessagesFromFile returns what precedes it and perhaps some records made of the bytes behind it (`FileRecords`),
which may or may not parse (`Parses`). SQLite is taken to do what it is asked, and the temporary file to stay
where it is; both assumptions are in the module's header with the lines that do not check them. `excused` remembers that an event may be missing for a reason the code
cannot help. **LogChannel** is the abstract FIFO: `pending` events are stored oldest first, and
dropped only when excused.

**RequestReply** (`src/core/ports/requestreply`, `src/middleware/zmq/requestreply`). A requester port with
its callers and a replier port with its loop, each an instance of StateMachine. `GetContext` and
`OpenSocket` are the two halves of GetReqSocket, because the helper's Terminate (`ResetContext`) does not take its
mutex: `fault` says that a pointer was followed that it had overtaken. A context's destructor waits until
the sockets made from it are closed (`ContextClosed`, `WaitForSockets`). Every call has a socket of its own, so call,
socket, request and reply share a number; a request that cannot be translated is answered without being counted.

## 3. Runs

The eight passing runs:

| Run | Question | States |
|---|---|---|
| `sub_pass` | two senders, limit 2, 4 messages, 3 configurations: conservation, order, limit, quiet after Terminate, the guards, one late callback; transitions return, a passivated loop ends, the first activation serves, the ledger is implemented | 95 thousand |
| `per_pass` | the tick thread, 2 configurations and rate changes: joined first, one late tick, stops when passivated | 66 thousand |
| `exp_faults` | a timeout, a lost publication, a failing container, an update: containers start together, terminated is final, nothing runs when the deployment is removed unless a request timed out | 2.6 million |
| `exp_live` | an interrupt of the master and a crash anywhere: master exits, slaves follow, nothing runs when the deployment is removed | 106 thousand |
| `env_pass` | two names, registrations, manager ports and handlers; an inspection, a crash, a lost reply of a registration or a heartbeat: ports, one master, shutdown | 671 thousand |
| `log_pass` | both writers, a file that does not open, a disk that fails, a server that connects late and leaves: the channel is implemented, rows are events unless a record was cut off, both ends stop, all that was received is committed | 336 thousand |
| `rmi_pass` | three calls, two of them waiting, a socket that cannot be made, a replier with two silence timeouts: the remote call is implemented, a timeout costs one further call, a living worker settles every request, Terminate of the replier returns | 259 thousand |
| `rr_pass` | two callers and two calls, a configuration of each port, a failed bind, an error of recv or of a translation: a quiet replier, the ledger, transitions return | 451 thousand |

Four more runs end with a counterexample (section 4).

Why the bounds are enough. Three configurations let flags of one life meet the next and the one after; two
senders contend for the mutex and the last place in the queue; four messages fill a queue of two while
two are being processed. A slave other than the master is enough for every race of one slave with the
master, and the promise's counts are over both. One timeout is enough for a duplicate or late request;
the retry counters are lowered (`StartupRetries`, `HeartbeatRetries`) because only reaching them matters.
Two registrations give two experiments at once or two of one name; two handlers give two masters, or a
master and a logan server. The safety part of `env_pass` has also been run with three registrations
(7.2 million states). Three remote calls are one that times out, the one that is refused for it and one
after the socket was replaced; a reply of the first can be late for both. In LogPipeline the thresholds
are two, and five events are enough for some to be in the file, in a batch that is put back and in the queue
at once, or in a transaction that is open when the server stops; `BatchSize` is 0 because nobody calls
SetBatchMode. In
RequestReply two calls are enough for a transition to meet one caller at each point of its call while another is behind it; every
requester life begins alike but for `context_`, which is null when Terminate returns.

**Refinement.** `ImplementsLedger` and `ReplierImplementsLedger` (counters of a subscriber and of a replier
port, MessageLedger), `ImplementsRemoteCall` (ProtoRmi, RemoteCall), `ImplementsChannel` (LogPipeline,
LogChannel; `pending` is everything on its way, oldest first, `stored` the rows inserted).

CHECK_DEADLOCK is off everywhere: ports may be left alone, experiments end, processes exit, and the bounds
on messages and faults run out. What must not stop is stated as liveness.

**Fairness.** Weak fairness of each thread that can go on: a mutex is held for a few statements, and
callbacks are taken to return. Nothing forces a request, a message, a rate change, a fault or a late
delivery. In ExperimentControl the clocks that are fair are those of the code: a request's timeout once the
master is gone, the age of a heartbeat that has stopped, the duration. In EnvironmentManager a peer that is
up goes on with its heartbeats and one told to shut down deregisters, which is `InterruptedMasterExits` of
ExperimentControl. In ProtoRmi the timeouts of callers and of the worker's poll end, as they do in the code; a
request may stay in its pipe for ever and the silence timeouts of the replier are not fair. In LogPipeline
the cache file may never open: `WriterThread` is fair as a whole, not `WriteBatch`. In RequestReply a poll
times out and a callback returns; a bind may fail or not.

## 4. Where the code and its comments or tests disagree

Four runs end with a counterexample; `findings` in `PROJECT.json` quotes the lines.

- `restart`, `RunningPortServes`: two flags outlive the configuration that set them. `terminate_`, set by
  Terminate, is met by the loop of the next configuration, which ends at once; `interupt_` of a periodic
  port is never reset. A periodic port in its second life is RUNNING with neither of its threads.
  `FirstActivationServes` says that the first activation is free of this.
- `exp_wait`, `WaitsForSlaves`: an execution that never became valid does not wait for its slaves.
- `env_bind`, `BindFailureReported`: a port in use ends the process instead of being reported.
- `rmi_destroy`, `DestructorReturns`: the notification of ~ProtoRequester is lost when it falls between
  the worker's predicate and its sleep, and the destructor waits for ever.

Other behaviours that the models show and no run is about: SetFrequency notifies a condition variable on
which nobody waits for a rate, so a port that sleeps at rate zero goes on sleeping; a message accepted
between the reset of `transition_` and the store of `state_` stays in the queue of a stopped port until
the next activation; RequesterPortHelper::Terminate resets `context_` while a caller may be about to
use it (`fault` of RequestReply, around which `PortsReturn` is stated); the requester template without a
reply reports success when it is interrupted; a replier whose bind fails keeps `context_`, so that every
later Configure throws ("errant ZMQ Context"), and Terminate is refused in the state it is in.

In ExperimentControl, an update that reaches a slave after its container is built activates the ports it names at
once, although another slave may not even have started: `StartsTogether` says what does hold, that no container is
activated early and, without an update, no port either. A slave whose SlaveTerminated times out, that misses TERMINATE, or whose control thread
ended with a failing update goes on beating, and the master waits for it without a limit: `InterruptedMasterExits` is
about runs without these. A second CONFIGURE behind TERMINATE starts the ports of the container that the
first has built again (`RemovedIsDown` allows one). In LogPipeline, a record that was cut off can be completed with
bytes of the next batch, parse, and be stored.

In EnvironmentManager an order to shut down is the dirty flag, which GetProto clears for whoever asks: an inspection
(a TODO in `deploymentregister.cpp:267` knows of it), a second master's GetExperimentInfo and a heartbeat whose reply misses its
timeout lose the order. The master runs on, and a second order does nothing, because Shutdown acts once. `taken`
records these three, and `ShutdownNotLost` and `ShutdownCompletes` say that nothing else loses an order.

There are also faults of EnvironmentManager that no line of the repository denies; its properties are stated around
them: `abandoned` (a master leaves without deregistering), `fault = "null"` (the dirty flag is cleared between two
locks), `fault = "dangling"` (a reference outlives its experiment).

## 5. Theorems

Every invariant and every action property that a run checks, and all refinements but one, are also proved by
TLAPS, for every value of the constants and from the named assumptions of the modules alone
(`PortAssumption`, `ControlAssumption` and so on: sets are finite where they are counted, bounds are numbers,
cache sizes and heartbeat retries are positive, a supply of ports names none twice). The one theorem with a further hypothesis is
`RemovedWhenDown`. Each Proofs module has one inductive invariant, proved part by part: one lemma for each part, and in
it one step for each action, or group of actions, that can disturb the part.

**SubscriberPortProofs**: `TypeOK`, `Conservation`, `QueueBounded`, `InOrder`, `AtMostOneLateCallback`,
`TerminatedIsQuiet`, `GuardsNeverFire`, and that the port implements MessageLedger. None of these is
inductive alone. `PortInv` adds
- `HandlerMatchesRequest`: at each point of a handler, which request is under way and from which state;
- `ManagerLives`: the thread and its manager exist from the middle of Configure to the end of
  HandleTerminate, which gives the guards and, with
- `LoopHoldsQueue` (the local queue is non-empty exactly while its head is worked on), that the queue is
  drained when the loop is joined, and that the swap never puts old messages back;
- `SourceJoined`: once the receive thread is joined nobody is in EnqueueMessage;
- `LateOnce`: a loop that is between the two reads of process_event when the port is passivated has
  not been late before.

Lemmas about the ThreadManager operators, the transition table, the number of senders inside
EnqueueMessage and the queues carry the data. `PortImplementsLedger` follows from `Conservation`: whoever
counts a message as processed or ignored holds one that is not settled, so the ledger's guard is true.

**PeriodicPortProofs**: `PeriodicTerminatedIsQuiet` and `AtMostOneLateTick`. `PeriodicInv` says for both threads
what ManagerLives says for one, and `TickProgress` what the tick thread has told its manager at each
point; `LateTickOnce` needs that `interupt_` is set before NOT_RUNNING is stored. `PortSubstitutes` is the
substitution principle for the subclass: under a mapping in which the tick thread is the receive thread (its
handler's steps are the `openSource` and `closeSource` parts of the base class) every step of a PeriodicPort is a
step of a SubscriberPort or a stutter. What SubscriberPortProofs proves therefore holds of it; tlapm cannot cite
a theorem through INSTANCE, so that last inference is the reader's.

**RequestReplyProofs**: `PassivatedReplierIsQuiet` (`ContextOutlivesLoop`: Passivate returns without a context,
and a context outlives the loop's socket) and `ReplierImplementsLedger` (`LoopHoldsRequest`: received is processed
plus ignored plus the request the loop holds).

**ProtoRmiProofs**: `RefusalsBounded` and that requester and replier implement RemoteCall. `RmiInv` follows a
request: nobody has seen it before it is sent (`FreshUntilSent`), until it is served it is in one place
(`OnePlace`), and while the worker polls, of all requests sent on its socket only the one it polls for is still to
be answered (`OnlyAwaited`) - that is why an answer cannot reach the wrong call after a timeout.
`TimeoutPerRefusal` is the counting argument: a socket that awaits a reply nobody polls for owes one refusal, and
refusals and debts together are no more than timeouts.

**LogPipelineProofs**: `TypeOK` (with the count of events on disk, in the batch and in the queue), `RowsAreEvents`
(`NoNonsense`: no place holds a torn record before the disk cuts one) and `DownIsCommitted` (`ServerEnds`: each
thread of the server leaves nothing to the next one it ends before). `PipelineInv` places every event: there are nine places between the
writer's queue and the table, each holds its events in order (`PlacesInOrder`) and older ones than all places behind
it (`Chain`). With it `RowsStayInOrder` and `NoEventIsLost` are proved, which say in terms of the events
what the refinement of LogChannel says: rows that are events are in the order of the pushes, none twice, and
without an excuse no event has left the nine places.

**ExperimentControlProofs**: `TypeOK`, `StartsTogether`, `TerminatedIsFinal` for every number of timeouts, losses,
crashes and updates. `ControlInv` is the barrier as a chain: a running container or an ACTIVATE in a queue means a
valid execution (`ActivationValid`), that a kept promise (`ValidPromise`), and that all slaves were configured
and can only have terminated since (`PromiseKept`; here the counts of HandleSlaveStateChange become sets). Ports
that run without an activated container mean an update.
`WireMatches` and `NetMatches` say whose reply a reply is.
`RemovedWhenDown` proves `RemovedIsDown` under `Undisturbed`: no request times out while the master is up, and nobody
interrupts a slave of another process - as in the runs `exp_faults` and `exp_live`, but with any number of slaves, crashes, lost
publications and failing containers, and at most one update. TLC refutes the property when any of these
conditions is dropped: a slave whose requests time out, or that is interrupted before the end, may be held for stale or terminated while its components run. A
lost TERMINATE is harmless for it: that slave beats on, and the master waits. The argument is about executions that are `OnCourse`; one that leaves its course does not come
back. A slave on course is gone, or it is healthy (it beats, its socket is usable, nothing is refused), the master's record of it
follows its main thread (`Position`), and it is before TERMINATE (`NotYet`), has it in its queue with no ACTIVATE
behind it, or missed it (`Ordered`), or has executed it (`Over`). TERMINATE finds all slaves past their
report because the promise was kept. Only a slave that is over reports SlaveTerminated or may grow stale, so the wait of
ExecutionLoop ends when all are over or gone (`Down`), and nothing activates one after that.

**EnvironmentManagerProofs**: `TypeOK`, `PortsExclusive`, `OneMaster`, `ShutdownNotLost`. Registrations are numbered:
no two experiments in the map have one number (`GenerationsDiffer`), so a handler that saw an experiment of the
same name does not take a later one for it. `RunTaken` says that a master that runs an experiment has moved it out of CONFIGURED.
`PortsExclusive` is an inventory of the ports (available, or in exactly one experiment) and inductive as it stands
once the queues and experiments are typed. `ShutdownCarried` follows an order to shut down: the experiment is dirty, or
was taken (by an inspection, a second master or a lost reply) or abandoned, or a handler remains that will remove it (`HandlerPhases`).

The parts of these invariants were checked with TLC on the runs' instances before they were proved.

Only model-checked:
- every liveness property and the fairness they need (liveness under fairness and ENABLED are out of the
  prover's reach);
- `ImplementsChannel`, whose mapping filters a sequence with SelectSeq: what that does to an appended or
  removed element is an induction over data, which the installed provers cannot do. `RowsStayInOrder`
  and `NoEventIsLost` are its content without the filter;
- the findings of section 4, which are counterexamples.

No module uses RECURSIVE operators.

## 6. Not modelled

- DeploymentContainer and the component tree beyond whether ports run: a transition visits the children one after the other
  under one mutex, and the results are ignored. There is no step of another thread in between that the
  ports' own modules do not have; what a reconfiguration does to a port is a sequence of requests they allow.
- Publisher ports: one call of the middleware between two counters.
- qpid, rti, ospl and tao ports beyond their receive threads; protobuf; sockets: third-party behaviour,
  modelled by what libzmq documents (external entries of the map).
- Logan's tables, aggregation server and system sampling, workers, experiment definitions: I/O and plain data.
- ProtoReceiver's filters and Disconnect; the 100 ms limit of SendInprocMessage, which is far above the 5 ms its
  peer takes; the pause of ProtoWriter::Terminate for backpressure.
- The code generator and MEDEA: XSL templates, and a graphical editor whose Qt views and controllers run
  on one event loop. Together with the workers and the headers bundled with them (`cl2.hpp`) they are most
  of the repository's lines, so the models cover a small share of the lines although they cover the
  threads and protocols of `re`.
- Time: periods, timeouts and durations are steps that may happen, or must where a clock is fair.
- In EnvironmentManager, the ports of components and the labels of external ports. In RequestReply, the
  requester's counters (the template without a reply counts a failed request as ignored twice).

## 7. Plan

1. Done: the ports (StateMachine, ThreadManager, SubscriberPort, PeriodicPort, RequestReply, MessageLedger), the
   experiment protocol (ExperimentControl), the environment manager, remote calls (ProtoRmi, RemoteCall),
   logging (LogPipeline, LogChannel).
2. Done: the invariants and action properties of all of them proved, and the refinements of MessageLedger (twice),
   RemoteCall and SubscriberPort.
3. Next: what remains of the refinement of LogChannel, in a form without SelectSeq (the rows as the value of a
   function on positions); what a master may still rely on at the
   removal when requests have timed out, beyond `RemovedWhenDown`; that the transitions of a port cannot all be blocked, as an invariant
   that names the enabled step in place of ENABLED.
