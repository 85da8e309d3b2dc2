------------------------------ MODULE ProtoRmi ------------------------------
(***************************************************************************)
(* Remote calls over ZeroMQ: a ProtoRequester with its queue and worker    *)
(* thread, the threads that call SendRequest and wait for the future, the  *)
(* owner that destroys it; and the ProtoReplier at the other end, which is *)
(* started, serves one request at a time, is terminated and started again. *)
(*                                                                         *)
(* Calls are numbered in the order in which they enter the queue. ZeroMQ   *)
(* is external: a REQ socket that has sent refuses to send again before it *)
(* has received the reply; a closed socket takes its messages with it;     *)
(* terminating a context makes blocked operations throw ETERM, and waits   *)
(* until the sockets of the context are closed.                            *)
(***************************************************************************)
EXTENDS Integers, Sequences, FiniteSets

CONSTANTS
  MaxCalls,           \* bound: calls of SendRequest
  MaxWaiting,         \* bound: threads that share the requester
  Retries,            \* retry_timeouts.size(); 0: poll for ever
  MaxStarts,          \* bound: calls of Start
  MaxSocketFailures   \* bound: GetRequestSocket that cannot make a socket

ASSUME RmiAssumption ==
  /\ MaxCalls \in Nat /\ MaxWaiting \in Nat /\ Retries \in Nat
  /\ MaxStarts \in Nat /\ MaxSocketFailures \in Nat

Calls == 1 .. MaxCalls
None  == 0

VARIABLES
  caller,          \* each caller: idle, waiting, or what it got
  promise,         \* the promise of each RequestStruct
  request_queue,   \* request_queue_
  context,         \* context_: set, unset, or being terminated
  worker,          \* where ProcessRequests is
  request,         \* the request it processes
  socket,          \* the REQ socket: ready, or awaiting the reply of a request
  destroyer,       \* where ~ProtoRequester is
  outgoing,        \* the request in the pipe of the REQ socket
  sent,            \* the requests that were sent on the present REQ socket
  incoming,        \* replies that have reached it, by the call they answer
  inbox,           \* requests that have reached the REP socket
  replier,         \* where ZmqReplier is
  serving,         \* the request it serves
  retry_count,     \* retry_count of ZmqReplier
  terminating,     \* ProtoReplier::Terminate waits for the thread
  runs,            \* how often the callback ran for each call
  result,          \* what it returned
  starts,          \* calls of Start so far
  socketFailures   \* sockets that could not be made so far

callerVars  == <<caller, promise>>
workerVars  == <<request_queue, worker, request, socket>>
ownerVars   == <<context, destroyer>>
wireVars    == <<outgoing, sent, incoming>>
replierVars == <<inbox, replier, serving, retry_count, terminating, runs, result, starts>>
vars        == <<callerVars, workerVars, ownerVars, wireVars, replierVars, socketFailures>>

Init ==
  /\ caller = [c \in Calls |-> "idle"]
  /\ promise = [c \in Calls |-> "unset"]
  /\ request_queue = <<>>
  /\ context = "set" /\ worker = "start" /\ request = None /\ socket = "none"
  /\ destroyer = "none"
  /\ outgoing = None /\ sent = {} /\ incoming = <<>>
  /\ inbox = <<>> /\ replier = "stopped" /\ serving = None /\ retry_count = 0
  /\ terminating = FALSE
  /\ runs = [c \in Calls |-> 0] /\ result = [c \in Calls |-> "none"]
  /\ starts = 0 /\ socketFailures = 0

-----------------------------------------------------------------------------
(* SendRequest queues under request_mutex_, which the worker holds while   *)
(* it evaluates its predicate ("blocking") and gives up as it falls        *)
(* asleep. Its callers all ask the deferred future at once, which starts   *)
(* the caller's own timeout.                                               *)
SendRequest(c) ==
  /\ caller[c] = "idle" /\ (c > 1 => caller[c - 1] # "idle")
  /\ Cardinality({d \in Calls : caller[d] = "waiting"}) < MaxWaiting
  /\ destroyer = "none" /\ worker # "blocking"
  /\ caller' = [caller EXCEPT ![c] = "waiting"]
  /\ request_queue' = Append(request_queue, c)
  /\ worker' = IF worker = "waiting" THEN "check" ELSE worker
  /\ UNCHANGED <<promise, request, socket, ownerVars, wireVars, replierVars, socketFailures>>

(* The caller gets what the promise holds: a reply, the error of the       *)
(* callback, or an exception of the transport.                             *)
GetFuture(c) ==
  /\ caller[c] = "waiting" /\ promise[c] # "unset"
  /\ caller' = [caller EXCEPT ![c] = promise[c]]
  /\ UNCHANGED <<promise, workerVars, ownerVars, wireVars, replierVars, socketFailures>>

(* wait_for ends before the promise is set: "Request timed out in queue". *)
CallerTimesOut(c) ==
  /\ caller[c] = "waiting" /\ promise[c] = "unset"
  /\ caller' = [caller EXCEPT ![c] = "timeout"]
  /\ UNCHANGED <<promise, workerVars, ownerVars, wireVars, replierVars, socketFailures>>

-----------------------------------------------------------------------------
(* A REQ socket goes, with the request and the replies in its pipes. *)
CloseSocket == outgoing' = None /\ sent' = {} /\ incoming' = <<>>

(* The new socket takes the place of the old one. *)
Replace_Keeps == socket' = (IF worker = "start" THEN "ready" ELSE socket) /\ UNCHANGED wireVars
Replace == socket' = "ready" /\ CloseSocket

(* GetRequestSocket from the start of ProcessRequests or after a refused   *)
(* send; when it throws, the worker ends with the exception.               *)
NewSocket ==
  /\ worker \in {"start", "replace"}
  /\ \/ context = "set" /\ Replace /\ worker' = "check" /\ UNCHANGED socketFailures
     \/ /\ \/ context # "set" /\ UNCHANGED socketFailures
           \/ /\ socketFailures < MaxSocketFailures
              /\ socketFailures' = socketFailures + 1
        /\ socket' = "none" /\ CloseSocket /\ worker' = "failed"
  /\ UNCHANGED <<callerVars, request_queue, request, ownerVars, replierVars>>

(* Promises that are destroyed before they are set are broken. *)
Broken(cs) == [c \in Calls |-> IF c \in cs /\ promise[c] = "unset" THEN "broken" ELSE promise[c]]

Queued == {request_queue[i] : i \in 1 .. Len(request_queue)}

(* The worker evaluates its predicate with request_mutex_ held. A context  *)
(* that is gone ends it, with the queue; otherwise it takes a request.     *)
WorkerCheck ==
  /\ worker = "check"
  /\ IF context # "set"
     THEN /\ worker' = "ended" /\ socket' = "none" /\ CloseSocket
          /\ request_queue' = <<>>
          /\ promise' = Broken(Queued)
          /\ UNCHANGED request
     ELSE IF request_queue # <<>>
     THEN /\ worker' = "send"
          /\ request' = Head(request_queue)
          /\ request_queue' = Tail(request_queue)
          /\ UNCHANGED <<promise, socket, wireVars>>
     ELSE /\ worker' = "blocking"
          /\ UNCHANGED <<request_queue, request, promise, socket, wireVars>>
  /\ UNCHANGED <<caller, ownerVars, replierVars, socketFailures>>

WorkerSleeps ==
  /\ worker = "blocking"
  /\ worker' = "waiting"
  /\ UNCHANGED <<callerVars, request_queue, request, socket, ownerVars, wireVars, replierVars,
                 socketFailures>>

Settle(kind) == promise' = [promise EXCEPT ![request] = kind]

(* send threw: the promise gets the exception, which is thrown on. *)
Refuse_Silently == worker' = "replace" /\ UNCHANGED promise
Refuse == worker' = "replace" /\ Settle("refused")

(* ProcessRequest sends. A socket that still awaits a reply refuses (EFSM): *)
(* the request fails unsent and the socket is to be replaced. A context     *)
(* that is terminating throws ETERM, which fails the request only.          *)
ProcessRequest ==
  /\ worker = "send"
  /\ IF context = "terminating"
     THEN Settle("shut down") /\ worker' = "check" /\ UNCHANGED <<socket, outgoing, sent>>
     ELSE IF socket = "awaiting"
     THEN Refuse /\ UNCHANGED <<socket, outgoing, sent>>
     ELSE /\ socket' = "awaiting" /\ outgoing' = request /\ worker' = "poll"
          /\ sent' = sent \cup {request}
          /\ UNCHANGED promise
  /\ UNCHANGED <<caller, request_queue, request, ownerVars, incoming, replierVars,
                 socketFailures>>

(* The poll returns with a reply. *)
ReceiveReply ==
  /\ worker = "poll" /\ incoming # <<>>
  /\ Settle(result[Head(incoming)])
  /\ socket' = "ready" /\ incoming' = Tail(incoming) /\ worker' = "check"
  /\ UNCHANGED <<caller, request_queue, request, ownerVars, outgoing, sent, replierVars,
                 socketFailures>>

(* The poll returns without one: the socket goes on awaiting the reply. *)
PollTimesOut_Relaxed ==
  /\ worker = "poll" /\ incoming = <<>>
  /\ Settle("timeout")
  /\ worker' = "check" /\ socket' = "ready"
  /\ UNCHANGED <<caller, request_queue, request, ownerVars, wireVars, replierVars,
                 socketFailures>>
PollTimesOut ==
  /\ worker = "poll" /\ incoming = <<>>
  /\ Settle("timeout")
  /\ worker' = "check"
  /\ UNCHANGED <<caller, request_queue, request, socket, ownerVars, wireVars, replierVars,
                 socketFailures>>

(* The poll throws ETERM. *)
PollInterrupted ==
  /\ worker = "poll" /\ context = "terminating"
  /\ Settle("shut down")
  /\ worker' = "check"
  /\ UNCHANGED <<caller, request_queue, request, socket, ownerVars, wireVars, replierVars,
                 socketFailures>>

-----------------------------------------------------------------------------
(* ~ProtoRequester unsets context_ under zmq_mutex_ only, ...               *)
UnsetContext ==
  /\ destroyer = "none"
  /\ destroyer' = "notify" /\ context' = "unset"
  /\ UNCHANGED <<callerVars, workerVars, wireVars, replierVars, socketFailures>>

(* ... notifies the worker and terminates the context, ...                  *)
NotifyAndTerminate ==
  /\ destroyer = "notify"
  /\ destroyer' = "joining" /\ context' = "terminating"
  /\ worker' = IF worker = "waiting" THEN "check" ELSE worker
  /\ UNCHANGED <<callerVars, request_queue, request, socket, wireVars, replierVars,
                 socketFailures>>

(* ... which waits for the worker's socket, and then for the worker. The   *)
(* members go, and with the queue the promises a failed worker left in it. *)
Destroyed ==
  /\ destroyer = "joining" /\ worker \in {"ended", "failed"}
  /\ destroyer' = "done"
  /\ promise' = Broken(Queued)
  /\ request_queue' = <<>>
  /\ UNCHANGED <<caller, worker, request, socket, context, wireVars, replierVars,
                 socketFailures>>

-----------------------------------------------------------------------------
Bound == replier \in {"poll", "serve", "reply"}

(* A request reaches the REP socket. *)
Deliver ==
  /\ outgoing # None /\ Bound
  /\ inbox' = Append(inbox, outgoing)
  /\ outgoing' = None
  /\ UNCHANGED <<callerVars, workerVars, ownerVars, sent, incoming, replier, serving, retry_count,
                 terminating, runs, result, starts, socketFailures>>

(* Start when no thread is left from before; otherwise it throws. *)
Start ==
  /\ replier = "stopped" /\ ~terminating /\ starts < MaxStarts
  /\ starts' = starts + 1
  /\ replier' = "poll" /\ retry_count' = 0
  /\ UNCHANGED <<callerVars, workerVars, ownerVars, wireVars, inbox, serving, terminating,
                 runs, result, socketFailures>>

(* The thread of the replier ends, and its socket with it. *)
EndReplier == replier' = "ended" /\ inbox' = <<>> /\ serving' = None

(* A poll ends in silence; after the last of retry_timeouts it gives up. *)
ReplierPollTimesOut ==
  /\ replier = "poll" /\ inbox = <<>> /\ Retries > 0
  /\ retry_count' = retry_count + 1
  /\ IF retry_count' < Retries
     THEN UNCHANGED <<replier, inbox, serving>>
     ELSE EndReplier
  /\ UNCHANGED <<callerVars, workerVars, ownerVars, wireVars, terminating, runs, result,
                 starts, socketFailures>>

ReceiveRequest ==
  /\ replier = "poll" /\ inbox # <<>>
  /\ replier' = "serve"
  /\ serving' = Head(inbox) /\ inbox' = Tail(inbox)
  /\ retry_count' = 0
  /\ UNCHANGED <<callerVars, workerVars, ownerVars, wireVars, terminating, runs, result,
                 starts, socketFailures>>

(* The request is served: its callback replies or throws (or there is no   *)
(* such callback, an error as well), or throws ShutdownException, which    *)
(* ends the replier without a reply.                                       *)
RunCallback ==
  /\ replier = "serve"
  /\ runs' = [runs EXCEPT ![serving] = @ + 1]
  /\ \E r \in {"reply", "rmi", "shutdown"} :
        /\ result' = [result EXCEPT ![serving] = r]
        /\ IF r = "shutdown" THEN EndReplier
           ELSE replier' = "reply" /\ UNCHANGED <<inbox, serving>>
  /\ UNCHANGED <<callerVars, workerVars, ownerVars, wireVars, retry_count, terminating,
                 starts, socketFailures>>

(* The reply goes to the socket the request came from, if it is still      *)
(* there; a context that is terminating throws instead.                    *)
SendReply ==
  /\ replier = "reply"
  /\ IF terminating
     THEN EndReplier /\ UNCHANGED incoming
     ELSE /\ incoming' = IF serving \in sent THEN Append(incoming, serving) ELSE incoming
          /\ replier' = "poll" /\ serving' = None /\ UNCHANGED inbox
  /\ UNCHANGED <<callerVars, workerVars, ownerVars, outgoing, sent, retry_count, terminating,
                 runs, result, starts, socketFailures>>

(* The poll throws ETERM. *)
ReplierInterrupted_Ignored == FALSE /\ UNCHANGED vars
ReplierInterrupted ==
  /\ replier = "poll" /\ terminating
  /\ EndReplier
  /\ UNCHANGED <<callerVars, workerVars, ownerVars, wireVars, retry_count, terminating, runs,
                 result, starts, socketFailures>>

(* Terminate takes its two mutexes and terminates the context, which waits *)
(* for the socket of the thread; then it waits for the thread.             *)
TerminateReplier ==
  /\ ~terminating /\ replier # "stopped"
  /\ terminating' = TRUE
  /\ UNCHANGED <<callerVars, workerVars, ownerVars, wireVars, inbox, replier, serving,
                 retry_count, runs, result, starts, socketFailures>>

ReplierTerminated ==
  /\ terminating /\ replier = "ended"
  /\ terminating' = FALSE
  /\ replier' = "stopped"
  /\ UNCHANGED <<callerVars, workerVars, ownerVars, wireVars, inbox, serving, retry_count,
                 runs, result, starts, socketFailures>>

-----------------------------------------------------------------------------
CallerThread(c) == GetFuture(c) \/ CallerTimesOut(c)
WorkerThread  == \/ NewSocket \/ WorkerCheck \/ WorkerSleeps \/ ProcessRequest
                 \/ ReceiveReply \/ PollTimesOut \/ PollInterrupted
OwnerThread   == NotifyAndTerminate \/ Destroyed
ReplierThread == \/ ReceiveRequest \/ RunCallback \/ SendReply
                 \/ ReplierInterrupted \/ ReplierTerminated

Next ==
  \/ \E c \in Calls : SendRequest(c) \/ CallerThread(c)
  \/ WorkerThread \/ UnsetContext \/ OwnerThread
  \/ Deliver \/ Start \/ TerminateReplier \/ ReplierPollTimesOut \/ ReplierThread

(* Threads run, timeouts of waits and polls end, callbacks return. Nobody  *)
(* has to call, start, terminate or destroy, and a request may stay in its *)
(* pipe for ever.                                                          *)
Spec ==
  /\ Init /\ [][Next]_vars
  /\ \A c \in Calls : WF_vars(CallerThread(c))
  /\ WF_vars(WorkerThread) /\ WF_vars(OwnerThread) /\ WF_vars(ReplierThread)

-----------------------------------------------------------------------------
Failures == {"timeout", "refused", "shut down", "broken"}
Answers  == {"reply", "rmi"}

Status(c) ==
  CASE caller[c] = "idle" -> "none"
    [] caller[c] = "waiting" -> "called"
    [] caller[c] \in Answers -> caller[c]
    [] OTHER -> "failed"

Remote == INSTANCE RemoteCall WITH status <- [c \in Calls |-> Status(c)]

(* Requester and replier implement a remote call: a callback runs at most  *)
(* once per call, and a reply that comes after its caller has timed out    *)
(* is never taken for the answer to a later call.                          *)
ImplementsRemoteCall == Remote!Spec

(* Each timeout costs at most one further call: the one that finds the     *)
(* socket still awaiting the reply, after which the socket is replaced.    *)
RefusalsBounded ==
  Cardinality({c \in Calls : promise[c] = "refused"})
    <= Cardinality({c \in Calls : promise[c] = "timeout"})

(* Every request that is queued is settled in the end: answered, failed,   *)
(* or its promise broken with the requester. Only a worker that could not  *)
(* make a socket leaves requests behind.                                   *)
PromisesSettle ==
  \A c \in Calls : (caller[c] # "idle") ~> (promise[c] # "unset" \/ worker = "failed")

(* ProtoReplier::Terminate returns whatever the thread was doing. *)
ReplierTerminateReturns == terminating ~> ~terminating

(* "deset" the context_ to wake up the condition variable in               *)
(* ProcessRequests, to enable shutdown: the destructor returns.            *)
DestructorReturns == (destroyer # "none") ~> (destroyer = "done")
=============================================================================
