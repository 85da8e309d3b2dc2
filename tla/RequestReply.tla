---------------------------- MODULE RequestReply ----------------------------
(***************************************************************************)
(* A requester port and the replier port it talks to:                      *)
(*   src/re/src/core/ports/requestreply/{requesterport,replierport}.hpp    *)
(*   src/re/src/middleware/zmq/requestreply/{requesterport,replierport}.hpp*)
(* Both are Activatables with a lifecycle of their own.  Four kinds of     *)
(* thread meet: the controller of each port, the Callers (threads of the   *)
(* component, which call SendRequest whenever they like) and the replier's *)
(* RequestHandler::Loop.  Sockets and contexts are libzmq's: resetting a   *)
(* context makes every call on its sockets fail with ETERM and waits until *)
(* they are closed.                                                        *)
(*                                                                         *)
(* GetReqSocket makes a socket for every request, so that a call, its      *)
(* socket, its request and its reply all go by the number of the call. An  *)
(* empty reply parses like any other: replies have no content here. A port *)
(* whose callback_fn is null, which ignores every request, is left out.    *)
(* The three templates of each port (with and without a reply or a request)*)
(* follow the same steps but for what they count in the requester, which   *)
(* is left out, and for ETERM in PollInterrupted.  The replier's mutex_ is *)
(* only taken inside handlers, which its state_mutex_ keeps apart.         *)
(***************************************************************************)
EXTENDS Naturals, FiniteSets, ThreadManager

CONSTANTS
  Callers,          \* threads that call SendRequest
  NoCaller,         \* the helper's mutex_ is free
  MaxCalls,         \* bound: SendRequest calls that find the port RUNNING
  MaxConfigures,    \* bound: Configure calls of each port that get through
  MaxBindFailures,  \* bound: binds that fail
  MaxLoopErrors     \* bound: recv calls that fail, not with ETERM, and requests that cannot be read

ASSUME RequestReplyAssumption ==
  /\ IsFiniteSet(Callers) /\ NoCaller \notin Callers
  /\ MaxCalls \in Nat /\ MaxConfigures \in Nat
  /\ MaxBindFailures \in Nat /\ MaxLoopErrors \in Nat

VARIABLES
  q_state, q_transition, q_op, q_ctl,    \* lifecycle of the requester
  q_context,      \* context_ of RequesterPortHelper: its number, 0 when null
  q_closing,      \* the context whose destructor runs, 0 when none
  q_mutex,        \* holder of the helper's mutex_
  caller,         \* each caller: where it is, its call and its context
  p_state, p_transition, p_op, p_ctl,    \* lifecycle of the replier
  p_context,      \* context_ of the replier: none, open or closing
  thread_manager,
  loop,           \* program counter of RequestHandler::Loop
  socket,         \* the socket the loop owns is open
  request,        \* the request the loop works on, 0 when none
  p_received, p_processed, p_ignored,
  wire,           \* requests sent and not yet received
  replies,        \* replies sent and not yet received
  fault,          \* a pointer that ResetContext has overtaken was followed
  made            \* history: how many of each bounded thing there were

requesterMachine == <<q_state, q_transition, q_op, q_ctl>>
replierMachine   == <<p_state, p_transition, p_op, p_ctl>>
contextVars      == <<q_context, q_closing, q_mutex>>
loopVars         == <<thread_manager, loop, socket, request, p_context>>
ledgerVars       == <<p_received, p_processed, p_ignored>>
netVars          == <<wire, replies>>
requesterVars    == <<requesterMachine, contextVars, caller>>
replierVars      == <<replierMachine, loopVars, ledgerVars>>
vars == <<requesterVars, replierVars, netVars, fault, made>>

Q == INSTANCE StateMachine WITH state <- q_state, transition <- q_transition, op <- q_op, ctl <- q_ctl
P == INSTANCE StateMachine WITH state <- p_state, transition <- p_transition, op <- p_op, ctl <- p_ctl

Idle == [at |-> "idle", call |-> 0, context |-> 0]

NoRequest == 0

Init ==
  /\ Q!MachineInit /\ P!MachineInit
  /\ q_context = 0 /\ q_closing = 0 /\ q_mutex = NoCaller
  /\ caller = [c \in Callers |-> Idle]
  /\ p_context = "none"
  /\ thread_manager = NullManager
  /\ loop = "none" /\ socket = FALSE /\ request = NoRequest
  /\ p_received = 0 /\ p_processed = 0 /\ p_ignored = 0
  /\ wire = {} /\ replies = {}
  /\ fault = FALSE
  /\ made = [calls |-> 0, q_configures |-> 0,
             p_configures |-> 0, bindFailures |-> 0, loopErrors |-> 0]

-----------------------------------------------------------------------------
(* The requester's lifecycle: only Terminate does more than log. *)

RequesterTransition(t) ==
  /\ Q!Begin(t, IF t = "TERMINATE" THEN "terminate" ELSE "return")
  /\ t = "CONFIGURE" => made.q_configures < MaxConfigures
  /\ made' = [made EXCEPT !.q_configures = IF t = "CONFIGURE" THEN @ + 1 ELSE @]
  /\ UNCHANGED <<contextVars, caller, replierVars, netVars, fault>>

(* RequesterPortHelper::Terminate does not take mutex_: context_ becomes    *)
(* null and the context's destructor begins.                               *)
ResetContext ==
  /\ Q!Goto("terminate", "waitClosed")
  /\ q_closing' = q_context
  /\ q_context' = 0
  /\ UNCHANGED <<q_mutex, caller, replierVars, netVars, fault, made>>

(* A socket is closed when ProcessRequest returns or throws. *)
HasSocket(c) == caller[c].at \in {"send", "poll"}

OpenOn(x) == {c \in Callers : HasSocket(c) /\ caller[c].context = x}

ContextClosed ==
  /\ Q!Goto("waitClosed", "return")
  /\ q_closing = 0 \/ OpenOn(q_closing) = {}
  /\ q_closing' = 0
  /\ UNCHANGED <<q_context, q_mutex, caller, replierVars, netVars, fault, made>>

RequesterReturns ==
  /\ Q!ResetTransition \/ Q!Commit
  /\ UNCHANGED <<contextVars, caller, replierVars, netVars, fault, made>>

-----------------------------------------------------------------------------
(* SendRequest and ProcessRequest of the requester. *)

(* ProcessRequest ends and its socket is closed: with ZMQ_LINGER 0 a       *)
(* request that has not left yet may be dropped.                           *)
CloseSocket(c) ==
  /\ wire' \in {wire, wire \ {caller[c].call}}
  /\ replies' = replies \ {caller[c].call}

(* ProcessRequest is over: SendRequest returns the reply, or false. *)
Finished(c) ==
  /\ caller' = [caller EXCEPT ![c] = Idle]
  /\ CloseSocket(c)

(* process_event reads state_; a request that it refuses here returns      *)
(* false and changes nothing ...                                           *)
SendRequest(c) ==
  /\ caller[c].at = "idle"
  /\ q_state = "RUNNING"
  /\ made.calls < MaxCalls
  /\ made' = [made EXCEPT !.calls = @ + 1]
  /\ caller' = [caller EXCEPT ![c] = [Idle EXCEPT !.at = "transition", !.call = made.calls + 1]]
  /\ UNCHANGED <<requesterMachine, contextVars, replierVars, netVars, fault>>

(* ... and then transition_. *)
ReadTransition(c) ==
  /\ caller[c].at = "transition"
  /\ caller' = [caller EXCEPT ![c] = IF q_transition = "NO_TRANSITION"
                                       THEN [@ EXCEPT !.at = "context"] ELSE Idle]
  /\ UNCHANGED <<requesterMachine, contextVars, replierVars, netVars, fault, made>>

(* A context that nobody knows of yet. *)
NewContext ==
  CHOOSE n \in 1..Cardinality(Callers) + 2 :
    n \notin {q_context, q_closing} \cup {caller[c].context : c \in Callers}

(* GetReqSocket takes mutex_ and makes a context where there is none. *)
GetContext(c) ==
  /\ caller[c].at = "context"
  /\ q_mutex = NoCaller
  /\ q_mutex' = c
  /\ q_context' = IF q_context = 0 THEN NewContext ELSE q_context
  /\ caller' = [caller EXCEPT ![c].at = "open", ![c].context = q_context']
  /\ UNCHANGED <<requesterMachine, q_closing, replierVars, netVars, fault, made>>

(* The context this caller works with is being destroyed. *)
Terminated(c) == caller[c].context = q_closing

(* *context_ and zmq_socket, which ResetContext may have overtaken: a null *)
(* pointer is followed, or one to a context that is gone; a context that   *)
(* is being destroyed refuses the socket.  connect may fail, too.          *)
OpenSocket(c) ==
  /\ caller[c].at = "open"
  /\ q_mutex' = NoCaller
  /\ \/ /\ caller[c].context # q_context
        /\ fault' = TRUE
        /\ UNCHANGED <<caller, netVars>>
     \/ /\ caller[c].context = q_context
        /\ caller' = [caller EXCEPT ![c].at = "send"]
        /\ UNCHANGED <<netVars, fault>>
     \/ /\ caller[c].context \in {q_context, q_closing}
        /\ Finished(c)
        /\ UNCHANGED fault
  /\ UNCHANGED <<requesterMachine, q_context, q_closing, replierVars, made>>

(* The inner handler turns an ETERM of send into a runtime_error. *)
Send(c) ==
  /\ caller[c].at = "send"
  /\ \/ /\ ~ Terminated(c)
        /\ wire' = wire \cup {caller[c].call}
        /\ caller' = [caller EXCEPT ![c].at = "poll"]
        /\ UNCHANGED replies
     \/ /\ Terminated(c)
        /\ Finished(c)
  /\ UNCHANGED <<requesterMachine, contextVars, replierVars, fault, made>>

Receive(c) ==
  /\ caller[c].at = "poll"
  /\ caller[c].call \in replies
  /\ Finished(c)
  /\ UNCHANGED <<requesterMachine, contextVars, replierVars, fault, made>>

PollTimesOut(c) ==
  /\ caller[c].at = "poll"
  /\ Finished(c)
  /\ UNCHANGED <<requesterMachine, contextVars, replierVars, fault, made>>

(* poll fails with ETERM: most templates throw; the one without a reply    *)
(* swallows it and SendRequest reports success.                            *)
PollInterrupted(c) ==
  /\ caller[c].at = "poll"
  /\ Terminated(c)
  /\ Finished(c)
  /\ UNCHANGED <<requesterMachine, contextVars, replierVars, fault, made>>

-----------------------------------------------------------------------------
(* The replier's lifecycle. *)

Entry(t) ==
  CASE t = "CONFIGURE" -> "configure"
    [] t = "ACTIVATE"  -> "activate"
    [] OTHER           -> "interrupt"

(* What HandleConfigure tests before it makes a context. *)
CanConfigure == ~ thread_manager.live /\ p_context = "none"

ReplierTransition(t) ==
  /\ P!Begin(t, Entry(t))
  /\ t = "CONFIGURE" /\ CanConfigure => made.p_configures < MaxConfigures
  /\ UNCHANGED <<requesterVars, loopVars, ledgerVars, netVars, fault, made>>

(* HandleConfigure refuses to start over what an earlier life left behind. *)
RefuseConfigure ==
  /\ ~ CanConfigure
  /\ P!Goto("configure", "throw")
  /\ UNCHANGED <<requesterVars, loopVars, ledgerVars, netVars, fault, made>>

(* bind throws: the socket is closed, the new context_ stays. *)
BindFails ==
  /\ CanConfigure
  /\ P!Goto("configure", "throw")
  /\ p_context' = "open"
  /\ made.bindFailures < MaxBindFailures
  /\ made' = [made EXCEPT !.bindFailures = @ + 1]
  /\ UNCHANGED <<requesterVars, thread_manager, loop, socket, request, ledgerVars, netVars, fault>>

SpawnLoop ==
  /\ CanConfigure
  /\ P!Goto("configure", "waitConfigured")
  /\ p_context' = "open"
  /\ thread_manager' = NewManager
  /\ loop' = "start"
  /\ socket' = TRUE
  /\ made' = [made EXCEPT !.p_configures = @ + 1]
  /\ UNCHANGED <<requesterVars, request, ledgerVars, netVars, fault>>

SetActivate ==
  /\ \/ /\ thread_manager.live
        /\ P!Goto("activate", "waitActive")
        /\ thread_manager' = SetTransition(thread_manager, "ACTIVATE")
     \/ /\ ~ thread_manager.live
        /\ P!Goto("activate", "throw")
        /\ UNCHANGED thread_manager
  /\ UNCHANGED <<requesterVars, loop, socket, request, p_context, ledgerVars, netVars, fault, made>>

WaitForLoop ==
  /\ \/ P!Goto("waitConfigured", "return") /\ WaitForState(thread_manager, "CONFIGURED")
     \/ P!Goto("waitActive", "return") /\ WaitForState(thread_manager, "ACTIVE")
  /\ UNCHANGED <<requesterVars, loopVars, ledgerVars, netVars, fault, made>>

(* InterruptLoop: SetTerminate, and context_.reset(), "which will block    *)
(* until all sockets are released".                                        *)
InterruptLoop ==
  /\ P!Goto("interrupt", "waitClosed")
  /\ thread_manager' = IF thread_manager.live
                         THEN SetTransition(thread_manager, "TERMINATE") ELSE thread_manager
  /\ p_context' = IF p_context = "open" THEN "closing" ELSE p_context
  /\ UNCHANGED <<requesterVars, loop, socket, request, ledgerVars, netVars, fault, made>>

(* Faulty variant: the context is let go without waiting. *)
SocketsReleased_NoWait == TRUE

SocketsReleased == p_context = "closing" => ~ socket

WaitForSockets ==
  /\ SocketsReleased
  /\ P!Goto("waitClosed", IF p_op = "TERMINATE" THEN "join" ELSE "return")
  /\ p_context' = "none"
  /\ UNCHANGED <<requesterVars, thread_manager, loop, socket, request, ledgerVars, netVars, fault, made>>

(* ~ThreadManager asks again, waits for TERMINATED and for the future. *)
JoinLoop ==
  /\ P!Goto("join", "return")
  /\ loop = "done" /\ WaitForState(thread_manager, "TERMINATED")
  /\ thread_manager' = NullManager
  /\ loop' = "none"
  /\ UNCHANGED <<requesterVars, socket, request, p_context, ledgerVars, netVars, fault, made>>

ReplierReturns ==
  /\ P!ResetTransition \/ P!Commit \/ P!HandlerThrew
  /\ UNCHANGED <<requesterVars, loopVars, ledgerVars, netVars, fault, made>>

-----------------------------------------------------------------------------
(* RequestHandler::Loop and ProcessRequest of the replier. *)

LoopAt(from, to) == loop = from /\ loop' = to

LoopConfigured ==
  /\ LoopAt("start", "waitActivate")
  /\ thread_manager' = SetState(thread_manager, "CONFIGURED")
  /\ UNCHANGED <<requesterVars, replierMachine, socket, request, p_context, ledgerVars, netVars, fault, made>>

LoopWaitsForActivate ==
  /\ WaitForTransition(thread_manager, "ACTIVATE")
  /\ LoopAt("waitActivate",
            IF "ACTIVATE" \in thread_manager.transitions THEN "activated" ELSE "terminating")
  /\ UNCHANGED <<requesterVars, replierMachine, thread_manager, socket, request, p_context,
                 ledgerVars, netVars, fault, made>>

LoopActivated ==
  /\ LoopAt("activated", "recv")
  /\ thread_manager' = SetState(thread_manager, "ACTIVE")
  /\ UNCHANGED <<requesterVars, replierMachine, socket, request, p_context, ledgerVars, netVars, fault, made>>

CountLoopError ==
  /\ made.loopErrors < MaxLoopErrors
  /\ made' = [made EXCEPT !.loopErrors = @ + 1]

(* recv returns a request; ProcessRequest counts it, unless StringToBase   *)
(* throws: that is logged, and the request is answered uncounted.          *)
LoopReceives(r) ==
  /\ \/ /\ LoopAt("recv", "state")
        /\ p_received' = p_received + 1
        /\ UNCHANGED made
     \/ /\ LoopAt("recv", "send")
        /\ CountLoopError
        /\ UNCHANGED p_received
  /\ wire' = wire \ {r}
  /\ request' = r
  /\ UNCHANGED <<requesterVars, replierMachine, thread_manager, socket, p_context,
                 p_processed, p_ignored, replies, fault>>

(* process_event reads state_ ... *)
LoopReadsState ==
  /\ \/ /\ p_state = "RUNNING"
        /\ LoopAt("state", "transition")
        /\ UNCHANGED p_ignored
     \/ /\ p_state # "RUNNING"
        /\ LoopAt("state", "send")
        /\ p_ignored' = p_ignored + 1
  /\ UNCHANGED <<requesterVars, replierMachine, thread_manager, socket, request, p_context,
                 p_received, p_processed, netVars, fault, made>>

(* Faulty variant: a request that is ignored still reaches the callback. *)
LoopReadsTransition_FallsThrough ==
  /\ LoopAt("transition", "callback")
  /\ p_ignored' = IF p_transition = "NO_TRANSITION" THEN p_ignored ELSE p_ignored + 1
  /\ UNCHANGED <<requesterVars, replierMachine, thread_manager, socket, request, p_context,
                 p_received, p_processed, netVars, fault, made>>

(* ... and transition_. *)
LoopReadsTransition ==
  /\ \/ /\ p_transition = "NO_TRANSITION"
        /\ LoopAt("transition", "callback")
        /\ UNCHANGED p_ignored
     \/ /\ p_transition # "NO_TRANSITION"
        /\ LoopAt("transition", "send")
        /\ p_ignored' = p_ignored + 1
  /\ UNCHANGED <<requesterVars, replierMachine, thread_manager, socket, request, p_context,
                 p_received, p_processed, netVars, fault, made>>

(* The callback returns or throws; the request counts as processed.        *)
LoopCallback ==
  /\ LoopAt("callback", "send")
  /\ p_processed' = p_processed + 1
  /\ UNCHANGED <<requesterVars, replierMachine, thread_manager, socket, request, p_context,
                 p_received, p_ignored, netVars, fault, made>>

(* The reply is sent whatever happened, and lost when nobody waits for it. *)
LoopSends ==
  /\ \/ /\ p_context = "open"
        /\ LoopAt("send", "recv")
        /\ replies' = IF \E c \in Callers : HasSocket(c) /\ caller[c].call = request
                        THEN replies \cup {request} ELSE replies
     \/ /\ p_context # "open"
        /\ LoopAt("send", "terminating")
        /\ UNCHANGED replies
  /\ request' = NoRequest
  /\ UNCHANGED <<requesterVars, replierMachine, thread_manager, socket, p_context, ledgerVars,
                 wire, fault, made>>

(* Faulty variant: the handler for ETERM is inside the while loop. *)
LoopInterrupted_Retries ==
  /\ p_context = "closing"
  /\ LoopAt("recv", "recv")
  /\ UNCHANGED <<requesterVars, replierMachine, thread_manager, socket, request, p_context,
                 ledgerVars, netVars, fault, made>>

(* recv throws ETERM. *)
LoopInterrupted ==
  /\ p_context = "closing"
  /\ LoopAt("recv", "terminating")
  /\ UNCHANGED <<requesterVars, replierMachine, thread_manager, socket, request, p_context,
                 ledgerVars, netVars, fault, made>>

(* recv throws another error (a signal): it is logged and the loop ends. *)
LoopError ==
  /\ LoopAt("recv", "terminating")
  /\ CountLoopError
  /\ UNCHANGED <<requesterVars, replierMachine, thread_manager, socket, request, p_context,
                 ledgerVars, netVars, fault>>

(* TERMINATED is raised and the function returns: its socket goes with it, *)
(* and so do requests that have arrived there.                             *)
LoopExits ==
  /\ LoopAt("terminating", "done")
  /\ thread_manager' = SetState(thread_manager, "TERMINATED")
  /\ socket' = FALSE
  /\ \E lost \in SUBSET wire : wire' = wire \ lost
  /\ UNCHANGED <<requesterVars, replierMachine, request, p_context, ledgerVars, replies, fault, made>>

-----------------------------------------------------------------------------
Requester == ResetContext \/ ContextClosed \/ RequesterReturns

Calling(c) ==
  \/ ReadTransition(c) \/ GetContext(c) \/ OpenSocket(c)
  \/ Send(c) \/ Receive(c) \/ PollTimesOut(c) \/ PollInterrupted(c)

Replier ==
  \/ RefuseConfigure \/ SpawnLoop \/ SetActivate \/ WaitForLoop
  \/ InterruptLoop \/ WaitForSockets \/ JoinLoop \/ ReplierReturns

Loop ==
  \/ LoopConfigured \/ LoopWaitsForActivate \/ LoopActivated
  \/ \E r \in wire : LoopReceives(r)
  \/ LoopReadsState \/ LoopReadsTransition \/ LoopCallback \/ LoopSends
  \/ LoopInterrupted \/ LoopExits

Next ==
  /\ ~ fault
  /\ \/ \E t \in Q!Request : RequesterTransition(t) \/ ReplierTransition(t)
     \/ Requester
     \/ \E c \in Callers : SendRequest(c) \/ Calling(c)
     \/ Replier \/ BindFails
     \/ Loop \/ LoopError

Spec == Init /\ [][Next]_vars

(* Threads that can go on do; a bind need not fail, and a poll times out.  *)
FairSpec ==
  /\ Spec
  /\ WF_vars(~ fault /\ Requester)
  /\ WF_vars(~ fault /\ Replier)
  /\ WF_vars(~ fault /\ Loop)
  /\ \A c \in Callers : WF_vars(~ fault /\ Calling(c))

-----------------------------------------------------------------------------
(* Properties. *)

(* When Passivate or Terminate of the replier has returned, its loop is    *)
(* out of every callback and has closed its socket, unlike a subscriber's. *)
PassivatedReplierIsQuiet ==
  p_ctl = "idle" /\ p_state \in {"NOT_RUNNING", "NOT_CONFIGURED"} =>
    loop \in {"none", "done"} /\ ~ socket

Ledger == INSTANCE MessageLedger
  WITH received <- p_received, processed <- p_processed, ignored <- p_ignored

(* The replier's counters keep the promise of every port, whenever its     *)
(* lifecycle moves between the reads of process_event and the callback.    *)
ReplierImplementsLedger == Ledger!LedgerSpec

(* A transition of either port returns: the contexts' destructors wait for *)
(* sockets that the callers and the loop only give up because their calls  *)
(* fail with ETERM or time out, whatever the callers and the peer do.      *)
PortsReturn ==
  /\ q_ctl # "idle" ~> (q_ctl = "idle" \/ fault)
  /\ p_ctl # "idle" ~> (p_ctl = "idle" \/ fault)
=============================================================================
