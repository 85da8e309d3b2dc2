------------------------- MODULE RequestReplyProofs -------------------------
(***************************************************************************)
(* Theorems about RequestReply for every set of callers and every bound.   *)
(* RequestReplyInv is the inductive invariant.  Its first parts follow the *)
(* replier's handlers and the life of its loop and its socket; the last is *)
(* about its counters.                                                     *)
(***************************************************************************)
EXTENDS RequestReply, FiniteSetTheorems, TLAPS

ReplierPoint ==
  {"idle", "configure", "activate", "interrupt", "throw", "waitConfigured", "waitActive",
   "waitClosed", "join", "return", "commit"}

LoopPoint ==
  {"none", "start", "waitActivate", "activated", "recv", "state", "transition", "callback",
   "send", "terminating", "done"}

CallerPoint == {"idle", "transition", "context", "open", "send", "poll"}

ReplierTypeOK ==
  /\ p_state \in P!State
  /\ p_op \in P!Transition
  /\ p_ctl \in ReplierPoint
  /\ p_context \in {"none", "open", "closing"}
  /\ thread_manager \in Manager
  /\ loop \in LoopPoint
  /\ socket \in BOOLEAN

RequesterTypeOK ==
  /\ caller \in [Callers -> [at : CallerPoint, call : Nat, context : Nat]]
  /\ q_context \in Nat
  /\ made \in [calls : Nat, q_configures : Nat, p_configures : Nat, bindFailures : Nat,
               loopErrors : Nat]

(* Each handler of the replier runs for the request that entered it, and   *)
(* the request is one that the transition table accepts.                   *)
HandlerMatchesRequest ==
  /\ p_ctl = "idle" <=> p_op = "NO_TRANSITION"
  /\ p_ctl \in {"configure", "waitConfigured"} => p_op = "CONFIGURE"
  /\ p_ctl \in {"activate", "waitActive"} => p_op = "ACTIVATE"
  /\ p_ctl \in {"interrupt", "waitClosed"} => p_op \in {"PASSIVATE", "TERMINATE"}
  /\ p_ctl = "join" => p_op = "TERMINATE"
  /\ p_ctl = "throw" => p_op \in {"CONFIGURE", "ACTIVATE"}
  /\ p_op = "CONFIGURE" => p_state = "NOT_CONFIGURED"
  /\ p_op = "ACTIVATE" => p_state = "CONFIGURED"
  /\ p_op = "PASSIVATE" => p_state = "RUNNING"
  /\ p_op = "TERMINATE" => p_state # "NOT_CONFIGURED"

(* The ThreadManager and its thread live from the middle of Configure to   *)
(* the end of HandleTerminate, and the loop owns its socket until it ends. *)
ManagerLives ==
  /\ loop = "none" <=> ~thread_manager.live
  /\ thread_manager.live <=>
       \/ p_state # "NOT_CONFIGURED" /\ ~(p_op = "TERMINATE" /\ p_ctl \in {"return", "commit"})
       \/ p_op = "CONFIGURE" /\ p_ctl \in {"waitConfigured", "return", "commit"}
  /\ socket <=> loop \notin {"none", "done"}

(* A loop that is alive has a context; Passivate and Terminate return with *)
(* none, and a passivated port keeps none.                                 *)
ContextOutlivesLoop ==
  /\ p_context = "none" => ~socket
  /\ p_ctl = "waitClosed" => p_context # "open"
  /\ p_op \in {"PASSIVATE", "TERMINATE"} /\ p_ctl \in {"join", "return", "commit"}
       => p_context = "none"
  /\ p_state = "NOT_RUNNING" => p_context = "none"

(* The loop holds the one request that is received and not yet settled. *)
LoopHoldsRequest ==
  /\ p_received \in Nat /\ p_processed \in Nat /\ p_ignored \in Nat
  /\ p_received = p_processed + p_ignored
                    + (IF loop \in {"state", "transition", "callback"} THEN 1 ELSE 0)

RequestReplyInv ==
  /\ RequesterTypeOK
  /\ ReplierTypeOK
  /\ HandlerMatchesRequest
  /\ ManagerLives
  /\ ContextOutlivesLoop
  /\ LoopHoldsRequest
-----------------------------------------------------------------------------
(* Facts about the operators. *)

(* The operations of a ThreadManager keep its type and its owner. *)
LEMMA ManagerTypes ==
  /\ NullManager \in Manager /\ ~NullManager.live
  /\ NewManager \in Manager /\ NewManager.live
  /\ \A m \in Manager : \A x \in ThreadState :
       SetState(m, x) \in Manager /\ SetState(m, x).live = m.live
  /\ \A m \in Manager : \A t \in ThreadTransition :
       SetTransition(m, t) \in Manager /\ SetTransition(m, t).live = m.live
  BY DEF Manager, NullManager, NewManager, SetState, SetTransition, ThreadState, ThreadTransition

(* The transition table, request by request. *)
LEMMA ReplierTable ==
  \A s \in P!State :
    /\ \A t \in P!Transition : P!NewState(s, t) \in P!State
    /\ P!NewState(s, "CONFIGURE") # s <=> s = "NOT_CONFIGURED"
    /\ P!NewState(s, "ACTIVATE") # s <=> s = "CONFIGURED"
    /\ P!NewState(s, "PASSIVATE") # s <=> s = "RUNNING"
    /\ P!NewState(s, "TERMINATE") # s <=> s # "NOT_CONFIGURED"
    /\ s = "NOT_CONFIGURED" => P!NewState(s, "CONFIGURE") = "CONFIGURED"
    /\ s = "CONFIGURED" => P!NewState(s, "ACTIVATE") = "RUNNING"
    /\ s = "RUNNING" => P!NewState(s, "PASSIVATE") = "NOT_RUNNING"
    /\ P!NewState(s, "TERMINATE") = "NOT_CONFIGURED"
  BY DEF P!NewState, P!State, P!Transition, P!Request

(* There is always a context that nobody knows of: the callers and the     *)
(* destructor that runs know one each.                                     *)
LEMMA NewContextExists ==
  ASSUME RequesterTypeOK, q_context = 0 PROVE NewContext \in Nat
<1> DEFINE n == Cardinality(Callers)
           known == {caller[c].context : c \in Callers}
           used == known \cup {q_closing}
           all == 1 .. n + 2
<1>1. IsFiniteSet(Callers) /\ n \in Nat
  BY RequestReplyAssumption, FS_CardinalityType
<1>2. IsFiniteSet(known) /\ Cardinality(known) <= n
  <2> DEFINE of == [c \in Callers |-> caller[c].context]
  <2>1. of \in Surjection(Callers, known)
    BY DEF Surjection
  <2>2. QED
    BY <1>1, <2>1, FS_Surjection
<1>3. IsFiniteSet(used) /\ Cardinality(used) \in Nat /\ Cardinality(used) <= n + 1
  <2> HIDE DEF known, n
  <2>1. Cardinality(known) \in Nat /\ n \in Nat
    BY <1>1, <1>2, FS_CardinalityType
  <2>2. CASE q_closing \in known
    <3>1. used = known
      BY <2>2
    <3>2. QED
      BY <1>2, <2>1, <3>1
  <2>3. CASE q_closing \notin known
    <3>1. IsFiniteSet(used) /\ Cardinality(used) = Cardinality(known) + 1
      BY <1>2, <2>3, FS_AddElement
    <3>2. QED
      BY <1>2, <2>1, <3>1
  <2>4. QED
    BY <2>2, <2>3
<1>4. Cardinality(all) = n + 2
  <2> HIDE DEF n
  <2>1. QED
    BY <1>1, FS_Interval
<1>5. ~(all \subseteq used)
  <2> HIDE DEF all, used, n
  <2>1. ASSUME all \subseteq used PROVE Cardinality(all) <= Cardinality(used)
    BY <1>3, <2>1, FS_Subset
  <2>2. QED
    BY <1>1, <1>3, <1>4, <2>1
<1>6. PICK k \in all : k \notin used
  BY <1>5
<1>7. k \notin {q_context, q_closing} \cup {caller[c].context : c \in Callers}
  BY <1>1, <1>6
<1>8. NewContext \in all
  BY <1>6, <1>7 DEF NewContext
<1>9. QED
  BY <1>1, <1>8

-----------------------------------------------------------------------------
(* What each kind of thread leaves alone. *)

RequesterStep ==
  \/ \E t \in Q!Request : RequesterTransition(t)
  \/ Requester
  \/ \E c \in Callers : SendRequest(c) \/ Calling(c)

ReplierStep ==
  \/ \E t \in Q!Request : ReplierTransition(t)
  \/ Replier \/ BindFails

(* The requester and its callers leave the replier alone. *)
LEMMA RequesterFrame == RequesterStep => UNCHANGED <<replierVars, request>>
  BY DEF RequesterStep, RequesterTransition, Requester, ResetContext, ContextClosed,
         RequesterReturns, SendRequest, Calling, ReadTransition, GetContext, OpenSocket, Send,
         Receive, PollTimesOut, PollInterrupted, replierVars, loopVars

(* The replier's controller leaves the requester, the wire and every       *)
(* counter alone.                                                          *)
LEMMA ReplierFrame ==
  ReplierStep => UNCHANGED <<requesterVars, netVars, request, ledgerVars>>
  BY DEF ReplierStep, ReplierTransition, Replier, BindFails, RefuseConfigure, SpawnLoop,
         SetActivate, WaitForLoop, InterruptLoop, WaitForSockets, JoinLoop, ReplierReturns,
         loopVars

(* The loop leaves both lifecycles, the callers and the context alone. *)
LEMMA LoopFrame ==
  Loop \/ LoopError => UNCHANGED <<requesterVars, replierMachine, p_context>>
  BY DEF Loop, LoopError, LoopConfigured, LoopWaitsForActivate, LoopActivated, LoopReceives,
         LoopReadsState, LoopReadsTransition, LoopCallback, LoopSends, LoopInterrupted, LoopExits

(* A step is one of the requester, the replier, its loop, or none. *)
LEMMA NextCases ==
  [Next]_vars => RequesterStep \/ ReplierStep \/ Loop \/ LoopError \/ UNCHANGED vars
  BY DEF Next, RequesterStep, ReplierStep

-----------------------------------------------------------------------------
(* Every part of RequestReplyInv is preserved by every step. *)

(* The callers keep their type. *)
LEMMA RequesterTypeStep == RequestReplyInv /\ [Next]_vars => RequesterTypeOK'
<1> SUFFICES ASSUME RequestReplyInv, [Next]_vars PROVE RequesterTypeOK'
  OBVIOUS
<1> USE DEF requesterVars, contextVars, RequesterTypeOK, CallerPoint
<1>0. RequesterTypeOK
  BY DEF RequestReplyInv
<1>1. CASE UNCHANGED vars
  BY <1>0, <1>1 DEF vars
<1>2. CASE ReplierStep
  <2>1. UNCHANGED <<caller, q_context>>
    BY <1>0, <1>2, ReplierFrame
  <2>2. CASE UNCHANGED made
    BY <1>0, <2>1, <2>2
  <2>3. CASE SpawnLoop
    BY <1>0, <2>1, <2>3 DEF SpawnLoop
  <2>4. CASE BindFails
    BY <1>0, <2>1, <2>4 DEF BindFails
  <2>5. QED
    BY <1>2, <2>2, <2>3, <2>4 DEF ReplierStep, ReplierTransition, Replier, RefuseConfigure,
       SetActivate, WaitForLoop, InterruptLoop, WaitForSockets, JoinLoop, ReplierReturns
<1>3. CASE Loop \/ LoopError
  <2>1. UNCHANGED <<caller, q_context>>
    BY <1>0, <1>3, LoopFrame
  <2>2. CASE UNCHANGED made
    BY <1>0, <2>1, <2>2
  <2>3. CASE CountLoopError
    BY <1>0, <2>1, <2>3 DEF CountLoopError
  <2>4. QED
    BY <1>3, <2>2, <2>3 DEF Loop, LoopError, LoopConfigured, LoopWaitsForActivate, LoopActivated,
       LoopReceives, LoopReadsState, LoopReadsTransition, LoopCallback, LoopSends,
       LoopInterrupted, LoopExits
<1>4. ASSUME NEW t \in Q!Request, RequesterTransition(t) PROVE RequesterTypeOK'
  BY <1>0, <1>4 DEF RequesterTransition
<1>5. CASE Requester
  BY <1>0, <1>5 DEF Requester, ResetContext, ContextClosed, RequesterReturns
<1>6. ASSUME NEW c \in Callers, SendRequest(c) \/ Calling(c) PROVE RequesterTypeOK'
  <2> USE DEF Idle, Finished
  <2>1. CASE SendRequest(c)
    <3>1. made.calls + 1 \in Nat
      BY <1>0
    <3>2. caller' \in [Callers -> [at : CallerPoint, call : Nat, context : Nat]]
      BY <1>0, <2>1, <3>1 DEF SendRequest
    <3>3. QED
      BY <1>0, <2>1, <3>1, <3>2 DEF SendRequest
  <2>2. CASE ReadTransition(c)
    BY <1>0, <2>2 DEF ReadTransition
  <2>3. CASE GetContext(c)
    <3>1. q_context' \in Nat
      BY <1>0, <2>3, NewContextExists DEF GetContext
    <3>2. QED
      BY <1>0, <2>3, <3>1 DEF GetContext
  <2>4. CASE OpenSocket(c)
    BY <1>0, <2>4 DEF OpenSocket
  <2>5. CASE Send(c)
    BY <1>0, <2>5 DEF Send
  <2>6. CASE Receive(c) \/ PollTimesOut(c) \/ PollInterrupted(c)
    BY <1>0, <2>6 DEF Receive, PollTimesOut, PollInterrupted
  <2>7. QED
    BY <1>6, <2>1, <2>2, <2>3, <2>4, <2>5, <2>6 DEF Calling
<1>7. QED
  BY <1>1, <1>2, <1>3, <1>4, <1>5, <1>6, NextCases DEF RequesterStep

(* The replier's variables keep their types. *)
LEMMA ReplierTypeStep == RequestReplyInv /\ [Next]_vars => ReplierTypeOK'
<1> SUFFICES ASSUME RequestReplyInv, [Next]_vars PROVE ReplierTypeOK'
  OBVIOUS
<1> USE DEF ReplierTypeOK, replierVars, replierMachine, loopVars, ReplierPoint, LoopPoint
<1>0. ReplierTypeOK /\ RequesterTypeOK
  BY DEF RequestReplyInv
<1>1. CASE UNCHANGED replierVars
  BY <1>0, <1>1
<1>2. ASSUME NEW t \in Q!Request, ReplierTransition(t) PROVE ReplierTypeOK'
  BY <1>0, <1>2 DEF ReplierTransition, P!Begin, Entry, Q!Request, P!Transition, P!Request
<1>3. CASE Replier \/ BindFails
  <2> USE DEF P!Goto
  <2>1. CASE RefuseConfigure \/ WaitForLoop
    BY <1>0, <2>1 DEF RefuseConfigure, WaitForLoop
  <2>2. CASE SpawnLoop
    BY <1>0, <2>2, ManagerTypes DEF SpawnLoop
  <2>3. CASE SetActivate
    BY <1>0, <2>3, ManagerTypes DEF SetActivate, ThreadTransition
  <2>4. CASE InterruptLoop
    BY <1>0, <2>4, ManagerTypes DEF InterruptLoop, ThreadTransition
  <2>5. CASE WaitForSockets
    BY <1>0, <2>5 DEF WaitForSockets
  <2>6. CASE JoinLoop
    BY <1>0, <2>6, ManagerTypes DEF JoinLoop
  <2>7. CASE ReplierReturns
    BY <1>0, <2>7, ReplierTable DEF ReplierReturns, P!ResetTransition, P!Commit, P!HandlerThrew,
                                    P!Transition
  <2>8. CASE BindFails
    BY <1>0, <2>8 DEF BindFails
  <2>9. QED
    BY <1>3, <2>1, <2>2, <2>3, <2>4, <2>5, <2>6, <2>7, <2>8 DEF Replier
<1>4. CASE Loop \/ LoopError
  <2>1. UNCHANGED <<p_state, p_op, p_ctl, p_context>>
    BY <1>0, <1>4, LoopFrame
  <2>2. thread_manager' \in Manager
    BY <1>0, <1>4, ManagerTypes DEF Loop, LoopError, LoopConfigured, LoopWaitsForActivate,
       LoopActivated, LoopReceives, LoopReadsState, LoopReadsTransition, LoopCallback, LoopSends,
       LoopInterrupted, LoopExits, ThreadState
  <2>3. loop' \in LoopPoint /\ socket' \in BOOLEAN
    BY <1>0, <1>4 DEF Loop, LoopError, LoopConfigured, LoopWaitsForActivate,
       LoopActivated, LoopReceives, LoopReadsState, LoopReadsTransition, LoopCallback, LoopSends,
       LoopInterrupted, LoopExits, LoopAt
  <2>4. QED
    BY <1>0, <2>1, <2>2, <2>3
<1>5. QED
  BY <1>1, <1>2, <1>3, <1>4, NextCases, RequesterFrame DEF ReplierStep, vars

(* A handler keeps its request until Commit, whatever the other threads do. *)
LEMMA HandlerMatchesStep == RequestReplyInv /\ [Next]_vars => HandlerMatchesRequest'
<1> SUFFICES ASSUME RequestReplyInv, [Next]_vars PROVE HandlerMatchesRequest'
  OBVIOUS
<1> USE DEF HandlerMatchesRequest, replierVars, replierMachine
<1>0. ReplierTypeOK /\ RequesterTypeOK /\ HandlerMatchesRequest
  BY DEF RequestReplyInv
<1>1. CASE UNCHANGED replierMachine
  BY <1>0, <1>1
<1>2. ASSUME NEW t \in Q!Request, ReplierTransition(t) PROVE HandlerMatchesRequest'
  BY <1>0, <1>2, ReplierTable DEF ReplierTransition, P!Begin, Entry, Q!Request, ReplierTypeOK
<1>3. CASE Replier \/ BindFails
  <2>1. CASE RefuseConfigure \/ WaitForLoop \/ SpawnLoop \/ SetActivate \/ BindFails
    BY <1>0, <2>1 DEF RefuseConfigure, WaitForLoop, SpawnLoop, SetActivate, BindFails, P!Goto
  <2>2. CASE InterruptLoop \/ WaitForSockets \/ JoinLoop
    BY <1>0, <2>2 DEF InterruptLoop, WaitForSockets, JoinLoop, P!Goto
  <2>3. CASE ReplierReturns
    BY <1>0, <2>3 DEF ReplierReturns, P!ResetTransition, P!Commit, P!HandlerThrew
  <2>4. QED
    BY <1>3, <2>1, <2>2, <2>3 DEF Replier
<1>4. QED
  BY <1>0, <1>1, <1>2, <1>3, NextCases, RequesterFrame, LoopFrame DEF ReplierStep, vars

(* Only Configure creates the loop's manager and only Terminate releases it. *)
LEMMA ManagerStep == RequestReplyInv /\ [Next]_vars => ManagerLives'
<1> SUFFICES ASSUME RequestReplyInv, [Next]_vars PROVE ManagerLives'
  OBVIOUS
<1> USE DEF ManagerLives, HandlerMatchesRequest, replierVars, replierMachine, loopVars
<1>0. ReplierTypeOK /\ RequesterTypeOK /\ HandlerMatchesRequest /\ ManagerLives
  BY DEF RequestReplyInv
<1>1. CASE UNCHANGED <<replierMachine, loopVars>>
  BY <1>0, <1>1
<1>2. ASSUME NEW t \in Q!Request, ReplierTransition(t) PROVE ManagerLives'
  BY <1>0, <1>2 DEF ReplierTransition, P!Begin, Entry, Q!Request
<1>3. CASE Replier \/ BindFails
  <2> USE DEF P!Goto
  <2>1. CASE RefuseConfigure \/ WaitForLoop \/ BindFails
    BY <1>0, <2>1 DEF RefuseConfigure, WaitForLoop, BindFails, CanConfigure
  <2>2. CASE SpawnLoop
    BY <1>0, <2>2, ManagerTypes DEF SpawnLoop
  <2>3. CASE SetActivate
    BY <1>0, <2>3, ManagerTypes DEF SetActivate, ThreadTransition, ReplierTypeOK
  <2>4. CASE InterruptLoop
    BY <1>0, <2>4, ManagerTypes DEF InterruptLoop, ThreadTransition, ReplierTypeOK
  <2>5. CASE WaitForSockets
    BY <1>0, <2>5 DEF WaitForSockets
  <2>6. CASE JoinLoop
    BY <1>0, <2>6, ManagerTypes DEF JoinLoop
  <2>7. CASE ReplierReturns
    BY <1>0, <2>7, ReplierTable DEF ReplierReturns, P!ResetTransition, P!Commit, P!HandlerThrew,
                                    P!Transition, P!Request, ReplierTypeOK
  <2>8. QED
    BY <1>3, <2>1, <2>2, <2>3, <2>4, <2>5, <2>6, <2>7 DEF Replier
<1>4. CASE Loop \/ LoopError
  <2>1. UNCHANGED <<p_state, p_op, p_ctl>>
    BY <1>0, <1>4, LoopFrame
  <2>2. thread_manager'.live = thread_manager.live
    BY <1>0, <1>4, ManagerTypes DEF Loop, LoopError, LoopConfigured, LoopWaitsForActivate,
       LoopActivated, LoopReceives, LoopReadsState, LoopReadsTransition, LoopCallback, LoopSends,
       LoopInterrupted, LoopExits, ThreadState, ReplierTypeOK
  <2>3. loop \notin {"none", "done"} /\ loop' # "none" /\ (socket' <=> loop' # "done")
    BY <1>0, <1>4 DEF Loop, LoopError, LoopConfigured, LoopWaitsForActivate,
       LoopActivated, LoopReceives, LoopReadsState, LoopReadsTransition, LoopCallback, LoopSends,
       LoopInterrupted, LoopExits, LoopAt
  <2>4. QED
    BY <1>0, <2>1, <2>2, <2>3
<1>5. QED
  BY <1>0, <1>1, <1>2, <1>3, <1>4, NextCases, RequesterFrame DEF ReplierStep, vars

(* The loop's socket keeps the context alive: InterruptLoop waits for it,  *)
(* and CanConfigure refuses to start over a context that is left.          *)
LEMMA ContextStep == RequestReplyInv /\ [Next]_vars => ContextOutlivesLoop'
<1> SUFFICES ASSUME RequestReplyInv, [Next]_vars PROVE ContextOutlivesLoop'
  OBVIOUS
<1> USE DEF ContextOutlivesLoop, HandlerMatchesRequest, replierVars, replierMachine, loopVars
<1>0. /\ ReplierTypeOK /\ RequesterTypeOK /\ HandlerMatchesRequest /\ ManagerLives
      /\ ContextOutlivesLoop
  BY DEF RequestReplyInv
<1>1. CASE UNCHANGED <<replierMachine, loopVars>>
  BY <1>0, <1>1
<1>2. ASSUME NEW t \in Q!Request, ReplierTransition(t) PROVE ContextOutlivesLoop'
  BY <1>0, <1>2 DEF ReplierTransition, P!Begin, Entry, Q!Request
<1>3. CASE Replier \/ BindFails
  <2> USE DEF P!Goto
  <2>1. CASE RefuseConfigure \/ WaitForLoop \/ SetActivate
    BY <1>0, <2>1 DEF RefuseConfigure, WaitForLoop, SetActivate
  <2>2. CASE SpawnLoop \/ BindFails
    BY <1>0, <2>2 DEF SpawnLoop, BindFails
  <2>3. CASE InterruptLoop
    BY <1>0, <2>3 DEF InterruptLoop
  <2>4. CASE WaitForSockets
    <3>1. ~socket
      BY <1>0, <2>4 DEF WaitForSockets, SocketsReleased, ReplierTypeOK
    <3>2. QED
      BY <1>0, <2>4, <3>1 DEF WaitForSockets
  <2>5. CASE JoinLoop
    BY <1>0, <2>5 DEF JoinLoop
  <2>6. CASE ReplierReturns
    BY <1>0, <2>6, ReplierTable DEF ReplierReturns, P!ResetTransition, P!Commit, P!HandlerThrew,
                                    P!Transition, P!Request, ReplierTypeOK
  <2>7. QED
    BY <1>3, <2>1, <2>2, <2>3, <2>4, <2>5, <2>6 DEF Replier
<1>4. CASE Loop \/ LoopError
  <2>1. UNCHANGED <<p_state, p_op, p_ctl, p_context>>
    BY <1>0, <1>4, LoopFrame
  <2>2. socket' => socket
    BY <1>0, <1>4 DEF Loop, LoopError, LoopConfigured, LoopWaitsForActivate,
       LoopActivated, LoopReceives, LoopReadsState, LoopReadsTransition, LoopCallback, LoopSends,
       LoopInterrupted, LoopExits
  <2>3. QED
    BY <1>0, <2>1, <2>2
<1>5. QED
  BY <1>0, <1>1, <1>2, <1>3, <1>4, NextCases, RequesterFrame DEF ReplierStep, vars

(* The loop's steps between recv and send, counter by counter. *)
LEMMA HoldsStep == RequestReplyInv /\ [Next]_vars => LoopHoldsRequest'
<1> SUFFICES ASSUME RequestReplyInv, [Next]_vars PROVE LoopHoldsRequest'
  OBVIOUS
<1> USE DEF LoopHoldsRequest, replierVars, ledgerVars, loopVars, LoopAt
<1>0. RequesterTypeOK /\ ManagerLives /\ LoopHoldsRequest
  BY DEF RequestReplyInv
<1>1. CASE UNCHANGED <<loop, ledgerVars>>
  BY <1>0, <1>1
<1>2. CASE ReplierStep
  <2>1. UNCHANGED ledgerVars
    BY <1>0, <1>2, ReplierFrame
  <2>2. \/ UNCHANGED loop
        \/ loop = "none" /\ loop' = "start"
        \/ loop = "done" /\ loop' = "none"
    BY <1>0, <1>2 DEF ReplierStep, ReplierTransition, Replier, BindFails, RefuseConfigure,
       SpawnLoop, SetActivate, WaitForLoop, InterruptLoop, WaitForSockets, JoinLoop,
       ReplierReturns, CanConfigure, ManagerLives
  <2>3. QED
    BY <1>0, <2>1, <2>2
<1>3. CASE LoopConfigured \/ LoopWaitsForActivate \/ LoopActivated
  BY <1>0, <1>3 DEF LoopConfigured, LoopWaitsForActivate, LoopActivated
<1>4. CASE LoopInterrupted \/ LoopExits \/ LoopError \/ LoopSends
  BY <1>0, <1>4 DEF LoopInterrupted, LoopExits, LoopError, LoopSends
<1>5. ASSUME NEW r \in wire, LoopReceives(r) PROVE LoopHoldsRequest'
  BY <1>0, <1>5 DEF LoopReceives
<1>6. CASE LoopReadsState \/ LoopReadsTransition \/ LoopCallback
  BY <1>0, <1>6 DEF LoopReadsState, LoopReadsTransition, LoopCallback
<1>7. QED
  BY <1>1, <1>2, <1>3, <1>4, <1>5, <1>6, NextCases, RequesterFrame DEF Loop, vars

(* The invariant holds before the first call. *)
LEMMA InitHolds == Init => RequestReplyInv
<1> SUFFICES ASSUME Init PROVE RequestReplyInv
  OBVIOUS
<1> USE DEF Init, P!MachineInit, Q!MachineInit
<1>1. RequesterTypeOK
  BY DEF RequesterTypeOK, CallerPoint, Idle
<1>2. ReplierTypeOK
  BY ManagerTypes DEF ReplierTypeOK, P!State, P!Transition, ReplierPoint, LoopPoint
<1>3. HandlerMatchesRequest /\ ManagerLives /\ ContextOutlivesLoop
  BY ManagerTypes DEF HandlerMatchesRequest, ManagerLives, ContextOutlivesLoop
<1>4. LoopHoldsRequest
  BY DEF LoopHoldsRequest
<1>5. QED
  BY <1>1, <1>2, <1>3, <1>4 DEF RequestReplyInv

-----------------------------------------------------------------------------
(* The theorems. *)

(* RequestReplyInv holds in every state that the two ports reach, however  *)
(* the calls, the loop and the transitions of both ports interleave.       *)
THEOREM RequestReplyInvariant == Spec => []RequestReplyInv
<1>1. RequestReplyInv /\ [Next]_vars => RequestReplyInv'
  BY RequesterTypeStep, ReplierTypeStep, HandlerMatchesStep, ManagerStep, ContextStep, HoldsStep
     DEF RequestReplyInv
<1>2. QED
  BY <1>1, InitHolds, PTL DEF Spec

(* When Passivate or Terminate of a replier port has returned, its loop is *)
(* out of every callback and its socket is closed: InterruptLoop waits for *)
(* the context, and the context for the socket.                            *)
THEOREM ReplierQuietWhenPassivated == Spec => []PassivatedReplierIsQuiet
<1>1. RequestReplyInv => PassivatedReplierIsQuiet
  BY DEF RequestReplyInv, PassivatedReplierIsQuiet, HandlerMatchesRequest, ManagerLives,
         ContextOutlivesLoop
<1>2. QED
  BY <1>1, RequestReplyInvariant, PTL

(* The counters of a replier port implement the ledger of every port: a    *)
(* request is counted as received once and then as processed or ignored.   *)
THEOREM ReplierLedger == Spec => ReplierImplementsLedger
<1> USE DEF ledgerVars, replierVars
<1>1. Init => Ledger!LedgerInit
  BY DEF Init, Ledger!LedgerInit
<1>2. RequestReplyInv /\ [Next]_vars => [Ledger!LedgerNext]_(Ledger!ledger)
  <2> SUFFICES ASSUME RequestReplyInv, [Next]_vars PROVE [Ledger!LedgerNext]_(Ledger!ledger)
    OBVIOUS
  <2> USE DEF Ledger!LedgerNext, Ledger!ledger, Ledger!CountReceived, Ledger!CountProcessed,
              Ledger!CountIgnored, LoopAt
  <2>0. RequesterTypeOK /\ LoopHoldsRequest
    BY DEF RequestReplyInv
  <2>1. CASE UNCHANGED ledgerVars
    BY <2>1
  <2>2. CASE ReplierStep
    BY <2>0, <2>1, <2>2, ReplierFrame
  <2>3. CASE LoopConfigured \/ LoopWaitsForActivate \/ LoopActivated
    BY <2>1, <2>3 DEF LoopConfigured, LoopWaitsForActivate, LoopActivated
  <2>4. CASE LoopInterrupted \/ LoopExits \/ LoopError \/ LoopSends
    BY <2>1, <2>4 DEF LoopInterrupted, LoopExits, LoopError, LoopSends
  <2>5. ASSUME NEW r \in wire, LoopReceives(r) PROVE [Ledger!LedgerNext]_(Ledger!ledger)
    BY <2>5 DEF LoopReceives
  <2>6. CASE LoopReadsState \/ LoopReadsTransition \/ LoopCallback
    <3>1. p_processed + p_ignored < p_received
      BY <2>0, <2>6 DEF LoopReadsState, LoopReadsTransition, LoopCallback, LoopHoldsRequest
    <3>2. QED
      BY <2>6, <3>1 DEF LoopReadsState, LoopReadsTransition, LoopCallback
  <2>7. QED
    BY <2>1, <2>2, <2>3, <2>4, <2>5, <2>6, NextCases, RequesterFrame DEF Loop, vars
<1>3. QED
  BY <1>1, <1>2, RequestReplyInvariant, PTL DEF Spec, ReplierImplementsLedger, Ledger!LedgerSpec

=============================================================================
