--------------------------- MODULE ProtoRmiProofs ---------------------------
(***************************************************************************)
(* Theorems about ProtoRmi for every number of calls, callers, retries,    *)
(* starts and failures.  RmiInv is the inductive invariant.  It follows a  *)
(* request from the queue over the wire to the callback and back: until it *)
(* is sent nobody has seen it, until it is served it is in one place, and  *)
(* of the requests sent on the present socket only the one that is polled  *)
(* for can still be answered.                                              *)
(***************************************************************************)
EXTENDS ProtoRmi, FiniteSetTheorems, TLAPS

(* Membership and distinctness of the elements of a sequence. *)
In(c, s) == \E i \in 1 .. Len(s) : s[i] = c

Distinct(s) == \A i, j \in 1 .. Len(s) : s[i] = s[j] => i = j

Outcome == Failures \cup Answers

CallerTypeOK ==
  /\ caller \in [Calls -> {"idle", "waiting"} \cup Outcome]
  /\ promise \in [Calls -> {"unset"} \cup Outcome]

WorkerTypeOK ==
  /\ request_queue \in Seq(Calls)
  /\ worker \in {"start", "check", "blocking", "waiting", "send", "poll", "replace", "ended",
                 "failed"}
  /\ request \in Calls \cup {None}
  /\ socket \in {"none", "ready", "awaiting"}
  /\ outgoing \in Calls \cup {None}
  /\ sent \in SUBSET Calls
  /\ incoming \in Seq(Calls)

ReplierTypeOK ==
  /\ inbox \in Seq(Calls)
  /\ replier \in {"stopped", "poll", "serve", "reply", "ended"}
  /\ serving \in Calls \cup {None}
  /\ runs \in [Calls -> Nat]
  /\ result \in [Calls -> {"none", "shutdown"} \cup Answers]

(* The worker holds a request that was taken from the queue, whose promise *)
(* is not settled yet.                                                     *)
WorkerHoldsRequest ==
  /\ Distinct(request_queue)
  /\ \A c \in Calls : In(c, request_queue) => caller[c] # "idle"
  /\ worker \in {"send", "poll"} =>
       /\ request \in Calls
       /\ caller[request] # "idle"
       /\ ~In(request, request_queue)
       /\ promise[request] = "unset"

(* A call on its way to the callback. *)
Travels(c) == c = outgoing \/ In(c, inbox) \/ (replier = "serve" /\ c = serving)

(* A call that was sent and is not answered yet. *)
InFlight(c) == c = outgoing \/ In(c, inbox) \/ c = serving \/ In(c, incoming)

(* Nobody has seen a request that is not sent yet. *)
Fresh(c) == promise[c] = "unset" /\ runs[c] = 0 /\ c \notin sent /\ ~InFlight(c)

FreshUntilSent ==
  \A c \in Calls :
    caller[c] = "idle" \/ In(c, request_queue) \/ (worker = "send" /\ c = request) => Fresh(c)

(* A request on its way is in one place, its callback has not run, and the *)
(* replier serves one that has left its inbox.                             *)
OnePlace ==
  /\ \A c \in Calls : Travels(c) => runs[c] = 0 /\ caller[c] # "idle"
  /\ Distinct(inbox)
  /\ outgoing # None => ~In(outgoing, inbox)
  /\ replier \in {"serve", "reply"} => serving \in Calls
  /\ replier = "serve" => serving # outgoing /\ ~In(serving, inbox)
  /\ replier \notin {"serve", "reply"} => serving = None
  /\ replier \in {"stopped", "ended"} => inbox = <<>>

(* Replies answer calls whose callback has run. *)
RepliesAreResults ==
  /\ replier = "reply" => runs[serving] # 0 /\ result[serving] \in Answers
  /\ \A c \in Calls : In(c, incoming) => runs[c] # 0 /\ result[c] \in Answers
  /\ \A c \in Calls : promise[c] \in Answers => runs[c] # 0 /\ promise[c] = result[c]

(* A REQ socket that is not awaiting has nothing left to be answered, and  *)
(* while the worker polls there is only its own request, once.             *)
OnlyAwaited ==
  /\ outgoing # None => outgoing \in sent
  /\ \A c \in Calls : In(c, incoming) => c \in sent
  /\ socket # "awaiting" => \A c \in sent : ~InFlight(c)
  /\ worker = "poll" =>
       /\ socket = "awaiting"
       /\ \A c \in sent : InFlight(c) => c = request
       /\ Len(incoming) <= 1
       /\ In(request, incoming) => serving # request

(* A socket that awaits a reply nobody polls for was left so by a timeout, *)
(* and refuses one request, unless the requester is being destroyed.       *)
Refused  == {c \in Calls : promise[c] = "refused"}
TimedOut == {c \in Calls : promise[c] = "timeout"}

Owes ==
  IF /\ socket = "awaiting" /\ context # "terminating"
     /\ worker \in {"check", "blocking", "waiting", "send"}
  THEN 1 ELSE 0

TimeoutPerRefusal ==
  /\ context = "terminating" => destroyer \notin {"none", "notify"}
  /\ Cardinality(Refused) + Owes <= Cardinality(TimedOut)

RmiInv ==
  /\ CallerTypeOK
  /\ WorkerTypeOK
  /\ ReplierTypeOK
  /\ WorkerHoldsRequest
  /\ FreshUntilSent
  /\ OnePlace
  /\ RepliesAreResults
  /\ OnlyAwaited
  /\ TimeoutPerRefusal
-----------------------------------------------------------------------------
(* Facts about sequences of calls. *)

(* What Append adds to the elements of a sequence. *)
LEMMA InAppend ==
  \A s \in Seq(Calls), x \in Calls :
    /\ Append(s, x) \in Seq(Calls)
    /\ \A c : In(c, Append(s, x)) <=> In(c, s) \/ c = x
    /\ Distinct(s) /\ ~In(x, s) => Distinct(Append(s, x))
<1>1. ASSUME NEW s \in Seq(Calls), NEW x \in Calls
      PROVE  Append(s, x) \in Seq(Calls) /\ \A c : In(c, Append(s, x)) <=> In(c, s) \/ c = x
  BY DEF In
<1>2. ASSUME NEW s \in Seq(Calls), NEW x \in Calls, Distinct(s), ~In(x, s)
      PROVE  Distinct(Append(s, x))
  BY <1>2 DEF In, Distinct
<1>3. QED
  BY <1>1, <1>2

(* A sequence is its head and its tail. *)
LEMMA InTail ==
  \A s \in Seq(Calls) : s # <<>> =>
    /\ Head(s) \in Calls /\ Tail(s) \in Seq(Calls)
    /\ Len(Tail(s)) = Len(s) - 1
    /\ \A c : In(c, s) <=> c = Head(s) \/ In(c, Tail(s))
    /\ Distinct(s) => Distinct(Tail(s)) /\ ~In(Head(s), Tail(s))
<1> SUFFICES ASSUME NEW s \in Seq(Calls), s # <<>>
             PROVE  /\ Head(s) \in Calls /\ Tail(s) \in Seq(Calls)
                    /\ Len(Tail(s)) = Len(s) - 1
                    /\ \A c : In(c, s) <=> c = Head(s) \/ In(c, Tail(s))
                    /\ Distinct(s) => Distinct(Tail(s)) /\ ~In(Head(s), Tail(s))
  OBVIOUS
<1>1. Head(s) \in Calls /\ Tail(s) \in Seq(Calls) /\ Len(Tail(s)) = Len(s) - 1
  OBVIOUS
<1>2. Len(s) \in Nat /\ Len(s) >= 1 /\ s[1] = Head(s)
  OBVIOUS
<1>3. \A i \in 1 .. Len(s) - 1 : Tail(s)[i] = s[i + 1]
  OBVIOUS
<1>4. ASSUME NEW c, In(c, s) PROVE c = Head(s) \/ In(c, Tail(s))
  <2>1. PICK i \in 1 .. Len(s) : s[i] = c
    BY <1>4 DEF In
  <2>2. CASE i = 1
    BY <1>2, <2>1, <2>2
  <2>3. CASE i # 1
    <3>1. i - 1 \in 1 .. Len(Tail(s)) /\ Tail(s)[i - 1] = c
      BY <1>1, <1>2, <1>3, <2>1, <2>3
    <3>2. QED
      BY <3>1 DEF In
  <2>4. QED
    BY <2>2, <2>3
<1>5. ASSUME NEW c, c = Head(s) \/ In(c, Tail(s)) PROVE In(c, s)
  BY <1>1, <1>2, <1>3, <1>5 DEF In
<1>6. ASSUME Distinct(s) PROVE Distinct(Tail(s)) /\ ~In(Head(s), Tail(s))
  BY <1>1, <1>2, <1>3, <1>6 DEF In, Distinct
<1>7. QED
  BY <1>1, <1>4, <1>5, <1>6

(* Nothing is in the empty sequence, and a sequence without elements is it. *)
LEMMA InEmpty ==
  /\ <<>> \in Seq(Calls) /\ Distinct(<<>>) /\ \A c : ~In(c, <<>>)
  /\ \A s \in Seq(Calls) : (\A c \in Calls : ~In(c, s)) => s = <<>>
<1>1. <<>> \in Seq(Calls) /\ Distinct(<<>>) /\ \A c : ~In(c, <<>>)
  BY DEF In, Distinct
<1>2. ASSUME NEW s \in Seq(Calls), \A c \in Calls : ~In(c, s) PROVE s = <<>>
  BY <1>2, InTail
<1>3. QED
  BY <1>1, <1>2

(* A call is a positive number, which None is not. *)
LEMMA NoneIsNoCall == None \notin Calls
  BY DEF None, Calls

-----------------------------------------------------------------------------
(* What each kind of thread leaves alone. *)

CallerStep == \E c \in Calls : GetFuture(c) \/ CallerTimesOut(c)

(* A caller that waits for its future changes only what it knows. *)
LEMMA CallerFrame ==
  CallerStep => UNCHANGED <<promise, workerVars, ownerVars, wireVars, replierVars>>
  BY DEF CallerStep, GetFuture, CallerTimesOut

ReplierStep ==
  \/ Deliver \/ Start \/ TerminateReplier \/ ReplierPollTimesOut \/ ReceiveRequest
  \/ RunCallback \/ SendReply \/ ReplierInterrupted \/ ReplierTerminated

(* The replier leaves the callers, the worker and what it has sent alone. *)
LEMMA ReplierFrame ==
  ReplierStep => UNCHANGED <<callerVars, workerVars, ownerVars, sent>>
  BY DEF ReplierStep, Deliver, Start, TerminateReplier, ReplierPollTimesOut, ReceiveRequest,
         RunCallback, SendReply, ReplierInterrupted, ReplierTerminated, wireVars

RequesterStep ==
  \/ \E c \in Calls : SendRequest(c)
  \/ NewSocket \/ WorkerCheck \/ WorkerSleeps \/ ProcessRequest \/ ReceiveReply
  \/ PollTimesOut \/ PollInterrupted \/ UnsetContext \/ NotifyAndTerminate \/ Destroyed

(* The requester and its owner leave the replier alone. *)
LEMMA RequesterFrame == RequesterStep => UNCHANGED replierVars
  BY DEF RequesterStep, SendRequest, NewSocket, WorkerCheck, WorkerSleeps, ProcessRequest,
         ReceiveReply, PollTimesOut, PollInterrupted, UnsetContext, NotifyAndTerminate, Destroyed

(* A step is one of a caller, the replier, the requester, or none. *)
LEMMA NextCases ==
  [Next]_vars => CallerStep \/ ReplierStep \/ RequesterStep \/ UNCHANGED vars
  BY DEF Next, CallerStep, ReplierStep, RequesterStep, CallerThread, WorkerThread, OwnerThread,
         ReplierThread

-----------------------------------------------------------------------------
(* Every part of RmiInv is preserved by every step. *)

(* A promise is settled with a failure or with a result of the callback. *)
LEMMA CallerTypeStep == RmiInv /\ [Next]_vars => CallerTypeOK'
<1> SUFFICES ASSUME RmiInv, [Next]_vars PROVE CallerTypeOK'
  OBVIOUS
<1> USE DEF CallerTypeOK, callerVars, Outcome, Failures, Answers
<1>0. CallerTypeOK /\ WorkerTypeOK /\ RepliesAreResults
  BY DEF RmiInv
<1>1. CASE UNCHANGED callerVars
  BY <1>0, <1>1
<1>2. CASE CallerStep
  BY <1>0, <1>2 DEF CallerStep, GetFuture, CallerTimesOut
<1>3. ASSUME NEW c \in Calls, SendRequest(c) PROVE CallerTypeOK'
  BY <1>0, <1>3 DEF SendRequest
<1>4. CASE NewSocket \/ WorkerSleeps \/ UnsetContext \/ NotifyAndTerminate
  BY <1>0, <1>4 DEF NewSocket, WorkerSleeps, UnsetContext, NotifyAndTerminate
<1>5. CASE WorkerCheck \/ Destroyed
  BY <1>0, <1>5 DEF WorkerCheck, Destroyed, Broken
<1>6. CASE ProcessRequest \/ PollTimesOut \/ PollInterrupted
  BY <1>0, <1>6 DEF ProcessRequest, PollTimesOut, PollInterrupted, Settle, Refuse
<1>7. CASE ReceiveReply
  <2>1. result[Head(incoming)] \in Answers
    BY <1>0, <1>7, InTail DEF ReceiveReply, WorkerTypeOK, RepliesAreResults
  <2>2. QED
    BY <1>0, <1>7, <2>1 DEF ReceiveReply, Settle
<1>8. QED
  BY <1>1, <1>2, <1>3, <1>4, <1>5, <1>6, <1>7, NextCases, ReplierFrame DEF RequesterStep, vars

(* The worker, its queue and its socket keep their types. *)
LEMMA WorkerTypeStep == RmiInv /\ [Next]_vars => WorkerTypeOK'
<1> SUFFICES ASSUME RmiInv, [Next]_vars PROVE WorkerTypeOK'
  OBVIOUS
<1> USE DEF WorkerTypeOK, workerVars, wireVars
<1>0. WorkerTypeOK /\ ReplierTypeOK /\ WorkerHoldsRequest /\ OnePlace
  BY DEF RmiInv
<1>1. CASE UNCHANGED <<workerVars, wireVars>>
  BY <1>0, <1>1
<1>2. ASSUME NEW c \in Calls, SendRequest(c) PROVE WorkerTypeOK'
  BY <1>0, <1>2, InAppend DEF SendRequest
<1>3. CASE NewSocket \/ WorkerSleeps
  BY <1>0, <1>3, InEmpty DEF NewSocket, WorkerSleeps, Replace, CloseSocket
<1>4. CASE WorkerCheck
  BY <1>0, <1>4, InEmpty, InTail DEF WorkerCheck, CloseSocket
<1>5. CASE ProcessRequest
  BY <1>0, <1>5 DEF ProcessRequest, Refuse, WorkerHoldsRequest
<1>6. CASE ReceiveReply
  BY <1>0, <1>6, InTail DEF ReceiveReply
<1>7. CASE PollTimesOut \/ PollInterrupted
  BY <1>0, <1>7 DEF PollTimesOut, PollInterrupted
<1>8. CASE UnsetContext \/ NotifyAndTerminate \/ Destroyed
  BY <1>0, <1>8, InEmpty DEF UnsetContext, NotifyAndTerminate, Destroyed
<1>9. CASE ReplierStep
  <2>1. UNCHANGED <<workerVars, sent>>
    BY <1>9, ReplierFrame
  <2>2. CASE UNCHANGED <<outgoing, incoming>>
    BY <1>0, <2>1, <2>2
  <2>3. CASE Deliver
    BY <1>0, <2>1, <2>3 DEF Deliver
  <2>4. CASE SendReply
    <3>1. serving \in Calls
      BY <1>0, <2>4 DEF SendReply, OnePlace
    <3>2. incoming' \in Seq(Calls)
      BY <1>0, <2>4, <3>1, InAppend DEF SendReply
    <3>3. QED
      BY <1>0, <2>1, <2>4, <3>2 DEF SendReply
  <2>5. QED
    BY <1>9, <2>2, <2>3, <2>4 DEF ReplierStep, Start, TerminateReplier, ReplierPollTimesOut,
       ReceiveRequest, RunCallback, ReplierInterrupted, ReplierTerminated
<1>10. QED
  BY <1>1, <1>2, <1>3, <1>4, <1>5, <1>6, <1>7, <1>8, <1>9, NextCases, CallerFrame
     DEF RequesterStep, vars

(* The replier keeps its types. *)
LEMMA ReplierTypeStep == RmiInv /\ [Next]_vars => ReplierTypeOK'
<1> SUFFICES ASSUME RmiInv, [Next]_vars PROVE ReplierTypeOK'
  OBVIOUS
<1> USE DEF ReplierTypeOK, replierVars, Answers
<1>0. WorkerTypeOK /\ ReplierTypeOK /\ OnePlace
  BY DEF RmiInv
<1>1. CASE UNCHANGED replierVars
  BY <1>0, <1>1
<1>2. CASE Deliver
  BY <1>0, <1>2, InAppend DEF Deliver, WorkerTypeOK
<1>3. CASE Start \/ TerminateReplier \/ ReplierTerminated
  BY <1>0, <1>3 DEF Start, TerminateReplier, ReplierTerminated
<1>4. CASE ReplierPollTimesOut \/ ReplierInterrupted
  BY <1>0, <1>4, InEmpty DEF ReplierPollTimesOut, ReplierInterrupted, EndReplier
<1>5. CASE ReceiveRequest
  BY <1>0, <1>5, InTail DEF ReceiveRequest
<1>6. CASE RunCallback
  <2>1. runs' \in [Calls -> Nat]
    <3>1. serving \in Calls
      BY <1>0, <1>6 DEF RunCallback, OnePlace
    <3>2. runs[serving] + 1 \in Nat
      BY <1>0, <3>1
    <3>3. QED
      BY <1>0, <1>6, <3>2 DEF RunCallback
  <2>2. result' \in [Calls -> {"none", "shutdown"} \cup Answers]
    BY <1>0, <1>6 DEF RunCallback
  <2>3. inbox' \in Seq(Calls) /\ serving' \in Calls \cup {None}
    BY <1>0, <1>6, InEmpty DEF RunCallback, EndReplier
  <2>4. replier' \in {"reply", "ended"}
    BY <1>6 DEF RunCallback, EndReplier
  <2>5. QED
    BY <2>1, <2>2, <2>3, <2>4
<1>7. CASE SendReply
  BY <1>0, <1>7, InEmpty DEF SendReply, EndReplier
<1>8. QED
  BY <1>1, <1>2, <1>3, <1>4, <1>5, <1>6, <1>7, NextCases, CallerFrame, RequesterFrame
     DEF ReplierStep, vars

(* The worker takes each request from the queue once and settles it once. *)
LEMMA WorkerHoldsStep == RmiInv /\ [Next]_vars => WorkerHoldsRequest'
<1> SUFFICES ASSUME RmiInv, [Next]_vars PROVE WorkerHoldsRequest'
  OBVIOUS
<1> USE DEF WorkerHoldsRequest, callerVars, workerVars
<1>0. CallerTypeOK /\ WorkerTypeOK /\ WorkerHoldsRequest /\ FreshUntilSent
  BY DEF RmiInv
<1>1. CASE UNCHANGED <<callerVars, workerVars>>
  BY <1>0, <1>1
<1>2. CASE CallerStep
  <2>1. UNCHANGED <<promise, workerVars>>
    BY <1>2, CallerFrame
  <2>2. \A c \in Calls : caller[c] # "idle" => caller'[c] # "idle"
    BY <1>0, <1>2 DEF CallerStep, GetFuture, CallerTimesOut, CallerTypeOK, Outcome, Failures,
       Answers
  <2>3. QED
    BY <1>0, <2>1, <2>2
<1>3. ASSUME NEW c \in Calls, SendRequest(c) PROVE WorkerHoldsRequest'
  <2>1. ~In(c, request_queue) /\ (worker \in {"send", "poll"} => request # c)
    BY <1>0, <1>3 DEF SendRequest
  <2>2. request_queue' = Append(request_queue, c) /\ UNCHANGED <<promise, request>>
    BY <1>3 DEF SendRequest
  <2>3. worker' \in {"send", "poll"} => worker = worker'
    BY <1>3 DEF SendRequest
  <2>4. \A d \in Calls : caller'[d] # "idle" <=> caller[d] # "idle" \/ d = c
    BY <1>0, <1>3 DEF SendRequest, CallerTypeOK
  <2>5. /\ Distinct(request_queue')
        /\ \A d \in Calls : In(d, request_queue') <=> In(d, request_queue) \/ d = c
    BY <1>0, <2>1, <2>2, InAppend DEF WorkerTypeOK
  <2>6. QED
    BY <1>0, <2>1, <2>2, <2>3, <2>4, <2>5
<1>4. CASE NewSocket \/ WorkerSleeps \/ UnsetContext \/ NotifyAndTerminate
  BY <1>0, <1>4 DEF NewSocket, WorkerSleeps, UnsetContext, NotifyAndTerminate
<1>5. CASE WorkerCheck
  <2>1. CASE request_queue # <<>> /\ context = "set"
    <3>1. /\ worker' = "send" /\ request' = Head(request_queue)
          /\ request_queue' = Tail(request_queue)
          /\ UNCHANGED <<promise, caller>>
      BY <1>5, <2>1 DEF WorkerCheck
    <3>2. In(request', request_queue) /\ request' \in Calls
      BY <1>0, <2>1, <3>1, InTail DEF WorkerTypeOK
    <3>3. /\ Distinct(request_queue') /\ ~In(request', request_queue')
          /\ \A c \in Calls : In(c, request_queue') => In(c, request_queue)
      BY <1>0, <2>1, <3>1, InTail DEF WorkerTypeOK
    <3>4. promise[request'] = "unset"
      BY <1>0, <3>2 DEF FreshUntilSent, Fresh
    <3>5. QED
      BY <1>0, <3>1, <3>2, <3>3, <3>4
  <2>2. CASE ~ (request_queue # <<>> /\ context = "set")
    BY <1>0, <1>5, <2>2, InEmpty DEF WorkerCheck
  <2>3. QED
    BY <2>1, <2>2
<1>6. CASE ProcessRequest
  BY <1>0, <1>6 DEF ProcessRequest, Refuse
<1>7. CASE ReceiveReply \/ PollTimesOut \/ PollInterrupted
  BY <1>0, <1>7 DEF ReceiveReply, PollTimesOut, PollInterrupted
<1>8. CASE Destroyed
  BY <1>0, <1>8, InEmpty DEF Destroyed
<1>9. QED
  BY <1>1, <1>2, <1>3, <1>4, <1>5, <1>6, <1>7, <1>8, NextCases, ReplierFrame
     DEF RequesterStep, vars

(* A request is unseen until ProcessRequest sends it. *)
LEMMA FreshStep == RmiInv /\ [Next]_vars => FreshUntilSent'
<1> SUFFICES ASSUME RmiInv, [Next]_vars,
                    NEW c \in Calls,
                    (caller[c] = "idle" \/ In(c, request_queue) \/ (worker = "send" /\ c = request))'
             PROVE  Fresh(c)'
  BY DEF FreshUntilSent
<1> USE DEF Fresh, InFlight, callerVars, workerVars, wireVars, replierVars
<1>0. /\ CallerTypeOK /\ WorkerTypeOK /\ ReplierTypeOK /\ WorkerHoldsRequest /\ FreshUntilSent
      /\ OnePlace
  BY DEF RmiInv
<1>n. c # None
  BY NoneIsNoCall
<1>1. CASE UNCHANGED <<callerVars, workerVars, wireVars, replierVars>>
  BY <1>0, <1>1 DEF FreshUntilSent
<1>2. CASE CallerStep
  <2>1. UNCHANGED <<promise, workerVars, wireVars, replierVars>>
    BY <1>2, CallerFrame
  <2>2. caller'[c] = "idle" => caller[c] = "idle"
    BY <1>0, <1>2 DEF CallerStep, GetFuture, CallerTimesOut, CallerTypeOK, Outcome, Failures,
       Answers
  <2>3. QED
    BY <1>0, <2>1, <2>2 DEF FreshUntilSent
<1>3. ASSUME NEW d \in Calls, SendRequest(d) PROVE Fresh(c)'
  <2>1. In(c, request_queue') <=> In(c, request_queue) \/ c = d
    BY <1>0, <1>3, InAppend DEF SendRequest, WorkerTypeOK
  <2>2. caller[d] = "idle" /\ (caller'[c] = "idle" => caller[c] = "idle")
    BY <1>0, <1>3 DEF SendRequest, CallerTypeOK
  <2>3. worker' = "send" => worker = "send"
    BY <1>3 DEF SendRequest
  <2>4. Fresh(c)
    BY <1>0, <1>3, <2>1, <2>2, <2>3 DEF FreshUntilSent, SendRequest
  <2>5. QED
    BY <1>3, <2>4 DEF SendRequest
<1>4. CASE NewSocket
  <2>1. Fresh(c)
    BY <1>0, <1>4 DEF FreshUntilSent, NewSocket
  <2>2. QED
    BY <1>n, <1>4, <2>1, InEmpty DEF NewSocket, Replace, CloseSocket
<1>5. CASE WorkerCheck
  <2>1. CASE context # "set"
    <3>1. caller[c] = "idle"
      BY <1>5, <2>1, InEmpty DEF WorkerCheck
    <3>2. Fresh(c) /\ ~In(c, request_queue)
      BY <1>0, <3>1 DEF FreshUntilSent, WorkerHoldsRequest
    <3>3. promise'[c] = "unset"
      BY <1>5, <2>1, <3>2 DEF WorkerCheck, Broken, Queued, In
    <3>4. QED
      BY <1>n, <1>5, <2>1, <3>2, <3>3, InEmpty DEF WorkerCheck, CloseSocket
  <2>2. CASE context = "set"
    <3>1. caller[c] = "idle" \/ In(c, request_queue)
      BY <1>0, <1>5, <2>2, InTail DEF WorkerCheck, WorkerTypeOK
    <3>2. QED
      BY <1>0, <1>5, <2>2, <3>1 DEF WorkerCheck, FreshUntilSent
  <2>3. QED
    BY <2>1, <2>2
<1>6. CASE ProcessRequest
  <2>1. caller[c] = "idle" \/ In(c, request_queue)
    BY <1>6 DEF ProcessRequest, Refuse
  <2>2. Fresh(c) /\ c # request
    BY <1>0, <1>6, <2>1 DEF FreshUntilSent, WorkerHoldsRequest, ProcessRequest
  <2>3. promise'[c] = "unset"
    BY <1>0, <1>6, <2>2 DEF ProcessRequest, Settle, Refuse, CallerTypeOK
  <2>4. outgoing' \in {outgoing, request} /\ sent' \subseteq sent \cup {request}
    BY <1>6 DEF ProcessRequest
  <2>5. QED
    BY <1>6, <2>2, <2>3, <2>4 DEF ProcessRequest
<1>7. CASE ReceiveReply \/ PollTimesOut \/ PollInterrupted
  <2>1. caller[c] = "idle" \/ In(c, request_queue)
    BY <1>7 DEF ReceiveReply, PollTimesOut, PollInterrupted
  <2>2. Fresh(c) /\ c # request
    BY <1>0, <1>7, <2>1 DEF FreshUntilSent, WorkerHoldsRequest, ReceiveReply, PollTimesOut,
       PollInterrupted
  <2>3. promise'[c] = "unset"
    BY <1>0, <1>7, <2>2 DEF ReceiveReply, PollTimesOut, PollInterrupted, Settle, CallerTypeOK
  <2>4. In(c, incoming') => In(c, incoming)
    BY <1>0, <1>7, InTail DEF ReceiveReply, PollTimesOut, PollInterrupted, WorkerTypeOK
  <2>5. QED
    BY <1>7, <2>2, <2>3, <2>4 DEF ReceiveReply, PollTimesOut, PollInterrupted
<1>8. CASE WorkerSleeps \/ UnsetContext \/ NotifyAndTerminate
  <2>1. Fresh(c)
    BY <1>0, <1>8 DEF WorkerSleeps, UnsetContext, NotifyAndTerminate, FreshUntilSent
  <2>2. QED
    BY <1>8, <2>1 DEF WorkerSleeps, UnsetContext, NotifyAndTerminate
<1>9. CASE Destroyed
  <2>1. caller[c] = "idle"
    BY <1>9, InEmpty DEF Destroyed
  <2>2. Fresh(c) /\ ~In(c, request_queue)
    BY <1>0, <2>1 DEF FreshUntilSent, WorkerHoldsRequest
  <2>3. promise'[c] = "unset"
    BY <1>9, <2>2 DEF Destroyed, Broken, Queued, In
  <2>4. QED
    BY <1>9, <2>2, <2>3 DEF Destroyed
<1>10. CASE ReplierStep
  <2>1. Fresh(c) /\ UNCHANGED <<promise, sent>>
    BY <1>0, <1>10, ReplierFrame DEF FreshUntilSent
  <2>2. CASE Deliver
    BY <1>0, <1>n, <2>1, <2>2, InAppend DEF Deliver, WorkerTypeOK, ReplierTypeOK
  <2>3. CASE Start \/ TerminateReplier \/ ReplierTerminated
    BY <2>1, <2>3 DEF Start, TerminateReplier, ReplierTerminated
  <2>4. CASE ReplierPollTimesOut \/ ReplierInterrupted
    BY <1>n, <2>1, <2>4, InEmpty DEF ReplierPollTimesOut, ReplierInterrupted, EndReplier
  <2>5. CASE ReceiveRequest
    BY <1>0, <2>1, <2>5, InTail DEF ReceiveRequest, ReplierTypeOK
  <2>6. CASE RunCallback
    <3>1. runs'[c] = 0
      BY <1>0, <2>1, <2>6 DEF RunCallback, ReplierTypeOK
    <3>2. QED
      BY <1>n, <2>1, <2>6, <3>1, InEmpty DEF RunCallback, EndReplier
  <2>7. CASE SendReply
    <3>1. serving \in Calls /\ incoming \in Seq(Calls)
      BY <1>0, <2>7 DEF SendReply, WorkerTypeOK, OnePlace
    <3>2. incoming' \in {incoming, Append(incoming, serving)}
      BY <2>7 DEF SendReply
    <3>3. In(c, Append(incoming, serving)) <=> In(c, incoming) \/ c = serving
      BY <3>1, InAppend
    <3>4. In(c, incoming') => In(c, incoming) \/ c = serving
      BY <3>2, <3>3
    <3>5. QED
      BY <1>n, <2>1, <2>7, <3>4, InEmpty DEF SendReply, EndReplier
  <2>8. QED
    BY <1>10, <2>2, <2>3, <2>4, <2>5, <2>6, <2>7 DEF ReplierStep
<1>11. QED
  BY <1>1, <1>2, <1>3, <1>4, <1>5, <1>6, <1>7, <1>8, <1>9, <1>10, NextCases
     DEF RequesterStep, vars

(* From the pipe to the inbox to the callback, a request is moved and      *)
(* never copied.                                                           *)
LEMMA OnePlaceStep == RmiInv /\ [Next]_vars => OnePlace'
<1> SUFFICES ASSUME RmiInv, [Next]_vars PROVE OnePlace'
  OBVIOUS
<1> USE DEF OnePlace, Travels, callerVars, workerVars, wireVars, replierVars
<1>0. /\ CallerTypeOK /\ WorkerTypeOK /\ ReplierTypeOK /\ WorkerHoldsRequest /\ FreshUntilSent
      /\ OnePlace
  BY DEF RmiInv
<1>n. \A c \in Calls : c # None
  BY NoneIsNoCall
<1>1. CASE UNCHANGED <<caller, outgoing, replierVars>>
  BY <1>0, <1>1
<1>2. CASE \/ CallerStep
           \/ \E d \in Calls : SendRequest(d)
  <2>1. UNCHANGED <<outgoing, replierVars>>
    BY <1>2, CallerFrame DEF SendRequest
  <2>2. \A c \in Calls : caller[c] # "idle" => caller'[c] # "idle"
    BY <1>0, <1>2 DEF CallerStep, GetFuture, CallerTimesOut, SendRequest, CallerTypeOK, Outcome,
       Failures, Answers
  <2>3. QED
    BY <1>0, <2>1, <2>2
<1>3. CASE NewSocket \/ WorkerCheck
  <2>1. UNCHANGED <<caller, replierVars>>
    BY <1>3 DEF NewSocket, WorkerCheck
  <2>2. outgoing' \in {outgoing, None}
    BY <1>3 DEF NewSocket, WorkerCheck, Replace, CloseSocket
  <2>3. QED
    BY <1>0, <1>n, <2>1, <2>2
<1>4. CASE ProcessRequest
  <2>1. UNCHANGED <<caller, replierVars>>
    BY <1>4 DEF ProcessRequest
  <2>2. outgoing' \in {outgoing, request}
    BY <1>4 DEF ProcessRequest
  <2>3. /\ request \in Calls /\ caller[request] # "idle" /\ runs[request] = 0
        /\ ~In(request, inbox) /\ request # serving
    BY <1>0, <1>4 DEF ProcessRequest, WorkerHoldsRequest, FreshUntilSent, Fresh, InFlight
  <2>4. QED
    BY <1>0, <2>1, <2>2, <2>3
<1>5. CASE WorkerSleeps \/ ReceiveReply \/ PollTimesOut \/ PollInterrupted
  BY <1>1, <1>5 DEF WorkerSleeps, ReceiveReply, PollTimesOut, PollInterrupted
<1>6. CASE UnsetContext \/ NotifyAndTerminate \/ Destroyed
  BY <1>1, <1>6 DEF UnsetContext, NotifyAndTerminate, Destroyed
<1>7. CASE Deliver
  <2>1. /\ outgoing \in Calls /\ outgoing' = None /\ inbox' = Append(inbox, outgoing)
        /\ UNCHANGED <<caller, replier, serving, runs>>
        /\ replier \notin {"stopped", "ended"}
    BY <1>0, <1>7 DEF Deliver, WorkerTypeOK, Bound
  <2>2. /\ \A c : In(c, inbox') <=> In(c, inbox) \/ c = outgoing
        /\ Distinct(inbox')
    BY <1>0, <1>n, <2>1, InAppend DEF ReplierTypeOK
  <2>3. QED
    BY <1>0, <1>n, <2>1, <2>2
<1>8. CASE Start \/ TerminateReplier \/ ReplierTerminated
  BY <1>0, <1>8 DEF Start, TerminateReplier, ReplierTerminated
<1>9. CASE ReplierPollTimesOut \/ ReplierInterrupted
  BY <1>0, <1>9, InEmpty DEF ReplierPollTimesOut, ReplierInterrupted, EndReplier
<1>10. CASE ReceiveRequest
  <2>1. /\ serving' = Head(inbox) /\ inbox' = Tail(inbox) /\ inbox # <<>> /\ replier' = "serve"
        /\ UNCHANGED <<caller, outgoing, runs>>
    BY <1>10 DEF ReceiveRequest
  <2>2. /\ serving' \in Calls /\ Distinct(inbox') /\ ~In(serving', inbox')
        /\ \A c : In(c, inbox) <=> c = serving' \/ In(c, inbox')
    BY <1>0, <2>1, InTail DEF ReplierTypeOK
  <2>3. QED
    BY <1>0, <1>n, <2>1, <2>2
<1>11. CASE RunCallback
  <2>1. /\ replier = "serve" /\ UNCHANGED <<caller, outgoing>>
        /\ \/ replier' = "reply" /\ UNCHANGED <<inbox, serving>>
           \/ replier' = "ended" /\ inbox' = <<>> /\ serving' = None
    BY <1>11 DEF RunCallback, EndReplier
  <2>2. \A c \in Calls : c # serving => runs'[c] = runs[c]
    BY <1>0, <1>11 DEF RunCallback, ReplierTypeOK
  <2>3. QED
    BY <1>0, <1>n, <2>1, <2>2, InEmpty
<1>12. CASE SendReply
  <2>1. /\ replier = "reply" /\ UNCHANGED <<caller, outgoing, runs>>
        /\ \/ replier' = "poll" /\ UNCHANGED inbox /\ serving' = None
           \/ replier' = "ended" /\ inbox' = <<>> /\ serving' = None
    BY <1>12 DEF SendReply, EndReplier
  <2>2. QED
    BY <1>0, <1>n, <2>1, InEmpty
<1>13. QED
  BY <1>1, <1>2, <1>3, <1>4, <1>5, <1>6, <1>7, <1>8, <1>9, <1>10, <1>11, <1>12, NextCases
     DEF RequesterStep, ReplierStep, vars

(* The result of a callback does not change once it has run, and a reply   *)
(* is only received for the call that the worker polls for.                *)
LEMMA RepliesStep == RmiInv /\ [Next]_vars => RepliesAreResults'
<1> SUFFICES ASSUME RmiInv, [Next]_vars PROVE RepliesAreResults'
  OBVIOUS
<1> USE DEF RepliesAreResults, callerVars, workerVars, wireVars, replierVars
<1>0. /\ CallerTypeOK /\ WorkerTypeOK /\ ReplierTypeOK /\ WorkerHoldsRequest
      /\ OnePlace /\ RepliesAreResults /\ OnlyAwaited
  BY DEF RmiInv
<1>1. CASE UNCHANGED <<promise, incoming, replierVars>>
  BY <1>0, <1>1
<1>2. ASSUME NEW d \in Calls, SendRequest(d) PROVE RepliesAreResults'
  BY <1>1, <1>2 DEF SendRequest
<1>3. CASE NewSocket
  BY <1>0, <1>3, InEmpty DEF NewSocket, Replace, CloseSocket
<1>4. CASE WorkerCheck \/ Destroyed
  <2>1. \A c \in Calls : promise'[c] \in Answers => promise'[c] = promise[c]
    BY <1>0, <1>4 DEF WorkerCheck, Destroyed, Broken, Answers
  <2>2. \A c \in Calls : In(c, incoming') => In(c, incoming)
    BY <1>0, <1>4, InEmpty DEF WorkerCheck, Destroyed, CloseSocket
  <2>3. UNCHANGED replierVars
    BY <1>4 DEF WorkerCheck, Destroyed
  <2>4. QED
    BY <1>0, <2>1, <2>2, <2>3
<1>5. CASE ProcessRequest \/ PollTimesOut \/ PollInterrupted
  <2>1. \A c \in Calls : promise'[c] \in Answers => promise'[c] = promise[c]
    BY <1>0, <1>5 DEF ProcessRequest, PollTimesOut, PollInterrupted, Refuse, Settle, Answers,
       CallerTypeOK
  <2>2. UNCHANGED <<incoming, replierVars>>
    BY <1>5 DEF ProcessRequest, PollTimesOut, PollInterrupted
  <2>3. QED
    BY <1>0, <2>1, <2>2
<1>6. CASE ReceiveReply
  <2>1. /\ worker = "poll" /\ incoming # <<>> /\ incoming' = Tail(incoming)
        /\ promise' = [promise EXCEPT ![request] = result[Head(incoming)]]
        /\ UNCHANGED replierVars
    BY <1>6 DEF ReceiveReply, Settle
  <2>2. /\ Head(incoming) \in Calls /\ In(Head(incoming), incoming)
        /\ \A c : In(c, incoming') => In(c, incoming)
    BY <1>0, <2>1, InTail DEF WorkerTypeOK
  <2>3. Head(incoming) = request
    BY <1>0, <2>1, <2>2 DEF OnlyAwaited, InFlight
  <2>4. \A c \in Calls : promise'[c] = IF c = request THEN result[request] ELSE promise[c]
    BY <1>0, <2>1, <2>3 DEF CallerTypeOK
  <2>5. QED
    BY <1>0, <2>1, <2>2, <2>3, <2>4
<1>7. CASE WorkerSleeps \/ UnsetContext \/ NotifyAndTerminate
  BY <1>1, <1>7 DEF WorkerSleeps, UnsetContext, NotifyAndTerminate
<1>8. CASE Deliver \/ Start \/ TerminateReplier \/ ReplierTerminated \/ ReceiveRequest
  BY <1>0, <1>8 DEF Deliver, Start, TerminateReplier, ReplierTerminated, ReceiveRequest
<1>9. CASE ReplierPollTimesOut \/ ReplierInterrupted
  BY <1>0, <1>9 DEF ReplierPollTimesOut, ReplierInterrupted, EndReplier
<1>10. CASE RunCallback
  <2>1. replier = "serve" /\ serving \in Calls /\ runs[serving] = 0
    BY <1>0, <1>10 DEF RunCallback, OnePlace, Travels
  <2>2. \A c \in Calls \ {serving} : runs'[c] = runs[c] /\ result'[c] = result[c]
    BY <1>0, <1>10 DEF RunCallback, ReplierTypeOK
  <2>3. runs'[serving] = 1
    BY <1>0, <1>10, <2>1 DEF RunCallback, ReplierTypeOK
  <2>4. replier' = "reply" => UNCHANGED serving /\ result'[serving] \in Answers
    BY <1>0, <1>10, <2>1 DEF RunCallback, ReplierTypeOK, EndReplier, Answers
  <2>5. UNCHANGED <<promise, incoming>>
    BY <1>10 DEF RunCallback
  <2>6. QED
    BY <1>0, <2>1, <2>2, <2>3, <2>4, <2>5
<1>11. CASE SendReply
  <2>1. serving \in Calls /\ incoming \in Seq(Calls)
    BY <1>0, <1>11 DEF SendReply, WorkerTypeOK, OnePlace
  <2>2. incoming' \in {incoming, Append(incoming, serving)}
    BY <1>11 DEF SendReply
  <2>3. \A c \in Calls : In(c, Append(incoming, serving)) <=> In(c, incoming) \/ c = serving
    BY <2>1, InAppend
  <2>4. \A c \in Calls : In(c, incoming') => In(c, incoming) \/ c = serving
    BY <2>2, <2>3
  <2>5. UNCHANGED <<promise, runs, result>> /\ replier = "reply" /\ replier' # "reply"
    BY <1>11 DEF SendReply, EndReplier
  <2>6. QED
    BY <1>0, <2>4, <2>5
<1>12. QED
  BY <1>1, <1>2, <1>3, <1>4, <1>5, <1>6, <1>7, <1>8, <1>9, <1>10, <1>11, NextCases, CallerFrame
     DEF RequesterStep, ReplierStep, vars

(* No step of the replier puts a call in flight. *)
LEMMA InFlightShrinks ==
  RmiInv /\ ReplierStep => \A c \in Calls : InFlight(c)' => InFlight(c)
<1> SUFFICES ASSUME RmiInv, ReplierStep, NEW c \in Calls, InFlight(c)' PROVE InFlight(c)
  OBVIOUS
<1> USE DEF InFlight
<1>0. WorkerTypeOK /\ ReplierTypeOK /\ OnePlace
  BY DEF RmiInv
<1>n. c # None
  BY NoneIsNoCall
<1>1. CASE Deliver
  BY <1>0, <1>1, <1>n, InAppend DEF Deliver, WorkerTypeOK, ReplierTypeOK
<1>2. CASE Start \/ TerminateReplier \/ ReplierTerminated
  BY <1>2 DEF Start, TerminateReplier, ReplierTerminated, wireVars
<1>3. CASE ReplierPollTimesOut \/ ReplierInterrupted
  BY <1>3, <1>n, InEmpty DEF ReplierPollTimesOut, ReplierInterrupted, EndReplier, wireVars
<1>4. CASE ReceiveRequest
  BY <1>0, <1>4, InTail DEF ReceiveRequest, ReplierTypeOK, wireVars
<1>5. CASE RunCallback
  BY <1>5, <1>n, InEmpty DEF RunCallback, EndReplier, wireVars
<1>6. CASE SendReply
  <2>1. serving \in Calls /\ incoming \in Seq(Calls)
    BY <1>0, <1>6 DEF SendReply, WorkerTypeOK, OnePlace
  <2>2. /\ incoming' = incoming \/ incoming' = Append(incoming, serving)
        /\ UNCHANGED outgoing
    BY <1>6 DEF SendReply
  <2>3. In(c, Append(incoming, serving)) <=> In(c, incoming) \/ c = serving
    BY <2>1, InAppend
  <2>4. In(c, incoming') => In(c, incoming) \/ c = serving
    BY <2>2, <2>3
  <2>5. serving' = None /\ inbox' \in {inbox, <<>>}
    BY <1>6 DEF SendReply, EndReplier
  <2>6. QED
    BY <1>n, <2>2, <2>4, <2>5, InEmpty
<1>7. QED
  BY <1>1, <1>2, <1>3, <1>4, <1>5, <1>6 DEF ReplierStep

(* A socket sends again only after the reply to its last request, or not   *)
(* at all: late replies die with the socket they were sent to.             *)
LEMMA OnlyAwaitedStep == RmiInv /\ [Next]_vars => OnlyAwaited'
<1> SUFFICES ASSUME RmiInv, [Next]_vars PROVE OnlyAwaited'
  OBVIOUS
<1> USE DEF OnlyAwaited, workerVars, wireVars, replierVars
<1>0. /\ WorkerTypeOK /\ ReplierTypeOK /\ WorkerHoldsRequest /\ FreshUntilSent
      /\ OnePlace /\ RepliesAreResults /\ OnlyAwaited
  BY DEF RmiInv
<1>n. \A c \in Calls : c # None
  BY NoneIsNoCall
<1>1. CASE UNCHANGED <<worker, request, socket, wireVars, inbox, serving>>
  BY <1>0, <1>1 DEF InFlight
<1>2. CASE /\ UNCHANGED <<socket, wireVars, inbox, serving>>
           /\ worker' # "poll"
  BY <1>0, <1>2 DEF InFlight
<1>3. ASSUME NEW d \in Calls, SendRequest(d) PROVE OnlyAwaited'
  <2>1. UNCHANGED <<request, socket, wireVars, inbox, serving>>
    BY <1>3 DEF SendRequest
  <2>2. worker' = worker \/ worker' = "check"
    BY <1>3 DEF SendRequest
  <2>3. QED
    BY <1>1, <1>2, <2>1, <2>2
<1>4. CASE NewSocket
  BY <1>4, InEmpty DEF NewSocket, Replace, CloseSocket
<1>5. CASE WorkerCheck
  <2>1. CASE context # "set"
    BY <1>5, <2>1, InEmpty DEF WorkerCheck, CloseSocket
  <2>2. CASE context = "set"
    <3>1. UNCHANGED <<socket, wireVars, inbox, serving>> /\ worker' # "poll"
      BY <1>5, <2>2 DEF WorkerCheck
    <3>2. QED
      BY <1>2, <3>1
  <2>3. QED
    BY <2>1, <2>2
<1>6. CASE ProcessRequest
  <2>1. CASE context = "terminating" \/ socket = "awaiting"
    BY <1>2, <1>6, <2>1 DEF ProcessRequest, Refuse
  <2>2. CASE ~ (context = "terminating" \/ socket = "awaiting")
    <3>1. /\ socket' = "awaiting" /\ outgoing' = request /\ sent' = sent \cup {request}
          /\ UNCHANGED <<request, incoming, inbox, serving>>
      BY <1>6, <2>2 DEF ProcessRequest
    <3>2. \A c \in sent : ~InFlight(c)
      BY <1>0, <2>2
    <3>3. request \in Calls /\ ~InFlight(request)
      BY <1>0, <1>6 DEF ProcessRequest, WorkerHoldsRequest, FreshUntilSent, Fresh
    <3>4. incoming = <<>>
      BY <1>0, <3>2, InEmpty DEF InFlight, WorkerTypeOK
    <3>5. \A c \in sent' : InFlight(c)' => c = request
      BY <3>1, <3>2, <3>3 DEF InFlight
    <3>6. Len(incoming') <= 1 /\ \A c : ~In(c, incoming')
      BY <3>1, <3>4, InEmpty
    <3>7. QED
      BY <3>1, <3>5, <3>6
  <2>3. QED
    BY <2>1, <2>2
<1>7. CASE ReceiveReply
  <2>1. /\ worker = "poll" /\ incoming # <<>> /\ incoming' = Tail(incoming)
        /\ socket' = "ready" /\ worker' = "check"
        /\ UNCHANGED <<outgoing, sent, inbox, serving>>
    BY <1>7 DEF ReceiveReply
  <2>2. /\ In(Head(incoming), incoming) /\ Head(incoming) \in Calls
        /\ Len(incoming') = Len(incoming) - 1 /\ incoming' \in Seq(Calls)
    BY <1>0, <2>1, InTail DEF WorkerTypeOK
  <2>3. incoming' = <<>>
    BY <1>0, <2>1, <2>2 DEF WorkerTypeOK
  <2>4. In(request, incoming) /\ request \in Calls
    BY <1>0, <2>1, <2>2 DEF InFlight
  <2>5. request # outgoing /\ ~In(request, inbox) /\ request # serving
    BY <1>0, <2>1, <2>4 DEF RepliesAreResults, OnePlace, Travels
  <2>6. \A c \in sent' : ~InFlight(c)'
    BY <1>0, <2>1, <2>3, <2>5, InEmpty DEF InFlight
  <2>7. QED
    BY <1>0, <2>1, <2>3, <2>6, InEmpty
<1>8. CASE PollTimesOut \/ PollInterrupted \/ WorkerSleeps
  BY <1>2, <1>8 DEF PollTimesOut, PollInterrupted, WorkerSleeps
<1>9. CASE UnsetContext \/ NotifyAndTerminate \/ Destroyed
  BY <1>1, <1>2, <1>9 DEF UnsetContext, NotifyAndTerminate, Destroyed
<1>10. CASE ReplierStep
  <2>1. UNCHANGED <<worker, request, socket, sent>> /\ sent \subseteq Calls
    BY <1>0, <1>10, ReplierFrame DEF WorkerTypeOK
  <2>2. \A c \in sent' : InFlight(c)' => InFlight(c)
    BY <1>10, <2>1, InFlightShrinks
  <2>3. outgoing' \in {outgoing, None}
    BY <1>10 DEF ReplierStep, Deliver, Start, TerminateReplier, ReplierPollTimesOut,
       ReceiveRequest, RunCallback, SendReply, ReplierInterrupted, ReplierTerminated
  <2>4. CASE SendReply
    <3>1. serving \in Calls /\ incoming \in Seq(Calls) /\ serving' = None
      BY <1>0, <2>4 DEF SendReply, WorkerTypeOK, OnePlace, EndReplier
    <3>2. \/ incoming' = incoming
          \/ serving \in sent /\ incoming' = Append(incoming, serving)
      BY <2>4 DEF SendReply
    <3>a. \A c \in Calls : In(c, Append(incoming, serving)) <=> In(c, incoming) \/ c = serving
      BY <3>1, InAppend
    <3>3. \A c \in Calls : In(c, incoming') => c \in sent
      BY <1>0, <3>2, <3>a
    <3>4. ASSUME worker = "poll" PROVE Len(incoming') <= 1
      <4>1. CASE incoming' = incoming
        BY <1>0, <3>4, <4>1
      <4>2. CASE serving \in sent /\ incoming' = Append(incoming, serving)
        <5>1. serving = request
          BY <1>0, <3>4, <4>2 DEF InFlight
        <5>2. \A c \in Calls : ~In(c, incoming)
          BY <1>0, <3>4, <5>1 DEF InFlight
        <5>3. incoming = <<>>
          BY <3>1, <5>2, InEmpty
        <5>4. QED
          BY <3>1, <4>2, <5>3
      <4>3. QED
        BY <3>2, <4>1, <4>2
    <3>5. worker = "poll" => serving' # request
      BY <1>0, <1>n, <3>1 DEF WorkerHoldsRequest
    <3>6. QED
      BY <1>0, <2>1, <2>2, <2>3, <3>3, <3>4, <3>5
  <2>5. CASE ~ SendReply
    <3>1. UNCHANGED incoming
      BY <1>10, <2>5 DEF ReplierStep, Deliver, Start, TerminateReplier, ReplierPollTimesOut,
         ReceiveRequest, RunCallback, ReplierInterrupted, ReplierTerminated
    <3>2. serving' \in {serving, None} \/ (inbox # <<>> /\ serving' = Head(inbox))
      BY <1>10, <2>5 DEF ReplierStep, Deliver, Start, TerminateReplier, ReplierPollTimesOut,
         ReceiveRequest, RunCallback, ReplierInterrupted, ReplierTerminated, EndReplier
    <3>3. ASSUME worker = "poll", In(request, incoming) PROVE serving' # request
      <4>1. request \in Calls /\ runs[request] # 0
        BY <1>0, <3>3 DEF WorkerHoldsRequest, RepliesAreResults
      <4>2. ~In(request, inbox)
        BY <1>0, <4>1 DEF OnePlace, Travels
      <4>3. inbox # <<>> => Head(inbox) # request
        BY <1>0, <4>2, InTail DEF ReplierTypeOK
      <4>4. QED
        BY <1>0, <1>n, <3>2, <3>3, <4>1, <4>3
    <3>4. QED
      BY <1>0, <2>1, <2>2, <2>3, <3>1, <3>3
  <2>6. QED
    BY <2>4, <2>5
<1>11. QED
  BY <1>1, <1>3, <1>4, <1>5, <1>6, <1>7, <1>8, <1>9, <1>10, NextCases, CallerFrame
     DEF RequesterStep, vars

(* The calls that were refused or timed out are finitely many. *)
LEMMA OutcomesAreFinite ==
  \A S \in SUBSET Calls :
    /\ IsFiniteSet(S) /\ Cardinality(S) \in Nat
    /\ \A c \in Calls \ S : Cardinality(S \cup {c}) = Cardinality(S) + 1
<1>1. IsFiniteSet(Calls)
  BY RmiAssumption, FS_Interval DEF Calls
<1>2. ASSUME NEW S \in SUBSET Calls PROVE IsFiniteSet(S) /\ Cardinality(S) \in Nat
  BY <1>1, FS_Subset, FS_CardinalityType
<1>3. ASSUME NEW S \in SUBSET Calls, NEW c \in Calls \ S
      PROVE  Cardinality(S \cup {c}) = Cardinality(S) + 1
  BY <1>2, FS_AddElement
<1>4. QED
  BY <1>2, <1>3

(* A promise that is settled joins the calls with that outcome. *)
LEMMA SettleCounts ==
  ASSUME CallerTypeOK, request \in Calls, promise[request] = "unset",
         NEW kind \in Outcome, Settle(kind)
  PROVE  /\ kind = "refused" => /\ Cardinality(Refused)' = Cardinality(Refused) + 1
                                /\ Cardinality(TimedOut)' = Cardinality(TimedOut)
         /\ kind = "timeout" => /\ Cardinality(Refused)' = Cardinality(Refused)
                                /\ Cardinality(TimedOut)' = Cardinality(TimedOut) + 1
         /\ kind \notin {"refused", "timeout"} =>
              /\ Cardinality(Refused)' = Cardinality(Refused)
              /\ Cardinality(TimedOut)' = Cardinality(TimedOut)
<1>1. \A c \in Calls : promise'[c] = IF c = request THEN kind ELSE promise[c]
  BY DEF Settle, CallerTypeOK
<1>2. request \notin Refused /\ request \notin TimedOut
  BY DEF Refused, TimedOut
<1>3. /\ Refused' = IF kind = "refused" THEN Refused \cup {request} ELSE Refused
      /\ TimedOut' = IF kind = "timeout" THEN TimedOut \cup {request} ELSE TimedOut
  BY <1>1 DEF Refused, TimedOut
<1>4. Refused \in SUBSET Calls /\ TimedOut \in SUBSET Calls
  BY DEF Refused, TimedOut
<1>5. /\ Cardinality(Refused \cup {request}) = Cardinality(Refused) + 1
      /\ Cardinality(TimedOut \cup {request}) = Cardinality(TimedOut) + 1
  BY <1>2, <1>4, OutcomesAreFinite
<1>6. QED
  BY <1>3, <1>5

(* A refusal uses up the timeout that left the socket awaiting. *)
LEMMA RefusalStep == RmiInv /\ [Next]_vars => TimeoutPerRefusal'
<1> SUFFICES ASSUME RmiInv, [Next]_vars PROVE TimeoutPerRefusal'
  OBVIOUS
<1> USE DEF TimeoutPerRefusal, callerVars, workerVars, ownerVars
<1>0. /\ CallerTypeOK /\ WorkerTypeOK /\ WorkerHoldsRequest /\ RepliesAreResults
      /\ TimeoutPerRefusal
  BY DEF RmiInv
<1>t. /\ Cardinality(Refused) \in Nat /\ Cardinality(TimedOut) \in Nat
      /\ Owes \in {0, 1}
  <2>1. Refused \in SUBSET Calls /\ TimedOut \in SUBSET Calls
    BY DEF Refused, TimedOut
  <2>2. QED
    BY <2>1, OutcomesAreFinite DEF Owes
<1>p. UNCHANGED promise => UNCHANGED <<Refused, TimedOut>>
  BY DEF Refused, TimedOut
<1>o. ASSUME UNCHANGED <<context, destroyer, Refused, TimedOut>>, Owes' \in {0, Owes}
      PROVE  TimeoutPerRefusal'
  BY <1>0, <1>t, <1>o
<1>1. CASE UNCHANGED <<promise, workerVars, ownerVars>>
  BY <1>1, <1>p, <1>o DEF Owes
<1>2. ASSUME NEW c \in Calls, SendRequest(c) PROVE TimeoutPerRefusal'
  BY <1>2, <1>p, <1>o DEF SendRequest, Owes
<1>3. CASE NewSocket
  BY <1>3, <1>p, <1>o DEF NewSocket, Owes, Replace
<1>4. CASE WorkerCheck
  <2>1. UNCHANGED <<Refused, TimedOut>>
    BY <1>0, <1>4 DEF WorkerCheck, Broken, Refused, TimedOut
  <2>2. Owes' \in {0, Owes}
    BY <1>4 DEF WorkerCheck, Owes
  <2>3. QED
    BY <1>4, <1>o, <2>1, <2>2 DEF WorkerCheck
<1>5. CASE WorkerSleeps
  BY <1>5, <1>p, <1>o DEF WorkerSleeps, Owes
<1>6. CASE ProcessRequest
  <2>0. /\ worker = "send" /\ request \in Calls /\ promise[request] = "unset"
        /\ UNCHANGED <<context, destroyer>>
    BY <1>0, <1>6 DEF ProcessRequest, WorkerHoldsRequest
  <2>1. CASE context = "terminating"
    <3>1. Owes' = 0
      BY <2>0, <2>1 DEF Owes
    <3>2. PICK kind \in Outcome \ {"refused", "timeout"} : Settle(kind)
      BY <1>6, <2>1 DEF ProcessRequest, Outcome, Failures
    <3>3. /\ Cardinality(Refused)' = Cardinality(Refused)
          /\ Cardinality(TimedOut)' = Cardinality(TimedOut)
      BY <1>0, <2>0, <3>2, SettleCounts
    <3>4. QED
      BY <1>0, <1>t, <2>0, <3>1, <3>3
  <2>2. CASE context # "terminating" /\ socket = "awaiting"
    <3>1. Settle("refused") /\ Owes = 1 /\ Owes' = 0
      BY <1>6, <2>0, <2>2 DEF ProcessRequest, Refuse, Owes
    <3>2. /\ Cardinality(Refused)' = Cardinality(Refused) + 1
          /\ Cardinality(TimedOut)' = Cardinality(TimedOut)
      BY <1>0, <2>0, <3>1, SettleCounts DEF Outcome, Failures
    <3>3. QED
      BY <1>0, <1>t, <2>0, <3>1, <3>2
  <2>3. CASE context # "terminating" /\ socket # "awaiting"
    BY <1>6, <1>p, <1>o, <2>3 DEF ProcessRequest, Owes
  <2>4. QED
    BY <2>1, <2>2, <2>3
<1>7. CASE PollTimesOut
  <2>1. /\ request \in Calls /\ promise[request] = "unset" /\ worker = "poll"
        /\ Settle("timeout") /\ UNCHANGED <<context, destroyer>>
    BY <1>0, <1>7 DEF PollTimesOut, WorkerHoldsRequest
  <2>2. /\ Cardinality(Refused)' = Cardinality(Refused)
        /\ Cardinality(TimedOut)' = Cardinality(TimedOut) + 1
    BY <1>0, <2>1, SettleCounts DEF Outcome, Failures
  <2>3. Owes = 0 /\ Owes' \in {0, 1}
    BY <2>1 DEF Owes
  <2>4. QED
    BY <1>0, <1>t, <2>1, <2>2, <2>3
<1>8. CASE ReceiveReply \/ PollInterrupted
  <2>1. request \in Calls /\ promise[request] = "unset" /\ UNCHANGED <<context, destroyer>>
    BY <1>0, <1>8 DEF ReceiveReply, PollInterrupted, WorkerHoldsRequest
  <2>2. Owes' = 0
    BY <1>8 DEF ReceiveReply, PollInterrupted, Owes
  <2>3. PICK kind \in Outcome \ {"refused", "timeout"} : Settle(kind)
    BY <1>0, <1>8, InTail DEF ReceiveReply, PollInterrupted, RepliesAreResults, WorkerTypeOK,
       Outcome, Failures, Answers
  <2>4. /\ Cardinality(Refused)' = Cardinality(Refused)
        /\ Cardinality(TimedOut)' = Cardinality(TimedOut)
    BY <1>0, <2>1, <2>3, SettleCounts
  <2>5. QED
    BY <1>0, <1>t, <2>1, <2>2, <2>4
<1>9. CASE UnsetContext
  <2>1. UNCHANGED <<Refused, TimedOut>> /\ Owes' = Owes
    BY <1>0, <1>9, <1>p DEF UnsetContext, Owes
  <2>2. QED
    BY <1>0, <1>9, <2>1 DEF UnsetContext
<1>10. CASE NotifyAndTerminate
  <2>1. UNCHANGED <<Refused, TimedOut>> /\ Owes' = 0
    BY <1>0, <1>10, <1>p DEF NotifyAndTerminate, Owes
  <2>2. QED
    BY <1>0, <1>10, <1>t, <2>1 DEF NotifyAndTerminate
<1>11. CASE Destroyed
  <2>1. UNCHANGED <<Refused, TimedOut>>
    BY <1>0, <1>11 DEF Destroyed, Broken, Refused, TimedOut
  <2>2. Owes' = Owes
    BY <1>11 DEF Destroyed, Owes
  <2>3. QED
    BY <1>0, <1>11, <2>1, <2>2 DEF Destroyed
<1>12. QED
  BY <1>1, <1>2, <1>3, <1>4, <1>5, <1>6, <1>7, <1>8, <1>9, <1>10, <1>11, NextCases, CallerFrame,
     ReplierFrame
     DEF RequesterStep, vars

(* The invariant holds before the first call. *)
LEMMA InitHolds == Init => RmiInv
<1> SUFFICES ASSUME Init PROVE RmiInv
  OBVIOUS
<1> USE DEF Init
<1>1. CallerTypeOK /\ WorkerTypeOK /\ ReplierTypeOK
  BY InEmpty DEF CallerTypeOK, WorkerTypeOK, ReplierTypeOK
<1>2. WorkerHoldsRequest
  BY InEmpty DEF WorkerHoldsRequest
<1>3. FreshUntilSent /\ OnePlace
  BY InEmpty, NoneIsNoCall DEF FreshUntilSent, Fresh, InFlight, OnePlace, Travels
<1>4. RepliesAreResults /\ OnlyAwaited
  BY InEmpty, NoneIsNoCall DEF RepliesAreResults, OnlyAwaited, Answers
<1>5. TimeoutPerRefusal
  <2>1. Refused = {} /\ TimedOut = {} /\ Owes = 0
    BY DEF Refused, TimedOut, Owes
  <2>2. QED
    BY <2>1, FS_EmptySet DEF TimeoutPerRefusal
<1>6. QED
  BY <1>1, <1>2, <1>3, <1>4, <1>5 DEF RmiInv

-----------------------------------------------------------------------------
(* The theorems. *)

(* RmiInv holds in every state of requester and replier, however calls,    *)
(* timeouts, restarts of the replier and the destructor interleave.        *)
THEOREM RmiInvariant == Spec => []RmiInv
<1>1. RmiInv /\ [Next]_vars => RmiInv'
  BY CallerTypeStep, WorkerTypeStep, ReplierTypeStep, WorkerHoldsStep, FreshStep, OnePlaceStep,
     RepliesStep, OnlyAwaitedStep, RefusalStep
     DEF RmiInv
<1>2. QED
  BY <1>1, InitHolds, PTL DEF Spec

(* A timeout of ProcessRequest costs at most one later call: there are     *)
(* never more calls refused by the socket than calls that timed out.       *)
THEOREM RefusalsAreBounded == Spec => []RefusalsBounded
<1>1. RmiInv => RefusalsBounded
  <2> SUFFICES ASSUME RmiInv PROVE RefusalsBounded
    OBVIOUS
  <2>1. Refused \in SUBSET Calls /\ TimedOut \in SUBSET Calls
    BY DEF Refused, TimedOut
  <2>2. Cardinality(Refused) \in Nat /\ Cardinality(TimedOut) \in Nat /\ Owes \in {0, 1}
    BY <2>1, OutcomesAreFinite DEF Owes
  <2>3. Cardinality(Refused) <= Cardinality(TimedOut)
    BY <2>2 DEF RmiInv, TimeoutPerRefusal
  <2>4. QED
    BY <2>3 DEF RefusalsBounded, Refused, TimedOut
<1>2. QED
  BY <1>1, RmiInvariant, PTL

(* Requester and replier implement a remote call: the callback runs at     *)
(* most once for each call, and the answer that SendRequest returns is the *)
(* one its own callback gave.                                              *)
THEOREM RmiImplementsRemoteCall == Spec => ImplementsRemoteCall
<1>1. Init => Remote!Init
  BY DEF Init, Remote!Init, Status, Answers
<1>2. RmiInv /\ [Next]_vars => [Remote!Next]_(Remote!callVars)
  <2> SUFFICES ASSUME RmiInv, [Next]_vars PROVE [Remote!Next]_(Remote!callVars)
    OBVIOUS
  <2> DEFINE status == [c \in Calls |-> Status(c)]
  <2>0. CallerTypeOK /\ ReplierTypeOK /\ OnePlace /\ RepliesAreResults
    BY DEF RmiInv
  <2>1. CASE UNCHANGED <<caller, runs, result>>
    BY <2>1 DEF Remote!callVars, Status
  <2>2. ASSUME NEW c \in Calls, SendRequest(c) PROVE Remote!Call(c)
    <3>1. caller[c] = "idle" /\ caller' = [caller EXCEPT ![c] = "waiting"]
          /\ UNCHANGED <<runs, result>>
      BY <2>2 DEF SendRequest, replierVars
    <3>2. status' = [status EXCEPT ![c] = "called"]
      BY <2>0, <3>1 DEF Status, CallerTypeOK, Answers
    <3>3. QED
      BY <3>1, <3>2 DEF Remote!Call, Status, Answers
  <2>3. ASSUME NEW c \in Calls, CallerTimesOut(c) PROVE Remote!Fail(c)
    <3>1. caller[c] = "waiting" /\ caller' = [caller EXCEPT ![c] = "timeout"]
          /\ UNCHANGED <<runs, result>>
      BY <2>3 DEF CallerTimesOut, replierVars
    <3>2. status' = [status EXCEPT ![c] = "failed"]
      BY <2>0, <3>1 DEF Status, CallerTypeOK, Answers
    <3>3. QED
      BY <3>1, <3>2 DEF Remote!Fail, Status, Answers
  <2>4. ASSUME NEW c \in Calls, GetFuture(c) PROVE Remote!Answer(c) \/ Remote!Fail(c)
    <3>1. caller[c] = "waiting" /\ caller' = [caller EXCEPT ![c] = promise[c]]
          /\ promise[c] \in Failures \cup Answers /\ UNCHANGED <<runs, result>>
      BY <2>0, <2>4 DEF GetFuture, replierVars, CallerTypeOK, Outcome
    <3>2. CASE promise[c] \in Answers
      <4>1. promise[c] = result[c]
        BY <2>0, <3>2 DEF RepliesAreResults
      <4>2. status' = [status EXCEPT ![c] = result[c]]
        BY <2>0, <3>1, <3>2, <4>1 DEF Status, CallerTypeOK, Answers
      <4>3. QED
        BY <3>1, <3>2, <4>1, <4>2 DEF Remote!Answer, Status, Answers
    <3>3. CASE promise[c] \in Failures
      <4>1. status' = [status EXCEPT ![c] = "failed"]
        BY <2>0, <3>1, <3>3 DEF Status, CallerTypeOK, Answers, Failures
      <4>2. QED
        BY <3>1, <4>1 DEF Remote!Fail, Status, Answers
    <3>4. QED
      BY <3>1, <3>2, <3>3
  <2>5. CASE RunCallback
    <3>1. serving \in Calls /\ runs[serving] = 0 /\ caller[serving] # "idle"
      BY <2>0, <2>5 DEF RunCallback, OnePlace, Travels
    <3>a. runs[serving] + 1 = 1
      BY <3>1
    <3>b. runs' = [runs EXCEPT ![serving] = runs[serving] + 1]
      BY <2>5 DEF RunCallback
    <3>2. /\ runs' = [runs EXCEPT ![serving] = 1]
          /\ \E r \in {"reply", "rmi", "shutdown"} : result' = [result EXCEPT ![serving] = r]
          /\ UNCHANGED caller
      BY <2>5, <3>a, <3>b DEF RunCallback, callerVars
    <3>3. status[serving] # "none"
      BY <3>1 DEF Status, Answers
    <3>4. UNCHANGED status
      BY <3>2 DEF Status
    <3>5. Remote!Run(serving)
      BY <3>1, <3>2, <3>3, <3>4 DEF Remote!Run
    <3>6. QED
      BY <3>1, <3>5 DEF Remote!Next
  <2>6. CASE \/ NewSocket \/ WorkerCheck \/ WorkerSleeps \/ ProcessRequest \/ ReceiveReply
             \/ PollTimesOut \/ PollInterrupted \/ UnsetContext \/ NotifyAndTerminate \/ Destroyed
    <3>1. UNCHANGED <<caller, runs, result>>
      BY <2>6 DEF NewSocket, WorkerCheck, WorkerSleeps, ProcessRequest, ReceiveReply, PollTimesOut,
         PollInterrupted, UnsetContext, NotifyAndTerminate, Destroyed, callerVars, replierVars
    <3>2. QED
      BY <2>1, <3>1
  <2>7. CASE \/ Deliver \/ Start \/ TerminateReplier \/ ReplierPollTimesOut \/ ReceiveRequest
             \/ SendReply \/ ReplierInterrupted \/ ReplierTerminated
    <3>1. UNCHANGED <<caller, runs, result>>
      BY <2>7 DEF Deliver, Start, TerminateReplier, ReplierPollTimesOut, ReceiveRequest, SendReply,
         ReplierInterrupted, ReplierTerminated, callerVars, replierVars
    <3>2. QED
      BY <2>1, <3>1
  <2>8. CASE UNCHANGED vars
    BY <2>1, <2>8 DEF vars, callerVars, replierVars
  <2>9. QED
    BY <2>2, <2>3, <2>4, <2>5, <2>6, <2>7, <2>8, NextCases
       DEF RequesterStep, ReplierStep, CallerStep, Remote!Next
<1>3. QED
  BY <1>1, <1>2, RmiInvariant, PTL DEF Spec, ImplementsRemoteCall, Remote!Spec
=============================================================================
