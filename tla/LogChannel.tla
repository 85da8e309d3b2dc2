----------------------------- MODULE LogChannel -----------------------------
(***************************************************************************)
(* What the logging of an experiment promises: the events that are handed  *)
(* to a writer reach the database of a log server in the order in which    *)
(* they were handed over, none of them twice, and none is lost unless      *)
(* there is an excuse (a disk that failed, a server that was not there).   *)
(* Events are numbered in the order in which the writer accepts them.      *)
(***************************************************************************)
EXTENDS Naturals, Sequences

VARIABLES
  accepted,   \* how many events the writer has accepted
  pending,    \* accepted and not yet in the database
  stored,     \* the rows of the database
  excused     \* something happened for which events may be missing

channelVars == <<accepted, pending, stored, excused>>

Init ==
  /\ accepted = 0
  /\ pending = <<>>
  /\ stored = <<>>
  /\ excused = FALSE

(* An event is accepted. With an excuse it may be dropped at once. *)
Accept ==
  /\ accepted' = accepted + 1
  /\ \/ pending' = Append(pending, accepted')
     \/ excused' /\ pending' = pending
  /\ excused => excused'
  /\ UNCHANGED stored

(* The oldest pending event becomes a row. *)
Store ==
  /\ pending # <<>>
  /\ stored' = Append(stored, Head(pending))
  /\ pending' = Tail(pending)
  /\ UNCHANGED <<accepted, excused>>

(* An excuse turns up, and some of the pending events may be lost. *)
Lose ==
  /\ excused'
  /\ \E lost \in SUBSET (1 .. accepted) :
        pending' = SelectSeq(pending, LAMBDA m : m \notin lost)
  /\ UNCHANGED <<accepted, stored>>

Next == Accept \/ Store \/ Lose

Spec == Init /\ [][Next]_channelVars
=============================================================================
