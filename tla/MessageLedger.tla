---------------------------- MODULE MessageLedger ---------------------------
(***************************************************************************)
(* What the three counters of a Port promise to whoever reads them         *)
(* (src/re/src/core/ports/port.cpp): a message is counted as received      *)
(* first and later as processed or as ignored, once and never as both.     *)
(* Ports implement this specification.                                     *)
(***************************************************************************)
EXTENDS Naturals

VARIABLES received, processed, ignored

ledger == <<received, processed, ignored>>

(* Received and not yet accounted for. *)
Outstanding == received - (processed + ignored)

LedgerInit == received = 0 /\ processed = 0 /\ ignored = 0

CountReceived ==
  /\ received' = received + 1
  /\ UNCHANGED <<processed, ignored>>

CountProcessed ==
  /\ processed + ignored < received
  /\ processed' = processed + 1
  /\ UNCHANGED <<received, ignored>>

CountIgnored ==
  /\ processed + ignored < received
  /\ ignored' = ignored + 1
  /\ UNCHANGED <<received, processed>>

LedgerNext == CountReceived \/ CountProcessed \/ CountIgnored

LedgerSpec == LedgerInit /\ [][LedgerNext]_ledger
=============================================================================
