------------------------------- MODULE Ledger -------------------------------
(***************************************************************************)
(* What the realtime pipeline promises about one raw stream, whatever the  *)
(* crashes, retries and redeliveries underneath: every event is decided    *)
(* (an emission or a "no match") before it is recorded in the durable      *)
(* tail, decided and recorded only while it is newer than everything       *)
(* already recorded for its vehicle, and settled (acknowledged, hence      *)
(* deleted from the work queue) only once the record covers it.            *)
(*                                                                         *)
(* The orchestrator is shown to implement this module: see Orchestrator.   *)
(***************************************************************************)
EXTENDS Naturals, Sequences

VARIABLES raw,        \* the raw stream: a sequence of events
          matched,    \* revisions durably published on the matched stream
          unmatched,  \* revisions a matcher answered with NoMatch
          recorded,   \* revisions durably appended to a vehicle's tail
          acked       \* revisions acknowledged to the broker

ledgerVars == <<raw, matched, unmatched, recorded, acked>>

Revisions == DOMAIN raw

SameVehicle(r, s) == raw[r].vehicle = raw[s].vehicle

\* The record of s's vehicle reaches s's timestamp.
Covered(s) == \E r \in recorded :
                 SameVehicle(r, s) /\ raw[s].timestamp <= raw[r].timestamp

LedgerInit ==
    /\ matched = {} /\ unmatched = {} /\ recorded = {} /\ acked = {}

\* An emission or a NoMatch verdict. Deciding again is allowed (a retry, a
\* redelivery), deciding behind the record is not.
Emit(s) ==
    /\ ~ Covered(s)
    /\ matched' = matched \cup {s}
    /\ UNCHANGED <<raw, unmatched, recorded, acked>>

GiveUp(s) ==
    /\ ~ Covered(s)
    /\ unmatched' = unmatched \cup {s}
    /\ UNCHANGED <<raw, matched, recorded, acked>>

Record(s) ==
    /\ s \in matched \cup unmatched
    /\ ~ Covered(s)
    /\ recorded' = recorded \cup {s}
    /\ UNCHANGED <<raw, matched, unmatched, acked>>

Settle(s) ==
    /\ raw[s].poison \/ Covered(s)
    /\ acked' = acked \cup {s}
    /\ UNCHANGED <<raw, matched, unmatched, recorded>>

LedgerNext == \E s \in Revisions : Emit(s) \/ GiveUp(s) \/ Record(s) \/ Settle(s)

LedgerSpec == LedgerInit /\ [][LedgerNext]_ledgerVars
=============================================================================
