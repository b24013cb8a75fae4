-------------------------- MODULE AttendanceLedger --------------------------
(***************************************************************************)
(* What the platform promises of the attendance records of one session,    *)
(* and nothing of how it keeps the promise: no clock, no evidence, no QR,  *)
(* no requests in flight.                                                  *)
(*                                                                         *)
(* - The roster is fixed when the session is scheduled.                    *)
(* - Automatic records are written in one step, the close, for every       *)
(*   student of the roster who has no manual record, and never again.      *)
(* - A manual record stands until another manual decision replaces it.     *)
(* - A cancelled session gets no record after its cancellation.            *)
(* - Nobody off the roster ever has a record.                              *)
(***************************************************************************)
CONSTANTS Students, FinalStatuses

VARIABLES phase, roster, ledger

ledgerVars == <<phase, roster, ledger>>

NoEntry == [status |-> "none", source |-> "none"]

LedgerInit ==
    /\ phase = "none"
    /\ roster = {}
    /\ ledger = [s \in Students |-> NoEntry]

Schedule ==
    /\ phase = "none"
    /\ phase' = "scheduled"
    /\ roster' \in SUBSET Students
    /\ UNCHANGED ledger

Open ==
    /\ phase = "scheduled"
    /\ phase' = "active"
    /\ UNCHANGED <<roster, ledger>>

Decide(s) ==
    /\ phase \in {"active", "closed"}
    /\ s \in roster
    /\ \E status \in FinalStatuses :
          ledger' = [ledger EXCEPT ![s] = [status |-> status, source |-> "manual"]]
    /\ UNCHANGED <<phase, roster>>

Close ==
    /\ phase = "active"
    /\ phase' = "closed"
    /\ \E verdict \in [Students -> FinalStatuses] :
          ledger' = [s \in Students |->
                        IF s \in roster /\ ledger[s].source # "manual"
                        THEN [status |-> verdict[s], source |-> "automatic"]
                        ELSE ledger[s]]
    /\ UNCHANGED roster

CallOff ==
    /\ phase \in {"scheduled", "active"}
    /\ phase' = "cancelled"
    /\ UNCHANGED <<roster, ledger>>

LedgerNext ==
    \/ Schedule
    \/ Open
    \/ \E s \in Students : Decide(s)
    \/ Close
    \/ CallOff

LedgerSpec == LedgerInit /\ [][LedgerNext]_ledgerVars

=============================================================================
