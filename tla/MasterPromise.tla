---------------------------- MODULE MasterPromise ----------------------------
(***************************************************************************)
(* What the Modbus client promises to its caller, without saying how: it   *)
(* works on one transaction at a time, and every transaction it accepts    *)
(* ends in exactly one report to the callbacks of that transaction.        *)
(* Transactions are named by the order in which they were accepted.        *)
(***************************************************************************)
EXTENDS Naturals

CONSTANT MaxCalls    \* bound: how many transactions are ever accepted

VARIABLES accepted,  \* how many transactions were accepted so far
          inFlight,  \* the transaction being worked on, 0 when there is none
          owed,      \* transactions that ended and are not reported yet
          reported   \* transactions whose outcome was reported

vars == <<accepted, inFlight, owed, reported>>

Init == accepted = 0 /\ inFlight = 0 /\ owed = {} /\ reported = {}

Accept ==
    /\ inFlight = 0
    /\ accepted < MaxCalls
    /\ accepted' = accepted + 1
    /\ inFlight' = accepted + 1
    /\ UNCHANGED <<owed, reported>>

End ==
    /\ inFlight # 0
    /\ inFlight' = 0
    /\ owed' = owed \cup {inFlight}
    /\ UNCHANGED <<accepted, reported>>

Report(c) ==
    /\ c \in owed
    /\ owed' = owed \ {c}
    /\ reported' = reported \cup {c}
    /\ UNCHANGED <<accepted, inFlight>>

Next == Accept \/ End \/ \E c \in owed : Report(c)

Spec == Init /\ [][Next]_vars
=============================================================================
