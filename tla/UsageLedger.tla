---------------------------- MODULE UsageLedger -----------------------------
(***************************************************************************)
(* What metering promises, as a ledger without transactions: a request is  *)
(* recorded once with a decision and a price, and a success report marks   *)
(* the row and debits the counter in one indivisible step.  It admits the  *)
(* anomalies the code has (a row settled again, a debit repeated for a row *)
(* already marked, a reset at any time) and nothing else: no debit without *)
(* a marked row, no marked row of a live key without its debit, no change  *)
(* of a recorded decision.                                                 *)
(***************************************************************************)
EXTENDS Naturals

CONSTANTS Requests, LiveKeys, TestKeys, Costs

VARIABLES log, credits_used, debits

ledger == <<log, credits_used, debits>>

Status(r) == log[r].status

Init ==
    /\ log = [r \in Requests |-> [status |-> "absent"]]
    /\ credits_used = 0
    /\ debits = [r \in Requests |-> 0]

\* A request is recorded with its decision; a test key costs nothing.
Record(r) ==
    /\ Status(r) = "absent"
    /\ \E k \in LiveKeys \cup TestKeys, a \in {"granted", "denied"}, c \in Costs \cup {0} :
         /\ IF k \in TestKeys THEN a = "granted" /\ c = 0 ELSE c \in Costs
         /\ log' = [log EXCEPT ![r] = [status |-> "pending", key |-> k, access |-> a,
                                       cost |-> c, charged |-> FALSE]]
    /\ UNCHANGED <<credits_used, debits>>

Debit(r) ==
    /\ credits_used' = credits_used + log[r].cost
    /\ debits' = [debits EXCEPT ![r] = @ + 1]

\* A success report settles the row and, for a live key, debits the counter.
Succeed(r) ==
    /\ Status(r) # "absent"
    /\ log' = [log EXCEPT ![r].status = "success", ![r].charged = TRUE]
    /\ IF log[r].key \in TestKeys THEN UNCHANGED <<credits_used, debits>> ELSE Debit(r)

\* A failure report debits nothing.
Fail(r) ==
    /\ Status(r) # "absent"
    /\ log' = [log EXCEPT ![r].status = "failed"]
    /\ UNCHANGED <<credits_used, debits>>

\* A repeated success report of a marked row debits the counter again.
Repeat(r) ==
    /\ Status(r) # "absent" /\ log[r].charged /\ log[r].key \notin TestKeys
    /\ Debit(r)
    /\ UNCHANGED log

Expire(old) ==
    /\ \A r \in old : Status(r) = "pending"
    /\ log' = [r \in Requests |->
                IF r \in old THEN [log[r] EXCEPT !.status = "expired"] ELSE log[r]]
    /\ UNCHANGED <<credits_used, debits>>

Reset ==
    /\ credits_used' = 0
    /\ UNCHANGED <<log, debits>>

Next ==
    \/ \E r \in Requests : Record(r) \/ Succeed(r) \/ Fail(r) \/ Repeat(r)
    \/ \E old \in SUBSET Requests : Expire(old)
    \/ Reset

Spec == Init /\ [][Next]_ledger
=============================================================================
