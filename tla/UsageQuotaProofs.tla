-------------------------- MODULE UsageQuotaProofs --------------------------
(* Theorems about UsageQuota, for every value of its constants.            *)
EXTENDS UsageQuota, FiniteSetTheorems, TLAPS

USE DEF Idle, Absent

\* The record a transaction is at each statement.
LEMMA TransactionShape ==
    ASSUME NEW t \in Transaction
    PROVE  /\ t.pc = "admit" => t.req \in Requests /\ t.key \in Keys
           /\ t.pc = "insert" =>
                /\ t.req \in Requests /\ t.key \in Keys
                /\ t.cost \in Nat /\ t.access \in Access
           /\ t.pc = "update" => t.req \in Requests /\ t.ok \in BOOLEAN
           /\ t.pc \in {"charge", "commit"} =>
                /\ t \in [pc: {"charge", "commit"}, req: Requests, ok: BOOLEAN,
                          wrote: BOOLEAN, charge: BOOLEAN]
                /\ t.req \in Requests /\ t.ok \in BOOLEAN
                /\ t.wrote \in BOOLEAN /\ t.charge \in BOOLEAN
  BY DEF Transaction

\* The record a renewal is at each statement.
LEMMA RenewalShape ==
    ASSUME NEW v \in Renewal
    PROVE  /\ v.pc = "fetch" => v.old \in Nat
           /\ v.pc = "reset" => v.old \in Nat /\ v.new \in Nat
           /\ v.pc = "write" => v.new \in Nat /\ v.reset \in BOOLEAN
  BY DEF Renewal

\* A row that is there is a usage log.
LEMMA RowShape ==
    ASSUME TypeOK, NEW r \in Requests, log[r].status # "absent"
    PROVE  log[r] \in UsageLog
  BY DEF TypeOK

\* A transaction that settles a request has seen its row.
RowsSeen ==
    \A s \in Servers :
        tx[s].pc \in {"update", "charge", "commit"} => log[tx[s].req].status # "absent"

\* TypeOK is not inductive: CommitFinish prices a row, which must be there.
LEMMA TypeStep ==
    ASSUME TypeOK, RowsSeen, [Next]_vars
    PROVE  TypeOK'
<1>1. ASSUME NEW r \in Requests, ValidateReplay(r) PROVE TypeOK'
  <2>1. log[r].access \in Access
    BY <1>1, RowShape DEF ValidateReplay, UsageLog
  <2> QED BY <1>1, <2>1 DEF ValidateReplay, TypeOK, rows, ages
<1>2. ASSUME NEW r \in Requests, Age(r) PROVE TypeOK'
  BY <1>2 DEF Age, TypeOK, ages
<1>3. ASSUME NEW s \in Servers, NEW r \in Requests, NEW k \in Keys, ValidateStart(s, r, k)
      PROVE TypeOK'
  <2>1. [pc |-> "admit", req |-> r, key |-> k] \in Transaction
    BY DEF Transaction
  <2> QED BY <1>3, <2>1 DEF ValidateStart, TypeOK, rows, ages
<1>4. ASSUME NEW s \in Servers, NEW r \in Requests, NEW ok \in BOOLEAN, CommitRead(s, r, ok)
      PROVE TypeOK'
  <2>1. /\ [pc |-> "update", req |-> r, ok |-> ok] \in Transaction
        /\ [pc |-> "charge", req |-> r, ok |-> ok, wrote |-> FALSE, charge |-> TRUE]
             \in Transaction
        /\ Idle \in Transaction
    BY DEF Transaction
  <2>2. tx' \in [Servers -> Transaction]
    BY <1>4, <2>1 DEF CommitRead, TypeOK
  <2> QED BY <1>4, <2>2 DEF CommitRead, TypeOK, rows, ages
<1>5. ASSUME NEW s \in Servers, ValidateAdmit(s) PROVE TypeOK'
  <2>0. tx[s] \in Transaction /\ tx[s].pc = "admit"
    BY <1>5 DEF ValidateAdmit, TypeOK
  <2>1. PICK cost \in IF tx[s].key \in TestKeys THEN {0} ELSE Costs,
             a \in Access :
          tx' = [tx EXCEPT ![s] =
                   [pc |-> "insert", req |-> tx[s].req, key |-> tx[s].key,
                    cost |-> cost, access |-> a]]
    BY <1>5 DEF ValidateAdmit, Access
  <2>2. cost \in Nat
    BY <2>1, ConstantsAssumption
  <2>3. [pc |-> "insert", req |-> tx[s].req, key |-> tx[s].key,
         cost |-> cost, access |-> a] \in Transaction
    BY <2>0, <2>2, TransactionShape DEF Transaction
  <2>4. tx' \in [Servers -> Transaction]
    BY <2>1, <2>3 DEF TypeOK
  <2> QED BY <1>5, <2>4 DEF ValidateAdmit, TypeOK, rows, ages
<1>6. ASSUME NEW s \in Servers, ValidateInsert(s) PROVE TypeOK'
  <2>1. tx[s].req \in Requests /\ tx[s].key \in Keys
        /\ tx[s].cost \in Nat /\ tx[s].access \in Access
    BY <1>6, TransactionShape DEF ValidateInsert, TypeOK
  <2>2. [status |-> "pending", key |-> tx[s].key, access |-> tx[s].access,
         cost |-> tx[s].cost, charged |-> FALSE] \in UsageLog
    BY <2>1 DEF UsageLog
  <2>3. log' \in [Requests -> UsageLog \cup {Absent}]
    BY <1>6, <2>1, <2>2 DEF ValidateInsert, TypeOK
  <2>4. answers' \in [Requests -> SUBSET Access]
    BY <1>6, <2>1 DEF ValidateInsert, TypeOK
  <2>5. tx' \in [Servers -> Transaction]
    BY <1>6 DEF ValidateInsert, TypeOK, Transaction
  <2> QED BY <1>6, <2>3, <2>4, <2>5 DEF ValidateInsert, TypeOK, ages
<1>7. ASSUME NEW s \in Servers, CommitUpdateLog(s) PROVE TypeOK'
  <2>1. tx[s].req \in Requests /\ tx[s].ok \in BOOLEAN
    BY <1>7, TransactionShape DEF CommitUpdateLog, TypeOK
  <2>2. PICK charge \in BOOLEAN, p \in {"charge", "commit"} :
          tx' = [tx EXCEPT ![s] = [pc |-> p, req |-> tx[s].req, ok |-> tx[s].ok,
                                   wrote |-> TRUE, charge |-> charge]]
    BY <1>7, <2>1 DEF CommitUpdateLog
  <2>3. [pc |-> p, req |-> tx[s].req, ok |-> tx[s].ok, wrote |-> TRUE,
         charge |-> charge] \in Transaction
    BY <2>1, <2>2 DEF Transaction
  <2>4. tx' \in [Servers -> Transaction]
    BY <2>2, <2>3 DEF TypeOK
  <2> QED BY <1>7, <2>4 DEF CommitUpdateLog, TypeOK, rows, ages
<1>8. ASSUME NEW s \in Servers, CommitIncrement(s) PROVE TypeOK'
  <2>1. [tx[s] EXCEPT !.pc = "commit"] \in Transaction
    BY <1>8, TransactionShape DEF CommitIncrement, TypeOK, Transaction
  <2>2. tx' \in [Servers -> Transaction]
    BY <1>8, <2>1 DEF CommitIncrement, TypeOK
  <2> QED BY <1>8, <2>2 DEF CommitIncrement, TypeOK, rows, ages
<1>9. ASSUME NEW s \in Servers, CommitFinish(s) PROVE TypeOK'
  <2>0. tx[s].req \in Requests /\ tx[s].ok \in BOOLEAN /\ tx[s].charge \in BOOLEAN
    BY <1>9, TransactionShape DEF CommitFinish, TypeOK
  <2> DEFINE r == tx[s].req
  <2>1. log[r] \in UsageLog
    BY <1>9, <2>0, RowShape DEF CommitFinish, RowsSeen
  <2>2. log' \in [Requests -> UsageLog \cup {Absent}]
    <3>1. CASE tx[s].wrote
      <4>1. log' = [log EXCEPT ![r].status = IF tx[s].ok THEN "success" ELSE "failed",
                               ![r].charged = @ \/ tx[s].ok]
        BY <1>9, <3>1 DEF CommitFinish
      <4> QED BY <2>0, <2>1, <4>1 DEF TypeOK, UsageLog
    <3>2. CASE ~tx[s].wrote
      BY <1>9, <3>2 DEF CommitFinish, TypeOK
    <3> QED BY <3>1, <3>2
  <2>3. credits_used' \in Nat /\ consumed' \in Nat /\ debits' \in [Requests -> Nat]
    BY <1>9, <2>0, <2>1 DEF CommitFinish, TypeOK, UsageLog
  <2>4. tx' \in [Servers -> Transaction]
    BY <1>9 DEF CommitFinish, TypeOK, Transaction
  <2> QED BY <1>9, <2>2, <2>3, <2>4 DEF CommitFinish, TypeOK
<1>10. ASSUME NEW s \in Servers, Rollback(s) PROVE TypeOK'
  BY <1>10 DEF Rollback, TypeOK, Transaction, rows, ages
<1>11. CASE ExpirePending
  <2>1. \A r \in Expirable : [log[r] EXCEPT !.status = "expired"] \in UsageLog
    BY RowShape DEF Expirable, TypeOK, UsageLog
  <2>2. log' \in [Requests -> UsageLog \cup {Absent}]
    BY <1>11, <2>1 DEF ExpirePending, TypeOK
  <2> QED BY <1>11, <2>2 DEF ExpirePending, TypeOK, ages
<1>12. CASE StripeRenew
  BY <1>12 DEF StripeRenew, TypeOK, rows, ages
<1>13. ASSUME NEW w \in Renewers, RenewRead(w) PROVE TypeOK'
  BY <1>13 DEF RenewRead, TypeOK, Renewal, rows, ages
<1>14. ASSUME NEW w \in Renewers, RenewFetch(w) PROVE TypeOK'
  <2>1. [pc |-> "reset", old |-> renew[w].old, new |-> stripePeriod] \in Renewal
    BY <1>14, RenewalShape DEF RenewFetch, TypeOK, Renewal
  <2> QED BY <1>14, <2>1 DEF RenewFetch, TypeOK, rows, ages
<1>15. ASSUME NEW w \in Renewers, RenewReset(w) PROVE TypeOK'
  <2>1. [pc |-> "write", new |-> renew[w].new, reset |-> renew[w].old # renew[w].new]
          \in Renewal
    BY <1>15, RenewalShape DEF RenewReset, TypeOK, Renewal
  <2> QED BY <1>15, <2>1 DEF RenewReset, TypeOK, rows, ages
<1>16. ASSUME NEW w \in Renewers, RenewWrite(w) PROVE TypeOK'
  <2>1. renew[w].new \in Nat
    BY <1>16, RenewalShape DEF RenewWrite, TypeOK
  <2> QED BY <1>16, <2>1 DEF RenewWrite, TypeOK, Renewal
<1>17. ASSUME NEW w \in Renewers, RenewRollback(w) PROVE TypeOK'
  BY <1>17 DEF RenewRollback, TypeOK, Renewal, rows, ages
<1>18. CASE UNCHANGED vars
  BY <1>18 DEF vars, TypeOK
<1> QED
  BY <1>1, <1>2, <1>3, <1>4, <1>5, <1>6, <1>7, <1>8, <1>9, <1>10, <1>11, <1>12,
     <1>13, <1>14, <1>15, <1>16, <1>17, <1>18 DEF Next, Step, RenewStep

-----------------------------------------------------------------------------
\* A step changes a row only in these ways.
LEMMA RowStep ==
    ASSUME TypeOK, RowsSeen, [Next]_vars, NEW r \in Requests, log'[r] # log[r]
    PROVE  \/ \E s \in Servers : ValidateInsert(s) /\ tx[s].req = r /\ log[r] = Absent
           \/ \E s \in Servers : CommitFinish(s) /\ tx[s].req = r /\ tx[s].wrote
           \/ ExpirePending /\ r \in Expirable
<1>1. log' # log
  OBVIOUS
<1>2. \/ \E s \in Servers : ValidateInsert(s)
      \/ \E s \in Servers : CommitFinish(s)
      \/ ExpirePending
  BY <1>1 DEF Next, Step, RenewStep, vars, rows, ValidateReplay, Age, ValidateStart,
     ValidateAdmit, CommitRead, CommitUpdateLog, CommitIncrement, Rollback, StripeRenew,
     RenewRead, RenewFetch, RenewReset, RenewWrite, RenewRollback
<1>3. ASSUME NEW s \in Servers, ValidateInsert(s) PROVE tx[s].req = r /\ log[r] = Absent
  <2>1. tx[s].req = r /\ log[r].status = "absent"
    BY <1>3 DEF ValidateInsert, TypeOK
  <2> QED BY <2>1 DEF TypeOK, UsageLog
<1>4. ASSUME NEW s \in Servers, CommitFinish(s) PROVE tx[s].req = r /\ tx[s].wrote
  BY <1>4 DEF CommitFinish, TypeOK
<1>5. CASE ExpirePending
  BY <1>5 DEF ExpirePending, TypeOK
<1> QED BY <1>2, <1>3, <1>4, <1>5

\* A row is never removed, its decision never changes, its charge is never undone.
LEMMA RowKept ==
    ASSUME TypeOK, RowsSeen, [Next]_vars, NEW r \in Requests, log[r].status # "absent"
    PROVE  /\ log'[r].status # "absent"
           /\ log'[r].key = log[r].key
           /\ log'[r].access = log[r].access
           /\ log'[r].cost = log[r].cost
           /\ log[r].charged => log'[r].charged
<1>1. CASE log'[r] = log[r]
  BY <1>1
<1>2. CASE log'[r] # log[r]
  <2>1. log[r] \in UsageLog
    BY RowShape
  <2>2. ASSUME NEW s \in Servers, CommitFinish(s), tx[s].req = r, tx[s].wrote
        PROVE  log'[r] = [log[r] EXCEPT !.status = IF tx[s].ok THEN "success" ELSE "failed",
                                        !.charged = @ \/ tx[s].ok]
    BY <2>2 DEF CommitFinish, TypeOK
  <2>3. ASSUME ExpirePending, r \in Expirable
        PROVE  log'[r] = [log[r] EXCEPT !.status = "expired"]
    BY <2>3 DEF ExpirePending
  <2>4. \/ \E s \in Servers : CommitFinish(s) /\ tx[s].req = r /\ tx[s].wrote
        \/ ExpirePending /\ r \in Expirable
    BY <1>2, RowStep
  <2>5. CASE \E s \in Servers : CommitFinish(s) /\ tx[s].req = r /\ tx[s].wrote
    <3>1. PICK s \in Servers : CommitFinish(s) /\ tx[s].req = r /\ tx[s].wrote
      BY <2>5
    <3>2. log'[r] = [log[r] EXCEPT !.status = IF tx[s].ok THEN "success" ELSE "failed",
                                   !.charged = @ \/ tx[s].ok]
      BY <2>2, <3>1
    <3>3. tx[s].ok \in BOOLEAN
      <4>1. tx[s] \in Transaction /\ tx[s].pc = "commit"
        BY <3>1 DEF CommitFinish, TypeOK
      <4> QED BY <4>1, TransactionShape
    <3> QED BY <2>1, <3>2, <3>3 DEF UsageLog
  <2>6. CASE ExpirePending /\ r \in Expirable
    BY <2>1, <2>3, <2>6 DEF UsageLog
  <2> QED BY <2>4, <2>5, <2>6
<1> QED BY <1>1, <1>2

\* A step changes the state of at most one transaction.
LEMMA TxStep ==
    ASSUME TypeOK, [Next]_vars, NEW s \in Servers, tx'[s] # tx[s]
    PROVE  \/ \E r \in Requests, k \in Keys : ValidateStart(s, r, k)
           \/ \E r \in Requests, ok \in BOOLEAN : CommitRead(s, r, ok)
           \/ Step(s)
           \/ Rollback(s)
<1> DEFINE Moves(o) == \/ \E r \in Requests, k \in Keys : ValidateStart(o, r, k)
                       \/ \E r \in Requests, ok \in BOOLEAN : CommitRead(o, r, ok)
                       \/ Step(o)
                       \/ Rollback(o)
<1>1. \E o \in Servers : Moves(o)
  BY DEF Next, RenewStep, vars, ValidateReplay, Age, ExpirePending, StripeRenew,
     RenewRead, RenewFetch, RenewReset, RenewWrite, RenewRollback
<1>2. ASSUME NEW o \in Servers, Moves(o) PROVE \E t : tx' = [tx EXCEPT ![o] = t]
  <2>1. CASE \E r \in Requests, k \in Keys : ValidateStart(o, r, k)
    BY <2>1 DEF ValidateStart
  <2>2. CASE \E r \in Requests, ok \in BOOLEAN : CommitRead(o, r, ok)
    BY <2>2 DEF CommitRead
  <2>3. CASE Step(o)
    BY <2>3 DEF Step, ValidateAdmit, ValidateInsert, CommitUpdateLog, CommitIncrement,
       CommitFinish
  <2>4. CASE Rollback(o)
    BY <2>4 DEF Rollback
  <2> QED BY <1>2, <2>1, <2>2, <2>3, <2>4
<1>3. ASSUME NEW o \in Servers, Moves(o) PROVE o = s
  BY <1>2, <1>3 DEF TypeOK
<1> QED BY <1>1, <1>3

\* The statements that take a transaction to, or on in, the settling of a row.
LEMMA SettlingStep ==
    ASSUME TypeOK, [Next]_vars, NEW s \in Servers, tx'[s] # tx[s],
           tx'[s].pc \in {"update", "charge", "commit"}
    PROVE  \/ \E r \in Requests, ok \in BOOLEAN : CommitRead(s, r, ok)
           \/ CommitUpdateLog(s)
           \/ CommitIncrement(s)
<1>1. ASSUME NEW r \in Requests, NEW k \in Keys, ValidateStart(s, r, k)
      PROVE  tx'[s].pc = "admit"
  BY <1>1 DEF ValidateStart, TypeOK
<1>2. ValidateAdmit(s) => tx'[s].pc = "insert"
  BY DEF ValidateAdmit, TypeOK
<1>3. ValidateInsert(s) \/ CommitFinish(s) \/ Rollback(s) => tx'[s].pc = "idle"
  BY DEF ValidateInsert, CommitFinish, Rollback, TypeOK
<1> QED BY <1>1, <1>2, <1>3, TxStep DEF Step

LEMMA RowsSeenStep ==
    ASSUME TypeOK, RowsSeen, [Next]_vars
    PROVE  RowsSeen'
<1> SUFFICES ASSUME NEW s \in Servers, tx'[s].pc \in {"update", "charge", "commit"}
             PROVE  log'[tx'[s].req].status # "absent"
  BY DEF RowsSeen
<1>1. CASE tx'[s] = tx[s]
  <2>1. tx[s].req \in Requests /\ log[tx[s].req].status # "absent"
    BY <1>1, TransactionShape DEF RowsSeen, TypeOK
  <2> QED BY <1>1, <2>1, RowKept
<1>2. CASE tx'[s] # tx[s]
  <2>1. \/ \E r \in Requests, ok \in BOOLEAN : CommitRead(s, r, ok)
        \/ CommitUpdateLog(s)
        \/ CommitIncrement(s)
    BY <1>2, SettlingStep
  <2>2. ASSUME NEW r \in Requests, NEW ok \in BOOLEAN, CommitRead(s, r, ok)
        PROVE  log'[tx'[s].req].status # "absent"
    <3>1. tx'[s].req = r
      BY <2>2 DEF CommitRead, TypeOK
    <3> QED BY <2>2, <3>1 DEF CommitRead, rows
  <2>3. ASSUME CommitUpdateLog(s) \/ CommitIncrement(s)
        PROVE  log'[tx'[s].req].status # "absent"
    <3>1. tx[s].pc \in {"update", "charge"} /\ log' = log
      BY <2>3 DEF CommitUpdateLog, CommitIncrement, rows
    <3>2. tx'[s].req = tx[s].req
      BY <2>3 DEF CommitUpdateLog, CommitIncrement, TypeOK, Transaction
    <3> QED BY <3>1, <3>2 DEF RowsSeen
  <2> QED BY <2>1, <2>2, <2>3
<1> QED BY <1>1, <1>2

\* Every reachable state is of the right type.
THEOREM TypeCorrect == Spec => []TypeOK
<1>1. Init => TypeOK /\ RowsSeen
  BY DEF Init, TypeOK, RowsSeen, Transaction, Renewal
<1>2. TypeOK /\ RowsSeen /\ [Next]_vars => (TypeOK /\ RowsSeen)'
  BY TypeStep, RowsSeenStep
<1> QED BY <1>1, <1>2, PTL DEF Spec

-----------------------------------------------------------------------------
\* A transaction about to debit the counter is entitled to: it settles a success
\* of a live key, in this transaction or, when it did not write the row, earlier.
Justified(t) ==
    /\ t.pc = "charge" => t.charge
    /\ t.charge => t.ok /\ log[t.req].key \in LiveKeys
    /\ t.pc = "commit" /\ t.wrote => (t.charge <=> t.ok /\ log[t.req].key \in LiveKeys)
    /\ ~t.wrote => t.charge /\ log[t.req].charged

ChargesJustified ==
    \A s \in Servers : tx[s].pc \in {"charge", "commit"} => Justified(tx[s])

\* Only rows that are there have been debited.
DebitedRows == \A r \in Requests : debits[r] > 0 => log[r].status # "absent"

LedgerInv == TypeOK /\ RowsSeen /\ ChargesJustified /\ DebitedRows /\ LedgerAgrees

LEMMA ChargesJustifiedStep ==
    ASSUME TypeOK, RowsSeen, ChargesJustified, [Next]_vars
    PROVE  ChargesJustified'
<1> SUFFICES ASSUME NEW s \in Servers, tx'[s].pc \in {"charge", "commit"}
             PROVE  Justified(tx[s])'
  BY DEF ChargesJustified
<1>1. CASE tx'[s] = tx[s]
  <2> DEFINE r == tx[s].req
  <2>1. r \in Requests /\ log[r].status # "absent" /\ Justified(tx[s])
    BY <1>1, TransactionShape DEF RowsSeen, ChargesJustified, TypeOK
  <2>2. log'[r].key = log[r].key /\ (log[r].charged => log'[r].charged)
    BY <2>1, RowKept
  <2> QED BY <1>1, <2>1, <2>2 DEF Justified
<1>2. ASSUME NEW r \in Requests, NEW ok \in BOOLEAN, CommitRead(s, r, ok)
      PROVE  Justified(tx[s])'
  <2>1. /\ ok /\ log[r].charged /\ log[r].key \notin TestKeys
        /\ tx'[s] = [pc |-> "charge", req |-> r, ok |-> ok, wrote |-> FALSE, charge |-> TRUE]
    BY <1>2 DEF CommitRead, TypeOK
  <2>2. log[r].key \in LiveKeys /\ log' = log
    BY <1>2, <2>1, RowShape DEF CommitRead, UsageLog, Keys, rows
  <2> QED BY <2>1, <2>2 DEF Justified
<1>3. CASE CommitUpdateLog(s)
  <2> DEFINE r == tx[s].req
             charge == tx[s].ok /\ log[r].key \notin TestKeys
  <2>1. tx'[s] = [pc |-> IF charge THEN "charge" ELSE "commit", req |-> r,
                  ok |-> tx[s].ok, wrote |-> TRUE, charge |-> charge]
    BY <1>3 DEF CommitUpdateLog, TypeOK
  <2>2. r \in Requests /\ log[r].status # "absent" /\ log' = log
    BY <1>3, TransactionShape DEF CommitUpdateLog, TypeOK, RowsSeen, rows
  <2>3. log[r].key \in LiveKeys <=> log[r].key \notin TestKeys
    BY <2>2, RowShape, ConstantsAssumption DEF UsageLog, Keys
  <2>4. /\ tx'[s].pc = IF charge THEN "charge" ELSE "commit"
        /\ tx'[s].req = r /\ tx'[s].ok = tx[s].ok
        /\ tx'[s].wrote = TRUE /\ tx'[s].charge = charge
    BY <2>1
  <2> QED BY <2>2, <2>3, <2>4 DEF Justified
<1>4. CASE CommitIncrement(s)
  <2>1. tx[s].pc = "charge" /\ Justified(tx[s]) /\ log' = log
    BY <1>4 DEF CommitIncrement, ChargesJustified, rows
  <2>2. /\ tx'[s].req = tx[s].req /\ tx'[s].ok = tx[s].ok
        /\ tx'[s].wrote = tx[s].wrote /\ tx'[s].charge = tx[s].charge
    BY <1>4, <2>1, TransactionShape DEF CommitIncrement, TypeOK
  <2> QED BY <2>1, <2>2 DEF Justified
<1>5. CASE tx'[s] # tx[s]
  <2>1. \/ \E r \in Requests, ok \in BOOLEAN : CommitRead(s, r, ok)
        \/ CommitUpdateLog(s)
        \/ CommitIncrement(s)
    BY <1>5, SettlingStep
  <2> QED BY <1>2, <1>3, <1>4, <2>1
<1> QED BY <1>1, <1>5

\* The counter is debited by a commit that charges, and by nothing else.
LEMMA DebitStep ==
    ASSUME TypeOK, [Next]_vars, NEW r \in Requests, debits'[r] # debits[r]
    PROVE  \E s \in Servers : /\ CommitFinish(s) /\ tx[s].req = r /\ tx[s].charge
                             /\ debits'[r] = debits[r] + 1
<1>1. PICK s \in Servers : CommitFinish(s)
  BY DEF Next, Step, RenewStep, vars, ValidateReplay, Age, ValidateStart,
     ValidateAdmit, ValidateInsert, CommitRead, CommitUpdateLog, CommitIncrement, Rollback,
     ExpirePending, StripeRenew, RenewRead, RenewFetch, RenewReset, RenewWrite, RenewRollback
<1> QED BY <1>1 DEF CommitFinish, TypeOK

LEMMA LedgerInvStep ==
    ASSUME LedgerInv, [Next]_vars
    PROVE  LedgerInv'
<1> USE DEF LedgerInv
<1>1. TypeOK' /\ RowsSeen' /\ ChargesJustified'
  BY TypeStep, RowsSeenStep, ChargesJustifiedStep
<1>2. DebitedRows'
  <2> SUFFICES ASSUME NEW r \in Requests, debits'[r] > 0 PROVE log'[r].status # "absent"
    BY DEF DebitedRows
  <2>1. log[r].status # "absent"
    <3>1. CASE debits'[r] = debits[r]
      BY <3>1 DEF DebitedRows
    <3>2. CASE debits'[r] # debits[r]
      <4>1. PICK s \in Servers : CommitFinish(s) /\ tx[s].req = r
        BY <3>2, DebitStep
      <4>2. tx[s].pc = "commit"
        BY <4>1 DEF CommitFinish
      <4> QED BY <4>1, <4>2 DEF RowsSeen
    <3> QED BY <3>1, <3>2
  <2> QED BY <2>1, RowKept
<1>3. LedgerAgrees'
  <2> SUFFICES ASSUME NEW r \in Requests, log'[r].status # "absent"
               PROVE  debits'[r] > 0 <=> log'[r].charged /\ log'[r].key \in LiveKeys
    BY DEF LedgerAgrees
  <2>1. CASE \E s \in Servers : CommitFinish(s) /\ tx[s].req = r
    <3>1. PICK s \in Servers : CommitFinish(s) /\ tx[s].req = r
      BY <2>1
    <3> DEFINE t == tx[s]
    <3>2. log[r].status # "absent" /\ log[r] \in UsageLog /\ Justified(t)
      BY <3>1, RowShape DEF CommitFinish, RowsSeen, ChargesJustified
    <3>3. t.pc = "commit" /\ t.ok \in BOOLEAN /\ t.wrote \in BOOLEAN /\ t.charge \in BOOLEAN
      BY <3>1, TransactionShape DEF CommitFinish, TypeOK
    <3>4. /\ log'[r].key = log[r].key
          /\ log'[r].charged <=> log[r].charged \/ (t.wrote /\ t.ok)
      <4>1. CASE t.wrote
        <5>1. log'[r] = [log[r] EXCEPT !.status = IF t.ok THEN "success" ELSE "failed",
                                       !.charged = @ \/ t.ok]
          BY <3>1, <4>1 DEF CommitFinish, TypeOK
        <5> QED BY <3>2, <3>3, <4>1, <5>1 DEF UsageLog
      <4>2. CASE ~t.wrote
        BY <3>1, <4>2 DEF CommitFinish
      <4> QED BY <4>1, <4>2
    <3>5. debits'[r] = IF t.charge THEN debits[r] + 1 ELSE debits[r]
      BY <3>1 DEF CommitFinish, TypeOK
    <3>6. debits[r] \in Nat
      BY DEF TypeOK
    <3>7. debits'[r] > 0 <=> t.charge \/ debits[r] > 0
      BY <3>3, <3>5, <3>6
    <3>8. debits[r] > 0 <=> log[r].charged /\ log[r].key \in LiveKeys
      BY <3>2 DEF LedgerAgrees
    <3>9. t.charge => /\ t.ok /\ log[r].key \in LiveKeys
                      /\ t.wrote \/ log[r].charged
      BY <3>1, <3>2, <3>3 DEF Justified
    <3>10. t.wrote /\ t.ok /\ log[r].key \in LiveKeys => t.charge
      BY <3>1, <3>2, <3>3 DEF Justified
    <3> QED BY <3>4, <3>7, <3>8, <3>9, <3>10
  <2>2. CASE ~\E s \in Servers : CommitFinish(s) /\ tx[s].req = r
    <3>1. debits'[r] = debits[r]
      BY <2>2, DebitStep
    <3>2. CASE log[r].status # "absent"
      <4>1. log'[r].key = log[r].key /\ (log'[r].charged <=> log[r].charged)
        <5>1. CASE log'[r] = log[r]
          BY <5>1
        <5>2. CASE log'[r] # log[r]
          <6>1. ExpirePending /\ r \in Expirable
            BY <2>2, <3>2, <5>2, RowStep
          <6>2. log'[r] = [log[r] EXCEPT !.status = "expired"]
            BY <6>1 DEF ExpirePending
          <6> QED BY <3>2, <6>2, RowShape DEF UsageLog
        <5> QED BY <5>1, <5>2
      <4> QED BY <3>1, <3>2, <4>1 DEF LedgerAgrees
    <3>3. CASE log[r].status = "absent"
      <4>1. PICK s \in Servers : ValidateInsert(s) /\ tx[s].req = r
        <5>1. r \notin Expirable
          BY <3>3 DEF Expirable
        <5> QED BY <2>2, <3>3, <5>1, RowStep
      <4>2. ~log'[r].charged
        BY <3>3, <4>1 DEF ValidateInsert, TypeOK
      <4>3. ~(debits[r] > 0)
        BY <3>3 DEF DebitedRows
      <4> QED BY <3>1, <4>2, <4>3
    <3> QED BY <3>2, <3>3
  <2> QED BY <2>1, <2>2
<1> QED BY <1>1, <1>2, <1>3

LEMMA LedgerInvCorrect == Spec => []LedgerInv
<1>1. Init => LedgerInv
  <2>1. Init => TypeOK
    BY DEF Init, TypeOK, Transaction, Renewal
  <2>2. Init => RowsSeen /\ ChargesJustified /\ DebitedRows /\ LedgerAgrees
    BY DEF Init, RowsSeen, ChargesJustified, DebitedRows, LedgerAgrees
  <2> QED BY <2>1, <2>2 DEF LedgerInv
<1> QED BY <1>1, LedgerInvStep, PTL DEF Spec

\* The audit trail and the counter agree in every reachable state.
THEOREM LedgerAgreesCorrect == Spec => []LedgerAgrees
  BY LedgerInvCorrect, PTL DEF LedgerInv

\* No step changes the decision a row records.
THEOREM RowImmutableCorrect == Spec => RowImmutable
<1>1. LedgerInv /\ [Next]_vars =>
        [\A r \in Requests :
           log[r].status # "absent" =>
              /\ log'[r].status # "absent"
              /\ <<log'[r].key, log'[r].access, log'[r].cost>>
                   = <<log[r].key, log[r].access, log[r].cost>>]_log
  BY RowKept DEF LedgerInv
<1> QED BY <1>1, LedgerInvCorrect, PTL DEF Spec, RowImmutable

-----------------------------------------------------------------------------
LEMMA OneAnswerStep ==
    ASSUME LedgerInv, OneAnswer, [Next]_vars
    PROVE  OneAnswer'
<1> USE DEF LedgerInv
<1> SUFFICES ASSUME NEW r \in Requests, answers'[r] # {}
             PROVE  log'[r].status # "absent" /\ answers'[r] = {log'[r].access}
  BY DEF OneAnswer
<1>1. CASE answers'[r] = answers[r]
  BY <1>1, RowKept DEF OneAnswer
<1>2. CASE answers'[r] # answers[r]
  <2>1. \/ \E q \in Requests : ValidateReplay(q)
        \/ \E s \in Servers : ValidateInsert(s)
    BY <1>2 DEF Next, Step, RenewStep, vars, Age, ValidateStart, ValidateAdmit, CommitRead,
       CommitUpdateLog, CommitIncrement, CommitFinish, Rollback, ExpirePending, StripeRenew,
       RenewRead, RenewFetch, RenewReset, RenewWrite, RenewRollback
  <2>2. ASSUME NEW q \in Requests, ValidateReplay(q)
        PROVE  log'[r].status # "absent" /\ answers'[r] = {log'[r].access}
    <3>1. q = r /\ answers'[r] = answers[r] \cup {log[r].access} /\ log' = log
      BY <1>2, <2>2 DEF ValidateReplay, TypeOK, rows
    <3>2. log[r].status # "absent"
      BY <2>2, <3>1 DEF ValidateReplay
    <3> QED BY <3>1, <3>2 DEF OneAnswer
  <2>3. ASSUME NEW s \in Servers, ValidateInsert(s)
        PROVE  log'[r].status # "absent" /\ answers'[r] = {log'[r].access}
    <3>1. /\ tx[s].req = r /\ log[r].status = "absent"
          /\ answers'[r] = answers[r] \cup {tx[s].access}
      BY <1>2, <2>3 DEF ValidateInsert, TypeOK
    <3>2. log'[r].status = "pending" /\ log'[r].access = tx[s].access
      BY <2>3, <3>1 DEF ValidateInsert, TypeOK
    <3> QED BY <3>1, <3>2 DEF OneAnswer
  <2> QED BY <2>1, <2>2, <2>3
<1> QED BY <1>1, <1>2

\* Whoever asks, and however often, is told the decision the row records.
THEOREM OneAnswerCorrect == Spec => []OneAnswer
<1>1. Init => OneAnswer
  BY DEF Init, OneAnswer
<1> QED BY <1>1, OneAnswerStep, LedgerInvCorrect, PTL DEF Spec

-----------------------------------------------------------------------------
\* The transactions that may still debit r.
Settling(r) ==
    {s \in Servers : tx[s].pc \in {"update", "charge", "commit"} /\ tx[s].req = r}

\* Every debit of r, made or in preparation, has a delivered commit of its own.
DebitsDelivered ==
    \A r \in Requests : debits[r] + Cardinality(Settling(r)) <= delivered[r]

LEMMA SettlingFinite ==
    ASSUME NEW r
    PROVE  /\ IsFiniteSet(Settling(r)) /\ Cardinality(Settling(r)) \in Nat
           /\ IsFiniteSet(Settling(r)') /\ Cardinality(Settling(r)') \in Nat
<1>1. Settling(r) \subseteq Servers /\ Settling(r)' \subseteq Servers
  BY DEF Settling
<1> QED BY <1>1, ConstantsAssumption, FS_Subset, FS_CardinalityType

LEMMA DebitsDeliveredStep ==
    ASSUME TypeOK, DebitsDelivered, [Next]_vars
    PROVE  DebitsDelivered'
<1> SUFFICES ASSUME NEW r \in Requests
             PROVE  debits'[r] + Cardinality(Settling(r)') <= delivered'[r]
  BY DEF DebitsDelivered
<1>0. /\ debits[r] + Cardinality(Settling(r)) <= delivered[r]
      /\ debits[r] \in Nat /\ delivered[r] \in Nat
      /\ Cardinality(Settling(r)) \in Nat /\ Cardinality(Settling(r)') \in Nat
  BY SettlingFinite DEF DebitsDelivered, TypeOK
<1>1. ASSUME NEW s \in Servers, NEW ok \in BOOLEAN, CommitRead(s, r, ok)
      PROVE  debits'[r] + Cardinality(Settling(r)') <= delivered'[r]
  <2>1. Settling(r)' \subseteq Settling(r) \cup {s}
    BY <1>1 DEF CommitRead, Settling, TypeOK
  <2>2. /\ s \notin Settling(r)
        /\ debits'[r] = debits[r] /\ delivered'[r] = delivered[r] + 1
    BY <1>1 DEF CommitRead, Settling, TypeOK
  <2>3. Cardinality(Settling(r)') <= Cardinality(Settling(r)) + 1
    <3>1. /\ IsFiniteSet(Settling(r) \cup {s})
          /\ Cardinality(Settling(r) \cup {s}) = Cardinality(Settling(r)) + 1
      BY <2>2, SettlingFinite, FS_AddElement
    <3>2. Cardinality(Settling(r)') <= Cardinality(Settling(r) \cup {s})
      BY <2>1, <3>1, FS_Subset
    <3> QED BY <3>1, <3>2
  <2> QED BY <1>0, <2>2, <2>3
<1>2. ASSUME NEW s \in Servers, CommitFinish(s), tx[s].req = r
      PROVE  debits'[r] + Cardinality(Settling(r)') <= delivered'[r]
  <2>1. s \in Settling(r) /\ Settling(r)' \subseteq Settling(r) \ {s}
    BY <1>2 DEF CommitFinish, Settling, TypeOK
  <2>2. Cardinality(Settling(r)') <= Cardinality(Settling(r)) - 1
    BY <2>1, SettlingFinite, FS_RemoveElement, FS_Subset
  <2>3. /\ debits'[r] = debits[r] \/ debits'[r] = debits[r] + 1
        /\ delivered'[r] = delivered[r]
    BY <1>2 DEF CommitFinish, TypeOK
  <2> QED BY <1>0, <2>2, <2>3
<1>3. CASE /\ ~\E s \in Servers, ok \in BOOLEAN : CommitRead(s, r, ok)
           /\ ~\E s \in Servers : CommitFinish(s) /\ tx[s].req = r
  <2>1. debits'[r] = debits[r]
    BY <1>3, DebitStep
  <2>2. delivered'[r] = delivered[r]
    BY <1>3 DEF Next, Step, RenewStep, vars, TypeOK, ValidateReplay, Age, ValidateStart,
       ValidateAdmit, ValidateInsert, CommitRead, CommitUpdateLog, CommitIncrement,
       CommitFinish, Rollback, ExpirePending, StripeRenew,
       RenewRead, RenewFetch, RenewReset, RenewWrite, RenewRollback
  <2>3. Settling(r)' \subseteq Settling(r)
    <3> SUFFICES ASSUME NEW s \in Servers, tx'[s].pc \in {"update", "charge", "commit"},
                        tx'[s].req = r, tx'[s] # tx[s]
                 PROVE  s \in Settling(r)
      BY DEF Settling
    <3>1. ASSUME NEW q \in Requests, NEW ok \in BOOLEAN, CommitRead(s, q, ok)
          PROVE  FALSE
      <4>1. q = r
        BY <3>1 DEF CommitRead, TypeOK
      <4> QED BY <1>3, <3>1, <4>1
    <3>2. CASE CommitUpdateLog(s)
      BY <3>2 DEF CommitUpdateLog, Settling, TypeOK
    <3>3. CASE CommitIncrement(s)
      BY <3>3, TransactionShape DEF CommitIncrement, Settling, TypeOK
    <3> QED BY <3>1, <3>2, <3>3, SettlingStep
  <2>4. Cardinality(Settling(r)') <= Cardinality(Settling(r))
    BY <2>3, SettlingFinite, FS_Subset
  <2> QED BY <1>0, <2>1, <2>2, <2>4
<1> QED BY <1>1, <1>2, <1>3

\* No request is debited more often than its commit was reported, and a test
\* key's never.
THEOREM DebitsBoundedCorrect == Spec => []DebitsBounded
<1>1. Init => DebitsDelivered
  <2> SUFFICES ASSUME Init, NEW r \in Requests
               PROVE  debits[r] + Cardinality(Settling(r)) <= delivered[r]
    BY DEF DebitsDelivered
  <2>1. Settling(r) = {}
    BY DEF Init, Settling
  <2> QED BY <2>1, FS_EmptySet DEF Init
<1>2. LedgerInv /\ DebitsDelivered => DebitsBounded
  BY SettlingFinite
     DEF LedgerInv, TypeOK, DebitsDelivered, DebitsBounded, DebitedRows, LedgerAgrees
<1>3. LedgerInv /\ DebitsDelivered /\ [Next]_vars => DebitsDelivered'
  BY DebitsDeliveredStep DEF LedgerInv
<1> QED BY <1>1, <1>2, <1>3, LedgerInvCorrect, PTL DEF Spec

-----------------------------------------------------------------------------
(* UsageQuota implements UsageLedger: a step that touches neither a row nor *)
(* the counter is a stutter, and each of the others is one ledger step.     *)

\* The decision about to be recorded is one the ledger admits.
Priced ==
    \A s \in Servers :
        tx[s].pc = "insert" =>
            IF tx[s].key \in TestKeys THEN tx[s].access = "granted" /\ tx[s].cost = 0
                                     ELSE tx[s].cost \in Costs

LEMMA PricedStep ==
    ASSUME TypeOK, Priced, [Next]_vars
    PROVE  Priced'
<1> SUFFICES ASSUME NEW s \in Servers, tx'[s].pc = "insert"
             PROVE  IF tx'[s].key \in TestKeys
                    THEN tx'[s].access = "granted" /\ tx'[s].cost = 0
                    ELSE tx'[s].cost \in Costs
  BY DEF Priced
<1>1. CASE tx'[s] = tx[s]
  BY <1>1 DEF Priced
<1>2. CASE ValidateAdmit(s)
  <2>1. PICK cost \in IF tx[s].key \in TestKeys THEN {0} ELSE Costs :
          tx' = [tx EXCEPT ![s] =
                   [pc |-> "insert", req |-> tx[s].req, key |-> tx[s].key, cost |-> cost,
                    access |-> IF \/ tx[s].key \in TestKeys
                                  \/ credits_used + cost <= Limit
                               THEN "granted" ELSE "denied"]]
    BY <1>2 DEF ValidateAdmit
  <2> QED BY <2>1 DEF TypeOK
<1>3. CASE tx'[s] # tx[s]
  <2>1. ASSUME NEW r \in Requests, NEW k \in Keys, ValidateStart(s, r, k) PROVE FALSE
    BY <2>1 DEF ValidateStart, TypeOK
  <2>2. ASSUME NEW r \in Requests, NEW ok \in BOOLEAN, CommitRead(s, r, ok) PROVE FALSE
    <3>1. tx'[s].pc \in {"update", "charge", "idle"}
      BY <2>2 DEF CommitRead, TypeOK
    <3> QED BY <3>1
  <2>3. ~ValidateInsert(s) /\ ~CommitUpdateLog(s) /\ ~CommitFinish(s) /\ ~Rollback(s)
    BY DEF ValidateInsert, CommitUpdateLog, CommitFinish, Rollback, TypeOK
  <2>4. ~CommitIncrement(s)
    BY TransactionShape DEF CommitIncrement, TypeOK
  <2> QED BY <1>2, <1>3, <2>1, <2>2, <2>3, <2>4, TxStep DEF Step
<1> QED BY <1>1, <1>3

LEMMA InsertRecords ==
    ASSUME TypeOK, Priced, NEW s \in Servers, ValidateInsert(s), log' # log
    PROVE  Ledger!Record(tx[s].req)
<1> DEFINE t == tx[s]
<1>1. /\ t.pc = "insert" /\ t.key \in LiveKeys \cup TestKeys
      /\ t.access \in {"granted", "denied"}
  BY TransactionShape DEF ValidateInsert, TypeOK, Keys, Access
<1>2. IF t.key \in TestKeys THEN t.access = "granted" /\ t.cost = 0 ELSE t.cost \in Costs
  BY <1>1 DEF Priced
<1>3. /\ log[t.req].status = "absent"
      /\ log' = [log EXCEPT ![t.req] = [status |-> "pending", key |-> t.key,
                   access |-> t.access, cost |-> t.cost, charged |-> FALSE]]
      /\ UNCHANGED <<credits_used, debits>>
  BY DEF ValidateInsert
<1> QED BY <1>1, <1>2, <1>3 DEF Ledger!Record, Ledger!Status

LEMMA LedgerStep ==
    ASSUME LedgerInv, Priced, [Next]_vars
    PROVE  [Ledger!Next]_(Ledger!ledger)
<1> USE DEF LedgerInv
<1>1. CASE UNCHANGED <<log, credits_used, debits>>
  BY <1>1 DEF Ledger!ledger
<1>2. ASSUME NEW s \in Servers, CommitFinish(s) PROVE [Ledger!Next]_(Ledger!ledger)
  <2> DEFINE t == tx[s]
             r == tx[s].req
  <2>1. /\ t.pc = "commit" /\ r \in Requests /\ t.ok \in BOOLEAN
        /\ t.wrote \in BOOLEAN /\ t.charge \in BOOLEAN
    BY <1>2, TransactionShape DEF CommitFinish, TypeOK
  <2>2. log[r].status # "absent" /\ log[r] \in UsageLog /\ Justified(t)
    BY <2>1, RowShape DEF RowsSeen, ChargesJustified
  <2>3. log[r].key \in LiveKeys <=> log[r].key \notin TestKeys
    BY <2>2, ConstantsAssumption DEF UsageLog, Keys
  <2>4. IF t.charge THEN Ledger!Debit(r) ELSE UNCHANGED <<credits_used, debits>>
    BY <1>2 DEF CommitFinish, Ledger!Debit
  <2>5. CASE t.wrote /\ t.ok
    <3>1. log' = [log EXCEPT ![r].status = "success", ![r].charged = TRUE]
      BY <1>2, <2>5 DEF CommitFinish
    <3>2. t.charge <=> log[r].key \notin TestKeys
      BY <2>1, <2>2, <2>3, <2>5 DEF Justified
    <3>3. Ledger!Succeed(r)
      BY <2>2, <2>4, <3>1, <3>2 DEF Ledger!Succeed, Ledger!Status
    <3> QED BY <2>1, <3>3 DEF Ledger!Next
  <2>6. CASE t.wrote /\ ~t.ok
    <3>1. log' = [log EXCEPT ![r].status = "failed"]
      <4>1. log' = [log EXCEPT ![r].status = "failed", ![r].charged = log[r].charged]
        BY <1>2, <2>1, <2>2, <2>6 DEF CommitFinish, UsageLog
      <4> QED BY <2>1, <2>2, <4>1 DEF TypeOK, UsageLog
    <3>2. ~t.charge
      BY <2>1, <2>2, <2>6 DEF Justified
    <3>3. Ledger!Fail(r)
      BY <2>2, <2>4, <3>1, <3>2 DEF Ledger!Fail, Ledger!Status
    <3> QED BY <2>1, <3>3 DEF Ledger!Next
  <2>7. CASE ~t.wrote
    <3>1. log' = log
      BY <1>2, <2>7 DEF CommitFinish
    <3>2. t.charge /\ log[r].charged /\ log[r].key \notin TestKeys
      BY <2>1, <2>2, <2>3, <2>7 DEF Justified
    <3>3. Ledger!Repeat(r)
      BY <2>2, <2>4, <3>1, <3>2 DEF Ledger!Repeat, Ledger!Status
    <3> QED BY <2>1, <3>3 DEF Ledger!Next
  <2> QED BY <2>1, <2>5, <2>6, <2>7
<1>3. CASE ExpirePending
  <2>1. Expirable \in SUBSET Requests /\ \A r \in Expirable : log[r].status = "pending"
    BY DEF Expirable, TypeOK
  <2>2. Ledger!Expire(Expirable)
    BY <1>3, <2>1 DEF ExpirePending, Ledger!Expire, Ledger!Status
  <2> QED BY <2>1, <2>2 DEF Ledger!Next
<1>4. ASSUME NEW w \in Renewers, RenewWrite(w) PROVE [Ledger!Next]_(Ledger!ledger)
  <2>1. CASE renew[w].reset
    BY <1>4, <2>1 DEF RenewWrite, Ledger!Next, Ledger!Reset
  <2>2. CASE ~renew[w].reset
    BY <1>4, <2>2 DEF RenewWrite, Ledger!ledger
  <2> QED BY <2>1, <2>2
<1>5. ASSUME NEW s \in Servers, ValidateInsert(s) PROVE [Ledger!Next]_(Ledger!ledger)
  <2> DEFINE t == tx[s]
  <2>1. CASE log' = log
    BY <1>5, <2>1 DEF ValidateInsert, Ledger!ledger
  <2>2. CASE log' # log
    <3>1. Ledger!Record(t.req)
      BY <1>5, <2>2, InsertRecords
    <3>2. t.req \in Requests
      BY <1>5, TransactionShape DEF ValidateInsert, TypeOK
    <3> QED BY <3>1, <3>2 DEF Ledger!Next
  <2> QED BY <2>1, <2>2
<1>6. \/ UNCHANGED <<log, credits_used, debits>>
      \/ \E s \in Servers : CommitFinish(s) \/ ValidateInsert(s)
      \/ ExpirePending
      \/ \E w \in Renewers : RenewWrite(w)
  BY DEF Next, Step, RenewStep, vars, rows, ValidateReplay, Age, ValidateStart, ValidateAdmit,
     CommitRead, CommitUpdateLog, CommitIncrement, Rollback, StripeRenew, RenewRead,
     RenewFetch, RenewReset, RenewRollback
<1> QED BY <1>1, <1>2, <1>3, <1>4, <1>5, <1>6

\* The interleaved transactions implement the atomic ledger.
THEOREM LedgerRefined == Spec => LedgerSpec
<1>1. Init => Ledger!Init
  BY DEF Init, Ledger!Init
<1>2. Init => Priced
  BY DEF Init, Priced
<1>3. LedgerInv /\ Priced /\ [Next]_vars => Priced'
  BY PricedStep DEF LedgerInv
<1>4. LedgerInv /\ Priced /\ [Next]_vars => [Ledger!Next]_(Ledger!ledger)
  BY LedgerStep
<1> QED BY <1>1, <1>2, <1>3, <1>4, LedgerInvCorrect, PTL DEF Spec, LedgerSpec, Ledger!Spec

-----------------------------------------------------------------------------
(* One subscription.updated event at a time keeps the counter exact.        *)

\* What the renewal in progress knows of the period is still true.
RenewalCurrent(v) ==
    /\ v.pc \in {"fetch", "reset"} => v.old = period
    /\ v.pc \in {"reset", "write"} => period <= v.new /\ v.new <= stripePeriod
    /\ v.pc = "write" => (v.reset <=> v.new # period)

CounterInv ==
    /\ newest = period /\ period <= stripePeriod
    /\ \A w \in Renewers : RenewalCurrent(renew[w])
    /\ CounterIsPeriodTotal

LEMMA CounterInvStep ==
    ASSUME \A v, w \in Renewers : v = w,
           TypeOK, CounterInv, [Next]_vars
    PROVE  CounterInv'
<1> USE DEF CounterInv, CounterIsPeriodTotal
<1>1. ASSUME NEW w \in Renewers, RenewRead(w) PROVE CounterInv'
  <2>1. renew'[w] = [pc |-> "fetch", old |-> period]
    BY <1>1 DEF RenewRead, TypeOK
  <2>2. RenewalCurrent(renew[w])'
    BY <1>1, <2>1 DEF RenewRead, RenewalCurrent, rows
  <2> QED BY <1>1, <2>2 DEF RenewRead, rows, ages
<1>2. ASSUME NEW w \in Renewers, RenewFetch(w) PROVE CounterInv'
  <2>1. renew'[w] = [pc |-> "reset", old |-> renew[w].old, new |-> stripePeriod]
    BY <1>2 DEF RenewFetch, TypeOK
  <2>2. RenewalCurrent(renew[w])'
    BY <1>2, <2>1 DEF RenewFetch, RenewalCurrent, TypeOK, rows
  <2> QED BY <1>2, <2>2 DEF RenewFetch, rows, ages
<1>3. ASSUME NEW w \in Renewers, RenewReset(w) PROVE CounterInv'
  <2>1. renew'[w] = [pc |-> "write", new |-> renew[w].new,
                     reset |-> renew[w].old # renew[w].new]
    BY <1>3 DEF RenewReset, TypeOK
  <2>2. RenewalCurrent(renew[w])'
    <3>1. /\ renew'[w].pc = "write" /\ renew'[w].new = renew[w].new
          /\ renew'[w].reset = (renew[w].old # renew[w].new)
      BY <2>1
    <3>2. renew[w].pc = "reset" /\ UNCHANGED <<period, stripePeriod>>
      BY <1>3 DEF RenewReset, rows
    <3> QED BY <3>1, <3>2 DEF RenewalCurrent
  <2> QED BY <1>3, <2>2 DEF RenewReset, rows, ages
<1>4. ASSUME NEW w \in Renewers, RenewWrite(w) PROVE CounterInv'
  <2>1. /\ period <= renew[w].new /\ renew[w].new <= stripePeriod
        /\ renew[w].reset <=> renew[w].new # period
    BY <1>4 DEF RenewWrite, RenewalCurrent
  <2>2. renew[w].new \in Nat /\ period \in Nat
    BY <1>4, RenewalShape DEF RenewWrite, TypeOK
  <2>3. renew'[w] = Idle
    BY <1>4 DEF RenewWrite, TypeOK
  <2>4. RenewalCurrent(renew[w])'
    BY <2>3 DEF RenewalCurrent
  <2>5. newest' = period' /\ period' <= stripePeriod' /\ credits_used' = consumed'
    BY <1>4, <2>1, <2>2 DEF RenewWrite
  <2> QED BY <2>4, <2>5
<1>5. ASSUME NEW w \in Renewers, RenewRollback(w) PROVE CounterInv'
  <2>1. RenewalCurrent(renew[w])'
    BY <1>5 DEF RenewRollback, RenewalCurrent, TypeOK
  <2> QED BY <1>5, <2>1 DEF RenewRollback, rows, ages
<1>6. CASE StripeRenew
  <2>1. stripePeriod' = stripePeriod + 1 /\ stripePeriod \in Nat /\ period \in Nat
        /\ UNCHANGED <<period, newest, renew, credits_used, consumed>>
    BY <1>6 DEF StripeRenew, TypeOK, rows, ages
  <2>2. ASSUME NEW w \in Renewers PROVE RenewalCurrent(renew[w])'
    BY <2>1, RenewalShape DEF RenewalCurrent, TypeOK
  <2> QED BY <2>1, <2>2
<1>7. ASSUME NEW s \in Servers, CommitFinish(s) PROVE CounterInv'
  <2>1. /\ UNCHANGED <<period, newest, stripePeriod, renew>>
        /\ credits_used' = consumed'
    BY <1>7 DEF CommitFinish
  <2> QED BY <2>1 DEF RenewalCurrent
<1>8. CASE UNCHANGED <<period, newest, stripePeriod, renew, credits_used, consumed>>
  BY <1>8 DEF RenewalCurrent
<1>9. \/ \E w \in Renewers : RenewRead(w) \/ RenewStep(w) \/ RenewRollback(w)
      \/ StripeRenew
      \/ \E s \in Servers : CommitFinish(s)
      \/ UNCHANGED <<period, newest, stripePeriod, renew, credits_used, consumed>>
  BY DEF Next, Step, vars, rows, ages, ValidateReplay, Age, ValidateStart, ValidateAdmit,
     ValidateInsert, CommitRead, CommitUpdateLog, CommitIncrement, Rollback, ExpirePending
<1> QED BY <1>1, <1>2, <1>3, <1>4, <1>5, <1>6, <1>7, <1>8, <1>9 DEF RenewStep

\* When subscription.updated events are handled one at a time, credits_used is
\* the total consumed in the current period; with two at a time it is not.
THEOREM CounterCorrect ==
    ASSUME \A v, w \in Renewers : v = w
    PROVE  Spec => []CounterIsPeriodTotal
<1>1. Init => CounterInv
  BY DEF Init, CounterInv, CounterIsPeriodTotal, RenewalCurrent
<1>2. TypeOK /\ CounterInv /\ [Next]_vars => CounterInv'
  BY CounterInvStep
<1>3. CounterInv => CounterIsPeriodTotal
  BY DEF CounterInv
<1> QED BY <1>1, <1>2, <1>3, TypeCorrect, PTL DEF Spec

-----------------------------------------------------------------------------
(* The allocation is exceeded by no more than the price of the requests that *)
(* are open beside the one admitted last.                                   *)

Disciplined ==
    \A r \in Requests : delivered[r] <= 1 /\ (delivered[r] = 1 => log[r].access = "granted")

\* The price that r may still be debited: that of its row while it is open or being
\* settled, or that of a row about to be inserted.
Due(r, k) ==
    /\ k # 0
    /\ \/ log[r].status = "pending" /\ log[r].access = "granted" /\ k = log[r].cost
       \/ Settling(r) # {} /\ k = log[r].cost
       \/ /\ log[r].status = "absent"
          /\ \E s \in Servers : /\ tx[s].pc = "insert" /\ tx[s].req = r
                                /\ tx[s].access = "granted" /\ k = tx[s].cost

Owing == {r \in Requests : \E k \in Nat : Due(r, k)}

\* q is the request admitted last: when it was, its price fitted within the limit, and
\* each other request costs at most c.
Within(c) ==
    \/ Owing = {} /\ credits_used <= Limit
    \/ \E q \in Requests, k \in Nat :
         /\ \A j \in Nat : Due(q, j) => j <= k
         /\ credits_used + k + c * Cardinality(Owing \ {q}) <= Limit + c * (MaxOpen - 1)

\* A commit is delivered for a row that is there, whose price is one of those given.
RowsPriced ==
    \A r \in Requests : /\ delivered[r] > 0 => log[r].status # "absent"
                        /\ log[r].status # "absent" => log[r].cost \in Costs \cup {0}

LEMMA RowsPricedStep ==
    ASSUME LedgerInv, Priced, RowsPriced, [Next]_vars
    PROVE  RowsPriced'
<1> USE DEF LedgerInv
<1>1. ASSUME NEW r \in Requests, delivered'[r] > 0 PROVE log'[r].status # "absent"
  <2>1. CASE delivered'[r] = delivered[r]
    BY <1>1, <2>1, RowKept DEF RowsPriced
  <2>2. CASE delivered'[r] # delivered[r]
    <3>1. \E s \in Servers, q \in Requests, ok \in BOOLEAN : CommitRead(s, q, ok)
      BY <2>2 DEF Next, Step, RenewStep, vars, ValidateReplay, Age, ValidateStart,
         ValidateAdmit, ValidateInsert, CommitUpdateLog, CommitIncrement,
         CommitFinish, Rollback, ExpirePending, StripeRenew,
         RenewRead, RenewFetch, RenewReset, RenewWrite, RenewRollback
    <3>2. ASSUME NEW s \in Servers, NEW q \in Requests, NEW ok \in BOOLEAN, CommitRead(s, q, ok)
          PROVE  log'[r].status # "absent"
      BY <2>2, <3>2 DEF CommitRead, TypeOK, rows
    <3> QED BY <3>1, <3>2
  <2> QED BY <2>1, <2>2
<1>2. ASSUME NEW r \in Requests, log'[r].status # "absent" PROVE log'[r].cost \in Costs \cup {0}
  <2>1. CASE log[r].status # "absent"
    BY <2>1, RowKept DEF RowsPriced
  <2>2. CASE log[r].status = "absent"
    <3>1. log'[r] # log[r]
      BY <1>2, <2>2
    <3>2. ASSUME NEW s \in Servers, ValidateInsert(s) PROVE log'[r].cost \in Costs \cup {0}
      <4>1. tx[s].req = r /\ log'[r].cost = tx[s].cost
        BY <3>1, <3>2 DEF ValidateInsert, TypeOK
      <4>2. tx[s].cost \in Costs \cup {0}
        BY <3>2 DEF ValidateInsert, Priced
      <4> QED BY <4>1, <4>2
    <3>3. ASSUME NEW s \in Servers, CommitFinish(s) PROVE FALSE
      <4>1. tx[s].req = r
        BY <3>1, <3>3 DEF CommitFinish, TypeOK
      <4> QED BY <2>2, <3>3, <4>1 DEF CommitFinish, RowsSeen
    <3>4. CASE ExpirePending
      BY <2>2, <3>1, <3>4 DEF ExpirePending, Expirable
    <3>5. \/ \E s \in Servers : ValidateInsert(s) \/ CommitFinish(s)
          \/ ExpirePending
      BY <3>1 DEF Next, Step, RenewStep, vars, rows, ValidateReplay, Age, ValidateStart,
         ValidateAdmit, CommitRead, CommitUpdateLog, CommitIncrement, Rollback, StripeRenew,
         RenewRead, RenewFetch, RenewReset, RenewWrite, RenewRollback
    <3> QED BY <3>2, <3>3, <3>4, <3>5
  <2> QED BY <2>1, <2>2
<1> QED BY <1>1, <1>2 DEF RowsPriced

\* A caller that is disciplined has been so.
LEMMA DisciplinedBefore ==
    ASSUME LedgerInv, RowsPriced, [Next]_vars, Disciplined'
    PROVE  Disciplined
<1> USE DEF LedgerInv
<1> SUFFICES ASSUME NEW r \in Requests
             PROVE  delivered[r] <= 1 /\ (delivered[r] = 1 => log[r].access = "granted")
  BY DEF Disciplined
<1>1. delivered[r] \in Nat /\ delivered'[r] \in Nat /\ delivered[r] <= delivered'[r]
  <2>1. ASSUME NEW s \in Servers, NEW q \in Requests, NEW ok \in BOOLEAN, CommitRead(s, q, ok)
        PROVE  delivered[r] <= delivered'[r]
    BY <2>1 DEF CommitRead, TypeOK
  <2>2. \/ UNCHANGED delivered
        \/ \E s \in Servers, q \in Requests, ok \in BOOLEAN : CommitRead(s, q, ok)
    BY DEF Next, Step, RenewStep, vars, ValidateReplay, Age, ValidateStart,
       ValidateAdmit, ValidateInsert, CommitUpdateLog, CommitIncrement,
       CommitFinish, Rollback, ExpirePending, StripeRenew,
       RenewRead, RenewFetch, RenewReset, RenewWrite, RenewRollback
  <2> QED BY <2>1, <2>2, TypeStep DEF TypeOK
<1>2. delivered'[r] <= 1 /\ (delivered'[r] = 1 => log'[r].access = "granted")
  BY DEF Disciplined
<1>3. delivered[r] = 1 => log[r].access = log'[r].access
  BY RowKept DEF RowsPriced
<1> QED BY <1>1, <1>2, <1>3

\* Owing requests are open.
LEMMA OwingOpen == Owing \subseteq Open
  BY DEF Owing, Open, Due, Settling

OpenFew == IsFiniteSet(Open) /\ Cardinality(Open) <= MaxOpen

\* The commit of a disciplined caller is the first for its row, which grants access.
LEMMA CommitOnce ==
    ASSUME LedgerInv, DebitsDelivered, [Next]_vars, Disciplined',
           NEW s \in Servers, NEW r \in Requests, NEW ok \in BOOLEAN, CommitRead(s, r, ok)
    PROVE  /\ log[r].access = "granted" /\ log' = log
           /\ tx'[s].pc # "idle" => log[r].status = "pending"
<1> USE DEF LedgerInv
<1>1. delivered'[r] = delivered[r] + 1 /\ delivered[r] \in Nat /\ log' = log
      /\ log[r].status # "absent"
  BY DEF CommitRead, TypeOK, rows
<1>2. delivered[r] = 0 /\ log[r].access = "granted"
  BY <1>1 DEF Disciplined
<1>3. ~(debits[r] > 0)
  BY <1>2, SettlingFinite DEF DebitsDelivered, TypeOK
<1>4. ~(log[r].charged /\ log[r].key \notin TestKeys)
  BY <1>1, <1>3, RowShape DEF LedgerAgrees, UsageLog, Keys
<1>5. log[r].status # "pending" => tx'[s].pc = "idle"
  BY <1>4 DEF CommitRead, TypeOK
<1> QED BY <1>1, <1>2, <1>5

\* Only the start of a validation opens a request.
LEMMA OpenStep ==
    ASSUME LedgerInv, DebitsDelivered, [Next]_vars, Disciplined', NEW r \in Requests,
           r \in Open', r \notin Open
    PROVE  \E s \in Servers, k \in Keys : ValidateStart(s, r, k)
<1> USE DEF LedgerInv
<1>0. /\ ~(log[r].status = "pending" /\ log[r].access = "granted")
      /\ \A s \in Servers : tx[s].pc # "idle" => tx[s].req # r
  BY DEF Open
<1>1. ~(log'[r].status = "pending" /\ log'[r].access = "granted")
  <2> SUFFICES ASSUME log'[r].status = "pending", log'[r].access = "granted" PROVE FALSE
    OBVIOUS
  <2>1. log'[r] # log[r]
    BY <1>0
  <2>2. ExpirePending /\ r \in Expirable
    <3>1. ASSUME NEW s \in Servers, ValidateInsert(s) \/ CommitFinish(s), tx[s].req = r
          PROVE  FALSE
      BY <1>0, <3>1 DEF ValidateInsert, CommitFinish
    <3> QED BY <2>1, <3>1, RowStep
  <2>3. log'[r] = [log[r] EXCEPT !.status = "expired"]
    BY <2>2 DEF ExpirePending
  <2>4. log[r].status = "pending"
    BY <2>2 DEF Expirable
  <2>5. log[r] \in UsageLog
    BY <2>4, RowShape
  <2> QED BY <2>3, <2>5 DEF UsageLog
<1>2. PICK s \in Servers : tx'[s].pc # "idle" /\ tx'[s].req = r
  BY <1>1 DEF Open
<1>3. tx'[s] # tx[s]
  BY <1>0, <1>2
<1>4. ASSUME NEW q \in Requests, NEW k \in Keys, ValidateStart(s, q, k)
      PROVE  ValidateStart(s, r, k)
  <2>1. q = r
    BY <1>2, <1>4 DEF ValidateStart, TypeOK
  <2> QED BY <1>4, <2>1
<1>5. ASSUME NEW q \in Requests, NEW ok \in BOOLEAN, CommitRead(s, q, ok) PROVE FALSE
  <2>1. q = r
    BY <1>2, <1>5 DEF CommitRead, TypeOK
  <2>2. CommitRead(s, r, ok)
    BY <1>5, <2>1
  <2> QED BY <1>0, <1>2, <2>2, CommitOnce
<1>6. ~Rollback(s) /\ ~ValidateInsert(s) /\ ~CommitFinish(s)
  BY <1>2 DEF Rollback, ValidateInsert, CommitFinish, TypeOK
<1>7. ~ValidateAdmit(s)
  <2> SUFFICES ASSUME ValidateAdmit(s) PROVE FALSE
    OBVIOUS
  <2>1. tx'[s].req = tx[s].req /\ tx[s].pc # "idle"
    BY DEF ValidateAdmit, TypeOK
  <2> QED BY <1>0, <1>2, <2>1
<1>8. ~CommitUpdateLog(s) /\ ~CommitIncrement(s)
  <2> SUFFICES ASSUME CommitUpdateLog(s) \/ CommitIncrement(s) PROVE FALSE
    OBVIOUS
  <2>1. tx'[s].req = tx[s].req /\ tx[s].pc # "idle"
    BY DEF CommitUpdateLog, CommitIncrement, TypeOK, Transaction
  <2> QED BY <1>0, <1>2, <2>1
<1> QED BY <1>3, <1>4, <1>5, <1>6, <1>7, <1>8, TxStep DEF Step

LEMMA OpenFewStep ==
    ASSUME LedgerInv, DebitsDelivered, OpenFew, [Next]_vars, Disciplined'
    PROVE  OpenFew'
<1>1. CASE Open' \subseteq Open
  <2>1. IsFiniteSet(Open') /\ Cardinality(Open') <= Cardinality(Open)
    BY <1>1, FS_Subset DEF OpenFew
  <2>2. Cardinality(Open) \in Nat /\ Cardinality(Open') \in Nat
    BY <2>1, FS_CardinalityType DEF OpenFew
  <2> QED BY <2>1, <2>2, ConstantsAssumption DEF OpenFew
<1>2. CASE ~(Open' \subseteq Open)
  <2>1. PICK r \in Requests : r \in Open' /\ r \notin Open
    BY <1>2 DEF Open
  <2>2. PICK s \in Servers, k \in Keys : ValidateStart(s, r, k)
    BY <2>1, OpenStep
  <2>3. Cardinality(Open \cup {r}) <= MaxOpen /\ IsFiniteSet(Open \cup {r})
    BY <2>2, FS_AddElement DEF ValidateStart, OpenFew
  <2>4. Open' \subseteq Open \cup {r}
    BY <2>2 DEF ValidateStart, Open, TypeOK, LedgerInv, rows
  <2>5. IsFiniteSet(Open') /\ Cardinality(Open') <= Cardinality(Open \cup {r})
    BY <2>3, <2>4, FS_Subset
  <2>6. Cardinality(Open \cup {r}) \in Nat /\ Cardinality(Open') \in Nat
    BY <2>3, <2>5, FS_CardinalityType
  <2> QED BY <2>3, <2>5, <2>6, ConstantsAssumption DEF OpenFew
<1> QED BY <1>1, <1>2

\* A price becomes due when a request is granted, and then it fits within the limit.
LEMMA DueStep ==
    ASSUME LedgerInv, DebitsDelivered, [Next]_vars, Disciplined',
           NEW r \in Requests, NEW k \in Nat, Due(r, k)', ~Due(r, k)
    PROVE  \E s \in Servers : /\ ValidateAdmit(s) /\ credits_used + k <= Limit
                             /\ tx'[s].pc = "insert"
                             /\ tx'[s].req = r /\ tx'[s].cost = k
<1> USE DEF LedgerInv
<1>0. k # 0
  BY DEF Due
<1>1. ~(log'[r].status = "pending" /\ log'[r].access = "granted" /\ k = log'[r].cost)
  <2> SUFFICES ASSUME log'[r].status = "pending", log'[r].access = "granted", k = log'[r].cost
               PROVE  FALSE
    OBVIOUS
  <2>1. log'[r] # log[r]
    BY <1>0 DEF Due
  <2>2. ASSUME NEW s \in Servers, ValidateInsert(s), tx[s].req = r, log[r] = Absent
        PROVE  FALSE
    <3>1. tx[s].pc = "insert" /\ tx[s].access = "granted" /\ tx[s].cost = k
      BY <2>2 DEF ValidateInsert, TypeOK
    <3> QED BY <1>0, <2>2, <3>1 DEF Due
  <2>3. ASSUME NEW s \in Servers, CommitFinish(s), tx[s].req = r, tx[s].wrote
        PROVE  FALSE
    <3>1. log'[r] = [log[r] EXCEPT !.status = IF tx[s].ok THEN "success" ELSE "failed",
                                   !.charged = @ \/ tx[s].ok]
      BY <2>3 DEF CommitFinish, TypeOK
    <3>2. log[r] \in UsageLog
      BY <2>3, RowShape DEF CommitFinish, RowsSeen
    <3> QED BY <3>1, <3>2 DEF UsageLog
  <2>4. ASSUME ExpirePending, r \in Expirable PROVE FALSE
    <3>1. log'[r] = [log[r] EXCEPT !.status = "expired"]
      BY <2>4 DEF ExpirePending
    <3>2. log[r] \in UsageLog
      BY <2>4, RowShape DEF Expirable
    <3> QED BY <3>1, <3>2 DEF UsageLog
  <2> QED BY <2>1, <2>2, <2>3, <2>4, RowStep
<1>2. ~(Settling(r)' # {} /\ k = log'[r].cost)
  <2> SUFFICES ASSUME NEW s \in Servers, tx'[s].pc \in {"update", "charge", "commit"},
                      tx'[s].req = r, k = log'[r].cost
               PROVE  FALSE
    BY DEF Settling
  <2>1. ASSUME s \in Settling(r) PROVE FALSE
    <3>1. log[r].status # "absent"
      BY <2>1 DEF Settling, RowsSeen
    <3>2. k = log[r].cost
      BY <3>1, RowKept
    <3> QED BY <1>0, <2>1, <3>2 DEF Due
  <2>2. CASE tx'[s] = tx[s]
    BY <2>1, <2>2 DEF Settling
  <2>3. ASSUME NEW q \in Requests, NEW ok \in BOOLEAN, CommitRead(s, q, ok) PROVE FALSE
    <3>1. q = r
      BY <2>3 DEF CommitRead, TypeOK
    <3>2. CommitRead(s, r, ok)
      BY <2>3, <3>1
    <3> QED BY <1>0, <3>2, CommitOnce DEF Due
  <2>4. ASSUME CommitUpdateLog(s) \/ CommitIncrement(s) PROVE FALSE
    <3>1. s \in Settling(r)
      BY <2>4 DEF CommitUpdateLog, CommitIncrement, TypeOK, Transaction, Settling
    <3> QED BY <2>1, <3>1
  <2> QED BY <2>2, <2>3, <2>4, SettlingStep
<1>3. PICK s \in Servers : /\ log'[r].status = "absent"
                           /\ tx'[s].pc = "insert" /\ tx'[s].req = r
                           /\ tx'[s].access = "granted" /\ k = tx'[s].cost
  BY <1>1, <1>2 DEF Due
<1>4. log[r].status = "absent"
  BY <1>3, RowKept
<1>5. tx'[s] # tx[s]
  BY <1>0, <1>3, <1>4 DEF Due
<1>6. ValidateAdmit(s)
  <2>1. ASSUME NEW q \in Requests, NEW key \in Keys, ValidateStart(s, q, key) PROVE FALSE
    BY <1>3, <2>1 DEF ValidateStart, TypeOK
  <2>2. ASSUME NEW q \in Requests, NEW ok \in BOOLEAN, CommitRead(s, q, ok) PROVE FALSE
    <3>1. tx'[s].pc \in {"update", "charge", "idle"}
      BY <2>2 DEF CommitRead, TypeOK
    <3> QED BY <1>3, <3>1
  <2>3. ~ValidateInsert(s) /\ ~CommitUpdateLog(s) /\ ~CommitFinish(s) /\ ~Rollback(s)
    BY <1>3 DEF ValidateInsert, CommitUpdateLog, CommitFinish, Rollback, TypeOK
  <2>4. ~CommitIncrement(s)
    BY <1>3, TransactionShape DEF CommitIncrement, TypeOK
  <2> QED BY <1>5, <2>1, <2>2, <2>3, <2>4, TxStep DEF Step
<1>7. credits_used + k <= Limit
  <2>1. PICK cost \in IF tx[s].key \in TestKeys THEN {0} ELSE Costs :
          tx' = [tx EXCEPT ![s] =
                   [pc |-> "insert", req |-> tx[s].req, key |-> tx[s].key, cost |-> cost,
                    access |-> IF \/ tx[s].key \in TestKeys
                                  \/ credits_used + cost <= Limit
                               THEN "granted" ELSE "denied"]]
    BY <1>6 DEF ValidateAdmit
  <2>2. tx'[s].cost = cost /\ tx'[s].access = IF \/ tx[s].key \in TestKeys
                                                 \/ credits_used + cost <= Limit
                                              THEN "granted" ELSE "denied"
    BY <2>1 DEF TypeOK
  <2> QED BY <1>0, <1>3, <2>1, <2>2
<1> QED BY <1>3, <1>6, <1>7

\* The sum Within bounds grows with the price and with the number of requests.
LEMMA PriceMonotone ==
    ASSUME NEW c \in Nat, NEW m \in Nat, NEW n \in Nat, m <= n
    PROVE  c * m \in Nat /\ c * n \in Nat /\ c * m <= c * n
<1>1. PICK d \in Nat : n = m + d
  <2>1. n - m \in Nat /\ n = m + (n - m)
    OBVIOUS
  <2> QED BY <2>1
<1>2. c * n = c * m + c * d
  BY <1>1
<1>3. c * m \in Nat /\ c * d \in Nat
  BY <1>1
<1> QED BY <1>2, <1>3

LEMMA SumLower ==
    ASSUME NEW u \in Nat, NEW v \in Nat, NEW m \in Nat, v <= u
    PROVE  v + m <= u + m + 0
  OBVIOUS

LEMMA OwingFinite ==
    ASSUME OpenFew
    PROVE  /\ IsFiniteSet(Owing)
           /\ \A q : /\ IsFiniteSet(Owing \ {q}) /\ Cardinality(Owing \ {q}) \in Nat
                     /\ q \in Owing => Cardinality(Owing \ {q}) <= MaxOpen - 1
<1>1. IsFiniteSet(Owing) /\ Cardinality(Owing) <= Cardinality(Open)
  BY OwingOpen, FS_Subset DEF OpenFew
<1>2. Cardinality(Owing) <= MaxOpen
  BY <1>1, FS_CardinalityType, ConstantsAssumption DEF OpenFew
<1>3. ASSUME NEW q
      PROVE  /\ IsFiniteSet(Owing \ {q}) /\ Cardinality(Owing \ {q}) \in Nat
             /\ q \in Owing => Cardinality(Owing \ {q}) <= MaxOpen - 1
  <2>1. IsFiniteSet(Owing \ {q})
    BY <1>1, FS_Subset
  <2>2. q \in Owing => Cardinality(Owing \ {q}) = Cardinality(Owing) - 1
    BY <1>1, FS_RemoveElement
  <2> QED BY <1>1, <1>2, <2>1, <2>2, FS_CardinalityType, ConstantsAssumption
<1> QED BY <1>1, <1>3

\* Each step keeps the bound: it adds no due price and does not raise the counter, it
\* grants a request, or it debits one whose price was due.
LEMMA WithinStep ==
    ASSUME LedgerInv, DebitsDelivered, RowsPriced, OpenFew, [Next]_vars,
           Disciplined, Disciplined',
           NEW c \in Costs, \A d \in Costs : d <= c, Within(c)
    PROVE  Within(c)'
<1> USE DEF LedgerInv
<1>a. c \in Nat /\ Limit \in Nat /\ MaxOpen \in Nat \ {0}
  BY ConstantsAssumption
<1>b. TypeOK' /\ credits_used \in Nat /\ credits_used' \in Nat
  BY TypeStep DEF TypeOK
<1>c. OpenFew'
  BY OpenFewStep
<1>d. /\ IsFiniteSet(Owing')
      /\ \A q : /\ IsFiniteSet(Owing' \ {q}) /\ Cardinality(Owing' \ {q}) \in Nat
                /\ q \in Owing' => Cardinality(Owing' \ {q}) <= MaxOpen - 1
  <2>1. (/\ IsFiniteSet(Owing)
         /\ \A q : /\ IsFiniteSet(Owing \ {q}) /\ Cardinality(Owing \ {q}) \in Nat
                   /\ q \in Owing => Cardinality(Owing \ {q}) <= MaxOpen - 1)'
    BY <1>c, OwingFinite, PTL
  <2> QED BY <2>1
\* f[n] is c * n, without the product.
<1>e. PICK f \in [Nat -> Nat] :
        /\ \A n \in Nat : f[n] = c * n /\ f[n + 1] = f[n] + c
        /\ \A m, n \in Nat : m <= n => f[m] <= f[n]
  <2> DEFINE g == [n \in Nat |-> c * n]
  <2>1. g \in [Nat -> Nat]
    BY <1>a, PriceMonotone
  <2>2. \A n \in Nat : g[n] = c * n /\ g[n + 1] = g[n] + c
    BY <1>a
  <2>3. \A m, n \in Nat : m <= n => g[m] <= g[n]
    BY <1>a, PriceMonotone
  <2> QED BY <2>1, <2>2, <2>3
<1> DEFINE Kept ==
      \/ Owing' = {} /\ credits_used' <= Limit
      \/ \E q \in Requests, p \in Nat :
           /\ \A j \in Nat : Due(q, j)' => j <= p
           /\ credits_used' + p + f[Cardinality(Owing' \ {q})] <= Limit + f[MaxOpen - 1]
<1>f. SUFFICES Kept
  <2>1. \A q : c * Cardinality(Owing' \ {q}) = f[Cardinality(Owing' \ {q})]
    BY <1>d, <1>e
  <2>2. c * (MaxOpen - 1) = f[MaxOpen - 1]
    BY <1>a, <1>e
  <2>3. Within(c)' <=>
          \/ Owing' = {} /\ credits_used' <= Limit
          \/ \E q \in Requests, k \in Nat :
               /\ \A j \in Nat : Due(q, j)' => j <= k
               /\ credits_used' + k + c * Cardinality(Owing' \ {q}) <= Limit + c * (MaxOpen - 1)
    BY DEF Within
  <2> QED BY <2>1, <2>2, <2>3, Zenon
<1>g. \A q \in Requests : q \in Owing' <=> \E k \in Nat : Due(q, k)'
  BY DEF Owing
<1>h. \A q \in Requests : q \in Owing <=> \E k \in Nat : Due(q, k)
  BY DEF Owing
<1>i. Owing \subseteq Requests /\ Owing' \subseteq Requests
  BY DEF Owing
<1>j. ASSUME ~(Owing = {} /\ credits_used <= Limit)
      PROVE  \E q \in Requests, k \in Nat :
               /\ \A j \in Nat : Due(q, j) => j <= k
               /\ credits_used + k + f[Cardinality(Owing \ {q})] <= Limit + f[MaxOpen - 1]
  <2>1. \A q : c * Cardinality(Owing \ {q}) = f[Cardinality(Owing \ {q})]
    BY <1>e, OwingFinite
  <2>2. c * (MaxOpen - 1) = f[MaxOpen - 1]
    BY <1>a, <1>e
  <2>3. \E q \in Requests, k \in Nat :
          /\ \A j \in Nat : Due(q, j) => j <= k
          /\ credits_used + k + c * Cardinality(Owing \ {q}) <= Limit + c * (MaxOpen - 1)
    BY <1>j DEF Within
  <2> QED BY <2>1, <2>2, <2>3, Zenon
<1>k. \A q : f[Cardinality(Owing \ {q})] \in Nat /\ f[Cardinality(Owing' \ {q})] \in Nat
             /\ f[MaxOpen - 1] \in Nat
  <2> SUFFICES ASSUME NEW q
               PROVE  /\ f[Cardinality(Owing \ {q})] \in Nat
                      /\ f[Cardinality(Owing' \ {q})] \in Nat
                      /\ f[MaxOpen - 1] \in Nat
    OBVIOUS
  <2>1. Cardinality(Owing \ {q}) \in Nat
    BY OwingFinite, Zenon
  <2>2. Cardinality(Owing' \ {q}) \in Nat
    BY <1>d, Zenon
  <2>3. MaxOpen - 1 \in Nat
    BY <1>a
  <2> QED BY <1>e, <2>1, <2>2, <2>3
\* The sum after a step, from the one before it.
<1>l. ASSUME NEW q, NEW j \in Nat, NEW m \in Nat, NEW d \in Nat,
             f[Cardinality(Owing' \ {q})] + d <= f[Cardinality(Owing \ {q})],
             credits_used + m + f[Cardinality(Owing \ {q})] <= Limit + f[MaxOpen - 1],
             credits_used' + j <= credits_used + m + d
      PROVE  credits_used' + j + f[Cardinality(Owing' \ {q})] <= Limit + f[MaxOpen - 1]
  <2>1. PICK x \in Nat, y \in Nat, z \in Nat : /\ x = f[Cardinality(Owing' \ {q})]
                                            /\ y = f[Cardinality(Owing \ {q})]
                                            /\ z = f[MaxOpen - 1]
    BY <1>k
  <2>2. x + d <= y /\ credits_used + m + y <= Limit + z
    BY <1>l, <2>1
  <2>3. credits_used' + j + x <= Limit + z
    <3>1. /\ x + d <= y /\ credits_used + m + y <= Limit + z
          /\ credits_used' + j <= credits_used + m + d
      BY <1>l, <2>2
    <3>2. /\ credits_used \in Nat /\ credits_used' \in Nat /\ Limit \in Nat
          /\ x \in Nat /\ y \in Nat /\ z \in Nat
      BY <1>a, <1>b, <2>1
    <3>3. \A u, v \in Nat : v + j <= u + m + d /\ u + m + y <= Limit + z => v + j + x <= Limit + z
      BY <3>1, <3>2
    <3> QED BY <3>1, <3>2, <3>3
  <2> QED BY <2>1, <2>3
\* A price is nothing to add when no request is settled.
<1>m. ASSUME NEW q, Cardinality(Owing' \ {q}) <= Cardinality(Owing \ {q})
      PROVE  f[Cardinality(Owing' \ {q})] + 0 <= f[Cardinality(Owing \ {q})]
  <2>1. PICK x \in Nat, y \in Nat : x = Cardinality(Owing' \ {q}) /\ y = Cardinality(Owing \ {q})
    BY <1>d, OwingFinite
  <2>2. x <= y /\ f[x] \in Nat /\ f[y] \in Nat
    BY <1>e, <1>m, <2>1
  <2>3. f[x] + 0 <= f[y]
    BY <1>e, <2>2
  <2> QED BY <2>1, <2>3
<1>1. CASE /\ credits_used' <= credits_used
           /\ \A r \in Requests, k \in Nat : Due(r, k)' => Due(r, k)
  <2>1. Owing' \subseteq Owing
    BY <1>1, <1>g, <1>h, <1>i
  <2>2. CASE Owing = {} /\ credits_used <= Limit
    BY <1>1, <1>a, <1>b, <2>1, <2>2
  <2>3. CASE ~(Owing = {} /\ credits_used <= Limit)
    <3>1. PICK q \in Requests, m \in Nat :
             /\ \A j \in Nat : Due(q, j) => j <= m
             /\ credits_used + m + f[Cardinality(Owing \ {q})] <= Limit + f[MaxOpen - 1]
      BY <1>j, <2>3
    <3>2. Cardinality(Owing' \ {q}) <= Cardinality(Owing \ {q})
      BY <2>1, OwingFinite, FS_Subset
    <3>3. credits_used' + m <= credits_used + m + 0
      <4>1. credits_used' <= credits_used /\ credits_used \in Nat /\ credits_used' \in Nat
        BY <1>1, <1>b
      <4>2. m \in Nat
        BY <3>1
      <4> QED BY <4>1, <4>2, SumLower
    <3>4. credits_used' + m + f[Cardinality(Owing' \ {q})] <= Limit + f[MaxOpen - 1]
      BY <1>l, <1>m, <3>1, <3>2, <3>3
    <3>5. \A j \in Nat : Due(q, j)' => j <= m
      BY <1>1, <3>1
    <3> QED BY <3>4, <3>5
  <2> QED BY <2>2, <2>3
<1>2. ASSUME NEW r \in Requests, NEW k \in Nat, Due(r, k)', ~Due(r, k)
      PROVE  Kept
  <2>1. PICK s \in Servers : /\ ValidateAdmit(s) /\ credits_used + k <= Limit
                             /\ tx'[s].pc = "insert" /\ tx'[s].req = r /\ tx'[s].cost = k
    BY <1>2, DueStep
  <2>2. credits_used' = credits_used
    BY <2>1 DEF ValidateAdmit, rows
  <2>3. ASSUME NEW q \in Requests, NEW j \in Nat, Due(q, j)', ~Due(q, j)
        PROVE  q = r /\ j = k
    <3>1. PICK o \in Servers : /\ ValidateAdmit(o)
                               /\ tx'[o].pc = "insert" /\ tx'[o].req = q /\ tx'[o].cost = j
      BY <2>3, DueStep
    <3>2. tx[o].pc = "admit" /\ (o # s => tx'[o] = tx[o])
      BY <2>1, <3>1 DEF ValidateAdmit, TypeOK
    <3>3. o = s
      BY <3>1, <3>2
    <3> QED BY <2>1, <3>1, <3>3
  <2>4. r \in Owing'
    BY <1>2, <1>g
  <2>5. CASE \A j \in Nat : Due(r, j)' => j <= k
    <3>1. f[Cardinality(Owing' \ {r})] <= f[MaxOpen - 1]
      <4>1. Cardinality(Owing' \ {r}) <= MaxOpen - 1 /\ Cardinality(Owing' \ {r}) \in Nat
        BY <1>d, <2>4
      <4>2. MaxOpen - 1 \in Nat
        BY <1>a
      <4> QED BY <1>a, <1>e, <4>1, <4>2
    <3>2. credits_used' + k + f[Cardinality(Owing' \ {r})] <= Limit + f[MaxOpen - 1]
      <4>1. PICK x \in Nat, z \in Nat : /\ x = f[Cardinality(Owing' \ {r})]
                                       /\ z = f[MaxOpen - 1]
        BY <1>k
      <4>2. credits_used' + k + x <= Limit + z
        BY <1>a, <1>b, <2>1, <2>2, <3>1, <4>1
      <4> QED BY <4>1, <4>2
    <3> QED BY <2>5, <3>2
  <2>6. CASE ~\A j \in Nat : Due(r, j)' => j <= k
    <3>1. PICK j \in Nat : Due(r, j)' /\ ~(j <= k)
      BY <2>6
    <3>2. Due(r, j)
      BY <2>3, <3>1
    <3>3. r \in Owing
      BY <1>h, <3>2
    <3>4. PICK q \in Requests, m \in Nat :
             /\ \A i \in Nat : Due(q, i) => i <= m
             /\ credits_used + m + f[Cardinality(Owing \ {q})] <= Limit + f[MaxOpen - 1]
      BY <1>j, <3>3
    <3>5. \A i \in Nat : Due(q, i)' => i <= m
      <4> SUFFICES ASSUME NEW i \in Nat, Due(q, i)' PROVE i <= m
        OBVIOUS
      <4>1. CASE Due(q, i)
        BY <3>4, <4>1
      <4>2. CASE ~Due(q, i)
        <5>1. q = r /\ i = k
          BY <2>3, <4>2
        <5>2. j <= m
          BY <3>2, <3>4, <5>1
        <5> QED BY <3>1, <5>1, <5>2
      <4> QED BY <4>1, <4>2
    <3>6. Owing' \subseteq Owing
      BY <1>g, <1>h, <1>i, <2>3, <3>3
    <3>7. Cardinality(Owing' \ {q}) <= Cardinality(Owing \ {q})
      BY <3>6, OwingFinite, FS_Subset
    <3>8. credits_used' + m <= credits_used + m + 0
      BY <1>b, <2>2, <3>4
    <3>9. credits_used' + m + f[Cardinality(Owing' \ {q})] <= Limit + f[MaxOpen - 1]
      BY <1>l, <1>m, <3>4, <3>7, <3>8
    <3> QED BY <3>5, <3>9
  <2> QED BY <2>5, <2>6
<1>3. ASSUME NEW s \in Servers, NEW t, NEW r, NEW k, CommitFinish(s), t.charge, k # 0,
             t = tx[s], r = t.req, k = log[r].cost
      PROVE  Kept
  <2>1. /\ t.pc = "commit" /\ r \in Requests /\ t.ok \in BOOLEAN /\ t.wrote \in BOOLEAN
        /\ s \in Settling(r) /\ log[r].status # "absent" /\ Justified(t)
    BY <1>3, TransactionShape DEF CommitFinish, TypeOK, Settling, RowsSeen, ChargesJustified
  <2>2. log[r] \in UsageLog /\ k \in Nat /\ k <= c
    BY <1>a, <1>3, <2>1, RowShape DEF UsageLog, RowsPriced
  <2>3. credits_used' = credits_used + k
    BY <1>3 DEF CommitFinish
  <2>4. Due(r, k) /\ r \in Owing
    <3>1. Due(r, k)
      BY <1>3, <2>1 DEF Due
    <3> QED BY <1>h, <2>1, <2>2, <3>1
  <2>5. Settling(r) \ {s} = {} /\ debits[r] = 0
    <3>1. /\ Cardinality(Settling(r) \ {s}) = Cardinality(Settling(r)) - 1
          /\ IsFiniteSet(Settling(r) \ {s}) /\ Cardinality(Settling(r) \ {s}) \in Nat
      BY <2>1, SettlingFinite, FS_RemoveElement, FS_CardinalityType
    <3>2. debits[r] + Cardinality(Settling(r)) <= 1 /\ debits[r] \in Nat
      BY <2>1, SettlingFinite DEF DebitsDelivered, Disciplined, TypeOK
    <3>3. Cardinality(Settling(r) \ {s}) = 0 /\ debits[r] = 0
      BY <3>1, <3>2, SettlingFinite
    <3> QED BY <3>1, <3>3, FS_EmptySet
  <2>6. t.wrote
    BY <1>3, <2>1, <2>5 DEF Justified, LedgerAgrees
  <2>7. Settling(r)' = {}
    <3>1. Settling(r)' \subseteq Settling(r) \ {s}
      BY <1>3 DEF CommitFinish, Settling, TypeOK
    <3> QED BY <2>5, <3>1
  <2>8. log'[r].status \in {"success", "failed"}
    <3>1. log'[r] = [log[r] EXCEPT !.status = IF t.ok THEN "success" ELSE "failed",
                                   !.charged = @ \/ t.ok]
      BY <1>3, <2>1, <2>6 DEF CommitFinish, TypeOK
    <3> QED BY <2>2, <3>1 DEF UsageLog
  <2>9. \A j \in Nat : ~Due(r, j)'
    BY <2>7, <2>8 DEF Due
  <2>10. \A q \in Requests, j \in Nat : Due(q, j)' => Due(q, j)
    <3> SUFFICES ASSUME NEW q \in Requests, NEW j \in Nat, Due(q, j)', ~Due(q, j) PROVE FALSE
      OBVIOUS
    <3>1. PICK o \in Servers : ValidateAdmit(o)
      BY DueStep
    <3>2. credits_used' = credits_used
      BY <3>1 DEF ValidateAdmit, rows
    <3> QED BY <1>3, <1>b, <2>2, <2>3, <3>2
  <2>11. Owing' \subseteq Owing \ {r}
    BY <1>g, <1>h, <1>i, <2>1, <2>9, <2>10
  <2>12. PICK q \in Requests, m \in Nat :
           /\ \A i \in Nat : Due(q, i) => i <= m
           /\ credits_used + m + f[Cardinality(Owing \ {q})] <= Limit + f[MaxOpen - 1]
    BY <1>j, <2>4
  <2>13. CASE q = r
    <3>1. k <= m
      BY <2>2, <2>4, <2>12, <2>13
    <3>2. Cardinality(Owing' \ {r}) <= Cardinality(Owing \ {r})
      <4>1. Owing' \ {r} \subseteq Owing \ {r}
        BY <2>11
      <4> QED BY <4>1, OwingFinite, FS_Subset
    <3>3. credits_used' + 0 <= credits_used + m + 0
      BY <1>b, <2>2, <2>3, <2>12, <3>1
    <3>4. credits_used' + 0 + f[Cardinality(Owing' \ {r})] <= Limit + f[MaxOpen - 1]
      BY <1>l, <1>m, <2>12, <2>13, <3>2, <3>3
    <3> QED BY <2>1, <2>9, <3>4
  <2>14. CASE q # r
    <3>1. /\ IsFiniteSet(Owing \ {q}) /\ Cardinality(Owing \ {q}) \in Nat
          /\ Cardinality((Owing \ {q}) \ {r}) = Cardinality(Owing \ {q}) - 1
          /\ IsFiniteSet((Owing \ {q}) \ {r})
      BY <2>4, <2>14, OwingFinite, FS_RemoveElement
    <3>2. Cardinality(Owing' \ {q}) <= Cardinality((Owing \ {q}) \ {r})
      <4>1. Owing' \ {q} \subseteq (Owing \ {q}) \ {r}
        BY <2>11
      <4> QED BY <3>1, <4>1, FS_Subset
    <3>3. PICK n \in Nat, p \in Nat : n = Cardinality(Owing \ {q}) /\ p = Cardinality(Owing' \ {q})
      BY <1>d, <3>1
    <3>4. p + 1 <= n
      BY <3>1, <3>2, <3>3
    <3>5. f[p] + c <= f[n]
      <4>1. f[p + 1] = f[p] + c /\ p + 1 \in Nat
        BY <1>e, <3>3
      <4> QED BY <1>e, <3>3, <3>4, <4>1
    <3>6. credits_used' + m <= credits_used + m + c
      BY <1>a, <1>b, <2>2, <2>3, <2>12
    <3>7. credits_used' + m + f[Cardinality(Owing' \ {q})] <= Limit + f[MaxOpen - 1]
      BY <1>a, <1>l, <2>12, <3>3, <3>5, <3>6
    <3>8. \A i \in Nat : Due(q, i)' => i <= m
      BY <2>10, <2>12
    <3> QED BY <3>7, <3>8
  <2> QED BY <2>13, <2>14
<1>4. CASE ~(credits_used' <= credits_used)
  <2>1. PICK s \in Servers : CommitFinish(s)
    <3>1. ASSUME NEW w \in Renewers, RenewWrite(w) PROVE FALSE
      BY <1>4, <1>b, <3>1 DEF RenewWrite
    <3>2. credits_used' # credits_used
      BY <1>4, <1>b
    <3> QED
      BY <3>1, <3>2 DEF Next, Step, RenewStep, vars, rows, ValidateReplay, Age, ValidateStart,
         ValidateAdmit, ValidateInsert, CommitRead, CommitUpdateLog, CommitIncrement, Rollback,
         ExpirePending, StripeRenew, RenewRead, RenewFetch, RenewReset, RenewRollback
  <2>2. tx[s].charge /\ log[tx[s].req].cost # 0
    BY <1>4, <1>b, <2>1 DEF CommitFinish
  <2>3. PICK t, r, k : t = tx[s] /\ r = t.req /\ k = log[r].cost
    OBVIOUS
  <2>4. t.charge /\ k # 0
    BY <2>2, <2>3
  <2> QED BY <1>3, <2>1, <2>3, <2>4
<1>5. CASE /\ credits_used' <= credits_used
           /\ ~\A r \in Requests, k \in Nat : Due(r, k)' => Due(r, k)
  BY <1>2, <1>5
<1> QED BY <1>1, <1>4, <1>5

OvershootInv ==
    /\ DebitsDelivered /\ Priced /\ RowsPriced
    /\ Disciplined =>
         /\ OpenFew
         /\ \A c \in Costs : (\A d \in Costs : d <= c) => Within(c)

LEMMA OvershootInvStep ==
    ASSUME LedgerInv, OvershootInv, [Next]_vars
    PROVE  OvershootInv'
<1> USE DEF OvershootInv
<1>1. DebitsDelivered' /\ Priced' /\ RowsPriced'
  BY DebitsDeliveredStep, PricedStep, RowsPricedStep DEF LedgerInv
<1>2. ASSUME Disciplined' PROVE Disciplined /\ OpenFew'
  <2>1. Disciplined
    BY <1>2, DisciplinedBefore
  <2> QED BY <1>2, <2>1, OpenFewStep
<1>3. ASSUME Disciplined', NEW c \in Costs, \A d \in Costs : d <= c PROVE Within(c)'
  <2>1. Disciplined /\ OpenFew /\ Within(c)
    BY <1>2, <1>3
  <2> QED BY <1>3, <2>1, WithinStep
<1> QED BY <1>1, <1>2, <1>3

\* A caller that keeps at most MaxOpen requests open and commits each granted one
\* once exceeds the allocation by no more than the price of MaxOpen - 1 requests,
\* whatever races with whatever, and however often the period is renewed.
THEOREM OvershootCorrect == Spec => []OvershootBounded
<1>1. Init => OvershootInv
  <2> SUFFICES ASSUME Init PROVE OvershootInv
    OBVIOUS
  <2>1. \A r \in Requests : Settling(r) = {}
    BY DEF Init, Settling
  <2>2. DebitsDelivered
    BY <2>1, FS_EmptySet DEF Init, DebitsDelivered
  <2>3. Priced /\ RowsPriced
    BY DEF Init, Priced, RowsPriced
  <2>4. Open = {}
    BY DEF Init, Open
  <2>5. OpenFew
    BY <2>4, FS_EmptySet, ConstantsAssumption DEF OpenFew
  <2>6. Owing = {} /\ credits_used <= Limit
    BY <2>4, OwingOpen, ConstantsAssumption DEF Init
  <2> QED BY <2>2, <2>3, <2>5, <2>6 DEF OvershootInv, Within
<1>2. LedgerInv /\ OvershootInv /\ [Next]_vars => OvershootInv'
  BY OvershootInvStep
<1>3. LedgerInv /\ OvershootInv => OvershootBounded
  <2> SUFFICES ASSUME LedgerInv, OvershootInv, Disciplined,
                      NEW c \in Costs, \A d \in Costs : d <= c
               PROVE  credits_used <= Limit + (MaxOpen - 1) * c
    BY DEF OvershootBounded, Disciplined
  <2>1. c \in Nat /\ Limit \in Nat /\ MaxOpen - 1 \in Nat /\ credits_used \in Nat
    BY ConstantsAssumption DEF LedgerInv, TypeOK
  <2>2. (MaxOpen - 1) * c = c * (MaxOpen - 1) /\ c * (MaxOpen - 1) \in Nat
    BY <2>1
  <2>3. Within(c) /\ OpenFew
    BY DEF OvershootInv
  <2>4. CASE Owing = {} /\ credits_used <= Limit
    BY <2>1, <2>2, <2>4
  <2>5. ASSUME NEW q \in Requests, NEW k \in Nat,
               credits_used + k + c * Cardinality(Owing \ {q}) <= Limit + c * (MaxOpen - 1)
        PROVE  credits_used <= Limit + (MaxOpen - 1) * c
    <3>1. c * Cardinality(Owing \ {q}) \in Nat
      <4>1. Cardinality(Owing \ {q}) \in Nat
        BY <2>3, OwingFinite
      <4> QED BY <2>1, <4>1, PriceMonotone
    <3> QED BY <2>1, <2>2, <2>5, <3>1
  <2> QED BY <2>3, <2>4, <2>5 DEF Within
<1> QED BY <1>1, <1>2, <1>3, LedgerInvCorrect, PTL DEF Spec
=============================================================================
