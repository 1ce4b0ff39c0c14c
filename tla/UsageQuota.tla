----------------------------- MODULE UsageQuota -----------------------------
(***************************************************************************)
(* Metering of one API workspace: validate_and_log_usage reserves, and     *)
(* commit_usage settles, one usage log per request; a scheduler job        *)
(* expires abandoned logs; customer.subscription.updated resets the credit *)
(* counter when the billing period moves.  Each of these runs as a         *)
(* PostgreSQL READ COMMITTED transaction of several statements, so the     *)
(* module has one action per statement that reads or writes shared rows,   *)
(* a rollback at every point, and the row locks the statements take.       *)
(*                                                                         *)
(* A request stands for one (workspace, request_id, fingerprint) triple,   *)
(* the key of the unique index on usage_logs; log[r] is its row.           *)
(* Key resolution, plan lookup and rate limiting come before the first     *)
(* write of a validation; when they refuse it the transaction ends without *)
(* effect, which is a Rollback here.                                       *)
(***************************************************************************)
EXTENDS Naturals, FiniteSets

CONSTANTS
    Requests,       \* usage-log identities
    LiveKeys,       \* API keys whose use costs credits
    TestKeys,       \* cbx_test_ keys, never charged
    Servers,        \* transactions validating or committing usage
    Renewers,       \* transactions handling customer.subscription.updated
    Costs,          \* prices a live request may have (feature cost * multiplier)
    Limit,          \* credits_allocation of the plan
    CommitDenied,   \* TRUE: callers also commit requests they were denied
    MaxDeliveries,  \* bound: commits received per request (retries included)
    MaxOpen,        \* requests the caller keeps open at a time
    MaxPeriod,      \* bound: billing periods
    MaxEvents       \* bound: subscription.updated deliveries

Keys == LiveKeys \cup TestKeys

ASSUME ConstantsAssumption ==
    /\ LiveKeys \cap TestKeys = {}
    /\ IsFiniteSet(Servers)
    /\ Costs \subseteq Nat
    /\ Limit \in Nat
    /\ CommitDenied \in BOOLEAN
    /\ MaxDeliveries \in Nat /\ MaxOpen \in Nat \ {0}
    /\ MaxPeriod \in Nat /\ MaxEvents \in Nat

VARIABLES
    log,          \* usage_logs: [Requests -> Row]
    aged,         \* requests whose row is older than the pending timeout
    credits_used, \* the subscription context's running counter
    period,       \* current_period_start in the subscription row
    stripePeriod, \* the current period at Stripe
    tx,           \* validate and commit transactions in progress
    renew,        \* subscription.updated transactions in progress
    events,       \* subscription.updated deliveries so far
    delivered,    \* commits received per request
    debits,       \* history: times each request was debited
    answers,      \* history: access answers given per request
    newest,       \* history: the latest billing period ever recorded
    consumed      \* history: credits debited since newest was recorded

rows == <<log, aged, credits_used, period>>
ages == <<newest, consumed>>
vars == <<log, aged, credits_used, period, stripePeriod, tx, renew, events,
          delivered, debits, answers, newest, consumed>>

-----------------------------------------------------------------------------
Access == {"granted", "denied"}

Absent == [status |-> "absent"]

\* charged: credits_charged is not NULL; it then equals credits_reserved (cost).
UsageLog == [status: {"pending", "success", "failed", "expired"}, key: Keys,
             access: Access, cost: Nat, charged: BOOLEAN]

Idle == [pc |-> "idle"]

\* The local state of a validation or commit between two statements.
Transaction ==
    {Idle}
    \cup [pc: {"admit"}, req: Requests, key: Keys]
    \cup [pc: {"insert"}, req: Requests, key: Keys, cost: Nat, access: Access]
    \cup [pc: {"update"}, req: Requests, ok: BOOLEAN]
    \cup [pc: {"charge", "commit"}, req: Requests, ok: BOOLEAN,
          wrote: BOOLEAN, charge: BOOLEAN]

Renewal ==
    {Idle}
    \cup [pc: {"fetch"}, old: Nat]
    \cup [pc: {"reset"}, old: Nat, new: Nat]
    \cup [pc: {"write"}, new: Nat, reset: BOOLEAN]

TypeOK ==
    /\ log \in [Requests -> UsageLog \cup {Absent}]
    /\ aged \subseteq Requests
    /\ credits_used \in Nat /\ period \in Nat /\ stripePeriod \in Nat
    /\ tx \in [Servers -> Transaction]
    /\ renew \in [Renewers -> Renewal]
    /\ events \in Nat
    /\ delivered \in [Requests -> Nat]
    /\ debits \in [Requests -> Nat]
    /\ answers \in [Requests -> SUBSET Access]
    /\ newest \in Nat /\ consumed \in Nat

Init ==
    /\ log = [r \in Requests |-> Absent]
    /\ aged = {}
    /\ credits_used = 0 /\ period = 0 /\ stripePeriod = 0
    /\ tx = [s \in Servers |-> Idle]
    /\ renew = [w \in Renewers |-> Idle]
    /\ events = 0
    /\ delivered = [r \in Requests |-> 0]
    /\ debits = [r \in Requests |-> 0]
    /\ answers = [r \in Requests |-> {}]
    /\ newest = 0 /\ consumed = 0

-----------------------------------------------------------------------------
(* Row locks: an UPDATE holds its row until the transaction ends.          *)

\* Mutant: a waiter for the key's row counts as its holder.
HoldsKey_byWaiters(s, k) == tx[s].pc \in {"admit", "insert"} /\ tx[s].key = k

HoldsKey(s, k) == tx[s].pc = "insert" /\ tx[s].key = k

HoldsLog(s, r) ==
    tx[s].pc \in {"charge", "commit"} /\ tx[s].req = r /\ tx[s].wrote

ContextLocked ==
    \/ \E s \in Servers : tx[s].pc = "commit" /\ tx[s].charge
    \/ \E w \in Renewers : renew[w].pc = "write" /\ renew[w].reset

\* Requests the caller has open: being handled, or granted and not settled.
Open ==
    {r \in Requests :
        \/ log[r].status = "pending" /\ log[r].access = "granted"
        \/ \E s \in Servers : tx[s].pc # "idle" /\ tx[s].req = r}

-----------------------------------------------------------------------------
(* validate_and_log_usage                                                  *)

\* _check_idempotency found a row: its stored decision is the answer.
ValidateReplay(r) ==
    /\ log[r].status # "absent"
    /\ answers' = [answers EXCEPT ![r] = @ \cup {log[r].access}]
    /\ UNCHANGED <<rows, stripePeriod, tx, renew, events, delivered, debits, ages>>

\* _check_idempotency found no row.
ValidateStart(s, r, k) ==
    /\ tx[s] = Idle
    /\ log[r].status = "absent"
    /\ Cardinality(Open \cup {r}) <= MaxOpen
    /\ tx' = [tx EXCEPT ![s] = [pc |-> "admit", req |-> r, key |-> k]]
    /\ UNCHANGED <<rows, stripePeriod, renew, events, delivered, debits, answers, ages>>

\* Mutant: the price of the request itself is left out of the comparison.
ValidateAdmit_ignoringPrice(s) ==
    /\ tx[s].pc = "admit"
    /\ \A o \in Servers : ~HoldsKey(o, tx[s].key)
    /\ \E cost \in IF tx[s].key \in TestKeys THEN {0} ELSE Costs :
         tx' = [tx EXCEPT ![s] =
                  [pc |-> "insert", req |-> tx[s].req, key |-> tx[s].key, cost |-> cost,
                   access |-> IF tx[s].key \in TestKeys \/ credits_used <= Limit
                              THEN "granted" ELSE "denied"]]
    /\ UNCHANGED <<rows, stripePeriod, renew, events, delivered, debits, answers, ages>>

\* _resolve_api_key stamps last_used_at on the key's row, which stays locked
\* to the end of the transaction; then the quota is checked against the
\* committed counter.  Pending requests are not part of that counter.
ValidateAdmit(s) ==
    /\ tx[s].pc = "admit"
    /\ \A o \in Servers : ~HoldsKey(o, tx[s].key)
    /\ \E cost \in IF tx[s].key \in TestKeys THEN {0} ELSE Costs :
         tx' = [tx EXCEPT ![s] =
                  [pc |-> "insert", req |-> tx[s].req, key |-> tx[s].key, cost |-> cost,
                   access |-> IF \/ tx[s].key \in TestKeys
                                 \/ credits_used + cost <= Limit
                              THEN "granted" ELSE "denied"]]
    /\ UNCHANGED <<rows, stripePeriod, renew, events, delivered, debits, answers, ages>>

\* Mutant: no unique index, so the later of two racing inserts wins.
ValidateInsert_upsert(s) ==
    /\ tx[s].pc = "insert"
    /\ LET t == tx[s] IN
       /\ log' = [log EXCEPT ![t.req] =
                    [status |-> "pending", key |-> t.key, access |-> t.access,
                     cost |-> t.cost, charged |-> FALSE]]
       /\ answers' = [answers EXCEPT ![t.req] = @ \cup {t.access}]
    /\ tx' = [tx EXCEPT ![s] = Idle]
    /\ UNCHANGED <<aged, credits_used, period, stripePeriod, renew, events,
                   delivered, debits, ages>>

\* The row is inserted and committed, whatever the decision, unless another
\* transaction has inserted the same request: the unique index then fails it.
ValidateInsert(s) ==
    /\ tx[s].pc = "insert"
    /\ LET t == tx[s] IN
       IF log[t.req].status = "absent"
       THEN /\ log' = [log EXCEPT ![t.req] =
                        [status |-> "pending", key |-> t.key, access |-> t.access,
                         cost |-> t.cost, charged |-> FALSE]]
            /\ answers' = [answers EXCEPT ![t.req] = @ \cup {t.access}]
       ELSE UNCHANGED <<log, answers>>
    /\ tx' = [tx EXCEPT ![s] = Idle]
    /\ UNCHANGED <<aged, credits_used, period, stripePeriod, renew, events,
                   delivered, debits, ages>>

-----------------------------------------------------------------------------
(* commit_usage                                                            *)

\* The row is read once.  A pending row goes on to be updated; a settled one
\* is returned as it is, and a success report for a row that carries
\* credits_charged goes on to the counter.  (An unknown key or row, or a row
\* of another key, returns without effect.)
CommitRead(s, r, ok) ==
    /\ tx[s] = Idle
    /\ log[r].status # "absent"
    /\ log[r].access = "granted" \/ CommitDenied
    /\ delivered[r] < MaxDeliveries
    /\ delivered' = [delivered EXCEPT ![r] = @ + 1]
    /\ tx' = [tx EXCEPT ![s] =
                IF log[r].status = "pending"
                THEN [pc |-> "update", req |-> r, ok |-> ok]
                ELSE IF ok /\ log[r].charged /\ log[r].key \notin TestKeys
                THEN [pc |-> "charge", req |-> r, ok |-> ok,
                      wrote |-> FALSE, charge |-> TRUE]
                ELSE Idle]
    /\ UNCHANGED <<rows, stripePeriod, renew, events, debits, answers, ages>>

\* Mutant: usage_log_db.commit commits by itself (commit_self=True).
CommitUpdateLog_ownCommit(s) ==
    /\ tx[s].pc = "update"
    /\ LET t == tx[s]
           charge == t.ok /\ log[t.req].key \notin TestKeys
       IN /\ \A o \in Servers : ~HoldsLog(o, t.req)
          /\ log' = [log EXCEPT ![t.req].status = IF t.ok THEN "success" ELSE "failed",
                                ![t.req].charged = @ \/ t.ok]
          /\ tx' = [tx EXCEPT ![s] =
                      [pc |-> IF charge THEN "charge" ELSE "commit", req |-> t.req,
                       ok |-> t.ok, wrote |-> TRUE, charge |-> charge]]
    /\ UNCHANGED <<aged, credits_used, period, stripePeriod, renew, events, delivered,
                   debits, answers, ages>>

\* Mutant: the test-key exemption is forgotten.
CommitUpdateLog_chargingTestKeys(s) ==
    /\ tx[s].pc = "update"
    /\ LET t == tx[s] IN
       /\ \A o \in Servers : ~HoldsLog(o, t.req)
       /\ tx' = [tx EXCEPT ![s] =
                   [pc |-> IF t.ok THEN "charge" ELSE "commit", req |-> t.req,
                    ok |-> t.ok, wrote |-> TRUE, charge |-> t.ok]]
    /\ UNCHANGED <<rows, stripePeriod, renew, events, delivered, debits, answers, ages>>

\* UPDATE usage_logs SET status ... WHERE id: waits for the row lock, and does
\* not look at the status again.
CommitUpdateLog(s) ==
    /\ tx[s].pc = "update"
    /\ LET t == tx[s]
           charge == t.ok /\ log[t.req].key \notin TestKeys
       IN /\ \A o \in Servers : ~HoldsLog(o, t.req)
          /\ tx' = [tx EXCEPT ![s] =
                      [pc |-> IF charge THEN "charge" ELSE "commit", req |-> t.req,
                       ok |-> t.ok, wrote |-> TRUE, charge |-> charge]]
    /\ UNCHANGED <<rows, stripePeriod, renew, events, delivered, debits, answers, ages>>

\* Mutant: the increment runs in a transaction of its own.
CommitIncrement_ownCommit(s) ==
    /\ tx[s].pc = "charge"
    /\ ~ContextLocked
    /\ credits_used' = credits_used + log[tx[s].req].cost
    /\ consumed' = consumed + log[tx[s].req].cost
    /\ debits' = [debits EXCEPT ![tx[s].req] = @ + 1]
    /\ tx' = [tx EXCEPT ![s].pc = "commit", ![s].charge = FALSE]
    /\ UNCHANGED <<log, aged, period, stripePeriod, renew, events, delivered, answers, newest>>

\* increment_credits_used: UPDATE ... SET credits_used = credits_used + amount.
CommitIncrement(s) ==
    /\ tx[s].pc = "charge"
    /\ ~ContextLocked
    /\ tx' = [tx EXCEPT ![s].pc = "commit"]
    /\ UNCHANGED <<rows, stripePeriod, renew, events, delivered, debits, answers, ages>>

\* Mutant: a failed request gives back the credits it never took.
CommitFinish_refunding(s) ==
    /\ tx[s].pc = "commit"
    /\ LET t == tx[s]
           cost == log[t.req].cost
       IN /\ log' = IF t.wrote
                    THEN [log EXCEPT ![t.req].status = IF t.ok THEN "success" ELSE "failed",
                                     ![t.req].charged = @ \/ t.ok]
                    ELSE log
          /\ credits_used' = IF t.charge THEN credits_used + cost
                             ELSE IF t.ok THEN credits_used ELSE credits_used - cost
          /\ consumed' = IF t.charge THEN consumed + cost ELSE consumed
          /\ debits' = IF t.charge THEN [debits EXCEPT ![t.req] = @ + 1] ELSE debits
    /\ tx' = [tx EXCEPT ![s] = Idle]
    /\ UNCHANGED <<aged, period, stripePeriod, renew, events, delivered, answers, newest>>

\* The transaction commits: both updates become visible at once.
CommitFinish(s) ==
    /\ tx[s].pc = "commit"
    /\ LET t == tx[s] IN
       /\ log' = IF t.wrote
                 THEN [log EXCEPT ![t.req].status = IF t.ok THEN "success" ELSE "failed",
                                  ![t.req].charged = @ \/ t.ok]
                 ELSE log
       /\ IF t.charge
          THEN /\ credits_used' = credits_used + log[t.req].cost
               /\ consumed' = consumed + log[t.req].cost
               /\ debits' = [debits EXCEPT ![t.req] = @ + 1]
          ELSE UNCHANGED <<credits_used, consumed, debits>>
    /\ tx' = [tx EXCEPT ![s] = Idle]
    /\ UNCHANGED <<aged, period, stripePeriod, renew, events, delivered, answers, newest>>

\* An exception, a crash or a refusal before the commit: nothing was written.
Rollback(s) ==
    /\ tx[s] # Idle
    /\ tx' = [tx EXCEPT ![s] = Idle]
    /\ UNCHANGED <<rows, stripePeriod, renew, events, delivered, debits, answers, ages>>

-----------------------------------------------------------------------------
(* expire_pending_usage_logs                                               *)

\* Time passes: a pending row gets older than USAGE_LOG_PENDING_TIMEOUT_MINUTES.
Age(r) ==
    /\ log[r].status = "pending" /\ r \notin aged
    /\ aged' = aged \cup {r}
    /\ UNCHANGED <<log, credits_used, period, stripePeriod, tx, renew, events,
                   delivered, debits, answers, ages>>

\* Mutant: the cutoff is compared the wrong way round.
Expirable_young == {r \in Requests \ aged : log[r].status = "pending"}

Expirable == {r \in aged : log[r].status = "pending"}

\* One UPDATE over the old pending rows.  It waits for locked rows and tests
\* their status again once it has them.
ExpirePending ==
    /\ Expirable # {}
    /\ \A r \in Expirable, s \in Servers : ~HoldsLog(s, r)
    /\ log' = [r \in Requests |->
                IF r \in Expirable THEN [log[r] EXCEPT !.status = "expired"] ELSE log[r]]
    /\ UNCHANGED <<aged, credits_used, period, stripePeriod, tx, renew, events,
                   delivered, debits, answers, ages>>

-----------------------------------------------------------------------------
(* handle_subscription_updated, the part that concerns the counter         *)

\* Stripe renews the subscription.
StripeRenew ==
    /\ stripePeriod < MaxPeriod
    /\ stripePeriod' = stripePeriod + 1
    /\ UNCHANGED <<rows, tx, renew, events, delivered, debits, answers, ages>>

\* A subscription.updated event arrives: the subscription row is read ...
RenewRead(w) ==
    /\ renew[w] = Idle
    /\ events < MaxEvents
    /\ events' = events + 1
    /\ renew' = [renew EXCEPT ![w] = [pc |-> "fetch", old |-> period]]
    /\ UNCHANGED <<rows, stripePeriod, tx, delivered, debits, answers, ages>>

\* ... then the subscription is fetched from Stripe.
RenewFetch(w) ==
    /\ renew[w].pc = "fetch"
    /\ renew' = [renew EXCEPT ![w] =
                   [pc |-> "reset", old |-> renew[w].old, new |-> stripePeriod]]
    /\ UNCHANGED <<rows, stripePeriod, tx, events, delivered, debits, answers, ages>>

\* Mutant: every subscription.updated resets the counter.
RenewReset_always(w) ==
    /\ renew[w].pc = "reset"
    /\ ~ContextLocked
    /\ renew' = [renew EXCEPT ![w] = [pc |-> "write", new |-> renew[w].new, reset |-> TRUE]]
    /\ UNCHANGED <<rows, stripePeriod, tx, events, delivered, debits, answers, ages>>

\* reset_credits_used when the period read differs from the one fetched.
RenewReset(w) ==
    /\ renew[w].pc = "reset"
    /\ LET reset == renew[w].old # renew[w].new IN
       /\ reset => ~ContextLocked
       /\ renew' = [renew EXCEPT ![w] =
                      [pc |-> "write", new |-> renew[w].new, reset |-> reset]]
    /\ UNCHANGED <<rows, stripePeriod, tx, events, delivered, debits, answers, ages>>

\* UPDATE subscriptions SET current_period_start, and the commit.  The history
\* starts again when the row enters a period for the first time.
RenewWrite(w) ==
    /\ renew[w].pc = "write"
    /\ period' = renew[w].new
    /\ credits_used' = IF renew[w].reset THEN 0 ELSE credits_used
    /\ newest' = IF renew[w].new > newest THEN renew[w].new ELSE newest
    /\ consumed' = IF renew[w].new > newest THEN 0 ELSE consumed
    /\ renew' = [renew EXCEPT ![w] = Idle]
    /\ UNCHANGED <<log, aged, stripePeriod, tx, events, delivered, debits, answers>>

RenewRollback(w) ==
    /\ renew[w] # Idle
    /\ renew' = [renew EXCEPT ![w] = Idle]
    /\ UNCHANGED <<rows, stripePeriod, tx, events, delivered, debits, answers, ages>>

-----------------------------------------------------------------------------
Step(s) ==
    ValidateAdmit(s) \/ ValidateInsert(s) \/ CommitUpdateLog(s)
        \/ CommitIncrement(s) \/ CommitFinish(s)

RenewStep(w) == RenewFetch(w) \/ RenewReset(w) \/ RenewWrite(w)

Next ==
    \/ \E r \in Requests : ValidateReplay(r) \/ Age(r)
    \/ \E s \in Servers, r \in Requests, k \in Keys : ValidateStart(s, r, k)
    \/ \E s \in Servers, r \in Requests, ok \in BOOLEAN : CommitRead(s, r, ok)
    \/ \E s \in Servers : Step(s) \/ Rollback(s)
    \/ ExpirePending
    \/ StripeRenew
    \/ \E w \in Renewers : RenewRead(w) \/ RenewStep(w) \/ RenewRollback(w)

Spec == Init /\ [][Next]_vars

\* A started transaction goes on; PostgreSQL queues the waiters of a row lock,
\* so one that waits gets the lock although others keep taking it (SF).  The
\* clock ages pending rows, and the scheduler runs its job every five minutes.
Fairness ==
    /\ \A s \in Servers : SF_vars(Step(s))
    /\ \A w \in Renewers : SF_vars(RenewStep(w))
    /\ \A r \in Requests : WF_vars(Age(r))
    /\ SF_vars(ExpirePending)

FairSpec == Spec /\ Fairness

-----------------------------------------------------------------------------
(* Safety                                                                  *)

\* The audit trail and the counter agree: a live request's row carries
\* credits_charged exactly when the counter has been debited for it.  The row
\* and the counter are two statements of commit_usage; a crash between them, a
\* commit racing the expiry job or two racing commits must not separate them.
LedgerAgrees ==
    \A r \in Requests :
        log[r].status # "absent" =>
            (debits[r] > 0 <=> log[r].charged /\ log[r].key \in LiveKeys)

\* A test key is never debited, and no request is debited more often than its
\* commit was reported: retries of validate, the expiry job and rollbacks add
\* nothing to the counter.
DebitsBounded ==
    \A r \in Requests :
        /\ debits[r] <= delivered[r]
        /\ debits[r] > 0 => log[r].status # "absent" /\ log[r].key \in LiveKeys

\* Every answer that carries a usage id is the decision in the request's row,
\* though validations of the same request race and see different counters.
\* (A refusal of the key or the rate limit comes before the row and has no id.)
OneAnswer ==
    \A r \in Requests :
        answers[r] # {} => log[r].status # "absent" /\ answers[r] = {log[r].access}

\* credits_used is the running total of the credits consumed in the current
\* billing period: increments and resets wait for each other's row lock.
CounterIsPeriodTotal == credits_used = consumed

\* Pending requests are not counted, so the plan's allocation can be exceeded;
\* for a caller that keeps at most MaxOpen requests open and commits each
\* granted request once, by no more than the price of the others it had open.
OvershootBounded ==
    (\A r \in Requests : /\ delivered[r] <= 1
                         /\ delivered[r] = 1 => log[r].access = "granted") =>
        \A c \in Costs :
            (\A d \in Costs : d <= c) => credits_used <= Limit + (MaxOpen - 1) * c

\* What a row records about the decision never changes once it is inserted.
RowImmutable ==
    [][\A r \in Requests :
         log[r].status # "absent" =>
            /\ log'[r].status # "absent"
            /\ <<log'[r].key, log'[r].access, log'[r].cost>>
                 = <<log[r].key, log[r].access, log[r].cost>>]_log

\* Every step of the interleaved transactions is one atomic step of the ledger,
\* or none: what a transaction has done so far is visible to nobody.
Ledger == INSTANCE UsageLedger
              WITH log <- log, credits_used <- credits_used, debits <- debits
LedgerSpec == Ledger!Spec

-----------------------------------------------------------------------------
(* What the documentation says and the code does not do                    *)

\* "This operation is safe to retry": a request is debited once.
DebitedOnce == \A r \in Requests : debits[r] <= 1

-----------------------------------------------------------------------------
(* Liveness                                                                *)

\* An abandoned request does not stay PENDING for ever.
PendingResolved ==
    \A r \in Requests : log[r].status = "pending" ~> log[r].status # "pending"

\* No transaction waits for ever on a row lock.
TransactionsEnd ==
    /\ \A s \in Servers : tx[s] # Idle ~> tx[s] = Idle
    /\ \A w \in Renewers : renew[w] # Idle ~> renew[w] = Idle

=============================================================================
