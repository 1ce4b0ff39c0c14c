--------------------------- MODULE OutboundCalls ---------------------------
(***************************************************************************)
(* Calls to Stripe and to Brevo.  Both clients repeat a call whose answer  *)
(* is a server error or is lost, though it may have had its effect.  Stripe *)
(* recognises a repetition by its idempotency key, if it has one.  And the *)
(* callers call again: a user repeats a checkout that failed, and the      *)
(* queue runs an e-mail handler that raised once more.                     *)
(*                                                                         *)
(* The checkouts are those of one user: in one transaction they create a   *)
(* customer at Stripe, if the user had none when the request came in, store *)
(* it in the user's row and create a checkout session, in the API product  *)
(* under a key made of workspace, plan and seats.  Crashes of e-mail       *)
(* consumers are the subject of MessageRetry.                              *)
(***************************************************************************)
EXTENDS Naturals, FiniteSets

CONSTANTS
    Requests,    \* checkout requests that may run at a time
    Keys,        \* idempotency keys of API checkouts
    NoKey,       \* the checkout of the Career product, which has none
    Mails,       \* messages of the e-mail queues
    MaxAttempts, \* max_attempts of a call
    MaxRetries,  \* max_retries of an e-mail queue
    MaxRequests  \* bound: checkouts the user starts

ASSUME ConstantsAssumption ==
    /\ NoKey \notin Keys
    /\ MaxAttempts \in Nat \ {0} /\ MaxRetries \in Nat /\ MaxRequests \in Nat

VARIABLES
    stripe_customer_id, \* users.stripe_customer_id; 0 is NULL
    customers,  \* customers created at Stripe, numbered from 1
    named,      \* the customer named by the call Stripe remembers for a key, or 0
    sessions,   \* checkout sessions created for a key, or without one
    checkout,   \* checkouts in progress
    mail,       \* the e-mail messages
    sent,       \* times Brevo has accepted the e-mail of a message
    expired,    \* history: times a key was forgotten by Stripe
    started,    \* checkouts started
    unkeyed,    \* history: of these, those without a key
    unnamed,    \* history: of these, those of a user without a customer
    disturbed   \* history: two checkouts overlapped, or one has failed

stripe == <<customers, named, sessions, expired>>
history == <<started, unkeyed, unnamed, disturbed>>
mails == <<mail, sent>>
vars == <<stripe_customer_id, stripe, checkout, history, mails>>

-----------------------------------------------------------------------------
Idle == [pc |-> "idle"]

Attempts == 1 .. MaxAttempts

\* wrote: the user's row is updated, and locked until the transaction ends.
Request ==
    {Idle}
    \cup [pc: {"customer"}, key: Keys \cup {NoKey}, attempt: Attempts]
    \cup [pc: {"store"}, key: Keys \cup {NoKey}, customer: Nat \ {0}]
    \cup [pc: {"session"}, key: Keys \cup {NoKey}, attempt: Attempts,
          customer: Nat \ {0}, wrote: BOOLEAN]
    \cup [pc: {"commit"}, key: Keys \cup {NoKey}, customer: Nat \ {0}, wrote: BOOLEAN]

Message ==
    [pc: {"queued", "send", "done", "dead"}, runs: 0 .. MaxRetries + 1, attempt: 0 .. MaxAttempts]

TypeOK ==
    /\ stripe_customer_id \in Nat /\ customers \in Nat
    /\ named \in [Keys -> Nat] /\ expired \in [Keys -> Nat]
    /\ sessions \in [Keys \cup {NoKey} -> Nat]
    /\ checkout \in [Requests -> Request]
    /\ mail \in [Mails -> Message]
    /\ sent \in [Mails -> Nat]
    /\ started \in Nat /\ unkeyed \in Nat /\ unnamed \in Nat /\ disturbed \in BOOLEAN

\* The user has signed up, and Stripe was or was not reached then.
Init ==
    /\ customers \in {0, 1} /\ stripe_customer_id = customers
    /\ named = [k \in Keys |-> 0] /\ expired = [k \in Keys |-> 0]
    /\ sessions = [k \in Keys \cup {NoKey} |-> 0]
    /\ checkout = [q \in Requests |-> Idle]
    /\ mail = [m \in Mails |-> [pc |-> "queued", runs |-> 0, attempt |-> 0]]
    /\ sent = [m \in Mails |-> 0]
    /\ started = 0 /\ unkeyed = 0 /\ unnamed = 0 /\ disturbed = FALSE

-----------------------------------------------------------------------------
(* The retry loop of both clients                                          *)

\* A server error, a rate limit or a transport error may be tried again.
Repeatable(call) == call.attempt < MaxAttempts

\* The next attempt, after the backoff.
Repeat(call) == [call EXCEPT !.attempt = @ + 1]

-----------------------------------------------------------------------------
(* Checkouts                                                               *)

Overlapping == \E q \in Requests : checkout[q] # Idle

\* Mutant: a session of its own holds the row from the time it is read.
UserLocked_byReaders ==
    \E q \in Requests : checkout[q].pc \in {"store", "session", "commit"}

\* Another transaction has updated the user's row and has not ended.
UserLocked == \E q \in Requests : checkout[q].pc \in {"session", "commit"} /\ checkout[q].wrote

Go(q, next) == checkout' = [checkout EXCEPT ![q] = next]

\* The exception ends the request, and its transaction is rolled back.
Raise(q) ==
    /\ Go(q, Idle)
    /\ disturbed' = TRUE
    /\ UNCHANGED <<started, unkeyed, unnamed>>

\* The attempt is not answered: it is repeated, or raises.
Fail(q) ==
    \/ /\ Repeatable(checkout[q])
       /\ Go(q, Repeat(checkout[q]))
       /\ UNCHANGED history
    \/ ~Repeatable(checkout[q]) /\ Raise(q)

\* create_checkout, create_career_checkout, with the user as read when the request
\* came in.
StartCheckout(q, k) ==
    /\ checkout[q] = Idle
    /\ started < MaxRequests
    /\ started' = started + 1
    /\ unkeyed' = IF k = NoKey THEN unkeyed + 1 ELSE unkeyed
    /\ IF stripe_customer_id = 0
       THEN /\ Go(q, [pc |-> "customer", key |-> k, attempt |-> 1])
            /\ unnamed' = unnamed + 1
       ELSE /\ Go(q, [pc |-> "session", key |-> k, attempt |-> 1,
                      customer |-> stripe_customer_id, wrote |-> FALSE])
            /\ UNCHANGED unnamed
    /\ disturbed' = (disturbed \/ Overlapping)
    /\ UNCHANGED <<stripe_customer_id, stripe, mails>>

\* Stripe.create_customer, without a key: every attempt that arrives creates one,
\* whether its answer arrives or not.
CreateCustomer(q) ==
    /\ checkout[q].pc = "customer"
    /\ customers' = customers + 1
    /\ \/ /\ Go(q, [pc |-> "store", key |-> checkout[q].key, customer |-> customers'])
          /\ UNCHANGED history
       \/ Fail(q)
    /\ UNCHANGED <<stripe_customer_id, named, sessions, expired, mails>>

\* Mutant: the headers with the key are sent with the first attempt only.
CreateSession_keyedOnce(q) ==
    /\ checkout[q].pc = "session"
    /\ LET k == checkout[q].key
           keyed == k # NoKey /\ checkout[q].attempt = 1
       IN  /\ keyed => named[k] \in {0, checkout[q].customer}
           /\ named' = [j \in Keys |-> IF j = k THEN checkout[q].customer ELSE named[j]]
           /\ sessions' = [sessions EXCEPT ![k] = IF keyed /\ named[k] # 0 THEN @ ELSE @ + 1]
           /\ \/ /\ Go(q, [pc |-> "commit", key |-> k, customer |-> checkout[q].customer,
                            wrote |-> checkout[q].wrote])
                 /\ UNCHANGED history
              \/ Fail(q)
    /\ UNCHANGED <<stripe_customer_id, customers, expired, mails>>

\* Stripe.create_checkout_session.  A key that Stripe remembers gets the session made
\* for it, provided that the call is the same: that the customer is, and the URLs of the
\* request's body are.  A call with other URLs is Refused.
CreateSession(q) ==
    /\ checkout[q].pc = "session"
    /\ LET k == checkout[q].key
       IN  /\ k \in Keys => named[k] \in {0, checkout[q].customer}
           /\ named' = [j \in Keys |-> IF j = k THEN checkout[q].customer ELSE named[j]]
           /\ sessions' = [sessions EXCEPT ![k] = IF k \in Keys /\ named[k] # 0 THEN @ ELSE @ + 1]
           /\ \/ /\ Go(q, [pc |-> "commit", key |-> k, customer |-> checkout[q].customer,
                            wrote |-> checkout[q].wrote])
                 /\ UNCHANGED history
              \/ Fail(q)
    /\ UNCHANGED <<stripe_customer_id, customers, expired, mails>>

\* A server error, a rate limit, or a connection that fails.
AttemptFails(q) ==
    /\ checkout[q].pc \in {"customer", "session"}
    /\ Fail(q)
    /\ UNCHANGED <<stripe_customer_id, stripe, mails>>

\* A client error, among them a key used with other parameters, is not repeated.
Refused(q) ==
    /\ checkout[q].pc \in {"customer", "session"}
    /\ Raise(q)
    /\ UNCHANGED <<stripe_customer_id, stripe, mails>>

\* Mutant: the customer is kept for the request and not stored.
StoreCustomer_forgotten(q) ==
    /\ checkout[q].pc = "store"
    /\ Go(q, [pc |-> "session", key |-> checkout[q].key, attempt |-> 1,
              customer |-> checkout[q].customer, wrote |-> FALSE])
    /\ UNCHANGED <<stripe_customer_id, stripe, history, mails>>

\* The rest of _ensure_stripe_customer: UPDATE users, without a commit.
StoreCustomer(q) ==
    /\ checkout[q].pc = "store"
    /\ ~UserLocked
    /\ Go(q, [pc |-> "session", key |-> checkout[q].key, attempt |-> 1,
              customer |-> checkout[q].customer, wrote |-> TRUE])
    /\ UNCHANGED <<stripe_customer_id, stripe, history, mails>>

\* session.begin() is left, and the user gets the session's URL.
Commit(q) ==
    /\ checkout[q].pc = "commit"
    /\ stripe_customer_id' = IF checkout[q].wrote THEN checkout[q].customer
                             ELSE stripe_customer_id
    /\ Go(q, Idle)
    /\ UNCHANGED <<stripe, history, mails>>

\* The process dies, or the database fails.
Rollback(q) ==
    /\ checkout[q] # Idle
    /\ Raise(q)
    /\ UNCHANGED <<stripe_customer_id, stripe, mails>>

\* Stripe forgets a key after a day.
KeyExpires(k) ==
    /\ named[k] # 0
    /\ named' = [named EXCEPT ![k] = 0]
    /\ expired' = [expired EXCEPT ![k] = @ + 1]
    /\ UNCHANGED <<stripe_customer_id, customers, sessions, checkout, history, mails>>

-----------------------------------------------------------------------------
(* E-mails                                                                 *)

ToMail(m, next) ==
    /\ mail' = [mail EXCEPT ![m] = next]
    /\ UNCHANGED <<stripe_customer_id, stripe, checkout, history>>

\* process_message gives the message to its handler, which makes the call.
Handle(m) ==
    /\ mail[m].pc = "queued"
    /\ ToMail(m, [pc |-> "send", runs |-> mail[m].runs + 1, attempt |-> 1])
    /\ UNCHANGED sent

\* Brevo sends the e-mail and says so; the message is acknowledged.
Deliver(m) ==
    /\ mail[m].pc = "send"
    /\ sent' = [sent EXCEPT ![m] = @ + 1]
    /\ ToMail(m, [mail[m] EXCEPT !.pc = "done"])

\* Mutant: the handler does not look at the False that send_email makes of an error.
Undelivered_ignored(call) == [call EXCEPT !.pc = "done"]

\* send_email makes False of the exception, the handler an exception of False; the
\* message waits to be run again, or is dead.
Undelivered(call) ==
    [call EXCEPT !.pc = IF call.runs <= MaxRetries THEN "queued" ELSE "dead"]

\* Brevo fails, or sends the e-mail and its answer is lost; it knows no keys.
SendFails(m) ==
    /\ mail[m].pc = "send"
    /\ sent' = sent \/ sent' = [sent EXCEPT ![m] = @ + 1]
    /\ ToMail(m, IF Repeatable(mail[m]) THEN Repeat(mail[m]) ELSE Undelivered(mail[m]))

\* A client error is not repeated by the call, and yet by the queue.
SendRefused(m) ==
    /\ mail[m].pc = "send"
    /\ ToMail(m, Undelivered(mail[m]))
    /\ UNCHANGED sent

-----------------------------------------------------------------------------
RequestStep(q) ==
    CreateCustomer(q) \/ CreateSession(q) \/ AttemptFails(q) \/ Refused(q)
        \/ StoreCustomer(q) \/ Commit(q)

MailStep(m) == Handle(m) \/ Deliver(m) \/ SendFails(m) \/ SendRefused(m)

Next ==
    \/ \E q \in Requests : RequestStep(q) \/ Rollback(q)
    \/ \E q \in Requests, k \in Keys \cup {NoKey} : StartCheckout(q, k)
    \/ \E k \in Keys : KeyExpires(k)
    \/ \E m \in Mails : MailStep(m)

Spec == Init /\ [][Next]_vars

\* A call is answered or times out, and its request goes on; one that waits for the
\* user's row gets the lock, for PostgreSQL queues the waiters (SF).  The queue runs
\* its handlers.
Fairness ==
    /\ \A q \in Requests : SF_vars(RequestStep(q))
    /\ \A m \in Mails : WF_vars(MailStep(m))

FairSpec == Spec /\ Fairness

-----------------------------------------------------------------------------
(* Properties                                                              *)

\* However often the user, his two browser windows and the client call again, Stripe
\* makes one checkout session for a key until it forgets the key.
OneSessionPerKey ==
    \A k \in Keys : sessions[k] <= expired[k] + (IF named[k] = 0 THEN 0 ELSE 1)

\* Calls without a key take effect at most once per attempt of a run: customers of a
\* user who has none, sessions of the Career product, e-mails.  And a message that is
\* done with was sent.
CallsAccounted ==
    /\ customers <= IF unnamed = 0 THEN 1 ELSE MaxAttempts * unnamed
    /\ sessions[NoKey] <= MaxAttempts * unkeyed
    /\ \A m \in Mails : /\ sent[m] <= MaxAttempts * mail[m].runs
                        /\ mail[m].pc = "done" => sent[m] > 0

\* As long as no checkout has failed and none overlapped, a key Stripe remembers names
\* the user's customer, so the same checkout is answered when it is asked for again.
\* (After a failure it may be refused, for a day: the customer named was never stored.)
KeysUsable ==
    ~disturbed /\ ~Overlapping =>
        \A k \in Keys : named[k] \in {0, stripe_customer_id}

\* Every checkout ends, and every e-mail is sent or dead-lettered.
CallsEnd ==
    /\ \A q \in Requests : checkout[q] # Idle ~> checkout[q] = Idle
    /\ \A m \in Mails : <>(mail[m].pc \in {"done", "dead"})
=============================================================================
