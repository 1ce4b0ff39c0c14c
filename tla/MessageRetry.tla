---------------------------- MODULE MessageRetry ----------------------------
(***************************************************************************)
(* One work queue of the messaging layer with its retry queue, its dead-   *)
(* letter queue, the consumers of process_message, the consumer of         *)
(* handle_dlq_message, the dlq_messages table and the admin's bulk retry   *)
(* and discard actions on it.                                              *)
(*                                                                         *)
(* The broker delivers at least once: a copy is unacknowledged while a     *)
(* consumer holds it, and goes back to its queue when the consumer process *)
(* dies or the connection breaks.  Copies carry the x-retry-attempt header *)
(* and a token that tells equal copies apart.  The queues are sets because *)
(* prefetch, redelivery and the retry TTL reorder them.                    *)
(***************************************************************************)
EXTENDS Naturals, FiniteSets

CONSTANTS
    Messages,          \* payloads published to the queue
    Tokens,            \* bound: copies of messages that exist at a time
    Consumers,         \* deliveries process_message handles at a time (prefetch)
    Drainers,          \* deliveries handle_dlq_message handles at a time
    Rows,              \* bound: rows of dlq_messages
    Admins,            \* admin requests running at a time
    MaxRetries,        \* max_retries of the queue's configuration
    MaxFaults,         \* bound: process crashes and connection losses
    MaxRepublished,    \* bound: messages an admin puts back
    PublishMayFail,    \* the broker may refuse a publish on a working connection
    StoreMayFail,      \* inserting into dlq_messages may fail
    BrokerMayRestart   \* the broker itself may restart

ASSUME ConstantsAssumption ==
    /\ MaxRetries \in Nat \ {0}   \* QueueConfig: max_retries > 0
    /\ MaxFaults \in Nat /\ MaxRepublished \in Nat
    /\ {PublishMayFail, StoreMayFail, BrokerMayRestart} \subseteq BOOLEAN
    /\ IsFiniteSet(Consumers) /\ IsFiniteSet(Drainers) /\ IsFiniteSet(Rows)

VARIABLES
    main, retry, dead, \* ready copies of the three queues
    work,              \* process_message runs in progress
    drain,             \* handle_dlq_message runs in progress
    rows,              \* dlq_messages
    admin,             \* bulk retries in progress
    published,         \* messages that were published
    runs,              \* history: handler runs per message
    effects,           \* history: handler successes per message
    again,             \* history: redeliveries and republications per message
    lost,              \* history: copies given up, per message
    faults             \* crashes and connection losses so far

queues == <<main, retry, dead>>
history == <<published, runs, effects, again, lost, faults>>
vars == <<queues, work, drain, rows, admin, history>>

Copy == [token: Tokens, msg: Messages, attempt: 0..MaxRetries]
Idle == [pc |-> "idle"]
Free == [status |-> "free"]

\* held: the delivery is still valid, so that an ack or reject reaches the broker.
Delivery(pcs) == {Idle} \cup [pc: pcs, copy: Copy, held: BOOLEAN]
Row == [msg: Messages, status: {"pending", "retried", "discarded"}]

TypeOK ==
    /\ main \subseteq Copy /\ retry \subseteq Copy /\ dead \subseteq Copy
    /\ work \in [Consumers -> Delivery({"handle", "failed", "ack", "reject"})]
    /\ drain \in [Drainers -> Delivery({"store", "ack"})]
    /\ rows \in [Rows -> Row \cup {Free}]
    /\ admin \in [Admins -> {Idle} \cup
                    [pc: {"retry"}, todo: SUBSET Rows, done: SUBSET Rows]]
    /\ published \subseteq Messages
    /\ runs \in [Messages -> Nat] /\ effects \in [Messages -> Nat]
    /\ again \in [Messages -> Nat] /\ lost \in [Messages -> Nat] /\ faults \in Nat

Init ==
    /\ main = {} /\ retry = {} /\ dead = {}
    /\ work = [c \in Consumers |-> Idle]
    /\ drain = [d \in Drainers |-> Idle]
    /\ rows = [i \in Rows |-> Free]
    /\ admin = [a \in Admins |-> Idle]
    /\ published = {}
    /\ runs = [m \in Messages |-> 0] /\ effects = [m \in Messages |-> 0]
    /\ again = [m \in Messages |-> 0] /\ lost = [m \in Messages |-> 0] /\ faults = 0

-----------------------------------------------------------------------------
\* Copies consumers hold and have not settled, by queue.
HeldMain == {work[c].copy : c \in {b \in Consumers : work[b].pc # "idle" /\ work[b].held}}
HeldDead == {drain[d].copy : d \in {b \in Drainers : drain[b].pc # "idle" /\ drain[b].held}}

UsedTokens ==
    {x.token : x \in main \cup retry \cup dead \cup HeldMain \cup HeldDead}

\* q' is q with a new copy of m.
Enqueue(q, m, attempt) ==
    \E t \in Tokens \ UsedTokens :
        q' = q \cup {[token |-> t, msg |-> m, attempt |-> attempt]}

\* How many of the copies, or of other things, are of each message.
Count(things) == [m \in Messages |-> Cardinality({x \in things : x.msg = m})]

\* A history with one more for each of the copies.
Plus(count, copies) == [m \in Messages |-> count[m] + Count(copies)[m]]

\* A run gives its copy up, which the broker minds only if the delivery is valid.
GivenUp(run) == IF run.held THEN Plus(lost, {run.copy}) ELSE lost

\* publish_event: a first copy reaches the work queue.
Publish(m) ==
    /\ m \notin published
    /\ published' = published \cup {m}
    /\ Enqueue(main, m, 0)
    /\ UNCHANGED <<retry, dead, work, drain, rows, admin, runs, effects, again, lost, faults>>

\* Mutant: the retry queue has no dead-letter routing key.
RetryExpires_dropped ==
    \E x \in retry :
        /\ retry' = retry \ {x}
        /\ UNCHANGED <<main, dead, work, drain, rows, admin, history>>

\* The TTL of the retry queue dead-letters the copy to the work queue.
RetryExpires ==
    \E x \in retry :
        /\ retry' = retry \ {x}
        /\ main' = main \cup {x}
        /\ UNCHANGED <<dead, work, drain, rows, admin, history>>

-----------------------------------------------------------------------------
(* process_message                                                         *)

Deliver(c) ==
    /\ work[c] = Idle
    /\ \E x \in main :
         /\ main' = main \ {x}
         /\ work' = [work EXCEPT ![c] = [pc |-> "handle", copy |-> x, held |-> TRUE]]
         /\ runs' = [runs EXCEPT ![x.msg] = @ + 1]
    /\ UNCHANGED <<retry, dead, drain, rows, admin, published, effects, again, lost, faults>>

HandlerSucceeds(c) ==
    /\ work[c].pc = "handle"
    /\ work' = [work EXCEPT ![c].pc = "ack"]
    /\ effects' = [effects EXCEPT ![work[c].copy.msg] = @ + 1]
    /\ UNCHANGED <<queues, drain, rows, admin, published, runs, again, lost, faults>>

HandlerFails(c) ==
    /\ work[c].pc = "handle"
    /\ work' = [work EXCEPT ![c].pc = "failed"]
    /\ UNCHANGED <<queues, drain, rows, admin, history>>

\* Mutant: a copy that is out of attempts is rejected and not published again.
Forward_undeadlettered(c) ==
    /\ work[c].pc = "failed"
    /\ LET x == work[c].copy IN
       \/ x.attempt < MaxRetries /\ Enqueue(retry, x.msg, x.attempt + 1)
       \/ x.attempt >= MaxRetries /\ UNCHANGED retry
    /\ work' = [work EXCEPT ![c].pc = "reject"]
    /\ UNCHANGED <<main, dead, drain, rows, admin, history>>

\* Mutant: the attempt header is not advanced.
Forward_sameAttempt(c) ==
    /\ work[c].pc = "failed"
    /\ LET x == work[c].copy IN
       \/ /\ x.attempt < MaxRetries
          /\ Enqueue(retry, x.msg, x.attempt)
          /\ UNCHANGED dead
       \/ /\ x.attempt >= MaxRetries
          /\ Enqueue(dead, x.msg, x.attempt)
          /\ UNCHANGED retry
    /\ work' = [work EXCEPT ![c].pc = "reject"]
    /\ UNCHANGED <<main, drain, rows, admin, history>>

\* Mutant: "if dead_letter_queue" for "elif": a retried copy is dead-lettered too.
Forward_bothQueues(c) ==
    /\ work[c].pc = "failed"
    /\ LET x == work[c].copy IN
       /\ IF x.attempt < MaxRetries
          THEN \E t \in Tokens \ UsedTokens :
                 retry' = retry \cup {[token |-> t, msg |-> x.msg, attempt |-> x.attempt + 1]}
          ELSE UNCHANGED retry
       /\ Enqueue(dead, x.msg, x.attempt)
    /\ work' = [work EXCEPT ![c].pc = "reject"]
    /\ UNCHANGED <<main, drain, rows, admin, history>>

\* A failed copy is published to the retry queue with the next attempt number
\* or, out of attempts, to the dead-letter queue.
Forward(c) ==
    /\ work[c].pc = "failed"
    /\ LET x == work[c].copy IN
       \/ /\ x.attempt < MaxRetries
          /\ Enqueue(retry, x.msg, x.attempt + 1)
          /\ UNCHANGED dead
       \/ /\ x.attempt >= MaxRetries
          /\ Enqueue(dead, x.msg, x.attempt)
          /\ UNCHANGED retry
    /\ work' = [work EXCEPT ![c].pc = "reject"]
    /\ UNCHANGED <<main, drain, rows, admin, history>>

\* The publish raises inside the except block: message.process() rejects the
\* delivery without requeueing it, which the broker sees only if the delivery is
\* still valid.  After a connection loss a publish may always fail.
ForwardRefused(c) ==
    /\ work[c].pc = "failed"
    /\ PublishMayFail \/ ~work[c].held
    /\ work' = [work EXCEPT ![c] = Idle]
    /\ lost' = GivenUp(work[c])
    /\ UNCHANGED <<queues, drain, rows, admin, published, runs, effects, again, faults>>

\* The ack of a success, or the reject that follows a forwarded failure.
Settle(c) ==
    /\ work[c].pc \in {"ack", "reject"}
    /\ work' = [work EXCEPT ![c] = Idle]
    /\ UNCHANGED <<queues, drain, rows, admin, history>>

-----------------------------------------------------------------------------
(* handle_dlq_message                                                      *)

\* Mutant: the dead-letter queue is consumed with no_ack=True.
DrainDeliver_autoAck(d) ==
    /\ drain[d] = Idle
    /\ \E x \in dead :
         /\ dead' = dead \ {x}
         /\ drain' = [drain EXCEPT ![d] = [pc |-> "store", copy |-> x, held |-> FALSE]]
    /\ UNCHANGED <<main, retry, work, rows, admin, history>>

DrainDeliver(d) ==
    /\ drain[d] = Idle
    /\ \E x \in dead :
         /\ dead' = dead \ {x}
         /\ drain' = [drain EXCEPT ![d] = [pc |-> "store", copy |-> x, held |-> TRUE]]
    /\ UNCHANGED <<main, retry, work, rows, admin, history>>

\* The row is committed; the ack comes after it.
DrainStore(d) ==
    /\ drain[d].pc = "store"
    /\ \E i \in Rows :
         /\ rows[i] = Free
         /\ rows' = [rows EXCEPT ![i] = [msg |-> drain[d].copy.msg, status |-> "pending"]]
    /\ drain' = [drain EXCEPT ![d].pc = "ack"]
    /\ UNCHANGED <<queues, work, admin, history>>

\* The insert fails: reject(requeue=False) on a queue that has no dead-letter
\* exchange of its own.
DrainStoreFails(d) ==
    /\ StoreMayFail
    /\ drain[d].pc = "store"
    /\ drain' = [drain EXCEPT ![d] = Idle]
    /\ lost' = GivenUp(drain[d])
    /\ UNCHANGED <<queues, work, rows, admin, published, runs, effects, again, faults>>

DrainAck(d) ==
    /\ drain[d].pc = "ack"
    /\ drain' = [drain EXCEPT ![d] = Idle]
    /\ UNCHANGED <<queues, work, rows, admin, history>>

-----------------------------------------------------------------------------
(* Admin: action_retry and action_discard                                  *)

AdminSelect(a, selection) ==
    /\ admin[a] = Idle
    /\ selection # {}
    /\ \A i \in selection : rows[i] # Free
    /\ admin' = [admin EXCEPT ![a] = [pc |-> "retry", todo |-> selection, done |-> {}]]
    /\ UNCHANGED <<queues, work, drain, rows, history>>

\* One selected row: skipped unless PENDING, else published to its work queue
\* at attempt 0.  The new status stays in the session until the last row.
AdminRepublish(a, i) ==
    /\ admin[a].pc = "retry" /\ i \in admin[a].todo
    /\ \/ /\ rows[i].status # "pending"
          /\ admin' = [admin EXCEPT ![a].todo = @ \ {i}]
          /\ UNCHANGED <<main, again>>
       \/ /\ rows[i].status = "pending"
          /\ again[rows[i].msg] < MaxRepublished
          /\ Enqueue(main, rows[i].msg, 0)
          /\ again' = [again EXCEPT ![rows[i].msg] = @ + 1]
          /\ admin' = [admin EXCEPT ![a].todo = @ \ {i}, ![a].done = @ \cup {i}]
    /\ UNCHANGED <<retry, dead, work, drain, rows, published, runs, effects, lost, faults>>

\* session.commit(): UPDATE ... SET status = RETRIED WHERE id, for every row done.
AdminCommit(a) ==
    /\ admin[a].pc = "retry" /\ admin[a].todo = {}
    /\ rows' = [i \in Rows |->
                 IF i \in admin[a].done THEN [rows[i] EXCEPT !.status = "retried"] ELSE rows[i]]
    /\ admin' = [admin EXCEPT ![a] = Idle]
    /\ UNCHANGED <<queues, work, drain, history>>

\* A publish or the commit raises: no status is saved, publishes are not undone.
AdminFails(a) ==
    /\ admin[a] # Idle
    /\ admin' = [admin EXCEPT ![a] = Idle]
    /\ UNCHANGED <<queues, work, drain, rows, history>>

\* bulk_discard: one UPDATE ... WHERE status = PENDING.
AdminDiscard(selection) ==
    /\ \E i \in selection : rows[i].status = "pending"
    /\ rows' = [i \in Rows |->
                 IF i \in selection /\ rows[i].status = "pending"
                 THEN [rows[i] EXCEPT !.status = "discarded"] ELSE rows[i]]
    /\ UNCHANGED <<queues, work, drain, admin, history>>

-----------------------------------------------------------------------------
(* Faults                                                                  *)

\* The consumer process dies: what it held is ready again, its runs are gone.
Crash ==
    /\ faults < MaxFaults
    /\ (\E c \in Consumers : work[c] # Idle) \/ (\E d \in Drainers : drain[d] # Idle)
    /\ faults' = faults + 1
    /\ main' = main \cup HeldMain
    /\ dead' = dead \cup HeldDead
    /\ again' = Plus(again, HeldMain \cup HeldDead)
    /\ work' = [c \in Consumers |-> Idle]
    /\ drain' = [d \in Drainers |-> Idle]
    /\ UNCHANGED <<retry, rows, admin, published, runs, effects, lost>>

\* The connection breaks: the broker requeues what was held while the runs go
\* on; their acks and rejects no longer reach the broker.  When it is the broker
\* that restarts, the dead-letter copies, published without PERSISTENT delivery
\* mode, are gone.
ConnectionLost ==
    /\ faults < MaxFaults
    /\ HeldMain \cup HeldDead # {} \/ BrokerMayRestart
    /\ faults' = faults + 1
    /\ main' = main \cup HeldMain
    /\ again' = Plus(again, HeldMain \cup HeldDead)
    /\ \/ dead' = dead \cup HeldDead /\ UNCHANGED lost
       \/ BrokerMayRestart /\ dead' = {} /\ lost' = Plus(lost, dead \cup HeldDead)
    /\ work' = [c \in Consumers |->
                 IF work[c] = Idle THEN Idle ELSE [work[c] EXCEPT !.held = FALSE]]
    /\ drain' = [d \in Drainers |->
                 IF drain[d] = Idle THEN Idle ELSE [drain[d] EXCEPT !.held = FALSE]]
    /\ UNCHANGED <<retry, rows, admin, published, runs, effects>>

-----------------------------------------------------------------------------
Handle(c) == HandlerSucceeds(c) \/ HandlerFails(c)

Next ==
    \/ \E m \in Messages : Publish(m)
    \/ RetryExpires
    \/ \E c \in Consumers :
         Deliver(c) \/ Handle(c) \/ Forward(c) \/ ForwardRefused(c) \/ Settle(c)
    \/ \E d \in Drainers :
         DrainDeliver(d) \/ DrainStore(d) \/ DrainStoreFails(d) \/ DrainAck(d)
    \/ \E a \in Admins, selection \in SUBSET Rows : AdminSelect(a, selection)
    \/ \E a \in Admins, i \in Rows : AdminRepublish(a, i)
    \/ \E a \in Admins : AdminCommit(a) \/ AdminFails(a)
    \/ \E selection \in SUBSET Rows : AdminDiscard(selection)
    \/ Crash
    \/ ConnectionLost

Spec == Init /\ [][Next]_vars

\* The broker delivers ready copies and expires the retry TTL; a handler run
\* comes to an end, and process_message and handle_dlq_message go on after it.
Fairness ==
    /\ WF_vars(RetryExpires)
    /\ \A c \in Consumers :
         WF_vars(Deliver(c)) /\ WF_vars(Handle(c)) /\ WF_vars(Forward(c)) /\ WF_vars(Settle(c))
    /\ \A d \in Drainers :
         WF_vars(DrainDeliver(d)) /\ WF_vars(DrainStore(d)) /\ WF_vars(DrainAck(d))

FairSpec == Spec /\ Fairness

-----------------------------------------------------------------------------
(* Properties                                                              *)

\* Copies of m whose fate is open: ready, or held and not yet settled.  A copy
\* that was acted upon and only waits for its ack or reject is settled.
OpenCopies(m) ==
    Cardinality({x \in main \cup retry \cup dead : x.msg = m})
    + Cardinality({c \in Consumers : work[c].pc \in {"handle", "failed"} /\ work[c].copy.msg = m})
    + Cardinality({d \in Drainers : drain[d].pc = "store" /\ drain[d].copy.msg = m})

RowsOf(m) == Cardinality({i \in Rows : rows[i] # Free /\ rows[i].msg = m})

\* At-least-once: a published message is in a queue, in a consumer's hands, has
\* had its effect, or is a row an admin can see, whatever crashes and however
\* often the connection breaks, unless a copy of it was given up: because the
\* retry or the dead letter could not be published, the row could not be stored,
\* or the broker restarted without its dead letters.
NoMessageLost ==
    \A m \in published :
        OpenCopies(m) > 0 \/ effects[m] > 0 \/ RowsOf(m) > 0 \/ lost[m] > 0

\* Duplicates come from faults and from admins only: apart from redeliveries and
\* republications a message has exactly one fate (waiting, done or dead).
FatesAccounted ==
    \A m \in Messages :
        OpenCopies(m) + effects[m] + RowsOf(m) <= 1 + again[m]

\* A message that keeps failing is not handled for ever: max_retries + 1 runs,
\* and as many again for each redelivery and republication.
RunsBounded ==
    \A m \in Messages : runs[m] <= (MaxRetries + 1) * (1 + again[m])

\* Every published message is handled successfully or ends up as a row.
EventuallySettled ==
    \A m \in Messages : m \in published ~> effects[m] > 0 \/ RowsOf(m) > 0

-----------------------------------------------------------------------------
(* The ledger                                                              *)

\* Runs that have yet to act on their copy, with a valid delivery or without.
Handling(held) ==
    {c \in Consumers : work[c].pc \in {"handle", "failed"} /\ work[c].held = held}
Storing(held) == {d \in Drainers : drain[d].pc = "store" /\ drain[d].held = held}

\* The copies the broker answers for: ready, or held and not yet acted upon.
Owed ==
    main \cup retry \cup dead
      \cup {work[c].copy : c \in Handling(TRUE)} \cup {drain[d].copy : d \in Storing(TRUE)}

\* The runs whose delivery is void.
Stray ==
    {[by |-> <<"work", c>>, msg |-> work[c].copy.msg] : c \in Handling(FALSE)}
      \cup {[by |-> <<"drain", d>>, msg |-> drain[d].copy.msg] : d \in Storing(FALSE)}

Stored ==
    {[row |-> i, msg |-> rows[i].msg] : i \in {j \in Rows : rows[j] # Free}}

Ledger == INSTANCE MessageLedger
            WITH Lossy <- PublishMayFail \/ StoreMayFail \/ BrokerMayRestart,
                 owed <- Count(Owed), stray <- Count(Stray), stored <- Count(Stored)

\* Every step of the queues, consumers and administrators is one of the ledger: no
\* copy disappears unless it had its effect, was stored or is counted as given up,
\* none is made but by publications, redeliveries and republications.
LedgerSpec == Ledger!Spec

=============================================================================
