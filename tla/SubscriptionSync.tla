-------------------------- MODULE SubscriptionSync --------------------------
(***************************************************************************)
(* One API workspace and its Stripe subscriptions.  Stripe's events come   *)
(* through the work queues to handlers, several at a time and in any       *)
(* order; each handler checks the Redis mark of the event, runs one        *)
(* READ COMMITTED transaction, in the middle of which it may ask Stripe,   *)
(* marks the event and acknowledges it.  The owner's cancel and reactivate *)
(* requests run beside them.                                               *)
(*                                                                         *)
(* Writes take effect when the transaction commits.  UPDATEs are by id, so *)
(* only the lock on a subscription row that is held while something else   *)
(* is read matters (Locked); overlapping writes are otherwise serial.      *)
(***************************************************************************)
EXTENDS Naturals, FiniteSets

CONSTANTS
    Subs,          \* Stripe subscriptions the workspace may buy
    Free,          \* the free subscription a personal workspace starts with
    None,          \* no subscription linked
    Handlers,      \* deliveries handled at a time
    Owners,        \* owner requests running at a time
    MaxChanges,    \* bound: changes of payment state at Stripe
    MaxDuplicates, \* bound: repeated deliveries of an event
    MaxFaults      \* bound: handler runs that fail or crash

ASSUME ConstantsAssumption ==
    /\ Free \notin Subs /\ None \notin Subs /\ Free # None
    /\ MaxChanges \in Nat /\ MaxDuplicates \in Nat /\ MaxFaults \in Nat

VARIABLES
    stripe,     \* the subscriptions at Stripe
    changes,    \* changes of payment state so far
    sent,       \* events Stripe has sent
    queue,      \* events waiting for a handler
    processed,  \* events marked in Redis
    row,        \* subscriptions.status of each subscription
    link,       \* the subscription of the workspace's context row
    workspace,  \* the status of the workspace
    handler,    \* handler runs in progress
    request,    \* owner requests in progress
    duplicates, faults,
    disturbed   \* history: two transactions overlapped, or an event was skipped

bounds == <<changes, duplicates, faults>>
tables == <<row, link, workspace>>
vars == <<stripe, changes, sent, queue, processed, row, link, workspace, handler,
          request, duplicates, faults, disturbed>>

-----------------------------------------------------------------------------
Status == {"active", "past_due", "canceled"}
Stored == Subs \cup {Free}

\* customer.subscription.created is handled as an update; no tells apart the
\* events of successive changes.
Event == [kind: {"checkout", "created", "updated", "deleted"}, sub: Subs, no: 0..MaxChanges]

Idle == [pc |-> "idle"]

Handling ==
    {Idle}
    \cup [pc: {"read", "mark"}, event: Event]
    \cup [pc: {"create"}, event: Event, current: Stored \cup {None}]
    \cup [pc: {"fetch", "delete"}, event: Event, linked: BOOLEAN]
    \cup [pc: {"update"}, event: Event, linked: BOOLEAN, status: Status]
    \cup [pc: {"commit"}, event: Event, linked: BOOLEAN, status: Status, thaw: BOOLEAN]

Request == {Idle} \cup [pc: {"stripe", "cancel"}, sub: Stored] \cup [pc: {"thaw"}]

TypeOK ==
    /\ stripe \in [Subs -> Status \cup {"none", "session"}]
    /\ sent \subseteq Event /\ queue \subseteq sent /\ processed \subseteq sent
    /\ row \in [Stored -> Status \cup {"absent"}]
    /\ link \in Stored \cup {None}
    /\ workspace \in {"active", "frozen"}
    /\ handler \in [Handlers -> Handling]
    /\ request \in [Owners -> Request]
    /\ changes \in Nat /\ duplicates \in Nat /\ faults \in Nat
    /\ disturbed \in BOOLEAN

\* A personal workspace has the free subscription, any other workspace none.
Init ==
    /\ stripe = [s \in Subs |-> "none"]
    /\ sent = {} /\ queue = {} /\ processed = {}
    /\ \/ link = Free /\ row = [s \in Stored |-> IF s = Free THEN "active" ELSE "absent"]
       \/ link = None /\ row = [s \in Stored |-> "absent"]
    /\ workspace = "active"
    /\ handler = [h \in Handlers |-> Idle]
    /\ request = [o \in Owners |-> Idle]
    /\ changes = 0 /\ duplicates = 0 /\ faults = 0
    /\ disturbed = FALSE

-----------------------------------------------------------------------------
Busy ==
    (\E h \in Handlers : handler[h] # Idle) \/ (\E o \in Owners : request[o] # Idle)

Sub(h) == handler[h].event.sub

\* Another transaction has updated the row and not committed yet.
Locked(s) == \E h \in Handlers : handler[h].pc = "commit" /\ Sub(h) = s

LinkedActive == link # None /\ row[link] = "active"

Send(events) ==
    /\ sent' = sent \cup events
    /\ queue' = queue \cup events

-----------------------------------------------------------------------------
(* Stripe and its customer                                                 *)

\* create_checkout_session: refused while a paid subscription is active.
CheckoutSession(s) ==
    /\ stripe[s] = "none"
    /\ ~(LinkedActive /\ link # Free)
    /\ stripe' = [stripe EXCEPT ![s] = "session"]
    /\ UNCHANGED <<bounds, sent, queue, processed, tables, handler, request, disturbed>>

\* The customer pays a session that was opened before.
Subscribe(s) ==
    /\ stripe[s] = "session"
    /\ stripe' = [stripe EXCEPT ![s] = "active"]
    /\ Send({[kind |-> k, sub |-> s, no |-> 0] : k \in {"created", "checkout"}})
    /\ UNCHANGED <<bounds, processed, tables, handler, request, disturbed>>

\* A payment fails, or succeeds after it had failed.
ChangePayment(s) ==
    /\ stripe[s] \in {"active", "past_due"}
    /\ changes < MaxChanges
    /\ changes' = changes + 1
    /\ stripe' = [stripe EXCEPT ![s] = IF @ = "active" THEN "past_due" ELSE "active"]
    /\ Send({[kind |-> "updated", sub |-> s, no |-> changes']})
    /\ UNCHANGED <<duplicates, faults, processed, tables, handler, request, disturbed>>

\* The subscription ends at Stripe: by dunning, or at the end of the period.
EndAtStripe(s) ==
    /\ stripe[s] \in {"active", "past_due"}
    /\ stripe' = [stripe EXCEPT ![s] = "canceled"]
    /\ Send({[kind |-> "deleted", sub |-> s, no |-> 0]})
    /\ UNCHANGED <<bounds, processed, tables, handler, request, disturbed>>

\* The webhook is called again, or the broker redelivers.
Duplicate(e) ==
    /\ e \in sent \ queue
    /\ duplicates < MaxDuplicates
    /\ duplicates' = duplicates + 1
    /\ queue' = queue \cup {e}
    /\ UNCHANGED <<stripe, changes, faults, sent, processed, tables, handler, request, disturbed>>

-----------------------------------------------------------------------------
(* Handlers                                                                *)

\* _is_event_already_processed: a marked event is acknowledged at once.
Deliver(h) ==
    /\ handler[h] = Idle
    /\ \E e \in queue :
         /\ queue' = queue \ {e}
         /\ IF e \in processed
            THEN UNCHANGED <<handler, disturbed>>
            ELSE /\ handler' = [handler EXCEPT ![h] = [pc |-> "read", event |-> e]]
                 /\ disturbed' = (disturbed \/ Busy)
    /\ UNCHANGED <<stripe, bounds, sent, processed, tables, request>>

\* handle_checkout_completed: nothing to do if the subscription has a row; else
\* the workspace's present subscription is read.
CheckoutRead(h) ==
    /\ handler[h].pc = "read" /\ handler[h].event.kind = "checkout"
    /\ LET e == handler[h].event IN
       handler' = [handler EXCEPT ![h] =
                     IF row[e.sub] # "absent"
                     THEN [pc |-> "mark", event |-> e]
                     ELSE [pc |-> "create", event |-> e, current |-> link]]
    /\ UNCHANGED <<stripe, bounds, sent, queue, processed, tables, request, disturbed>>

\* What a committed checkout writes: the present subscription is canceled, the
\* new one is ACTIVE whatever Stripe said, linked, and the workspace active.
Activate(s, current) ==
    /\ row' = [i \in Stored |-> IF i = s THEN "active"
                                ELSE IF i = current THEN "canceled" ELSE row[i]]
    /\ link' = s
    /\ workspace' = "active"

\* Mutant: the row is upserted, so a repeated checkout runs to its end.
CheckoutCommit_upsert(h) ==
    /\ handler[h].pc = "create"
    /\ ~Locked(handler[h].current)
    /\ Activate(Sub(h), handler[h].current)
    /\ handler' = [handler EXCEPT ![h] = [pc |-> "mark", event |-> handler[h].event]]
    /\ UNCHANGED <<stripe, bounds, sent, queue, processed, request, disturbed>>

\* The transaction commits, unless another one has inserted the row since: the
\* unique index on stripe_subscription_id fails it and the event is retried.
CheckoutCommit(h) ==
    /\ handler[h].pc = "create"
    /\ LET e == handler[h].event IN
       \/ /\ row[e.sub] = "absent"
          /\ ~Locked(handler[h].current)
          /\ Activate(e.sub, handler[h].current)
          /\ handler' = [handler EXCEPT ![h] = [pc |-> "mark", event |-> e]]
          /\ UNCHANGED queue
       \/ /\ row[e.sub] # "absent"
          /\ handler' = [handler EXCEPT ![h] = Idle]
          /\ queue' = queue \cup {e}
          /\ UNCHANGED tables
    /\ UNCHANGED <<stripe, bounds, sent, processed, request, disturbed>>

\* _process_subscription_update: an unknown subscription is skipped; a known one
\* is read with its context.
UpdatedRead(h) ==
    /\ handler[h].pc = "read" /\ handler[h].event.kind \in {"created", "updated"}
    /\ LET e == handler[h].event IN
       IF row[e.sub] = "absent"
       THEN /\ handler' = [handler EXCEPT ![h] = [pc |-> "mark", event |-> e]]
            /\ disturbed' = (disturbed \/ e.kind = "updated")
       ELSE /\ handler' = [handler EXCEPT ![h] =
                             [pc |-> "fetch", event |-> e, linked |-> link = e.sub]]
            /\ UNCHANGED disturbed
    /\ UNCHANGED <<stripe, bounds, sent, queue, processed, tables, request>>

\* Mutant: status_map has no entry for "canceled" and no default.
StatusOf_incomplete(status) == IF status = "canceled" THEN "absent" ELSE status

\* Mutant: status_map has no entry for "past_due", so the default ACTIVE applies.
StatusOf_defaulting(status) == IF status = "past_due" THEN "active" ELSE status

\* status_map.
StatusOf(status) == status

\* Stripe.get_subscription: the state now, not the event's.
UpdatedFetch(h) ==
    /\ handler[h].pc = "fetch"
    /\ handler' = [handler EXCEPT ![h] =
                     [pc |-> "update", event |-> @.event, linked |-> @.linked,
                      status |-> StatusOf(stripe[@.event.sub])]]
    /\ UNCHANGED <<stripe, bounds, sent, queue, processed, tables, request, disturbed>>

\* UPDATE of the subscription row; then the workspace is read, to see whether it
\* has to be reactivated.
UpdatedUpdate(h) ==
    /\ handler[h].pc = "update"
    /\ ~Locked(Sub(h))
    /\ handler' = [handler EXCEPT ![h] =
                     [pc |-> "commit", event |-> @.event, linked |-> @.linked,
                      status |-> @.status,
                      thaw |-> @.linked /\ @.status = "active" /\ workspace = "frozen"]]
    /\ UNCHANGED <<stripe, bounds, sent, queue, processed, tables, request, disturbed>>

UpdatedCommit(h) ==
    /\ handler[h].pc = "commit"
    /\ row' = [row EXCEPT ![Sub(h)] = handler[h].status]
    /\ workspace' = IF handler[h].linked /\ handler[h].status = "canceled" THEN "frozen"
                    ELSE IF handler[h].thaw THEN "active" ELSE workspace
    /\ handler' = [handler EXCEPT ![h] = [pc |-> "mark", event |-> @.event]]
    /\ UNCHANGED <<stripe, bounds, sent, queue, processed, link, request, disturbed>>

\* _process_subscription_deletion: likewise skipped when unknown.
DeletedRead(h) ==
    /\ handler[h].pc = "read" /\ handler[h].event.kind = "deleted"
    /\ LET e == handler[h].event IN
       IF row[e.sub] = "absent"
       THEN /\ handler' = [handler EXCEPT ![h] = [pc |-> "mark", event |-> e]]
            /\ disturbed' = TRUE
       ELSE /\ handler' = [handler EXCEPT ![h] =
                             [pc |-> "delete", event |-> e, linked |-> link = e.sub]]
            /\ UNCHANGED disturbed
    /\ UNCHANGED <<stripe, bounds, sent, queue, processed, tables, request>>

\* Mutant: the workspace of a replaced subscription is frozen, too.
DeletedCommit_frozenAnyway(h) ==
    /\ handler[h].pc = "delete"
    /\ row' = [row EXCEPT ![Sub(h)] = "canceled"]
    /\ workspace' = "frozen"
    /\ handler' = [handler EXCEPT ![h] = [pc |-> "mark", event |-> @.event]]
    /\ UNCHANGED <<stripe, bounds, sent, queue, processed, link, request, disturbed>>

DeletedCommit(h) ==
    /\ handler[h].pc = "delete"
    /\ ~Locked(Sub(h))
    /\ row' = [row EXCEPT ![Sub(h)] = "canceled"]
    /\ workspace' = IF handler[h].linked THEN "frozen" ELSE workspace
    /\ handler' = [handler EXCEPT ![h] = [pc |-> "mark", event |-> @.event]]
    /\ UNCHANGED <<stripe, bounds, sent, queue, processed, link, request, disturbed>>

\* _mark_event_as_processed, and the acknowledgement.
Mark(h) ==
    /\ handler[h].pc = "mark"
    /\ processed' = processed \cup {handler[h].event}
    /\ handler' = [handler EXCEPT ![h] = Idle]
    /\ UNCHANGED <<stripe, bounds, sent, queue, tables, request, disturbed>>

\* Mutant: a failed event is acknowledged.
Fail_acked(h) ==
    /\ handler[h] # Idle
    /\ faults < MaxFaults
    /\ faults' = faults + 1
    /\ handler' = [handler EXCEPT ![h] = Idle]
    /\ UNCHANGED <<stripe, changes, duplicates, sent, queue, processed, tables, request, disturbed>>

\* The handler raises, or its process dies: its transaction is rolled back
\* unless it has committed, and the event comes back.
Fail(h) ==
    /\ handler[h] # Idle
    /\ faults < MaxFaults
    /\ faults' = faults + 1
    /\ queue' = queue \cup {handler[h].event}
    /\ handler' = [handler EXCEPT ![h] = Idle]
    /\ UNCHANGED <<stripe, changes, duplicates, sent, processed, tables, request, disturbed>>

-----------------------------------------------------------------------------
(* Owner requests                                                          *)

\* cancel_subscription(cancel_at_period_end=False).  (At the period's end it is
\* EndAtStripe, later; the flag it sets locally is not looked at by anything here.)
CancelRead(o) ==
    /\ request[o] = Idle
    /\ LinkedActive
    /\ request' = [request EXCEPT ![o] =
                     [pc |-> IF link = Free THEN "cancel" ELSE "stripe", sub |-> link]]
    /\ disturbed' = (disturbed \/ Busy)
    /\ UNCHANGED <<stripe, bounds, sent, queue, processed, tables, handler>>

\* Stripe.cancel_subscription; it raises when the subscription has ended.
CancelStripe(o) ==
    /\ request[o].pc = "stripe"
    /\ LET s == request[o].sub IN
       \/ /\ stripe[s] # "canceled"
          /\ stripe' = [stripe EXCEPT ![s] = "canceled"]
          /\ Send({[kind |-> "deleted", sub |-> s, no |-> 0]})
          /\ request' = [request EXCEPT ![o].pc = "cancel"]
       \/ /\ stripe[s] = "canceled"
          /\ request' = [request EXCEPT ![o] = Idle]
          /\ UNCHANGED <<stripe, sent, queue>>
    /\ UNCHANGED <<bounds, processed, tables, handler, disturbed>>

CancelCommit(o) ==
    /\ request[o].pc = "cancel"
    /\ ~Locked(request[o].sub)
    /\ row' = [row EXCEPT ![request[o].sub] = "canceled"]
    /\ workspace' = "frozen"
    /\ request' = [request EXCEPT ![o] = Idle]
    /\ UNCHANGED <<stripe, bounds, sent, queue, processed, link, handler, disturbed>>

\* reactivate_workspace: needs an active subscription.
ReactivateRead(o) ==
    /\ request[o] = Idle
    /\ LinkedActive
    /\ request' = [request EXCEPT ![o] = [pc |-> "thaw"]]
    /\ disturbed' = (disturbed \/ Busy)
    /\ UNCHANGED <<stripe, bounds, sent, queue, processed, tables, handler>>

ReactivateCommit(o) ==
    /\ request[o].pc = "thaw"
    /\ workspace' = "active"
    /\ request' = [request EXCEPT ![o] = Idle]
    /\ UNCHANGED <<stripe, bounds, sent, queue, processed, row, link, handler, disturbed>>

RequestFails(o) ==
    /\ request[o] # Idle
    /\ request' = [request EXCEPT ![o] = Idle]
    /\ UNCHANGED <<stripe, bounds, sent, queue, processed, tables, handler, disturbed>>

-----------------------------------------------------------------------------
Step(h) ==
    \/ CheckoutRead(h) \/ CheckoutCommit(h)
    \/ UpdatedRead(h) \/ UpdatedFetch(h) \/ UpdatedUpdate(h) \/ UpdatedCommit(h)
    \/ DeletedRead(h) \/ DeletedCommit(h)
    \/ Mark(h)

Next ==
    \/ \E s \in Subs : CheckoutSession(s) \/ Subscribe(s) \/ ChangePayment(s) \/ EndAtStripe(s)
    \/ \E e \in sent : Duplicate(e)
    \/ \E h \in Handlers : Deliver(h) \/ Step(h) \/ Fail(h)
    \/ \E o \in Owners : CancelRead(o) \/ CancelStripe(o) \/ CancelCommit(o)
    \/ \E o \in Owners : ReactivateRead(o) \/ ReactivateCommit(o) \/ RequestFails(o)

Spec == Init /\ [][Next]_vars

\* The broker delivers what waits, and a handler run goes on.
FairSpec == Spec /\ \A h \in Handlers : WF_vars(Deliver(h)) /\ WF_vars(Step(h))

-----------------------------------------------------------------------------
(* Properties                                                              *)

\* No transaction is in progress and every event is dealt with.
Quiet == ~Busy /\ queue \subseteq processed

\* The workspace is linked to a subscription when its row is created and at no
\* other time: no late, repeated or concurrent checkout event brings a replaced
\* subscription back.
LinkedAtCreation ==
    [][link' # link => link' \in Subs /\ row[link'] = "absent"]_vars

\* Handled one at a time, none ahead of its checkout, the events leave the linked
\* subscription as it is at Stripe, whatever was repeated, retried or crashed,
\* although checkout stores ACTIVE unseen and an update stores what it fetched.
LinkedFollowsStripe ==
    Quiet /\ ~disturbed /\ link \in Subs => row[link] = stripe[link]

\* Under the same conditions the workspace is frozen exactly when its
\* subscription has ended; a past-due one has a grace period.
WorkspaceFollows ==
    Quiet /\ ~disturbed /\ link \in Subs =>
        (workspace = "frozen" <=> stripe[link] = "canceled")

\* Every event Stripe has sent is marked in the end: a failed run or a lost race
\* for the unique index only delays it.
EventsProcessed == []<>(sent \subseteq processed)

=============================================================================
