------------------------- MODULE CareerSubscription -------------------------
(***************************************************************************)
(* One user's Career subscription.  It differs from a workspace's          *)
(* (SubscriptionSync) in that a subscription that ends is not frozen: its  *)
(* row is turned into an active free one and forgets the subscription at   *)
(* Stripe, so a late event finds no row.  Event handlers and the user's    *)
(* requests are READ COMMITTED transactions with a call to Stripe in the   *)
(* middle; UPDATEs are by the id of the row that was read.                 *)
(*                                                                         *)
(* Usage is not modelled, so credits_used stays zero and its resets are    *)
(* left out, as are the fields that nothing reads (periods, amounts,       *)
(* cancel_at_period_end).  The free plan is in the database.               *)
(***************************************************************************)
EXTENDS Naturals, FiniteSets

CONSTANTS
    Subs,       \* Stripe subscriptions the user may buy
    Rows,       \* ids of rows of subscriptions
    FreeRow,    \* the row create_free_subscription has made
    None,       \* no row, no subscription
    Handlers,   \* event handlers that may run at a time
    Requests,   \* requests of the user that may run at a time
    MaxRank,    \* the paid plans, by rank: 1 .. MaxRank; 0 is the free plan
    MaxChanges, \* bound: changes of payment state, and upgrades
    MaxFaults   \* bound: handler runs that fail or crash

ASSUME ConstantsAssumption ==
    /\ FreeRow \in Rows /\ None \notin Rows /\ None \notin Subs
    /\ MaxRank \in Nat \ {0} /\ MaxChanges \in Nat /\ MaxFaults \in Nat

VARIABLES
    stripe,     \* the subscriptions at Stripe
    changes,    \* changes of payment state and of plan so far
    pending,    \* events sent by Stripe and not marked as processed
    rows,       \* subscriptions
    link,       \* subscription_id of the user's context row
    handler,    \* handler runs in progress
    request,    \* requests in progress
    faults,
    disturbed   \* history: two transactions overlapped, or an event was out of order

tables == <<rows, link>>
vars == <<stripe, changes, pending, tables, handler, request, faults, disturbed>>

-----------------------------------------------------------------------------
Plans == 0 .. MaxRank
Status == {"active", "past_due", "canceled"}

AtStripe == [status: Status \cup {"none", "session"}, bought: Plans, plan: Plans]

Row == [sub: Subs \cup {None}, status: Status, plan: Plans]

ASSUME NoneAssumption == None \notin Row

\* no tells apart the events of successive changes; "created" is an update.
Event == [kind: {"checkout", "updated", "deleted"}, sub: Subs, no: Nat]

Idle == [pc |-> "idle"]

Handling ==
    {Idle}
    \cup [pc: {"mark"}, event: Event]
    \cup [pc: {"create"}, event: Event, current: Rows \cup {None}]
    \cup [pc: {"fetch"}, event: Event, id: Rows, plan: Plans]
    \cup [pc: {"update"}, event: Event, id: Rows, plan: Plans, fetched: AtStripe]
    \cup [pc: {"delete"}, event: Event, id: Rows]

Request ==
    {Idle}
    \cup [pc: {"cancel"}, id: Rows, sub: Subs \cup {None}]
    \cup [pc: {"downgrade"}, id: Rows, sub: Subs \cup {None}]
    \cup [pc: {"upgrade", "write"}, id: Rows, sub: Subs, plan: Plans]

TypeOK ==
    /\ stripe \in [Subs -> AtStripe]
    /\ changes \in Nat /\ faults \in Nat
    /\ pending \subseteq Event
    /\ rows \in [Rows -> Row \cup {None}]
    /\ link \in Rows \cup {None}
    /\ handler \in [Handlers -> Handling]
    /\ request \in [Requests -> Request]
    /\ disturbed \in BOOLEAN

\* A user has the free subscription, or none if the hooks of the sign-up failed.
Init ==
    /\ stripe = [s \in Subs |-> [status |-> "none", bought |-> 0, plan |-> 0]]
    /\ changes = 0 /\ pending = {} /\ faults = 0
    /\ link \in {FreeRow, None}
    /\ rows = [r \in Rows |-> IF r = link
                              THEN [sub |-> None, status |-> "active", plan |-> 0]
                              ELSE None]
    /\ handler = [h \in Handlers |-> Idle]
    /\ request = [q \in Requests |-> Idle]
    /\ disturbed = FALSE

-----------------------------------------------------------------------------
Busy ==
    (\E h \in Handlers : handler[h] # Idle) \/ (\E q \in Requests : request[q] # Idle)

Sub(h) == handler[h].event.sub

Alive(s) == stripe[s].status \in {"active", "past_due"}

\* get_by_stripe_subscription_id: at most one row, by the unique index.
RowsOf(s) == {r \in Rows : rows[r] # None /\ rows[r].sub = s}

\* get_by_user, active ones only.
LinkedActive == link # None /\ rows[link].status = "active"

Checkout(s) == [kind |-> "checkout", sub |-> s, no |-> 0]

Updated(s, no) == [kind |-> "updated", sub |-> s, no |-> no]

Deleted(s) == [kind |-> "deleted", sub |-> s, no |-> 0]

-----------------------------------------------------------------------------
(* Stripe and its customer                                                 *)

\* create_checkout_session: refused while a paid plan is active.
CheckoutSession(s, plan) ==
    /\ stripe[s].status = "none"
    /\ ~(LinkedActive /\ rows[link].plan # 0)
    /\ plan # 0
    /\ stripe' = [stripe EXCEPT ![s] = [status |-> "session", bought |-> plan, plan |-> plan]]
    /\ UNCHANGED <<changes, pending, tables, handler, request, faults, disturbed>>

\* The customer pays.
Subscribe(s) ==
    /\ stripe[s].status = "session"
    /\ stripe' = [stripe EXCEPT ![s].status = "active"]
    /\ pending' = pending \cup {Checkout(s), Updated(s, 0)}
    /\ UNCHANGED <<changes, tables, handler, request, faults, disturbed>>

\* A payment fails, or succeeds after it had failed.
ChangePayment(s) ==
    /\ Alive(s)
    /\ changes < MaxChanges
    /\ changes' = changes + 1
    /\ stripe' = [stripe EXCEPT ![s].status = IF @ = "active" THEN "past_due" ELSE "active"]
    /\ pending' = pending \cup {Updated(s, changes')}
    /\ UNCHANGED <<tables, handler, request, faults, disturbed>>

\* Dunning, or the end of a period after which the user has canceled.
EndAtStripe(s) ==
    /\ Alive(s)
    /\ stripe' = [stripe EXCEPT ![s].status = "canceled"]
    /\ pending' = pending \cup {Deleted(s)}
    /\ UNCHANGED <<changes, tables, handler, request, faults, disturbed>>

-----------------------------------------------------------------------------
(* Event handlers                                                          *)

Step(h, next) ==
    /\ handler' = [handler EXCEPT ![h] = next]
    /\ UNCHANGED <<stripe, changes, pending, request, faults>>

\* A handler has been given the event, which is not marked yet (another handler may
\* have it, too), and has read the rows.
Start(h, next) ==
    /\ handler[h] = Idle
    /\ Step(h, next)
    /\ disturbed' = (disturbed \/ Busy)
    /\ UNCHANGED tables

ToMark(h) == [pc |-> "mark", event |-> handler[h].event]

\* handle_checkout_completed: nothing to do if the subscription has a row; what it
\* has fetched from Stripe does not include the status.
CheckoutRead(h, e) ==
    /\ e.kind = "checkout"
    /\ Start(h, IF RowsOf(e.sub) # {} THEN [pc |-> "mark", event |-> e]
                ELSE [pc |-> "create", event |-> e, current |-> link])

\* The present row is canceled, a new one created and linked.  A row or a context
\* that another transaction has inserted meanwhile fails this one.
CheckoutCommit(h) ==
    /\ handler[h].pc = "create"
    /\ RowsOf(Sub(h)) = {}
    /\ handler[h].current = None => link = None
    /\ \E new \in Rows :
         /\ rows[new] = None
         /\ rows' = [r \in Rows |->
                       IF r = new THEN [sub |-> Sub(h), status |-> "active",
                                        plan |-> stripe[Sub(h)].bought]
                       ELSE IF r = handler[h].current THEN [rows[r] EXCEPT !.status = "canceled"]
                       ELSE rows[r]]
         /\ link' = new
    /\ Step(h, ToMark(h))
    /\ UNCHANGED disturbed

\* An event of a subscription without a row is skipped.
Skip(h, e) ==
    /\ e.kind # "checkout"
    /\ RowsOf(e.sub) = {}
    /\ handler[h] = Idle
    /\ Step(h, [pc |-> "mark", event |-> e])
    /\ disturbed' = (disturbed \/ Busy \/ Checkout(e.sub) \in pending)
    /\ UNCHANGED tables

UpdatedRead(h, e) ==
    /\ e.kind = "updated"
    /\ \E r \in RowsOf(e.sub) :
         Start(h, [pc |-> "fetch", event |-> e, id |-> r, plan |-> rows[r].plan])

\* Stripe.get_subscription: the state now, not the event's.
UpdatedFetch(h) ==
    /\ handler[h].pc = "fetch"
    /\ Step(h, [pc |-> "update", event |-> handler[h].event, id |-> handler[h].id,
                plan |-> handler[h].plan, fetched |-> stripe[Sub(h)]])
    /\ UNCHANGED <<tables, disturbed>>

\* Mutant: the plan is not looked up by its price.
UpdatedCommit_statusOnly(h) ==
    /\ handler[h].pc = "update"
    /\ rows' = [rows EXCEPT ![handler[h].id].status = handler[h].fetched.status]
    /\ Step(h, ToMark(h))
    /\ UNCHANGED <<link, disturbed>>

\* The plan is written when the price fetched is not that of the plan read.
UpdatedCommit(h) ==
    /\ handler[h].pc = "update"
    /\ LET id == handler[h].id
           fetched == handler[h].fetched
       IN  rows' = [rows EXCEPT
                      ![id].status = fetched.status,
                      ![id].plan = IF fetched.plan # handler[h].plan THEN fetched.plan ELSE @]
    /\ Step(h, ToMark(h))
    /\ UNCHANGED <<link, disturbed>>

DeletedRead(h, e) ==
    /\ e.kind = "deleted"
    /\ \E r \in RowsOf(e.sub) : Start(h, [pc |-> "delete", event |-> e, id |-> r])

\* Mutant: the link to Stripe is kept and the plan set to NULL.
Downgraded_noPlan(r) == [rows EXCEPT ![r] = [@ EXCEPT !.status = "active", !.plan = None]]

\* What both the deletion and the user's cancellation make of the row.
Downgraded(r) == [rows EXCEPT ![r] = [sub |-> None, status |-> "active", plan |-> 0]]

\* Whatever the row is by now.  A checkout of the same subscription that is still to
\* be marked, and is run again, will not find it.
DeletedCommit(h) ==
    /\ handler[h].pc = "delete"
    /\ rows' = Downgraded(handler[h].id)
    /\ Step(h, ToMark(h))
    /\ disturbed' = (disturbed \/ Checkout(Sub(h)) \in pending)
    /\ UNCHANGED link

\* _mark_event_as_processed.
Mark(h) ==
    /\ handler[h].pc = "mark"
    /\ pending' = pending \ {handler[h].event}
    /\ handler' = [handler EXCEPT ![h] = Idle]
    /\ UNCHANGED <<stripe, changes, tables, request, faults, disturbed>>

\* The handler raises or its process dies, before or after its commit; the event is
\* delivered again.
Fail(h) ==
    /\ handler[h] # Idle
    /\ faults < MaxFaults
    /\ faults' = faults + 1
    /\ handler' = [handler EXCEPT ![h] = Idle]
    /\ UNCHANGED <<stripe, changes, pending, tables, request, disturbed>>

-----------------------------------------------------------------------------
(* The user's requests                                                     *)

Begin(q, next) ==
    /\ request[q] = Idle
    /\ request' = [request EXCEPT ![q] = next]
    /\ disturbed' = (disturbed \/ Busy)
    /\ UNCHANGED <<stripe, changes, pending, tables, handler, faults>>

\* Mutant: Stripe is not told.
CancelRead_localOnly(q) ==
    /\ LinkedActive
    /\ Begin(q, [pc |-> "downgrade", id |-> link, sub |-> rows[link].sub])

\* cancel_subscription(cancel_at_period_end=False).  (At the period's end it is
\* EndAtStripe, later.)
CancelRead(q) ==
    /\ LinkedActive
    /\ Begin(q, [pc |-> IF rows[link].sub = None THEN "downgrade" ELSE "cancel",
                 id |-> link, sub |-> rows[link].sub])

\* Stripe.cancel_subscription; it raises when the subscription has ended.
CancelStripe(q) ==
    /\ request[q].pc = "cancel"
    /\ Alive(request[q].sub)
    /\ stripe' = [stripe EXCEPT ![request[q].sub].status = "canceled"]
    /\ pending' = pending \cup {Deleted(request[q].sub)}
    /\ request' = [request EXCEPT ![q].pc = "downgrade"]
    /\ UNCHANGED <<changes, tables, handler, faults, disturbed>>

CancelCommit(q) ==
    /\ request[q].pc = "downgrade"
    /\ rows' = Downgraded(request[q].id)
    /\ request' = [request EXCEPT ![q] = Idle]
    /\ disturbed' = (disturbed \/ (request[q].sub # None /\ Checkout(request[q].sub) \in pending))
    /\ UNCHANGED <<stripe, changes, pending, link, handler, faults>>

\* upgrade_plan: a paid plan can only be left for one of a higher rank (and, a bound
\* of the model, not once more after MaxChanges).
UpgradeRead(q, plan) ==
    /\ LinkedActive
    /\ rows[link].sub # None
    /\ plan > rows[link].plan
    /\ changes < MaxChanges
    /\ Begin(q, [pc |-> "upgrade", id |-> link, sub |-> rows[link].sub, plan |-> plan])

\* Stripe.update_subscription.
UpgradeStripe(q) ==
    /\ request[q].pc = "upgrade"
    /\ Alive(request[q].sub)
    /\ stripe' = [stripe EXCEPT ![request[q].sub].plan = request[q].plan]
    /\ changes' = changes + 1
    /\ pending' = pending \cup {Updated(request[q].sub, changes')}
    /\ request' = [request EXCEPT ![q].pc = "write"]
    /\ UNCHANGED <<tables, handler, faults, disturbed>>

UpgradeCommit(q) ==
    /\ request[q].pc = "write"
    /\ rows' = [rows EXCEPT ![request[q].id].plan = request[q].plan]
    /\ request' = [request EXCEPT ![q] = Idle]
    /\ UNCHANGED <<stripe, changes, pending, link, handler, faults, disturbed>>

\* An error, a refusal by Stripe or a crash.
RequestFails(q) ==
    /\ request[q] # Idle
    /\ request' = [request EXCEPT ![q] = Idle]
    /\ UNCHANGED <<stripe, changes, pending, tables, handler, faults, disturbed>>

-----------------------------------------------------------------------------
Handle(h) ==
    \/ \E e \in pending :
         CheckoutRead(h, e) \/ UpdatedRead(h, e) \/ DeletedRead(h, e) \/ Skip(h, e)
    \/ CheckoutCommit(h) \/ UpdatedFetch(h) \/ UpdatedCommit(h) \/ DeletedCommit(h)
    \/ Mark(h) \/ Fail(h)

Serve(q) ==
    \/ CancelRead(q) \/ CancelStripe(q) \/ CancelCommit(q)
    \/ \E plan \in Plans : UpgradeRead(q, plan)
    \/ UpgradeStripe(q) \/ UpgradeCommit(q)
    \/ RequestFails(q)

Next ==
    \/ \E s \in Subs, plan \in Plans : CheckoutSession(s, plan)
    \/ \E s \in Subs : Subscribe(s) \/ ChangePayment(s) \/ EndAtStripe(s)
    \/ \E h \in Handlers : Handle(h)
    \/ \E q \in Requests : Serve(q)

Spec == Init /\ [][Next]_vars

-----------------------------------------------------------------------------
(* Properties                                                              *)

Quiet == ~Busy /\ pending = {}

\* Handled one at a time and each after its checkout, the events and the user's
\* requests leave the user on the plan paid for at Stripe with Stripe's status, and on
\* an active free plan once that subscription has ended: a failure between Stripe and
\* the database, or between the commit and the mark, is made good by the next event.
PlanFollowsStripe ==
    Quiet /\ ~disturbed /\ link # None =>
        LET row == rows[link]
        IN  IF row.sub = None
            THEN row.status = "active" /\ row.plan = 0
            ELSE /\ Alive(row.sub)
                 /\ row.status = stripe[row.sub].status /\ row.plan = stripe[row.sub].plan

\* However events and requests overlap, repeat and fail, a user leaves a paid plan for
\* the free one only when the subscription that paid for it has ended at Stripe.
NoEarlyDowngrade ==
    [][link # None /\ rows[link].plan # 0 /\ rows'[link'].plan = 0 =>
         \A s \in Subs : rows[link].sub = s => stripe[s].status = "canceled"]_tables
=============================================================================
