----------------------- MODULE SubscriptionSyncProofs -----------------------
(* Theorems about SubscriptionSync, for every value of its constants.      *)
EXTENDS SubscriptionSync, TLAPS

LEMMA EventShape ==
    ASSUME NEW e \in Event
    PROVE  /\ e.sub \in Subs /\ e.no \in 0 .. MaxChanges
           /\ e.kind \in {"checkout", "created", "updated", "deleted"}
BY DEF Event

\* The record a handler run is at each point.
LEMMA HandlingShape ==
    ASSUME NEW r \in Handling
    PROVE  /\ r.pc \in {"idle", "read", "mark", "create", "fetch", "delete", "update", "commit"}
           /\ r.pc = "idle" <=> r = Idle
           /\ r # Idle => r.event \in Event
           /\ r.pc = "create" => r.current \in Stored \cup {None}
           /\ r.pc \in {"fetch", "delete", "update", "commit"} => r.linked \in BOOLEAN
           /\ r.pc \in {"update", "commit"} => r.status \in Status
           /\ r.pc = "commit" => r.thaw \in BOOLEAN
<1>1. CASE r = Idle
  BY <1>1 DEF Idle
<1>2. CASE r \in [pc: {"read", "mark"}, event: Event]
  BY <1>2 DEF Idle
<1>3. CASE r \in [pc: {"create"}, event: Event, current: Stored \cup {None}]
  BY <1>3 DEF Idle
<1>4. CASE r \in [pc: {"fetch", "delete"}, event: Event, linked: BOOLEAN]
  BY <1>4 DEF Idle
<1>5. CASE r \in [pc: {"update"}, event: Event, linked: BOOLEAN, status: Status]
  BY <1>5 DEF Idle
<1>6. CASE r \in [pc: {"commit"}, event: Event, linked: BOOLEAN, status: Status, thaw: BOOLEAN]
  BY <1>6 DEF Idle
<1> QED BY <1>1, <1>2, <1>3, <1>4, <1>5, <1>6 DEF Handling

LEMMA RequestShape ==
    ASSUME NEW r \in Request
    PROVE  /\ r.pc \in {"idle", "stripe", "cancel", "thaw"}
           /\ r.pc = "idle" <=> r = Idle
           /\ r.pc \in {"stripe", "cancel"} => r.sub \in Stored
BY DEF Request, Idle

-----------------------------------------------------------------------------
(* The strengthened invariant                                              *)

\* What has been sent, stored or linked is of a subscription that was paid once.
Known ==
    /\ \A e \in sent : /\ stripe[e.sub] \in Status /\ e.no <= changes
                       /\ e.kind = "deleted" => stripe[e.sub] = "canceled"
    /\ \A s \in Subs : row[s] # "absent" => stripe[s] \in Status
    /\ link # None => row[link] # "absent"

\* What a handler run knows of the events S, the rows R and Stripe's states P.
Follows(r, S, R, P) ==
    /\ r.event \in S
    /\ r.pc \in {"fetch", "update", "commit"} =>
         R[r.event.sub] # "absent" /\ r.event.kind \in {"created", "updated"}
    /\ r.pc = "delete" => R[r.event.sub] # "absent" /\ r.event.kind = "deleted"
    /\ r.pc = "create" => /\ r.event.kind = "checkout"
                          /\ r.current # None => R[r.current] # "absent"
    /\ r.pc \in {"update", "commit"} /\ r.status = "canceled" => P[r.event.sub] = "canceled"
    /\ r.pc = "commit" /\ r.thaw => r.linked

Following ==
    \A h \in Handlers : handler[h] # Idle => Follows(handler[h], sent, row, stripe)

\* So does what an owner's request knows.
Asks(r, R, P) ==
    /\ r.pc \in {"stripe", "cancel"} => R[r.sub] # "absent"
    /\ r.pc = "stripe" => r.sub \in Subs
    /\ r.pc = "cancel" /\ r.sub \in Subs => P[r.sub] = "canceled"

Asking == \A o \in Owners : Asks(request[o], row, stripe)

Inv == TypeOK /\ Known /\ Following /\ Asking

-----------------------------------------------------------------------------
(* Every step, by the part of the state it writes                          *)

\* Stripe: what it may become, and that what it sends is news.
LEMMA StripeStep ==
    ASSUME Inv, [Next]_vars
    PROVE  /\ stripe' \in [Subs -> Status \cup {"none", "session"}] /\ changes' \in Nat
           /\ changes <= changes' /\ sent' \subseteq Event /\ sent \subseteq sent'
           /\ \A s \in Subs : /\ stripe[s] \in Status => stripe'[s] \in Status
                              /\ stripe[s] = "canceled" => stripe'[s] = "canceled"
           /\ \A e \in sent' \ sent :
                /\ stripe'[e.sub] \in Status /\ e.no <= changes'
                /\ e.kind = "deleted" => stripe'[e.sub] = "canceled"
<1> DEFINE Good == /\ stripe' \in [Subs -> Status \cup {"none", "session"}] /\ changes' \in Nat
                   /\ changes <= changes' /\ sent' \subseteq Event /\ sent \subseteq sent'
                   /\ \A s \in Subs : /\ stripe[s] \in Status => stripe'[s] \in Status
                                      /\ stripe[s] = "canceled" => stripe'[s] = "canceled"
                   /\ \A e \in sent' \ sent :
                        /\ stripe'[e.sub] \in Status /\ e.no <= changes'
                        /\ e.kind = "deleted" => stripe'[e.sub] = "canceled"
<1>1. /\ stripe \in [Subs -> Status \cup {"none", "session"}] /\ changes \in Nat
      /\ sent \subseteq Event /\ MaxChanges \in Nat
  BY ConstantsAssumption DEF Inv, TypeOK
\* A new state of one subscription, with the events that tell of it.
<1>2. ASSUME NEW s \in Subs, NEW v \in Status \cup {"none", "session"},
             stripe' = [stripe EXCEPT ![s] = v],
             stripe[s] \in Status => v \in Status,
             stripe[s] = "canceled" => v = "canceled",
             sent \subseteq sent', changes' \in Nat, changes <= changes',
             \A e \in sent' \ sent : /\ e \in Event /\ e.sub = s /\ v \in Status
                                     /\ e.no <= changes'
                                     /\ e.kind = "deleted" => v = "canceled"
      PROVE  Good
  <2>1. stripe' \in [Subs -> Status \cup {"none", "session"}]
    BY <1>1, <1>2
  <2>2. stripe'[s] = v /\ \A t \in Subs : t # s => stripe'[t] = stripe[t]
    BY <1>1, <1>2
  <2>3. \A t \in Subs : /\ stripe[t] \in Status => stripe'[t] \in Status
                        /\ stripe[t] = "canceled" => stripe'[t] = "canceled"
    BY <1>2, <2>2
  <2>4. \A e \in sent' \ sent : /\ stripe'[e.sub] \in Status /\ e.no <= changes'
                                /\ e.kind = "deleted" => stripe'[e.sub] = "canceled"
    BY <1>2, <2>2
  <2> QED BY <1>1, <1>2, <2>1, <2>3, <2>4
<1>3. ASSUME NEW s \in Subs, CheckoutSession(s) PROVE Good
  <2> DEFINE v == "session"
  <2>1. /\ stripe' = [stripe EXCEPT ![s] = v] /\ stripe[s] = "none"
        /\ changes' = changes /\ sent' = sent
    BY <1>3 DEF CheckoutSession, bounds
  <2>2. stripe[s] \notin Status /\ stripe[s] # "canceled" /\ v \in Status \cup {"none", "session"}
    BY <2>1 DEF Status
  <2>3. sent \subseteq sent' /\ changes' \in Nat /\ changes <= changes' /\ sent' \ sent = {}
    BY <1>1, <2>1
  <2> HIDE DEF Good, v
  <2> QED BY <1>2, <2>1, <2>2, <2>3
<1>4. ASSUME NEW s \in Subs, Subscribe(s) PROVE Good
  <2> DEFINE E == {[kind |-> k, sub |-> s, no |-> 0] : k \in {"created", "checkout"}}
  <2> DEFINE v == "active"
  <2>1. /\ stripe' = [stripe EXCEPT ![s] = v] /\ stripe[s] = "session"
        /\ changes' = changes /\ sent' = sent \cup E
    BY <1>4 DEF Subscribe, bounds, Send
  <2>2. E \in SUBSET Event
    BY <1>1 DEF Event
  <2>3. \A e \in E : e.sub = s /\ e.no <= changes' /\ e.kind # "deleted"
    BY <1>1, <2>1
  <2>4. v \in Status /\ stripe[s] # "canceled"
    BY <2>1 DEF Status
  <2> HIDE DEF E, v
  <2>5. \A e \in sent' \ sent : /\ e \in Event /\ e.sub = s /\ e.no <= changes'
                                /\ e.kind # "deleted"
    BY <2>1, <2>2, <2>3
  <2>6. sent \subseteq sent' /\ changes' \in Nat /\ changes <= changes'
    BY <1>1, <2>1
  <2> HIDE DEF Good
  <2> QED BY <1>2, <2>1, <2>4, <2>5, <2>6
<1>5. ASSUME NEW s \in Subs, ChangePayment(s) PROVE Good
  <2> DEFINE v == IF stripe[s] = "active" THEN "past_due" ELSE "active"
             e == [kind |-> "updated", sub |-> s, no |-> changes + 1]
  <2>1. /\ stripe' = [stripe EXCEPT ![s] = v] /\ stripe[s] # "canceled"
        /\ changes' = changes + 1 /\ changes < MaxChanges /\ sent' = sent \cup {e}
    BY <1>5 DEF ChangePayment, Send
  <2>2. v \in Status
    BY DEF Status
  <2>3. e \in Event /\ e.sub = s /\ e.no = changes + 1 /\ e.kind = "updated"
    BY <1>1, <2>1 DEF Event
  <2> HIDE DEF e, v
  <2>4. changes' \in Nat /\ changes <= changes'
    BY <1>1, <2>1
  <2>5. \A d \in sent' \ sent : /\ d \in Event /\ d.sub = s /\ d.no <= changes'
                                /\ d.kind # "deleted"
    BY <2>1, <2>3, <2>4
  <2> HIDE DEF Good
  <2> QED BY <1>1, <1>2, <2>1, <2>2, <2>4, <2>5
<1>6. ASSUME NEW s \in Subs, sent' = sent \cup {[kind |-> "deleted", sub |-> s, no |-> 0]},
             stripe' = [stripe EXCEPT ![s] = "canceled"], changes' = changes
      PROVE  Good
  <2> DEFINE e == [kind |-> "deleted", sub |-> s, no |-> 0]
  <2>1. e \in Event /\ e.sub = s /\ e.no <= changes /\ sent' = sent \cup {e}
    BY <1>1, <1>6 DEF Event
  <2>2. "canceled" \in Status
    BY DEF Status
  <2> HIDE DEF e
  <2>3. \A d \in sent' \ sent : d \in Event /\ d.sub = s /\ d.no <= changes'
    BY <1>6, <2>1
  <2>4. sent \subseteq sent' /\ changes' \in Nat /\ changes <= changes'
    BY <1>1, <1>6
  <2> HIDE DEF Good
  <2> QED BY <1>2, <1>6, <2>2, <2>3, <2>4
<1>7. ASSUME NEW s \in Subs, EndAtStripe(s) PROVE Good
  <2>1. /\ sent' = sent \cup {[kind |-> "deleted", sub |-> s, no |-> 0]}
        /\ stripe' = [stripe EXCEPT ![s] = "canceled"] /\ changes' = changes
    BY <1>7 DEF EndAtStripe, Send, bounds
  <2> HIDE DEF Good
  <2> QED BY <1>6, <2>1
<1>8. CASE UNCHANGED <<stripe, changes, sent>>
  BY <1>1, <1>8
<1>9. ASSUME NEW o \in Owners, CancelStripe(o) PROVE Good
  <2> DEFINE s == request[o].sub
  <2>1. s \in Subs
    BY <1>9 DEF CancelStripe, Inv, Asking, Asks
  <2>2. \/ UNCHANGED <<stripe, changes, sent>>
        \/ /\ sent' = sent \cup {[kind |-> "deleted", sub |-> s, no |-> 0]}
           /\ stripe' = [stripe EXCEPT ![s] = "canceled"] /\ changes' = changes
    BY <1>9 DEF CancelStripe, Send, bounds
  <2>3. CASE UNCHANGED <<stripe, changes, sent>>
    BY <1>8, <2>3
  <2>4. CASE /\ sent' = sent \cup {[kind |-> "deleted", sub |-> s, no |-> 0]}
             /\ stripe' = [stripe EXCEPT ![s] = "canceled"] /\ changes' = changes
    <3> HIDE DEF Good, s
    <3> QED BY <1>6, <2>1, <2>4
  <2> QED BY <2>2, <2>3, <2>4
<1>10. \/ \E s \in Subs : CheckoutSession(s) \/ Subscribe(s) \/ ChangePayment(s) \/ EndAtStripe(s)
       \/ \E o \in Owners : CancelStripe(o)
       \/ UNCHANGED <<stripe, changes, sent>>
  BY DEF Next, vars, bounds, Step, Duplicate, Deliver, CheckoutRead, CheckoutCommit, UpdatedRead,
        UpdatedFetch, UpdatedUpdate, UpdatedCommit, DeletedRead, DeletedCommit, Mark, Fail,
         CancelRead, CancelCommit, ReactivateRead, ReactivateCommit, RequestFails
<1>11. CASE \E s \in Subs : CheckoutSession(s) \/ Subscribe(s) \/ ChangePayment(s) \/ EndAtStripe(s)
  <2>1. PICK s \in Subs : CheckoutSession(s) \/ Subscribe(s) \/ ChangePayment(s) \/ EndAtStripe(s)
    BY <1>11
  <2>2. CASE CheckoutSession(s)
    BY <1>3, <2>2
  <2>3. CASE Subscribe(s)
    BY <1>4, <2>3
  <2>4. CASE ChangePayment(s)
    BY <1>5, <2>4
  <2>5. CASE EndAtStripe(s)
    BY <1>7, <2>5
  <2> QED BY <2>1, <2>2, <2>3, <2>4, <2>5
<1>12. CASE \E o \in Owners : CancelStripe(o)
  BY <1>9, <1>12
<1> QED BY <1>8, <1>10, <1>11, <1>12

\* The database: a subscription row that is there stays.
LEMMA RowStep ==
    ASSUME Inv, [Next]_vars
    PROVE  /\ row' \in [Stored -> Status \cup {"absent"}]
           /\ link' \in Stored \cup {None} /\ workspace' \in {"active", "frozen"}
           /\ \A s \in Stored : row[s] # "absent" => row'[s] # "absent"
           /\ \A s \in Subs : row'[s] # "absent" => stripe[s] \in Status
           /\ link' # None => row'[link'] # "absent"
<1> DEFINE Good == /\ row' \in [Stored -> Status \cup {"absent"}]
                   /\ link' \in Stored \cup {None} /\ workspace' \in {"active", "frozen"}
                   /\ \A s \in Stored : row[s] # "absent" => row'[s] # "absent"
                   /\ \A s \in Subs : row'[s] # "absent" => stripe[s] \in Status
                   /\ link' # None => row'[link'] # "absent"
<1>1. /\ row \in [Stored -> Status \cup {"absent"}] /\ link \in Stored \cup {None}
      /\ workspace \in {"active", "frozen"} /\ "absent" \notin Status
      /\ Subs \subseteq Stored /\ \A s \in Subs : row[s] # "absent" => stripe[s] \in Status
      /\ link # None => row[link] # "absent"
  BY DEF Inv, TypeOK, Known, Stored, Status
\* The status of a row that is there.
<1>2. ASSUME NEW s \in Stored, NEW v \in Status, row[s] # "absent",
             row' = [row EXCEPT ![s] = v], link' = link, workspace' \in {"active", "frozen"}
      PROVE  Good
  BY <1>1, <1>2
<1>3. ASSUME NEW h \in Handlers, handler[h] # Idle
      PROVE  handler[h] \in Handling /\ handler[h].event.sub \in Subs /\ Follows(handler[h], sent, row, stripe)
             /\ stripe[handler[h].event.sub] \in Status
  <2>1. handler[h] \in Handling /\ Follows(handler[h], sent, row, stripe)
    BY <1>3 DEF Inv, TypeOK, Following
  <2> QED BY <1>3, <2>1, HandlingShape, EventShape DEF Inv, Known, Follows
<1>4. ASSUME NEW h \in Handlers, CheckoutCommit(h) PROVE Good
  <2>1. CASE UNCHANGED tables
    BY <1>1, <2>1 DEF tables
  <2>2. CASE Activate(Sub(h), handler[h].current)
    <3>1. handler[h] # Idle
      BY <1>4 DEF CheckoutCommit, Idle
    <3> DEFINE s == Sub(h)
    <3>2. s \in Subs /\ stripe[s] \in Status
      BY <1>3, <3>1 DEF Sub
    <3>3. handler[h].current \in Stored \cup {None} /\ handler[h].pc = "create"
      BY <1>3, <1>4, <3>1, HandlingShape DEF CheckoutCommit
    <3>4. handler[h].event.kind = "checkout"
      BY <1>3, <3>1, <3>3 DEF Follows
    <3>5. "active" \in Status /\ "canceled" \in Status
      BY DEF Status
    <3> DEFINE c == handler[h].current
    <3>6. /\ row' = [i \in Stored |-> IF i = s THEN "active"
                                      ELSE IF i = c THEN "canceled" ELSE row[i]]
          /\ link' = s /\ workspace' = "active"
      BY <2>2 DEF Activate
    <3>7. c # None => c \in Stored /\ row[c] # "absent"
      BY <1>3, <3>1, <3>3 DEF Follows
    <3> HIDE DEF c, s
    <3>8. row' \in [Stored -> Status \cup {"absent"}]
      BY <1>1, <3>5, <3>6
    <3>9. \A i \in Stored : row'[i] = IF i = s THEN "active"
                                      ELSE IF i = c THEN "canceled" ELSE row[i]
      BY <3>6
    <3>10. None \notin Stored
      BY ConstantsAssumption DEF Stored
    <3>11. ASSUME NEW i \in Stored, row'[i] = "absent" PROVE row[i] = "absent" /\ i # s
      BY <3>9, <3>11
    <3>12. ASSUME NEW i \in Subs, row'[i] # "absent" PROVE stripe[i] \in Status
      BY <1>1, <3>2, <3>7, <3>9, <3>10, <3>12
    <3> QED BY <1>1, <3>2, <3>6, <3>8, <3>11, <3>12
  <2> QED BY <1>4, <2>1, <2>2 DEF CheckoutCommit, Sub, tables
<1>5. ASSUME NEW h \in Handlers, UpdatedCommit(h) \/ DeletedCommit(h) PROVE Good
  <2>1. handler[h] # Idle /\ handler[h].pc \in {"commit", "delete"}
    BY <1>5 DEF UpdatedCommit, DeletedCommit, Idle
  <2>2. Sub(h) \in Subs /\ row[Sub(h)] # "absent"
    BY <1>3, <2>1 DEF Follows, Sub
  <2>3. link' = link /\ workspace' \in {"active", "frozen"}
    BY <1>1, <1>5 DEF UpdatedCommit, DeletedCommit
  <2>4. \E v \in Status : row' = [row EXCEPT ![Sub(h)] = v]
    <3>1. CASE UpdatedCommit(h)
      <4>1. handler[h].status \in Status
        BY <1>3, <2>1, <3>1, HandlingShape DEF UpdatedCommit
      <4> QED BY <3>1, <4>1 DEF UpdatedCommit
    <3>2. CASE DeletedCommit(h)
      BY <3>2 DEF DeletedCommit, Status
    <3> QED BY <1>5, <3>1, <3>2
  <2> HIDE DEF Good
  <2> QED BY <1>1, <1>2, <2>2, <2>3, <2>4
<1>6. ASSUME NEW o \in Owners, CancelCommit(o) PROVE Good
  <2>1. request[o] \in Request /\ request[o].pc = "cancel"
    BY <1>6 DEF CancelCommit, Inv, TypeOK
  <2>2. request[o].sub \in Stored /\ row[request[o].sub] # "absent"
    BY <2>1, RequestShape DEF Inv, Asking, Asks
  <2>3. /\ row' = [row EXCEPT ![request[o].sub] = "canceled"] /\ link' = link
        /\ workspace' = "frozen" /\ "canceled" \in Status
    BY <1>6 DEF CancelCommit, Status
  <2> HIDE DEF Good
  <2> QED BY <1>2, <2>2, <2>3
<1>7. ASSUME NEW o \in Owners, ReactivateCommit(o) PROVE Good
  BY <1>1, <1>7 DEF ReactivateCommit
<1>8. CASE UNCHANGED tables
  BY <1>1, <1>8 DEF tables
<1>9. \/ \E h \in Handlers : CheckoutCommit(h) \/ UpdatedCommit(h) \/ DeletedCommit(h)
      \/ \E o \in Owners : CancelCommit(o) \/ ReactivateCommit(o)
      \/ UNCHANGED tables
  BY DEF Next, vars, tables, Step, CheckoutSession, Subscribe, ChangePayment, EndAtStripe, Duplicate,
        Deliver, CheckoutRead, UpdatedRead, UpdatedFetch, UpdatedUpdate, DeletedRead, Mark, Fail,
         CancelRead, CancelStripe, ReactivateRead, RequestFails
<1>10. CASE \E h \in Handlers : CheckoutCommit(h) \/ UpdatedCommit(h) \/ DeletedCommit(h)
  <2>1. PICK h \in Handlers : CheckoutCommit(h) \/ UpdatedCommit(h) \/ DeletedCommit(h)
    BY <1>10
  <2>2. CASE CheckoutCommit(h)
    BY <1>4, <2>2
  <2>3. CASE UpdatedCommit(h) \/ DeletedCommit(h)
    BY <1>5, <2>3
  <2> QED BY <2>1, <2>2, <2>3
<1>11. CASE \E o \in Owners : CancelCommit(o) \/ ReactivateCommit(o)
  <2>1. PICK o \in Owners : CancelCommit(o) \/ ReactivateCommit(o)
    BY <1>11
  <2>2. CASE CancelCommit(o)
    BY <1>6, <2>2
  <2>3. CASE ReactivateCommit(o)
    BY <1>7, <2>3
  <2> QED BY <2>1, <2>2, <2>3
<1> QED BY <1>8, <1>9, <1>10, <1>11

\* What was known remains so.
LEMMA KnownStep ==
    ASSUME Inv, [Next]_vars
    PROVE  Known'
<1>1. sent \subseteq Event /\ changes \in Nat /\ \A e \in Event : e.sub \in Subs /\ e.no \in Nat
  BY EventShape, ConstantsAssumption DEF Inv, TypeOK
<1>2. ASSUME NEW e \in sent'
      PROVE  /\ stripe'[e.sub] \in Status /\ e.no <= changes'
             /\ e.kind = "deleted" => stripe'[e.sub] = "canceled"
  <2>1. CASE e \in sent
    <3>1. /\ e.sub \in Subs /\ stripe[e.sub] \in Status /\ e.no <= changes /\ e.no \in Nat
          /\ e.kind = "deleted" => stripe[e.sub] = "canceled"
      BY <1>1, <2>1 DEF Inv, Known
    <3> QED BY <1>1, <3>1, StripeStep
  <2> QED BY <1>2, <2>1, StripeStep
<1>3. ASSUME NEW s \in Subs, row'[s] # "absent" PROVE stripe'[s] \in Status
  BY <1>3, RowStep, StripeStep
<1> QED BY <1>2, <1>3, RowStep DEF Known

\* A run that goes on knows what it knew.
LEMMA FollowsKept ==
    ASSUME Inv, [Next]_vars, NEW r \in Handling, r # Idle, Follows(r, sent, row, stripe)
    PROVE  Follows(r, sent', row', stripe')
<1>1. r.event.sub \in Subs /\ r.event.sub \in Stored /\ sent \subseteq sent'
  BY HandlingShape, EventShape, StripeStep DEF Stored
<1>2. r.pc = "create" /\ r.current # None => r.current \in Stored
  BY HandlingShape
<1> QED BY <1>1, <1>2, RowStep, StripeStep DEF Follows

LEMMA AsksKept ==
    ASSUME Inv, [Next]_vars, NEW r \in Request, Asks(r, row, stripe)
    PROVE  Asks(r, row', stripe')
BY RequestShape, RowStep, StripeStep DEF Asks

\* The handler runs: what each reads is what it then knows.
LEMMA HandlerStep ==
    ASSUME Inv, [Next]_vars
    PROVE  handler' \in [Handlers -> Handling] /\ Following'
<1> DEFINE Good == handler' \in [Handlers -> Handling] /\ Following'
<1>1. /\ handler \in [Handlers -> Handling] /\ Idle \in Handling /\ queue \subseteq sent
      /\ sent \subseteq Event /\ sent \subseteq sent' /\ sent' \subseteq Event
      /\ link \in Stored \cup {None}
  BY StripeStep DEF Inv, TypeOK, Handling
<1>2. ASSUME NEW h \in Handlers, handler[h] # Idle
      PROVE  /\ handler[h] \in Handling /\ handler[h].event \in Event
             /\ handler[h].event \in sent /\ handler[h].event.sub \in Subs
             /\ Follows(handler[h], sent, row, stripe)
             /\ Follows(handler[h], sent', row', stripe')
  <2>1. handler[h] \in Handling /\ Follows(handler[h], sent, row, stripe)
    BY <1>1, <1>2 DEF Inv, Following
  <2>2. Follows(handler[h], sent', row', stripe')
    BY <1>2, <2>1, FollowsKept
  <2>3. handler[h].event \in Event
    BY <1>2, <2>1, HandlingShape
  <2> QED BY <2>1, <2>2, <2>3, EventShape DEF Follows
\* One run moves on, the others keep what they know.
<1>3. ASSUME NEW h \in Handlers, NEW r \in Handling, handler' = [handler EXCEPT ![h] = r],
             r # Idle => Follows(r, sent', row', stripe')
      PROVE  Good
  <2>1. handler' \in [Handlers -> Handling]
    BY <1>1, <1>3
  <2>2. handler'[h] = r /\ \A g \in Handlers : g # h => handler'[g] = handler[g]
    BY <1>1, <1>3
  <2>3. ASSUME NEW g \in Handlers, handler'[g] # Idle
        PROVE  Follows(handler'[g], sent', row', stripe')
    <3>1. CASE g = h
      BY <1>3, <2>2, <2>3, <3>1
    <3>2. CASE g # h
      BY <1>2, <2>2, <2>3, <3>2
    <3> QED BY <3>1, <3>2
  <2> QED BY <2>1, <2>3 DEF Following
<1>4. ASSUME NEW h \in Handlers, handler' = [handler EXCEPT ![h] = Idle] PROVE Good
  <2> HIDE DEF Good
  <2> QED BY <1>1, <1>3, <1>4
<1>5. ASSUME NEW h \in Handlers, NEW e \in sent, NEW pc \in {"read", "mark"},
             handler' = [handler EXCEPT ![h] = [pc |-> pc, event |-> e]]
      PROVE  Good
  <2> DEFINE r == [pc |-> pc, event |-> e]
  <2>1. r \in Handling
    BY <1>1 DEF Handling
  <2>2. Follows(r, sent', row', stripe')
    BY <1>1 DEF Follows
  <2>3. handler' = [handler EXCEPT ![h] = r]
    BY <1>5
  <2> HIDE DEF Good, r
  <2> QED BY <1>3, <2>1, <2>2, <2>3
<1>6. CASE UNCHANGED handler
  <2>1. ASSUME NEW g \in Handlers, handler'[g] # Idle
        PROVE  Follows(handler'[g], sent', row', stripe')
    BY <1>2, <1>6, <2>1
  <2> QED BY <1>1, <1>6, <2>1 DEF Following
<1>7. ASSUME NEW h \in Handlers, Deliver(h) PROVE Good
  <2>1. PICK e \in queue : \/ UNCHANGED handler
                           \/ handler' = [handler EXCEPT ![h] = [pc |-> "read", event |-> e]]
    BY <1>7 DEF Deliver
  <2>2. e \in sent
    BY <1>1
  <2>3. CASE handler' = [handler EXCEPT ![h] = [pc |-> "read", event |-> e]]
    <3> HIDE DEF Good
    <3> QED BY <1>5, <2>2, <2>3
  <2> QED BY <1>6, <2>1, <2>3
<1>8. ASSUME NEW h \in Handlers, CheckoutRead(h) PROVE Good
  <2> DEFINE e == handler[h].event
             r == [pc |-> "create", event |-> e, current |-> link]
  <2>1. /\ handler[h].pc = "read" /\ e.kind = "checkout" /\ row' = row
        /\ \/ handler' = [handler EXCEPT ![h] = [pc |-> "mark", event |-> e]]
           \/ handler' = [handler EXCEPT ![h] = r]
    BY <1>8 DEF CheckoutRead, tables
  <2>2. handler[h] # Idle
    BY <2>1 DEF Idle
  <2>3. e \in Event /\ e \in sent /\ e \in sent'
    BY <1>1, <1>2, <2>2
  <2>4. r \in Handling
    BY <1>1, <2>3 DEF Handling
  <2>5. Follows(r, sent', row', stripe')
    BY <2>1, <2>3 DEF Follows, Inv, Known
  <2> HIDE DEF Good, e, r
  <2> QED BY <1>3, <1>5, <2>1, <2>3, <2>4, <2>5
<1>9. ASSUME NEW h \in Handlers, UpdatedRead(h) \/ DeletedRead(h) PROVE Good
  <2> DEFINE e == handler[h].event
             n == IF UpdatedRead(h) THEN "fetch" ELSE "delete"
             r == [pc |-> n, event |-> e, linked |-> link = e.sub]
  <2>1. /\ handler[h].pc = "read" /\ row' = row
        /\ \/ handler' = [handler EXCEPT ![h] = [pc |-> "mark", event |-> e]]
           \/ row[e.sub] # "absent" /\ handler' = [handler EXCEPT ![h] = r]
        /\ n = "fetch" => e.kind \in {"created", "updated"}
        /\ n = "delete" => e.kind = "deleted"
        /\ n \in {"fetch", "delete"}
    BY <1>9 DEF UpdatedRead, DeletedRead, tables
  <2>2. handler[h] # Idle
    BY <2>1 DEF Idle
  <2>3. e \in Event /\ e \in sent /\ e \in sent'
    BY <1>1, <1>2, <2>2
  <2> HIDE DEF n
  <2>4. r \in Handling
    BY <2>1, <2>3 DEF Handling
  <2>5. row[e.sub] # "absent" => Follows(r, sent', row', stripe')
    BY <2>1, <2>3 DEF Follows
  <2> HIDE DEF Good, e, r
  <2> QED BY <1>3, <1>5, <2>1, <2>3, <2>4, <2>5
<1>10. ASSUME NEW h \in Handlers, UpdatedFetch(h) PROVE Good
  <2> DEFINE e == handler[h].event
             v == stripe[e.sub]
             r == [pc |-> "update", event |-> e, linked |-> handler[h].linked, status |-> v]
  <2>1. /\ handler[h].pc = "fetch" /\ row' = row /\ stripe' = stripe
        /\ handler' = [handler EXCEPT ![h] = r]
    BY <1>10 DEF UpdatedFetch, StatusOf, tables
  <2>2. handler[h] # Idle
    BY <2>1 DEF Idle
  <2>3. /\ e \in Event /\ e \in sent' /\ e.sub \in Subs /\ row[e.sub] # "absent"
        /\ e.kind \in {"created", "updated"}
    BY <1>1, <1>2, <2>1, <2>2 DEF Follows
  <2>4. v \in Status /\ handler[h].linked \in BOOLEAN
    BY <1>2, <2>1, <2>2, <2>3, HandlingShape DEF Inv, Known
  <2>5. r \in Handling
    BY <2>3, <2>4 DEF Handling
  <2>6. Follows(r, sent', row', stripe')
    BY <2>1, <2>3 DEF Follows
  <2> HIDE DEF Good, e, r
  <2> QED BY <1>3, <2>1, <2>5, <2>6
<1>11. ASSUME NEW h \in Handlers, UpdatedUpdate(h) PROVE Good
  <2> DEFINE o == handler[h]
             thaw == o.linked /\ o.status = "active" /\ workspace = "frozen"
             r == [pc |-> "commit", event |-> o.event, linked |-> o.linked,
                   status |-> o.status, thaw |-> thaw]
  <2>1. o.pc = "update" /\ handler' = [handler EXCEPT ![h] = r]
    BY <1>11 DEF UpdatedUpdate
  <2>2. o # Idle
    BY <2>1 DEF Idle
  <2>3. o.event \in Event /\ o.linked \in BOOLEAN /\ o.status \in Status
    BY <1>2, <2>1, <2>2, HandlingShape
  <2>4. Follows(o, sent', row', stripe')
    BY <1>2, <2>2
  <2>5. thaw \in BOOLEAN /\ (thaw => o.linked)
    BY <2>3
  <2> HIDE DEF thaw
  <2>6. r \in Handling
    BY <2>3, <2>5 DEF Handling
  <2>7. Follows(r, sent', row', stripe')
    BY <2>1, <2>4, <2>5 DEF Follows
  <2> HIDE DEF Good, r
  <2> QED BY <1>3, <2>1, <2>6, <2>7
<1>12. ASSUME NEW h \in Handlers,
              CheckoutCommit(h) \/ UpdatedCommit(h) \/ DeletedCommit(h) \/ Mark(h) \/ Fail(h)
       PROVE  Good
  <2> DEFINE e == handler[h].event
  <2>1. /\ handler[h] # Idle
        /\ \/ handler' = [handler EXCEPT ![h] = [pc |-> "mark", event |-> e]]
           \/ handler' = [handler EXCEPT ![h] = Idle]
    BY <1>12 DEF CheckoutCommit, UpdatedCommit, DeletedCommit, Mark, Fail, Idle
  <2>2. e \in sent
    BY <1>2, <2>1
  <2> HIDE DEF Good, e
  <2> QED BY <1>4, <1>5, <2>1, <2>2
<1>13. \/ UNCHANGED handler
       \/ \E h \in Handlers : \/ Deliver(h) \/ CheckoutRead(h) \/ CheckoutCommit(h)
                              \/ UpdatedRead(h) \/ UpdatedFetch(h) \/ UpdatedUpdate(h)
                              \/ UpdatedCommit(h) \/ DeletedRead(h) \/ DeletedCommit(h)
                              \/ Mark(h) \/ Fail(h)
  BY DEF Next, vars, Step, CheckoutSession, Subscribe, ChangePayment, EndAtStripe, Duplicate,
         CancelRead, CancelStripe, CancelCommit, ReactivateRead, ReactivateCommit, RequestFails
<1>14. CASE \E h \in Handlers : \/ Deliver(h) \/ CheckoutRead(h) \/ CheckoutCommit(h)
                                \/ UpdatedRead(h) \/ UpdatedFetch(h) \/ UpdatedUpdate(h)
                                \/ UpdatedCommit(h) \/ DeletedRead(h) \/ DeletedCommit(h)
                                \/ Mark(h) \/ Fail(h)
  <2>1. PICK h \in Handlers : \/ Deliver(h) \/ CheckoutRead(h) \/ CheckoutCommit(h)
                              \/ UpdatedRead(h) \/ UpdatedFetch(h) \/ UpdatedUpdate(h)
                              \/ UpdatedCommit(h) \/ DeletedRead(h) \/ DeletedCommit(h)
                              \/ Mark(h) \/ Fail(h)
    BY <1>14
  <2>2. CASE Deliver(h)
    BY <1>7, <2>2
  <2>3. CASE CheckoutRead(h)
    BY <1>8, <2>3
  <2>4. CASE UpdatedRead(h) \/ DeletedRead(h)
    BY <1>9, <2>4
  <2>5. CASE UpdatedFetch(h)
    BY <1>10, <2>5
  <2>6. CASE UpdatedUpdate(h)
    BY <1>11, <2>6
  <2>7. CASE CheckoutCommit(h) \/ UpdatedCommit(h) \/ DeletedCommit(h) \/ Mark(h) \/ Fail(h)
    BY <1>12, <2>7
  <2> QED BY <2>1, <2>2, <2>3, <2>4, <2>5, <2>6, <2>7
<1> QED BY <1>6, <1>13, <1>14

\* The owner's requests.
LEMMA RequestStep ==
    ASSUME Inv, [Next]_vars
    PROVE  request' \in [Owners -> Request] /\ Asking'
<1> DEFINE Good == request' \in [Owners -> Request] /\ Asking'
<1>1. /\ request \in [Owners -> Request] /\ link \in Stored \cup {None}
      /\ \A o \in Owners : Asks(request[o], row', stripe')
  BY AsksKept DEF Inv, TypeOK, Asking
<1>2. ASSUME NEW o \in Owners, NEW r \in Request, request' = [request EXCEPT ![o] = r],
             Asks(r, row', stripe')
      PROVE  Good
  <2>1. request' \in [Owners -> Request]
    BY <1>1, <1>2
  <2>2. request'[o] = r /\ \A p \in Owners : p # o => request'[p] = request[p]
    BY <1>1, <1>2
  <2>3. ASSUME NEW p \in Owners PROVE Asks(request'[p], row', stripe')
    <3>1. CASE p = o
      BY <1>2, <2>2, <3>1
    <3>2. CASE p # o
      BY <1>1, <2>2, <3>2
    <3> QED BY <3>1, <3>2
  <2> QED BY <2>1, <2>3 DEF Asking
<1>3. CASE UNCHANGED request
  BY <1>1, <1>3 DEF Asking
<1>4. ASSUME NEW o \in Owners, request' = [request EXCEPT ![o] = Idle] PROVE Good
  <2>1. Idle \in Request /\ Asks(Idle, row', stripe')
    BY DEF Request, Idle, Asks
  <2> HIDE DEF Good
  <2> QED BY <1>2, <1>4, <2>1
<1>5. ASSUME NEW o \in Owners, ReactivateRead(o) PROVE Good
  <2> DEFINE r == [pc |-> "thaw"]
  <2>1. r \in Request /\ Asks(r, row', stripe')
    BY DEF Request, Asks
  <2>2. request' = [request EXCEPT ![o] = r]
    BY <1>5 DEF ReactivateRead
  <2> HIDE DEF Good, r
  <2> QED BY <1>2, <2>1, <2>2
<1>6. ASSUME NEW o \in Owners, CancelRead(o) PROVE Good
  <2> DEFINE n == IF link = Free THEN "cancel" ELSE "stripe"
             r == [pc |-> n, sub |-> link]
  <2>1. /\ link # None /\ row[link] = "active" /\ row' = row
        /\ request' = [request EXCEPT ![o] = r]
    BY <1>6 DEF CancelRead, LinkedActive, tables
  <2>2. /\ link \in Stored /\ n \in {"cancel", "stripe"}
        /\ n = "stripe" => link \in Subs
        /\ n = "cancel" => link \notin Subs
    BY <1>1, <2>1, ConstantsAssumption DEF Stored
  <2> HIDE DEF n
  <2>3. r \in Request
    BY <2>2 DEF Request
  <2>4. Asks(r, row', stripe')
    BY <2>1, <2>2 DEF Asks
  <2> HIDE DEF Good, r
  <2> QED BY <1>2, <2>1, <2>3, <2>4
<1>7. ASSUME NEW o \in Owners, CancelStripe(o) PROVE Good
  <2> DEFINE s == request[o].sub
             r == [pc |-> "cancel", sub |-> s]
  <2>1. request[o] \in Request /\ request[o].pc = "stripe"
    BY <1>1, <1>7 DEF CancelStripe
  <2>2. request[o] \in [pc: {"stripe", "cancel"}, sub: Stored] /\ s \in Stored
    BY <2>1 DEF Request, Idle
  <2>3. /\ row[s] # "absent" /\ s \in Subs /\ row' = row
        /\ \/ request' = [request EXCEPT ![o] = Idle]
           \/ /\ request' = [request EXCEPT ![o].pc = "cancel"]
              /\ stripe' = [stripe EXCEPT ![s] = "canceled"]
    BY <1>7, <2>1 DEF CancelStripe, Inv, Asking, Asks, tables
  <2>4. CASE request' = [request EXCEPT ![o] = Idle]
    BY <1>4, <2>4
  <2>5. CASE /\ request' = [request EXCEPT ![o].pc = "cancel"]
             /\ stripe' = [stripe EXCEPT ![s] = "canceled"]
    <3>1. [request[o] EXCEPT !.pc = "cancel"] = r
      BY <2>2
    <3>2. request' = [request EXCEPT ![o] = r]
      BY <2>5, <3>1
    <3>3. stripe'[s] = "canceled"
      BY <2>3, <2>5 DEF Inv, TypeOK
    <3>4. r \in Request
      BY <2>2 DEF Request
    <3>5. Asks(r, row', stripe')
      BY <2>3, <3>3 DEF Asks
    <3> HIDE DEF Good, r
    <3> QED BY <1>2, <3>2, <3>4, <3>5
  <2> QED BY <2>3, <2>4, <2>5
<1>8. ASSUME NEW o \in Owners, CancelCommit(o) \/ ReactivateCommit(o) \/ RequestFails(o)
      PROVE  Good
  <2>1. request' = [request EXCEPT ![o] = Idle]
    BY <1>8 DEF CancelCommit, ReactivateCommit, RequestFails
  <2> QED BY <1>4, <2>1
<1>9. \/ UNCHANGED request
      \/ \E o \in Owners : \/ ReactivateRead(o) \/ CancelRead(o) \/ CancelStripe(o)
                           \/ CancelCommit(o) \/ ReactivateCommit(o) \/ RequestFails(o)
  BY DEF Next, vars, Step, CheckoutSession, Subscribe, ChangePayment, EndAtStripe, Duplicate,
        Deliver, CheckoutRead, CheckoutCommit, UpdatedRead, UpdatedFetch, UpdatedUpdate,
         UpdatedCommit, DeletedRead, DeletedCommit, Mark, Fail
<1>10. CASE \E o \in Owners : \/ ReactivateRead(o) \/ CancelRead(o) \/ CancelStripe(o)
                               \/ CancelCommit(o) \/ ReactivateCommit(o) \/ RequestFails(o)
  <2>1. PICK o \in Owners : \/ ReactivateRead(o) \/ CancelRead(o) \/ CancelStripe(o)
                            \/ CancelCommit(o) \/ ReactivateCommit(o) \/ RequestFails(o)
    BY <1>10
  <2>2. CASE ReactivateRead(o)
    BY <1>5, <2>2
  <2>3. CASE CancelRead(o)
    BY <1>6, <2>3
  <2>4. CASE CancelStripe(o)
    BY <1>7, <2>4
  <2>5. CASE CancelCommit(o) \/ ReactivateCommit(o) \/ RequestFails(o)
    BY <1>8, <2>5
  <2> QED BY <2>1, <2>2, <2>3, <2>4, <2>5
<1> QED BY <1>3, <1>9, <1>10

\* The only step that links a subscription inserts its row.
LEMMA LinkStep ==
    ASSUME Inv, [Next]_vars, link' # link
    PROVE  /\ link' \in Subs /\ row[link'] = "absent"
           /\ workspace' = "active" /\ row'[link'] = "active"
           /\ UNCHANGED <<stripe, request>>
           /\ \E h \in Handlers : CheckoutCommit(h)
<1>1. PICK h \in Handlers : CheckoutCommit(h)
  BY DEF Next, vars, tables, Step, CheckoutSession, Subscribe, ChangePayment, EndAtStripe, Duplicate,
        Deliver, CheckoutRead, UpdatedRead, UpdatedFetch, UpdatedUpdate, UpdatedCommit,
        DeletedRead, DeletedCommit, Mark, Fail, CancelRead, CancelStripe,
        CancelCommit, ReactivateRead, ReactivateCommit, RequestFails
<1>2. handler[h].pc = "create" /\ handler[h] # Idle
  BY <1>1 DEF CheckoutCommit, Idle
<1>3. Sub(h) \in Subs
  BY <1>2, HandlingShape, EventShape DEF Sub, Inv, TypeOK
<1>4. /\ row[Sub(h)] = "absent" /\ link' = Sub(h) /\ workspace' = "active"
      /\ row'[Sub(h)] = "active" /\ UNCHANGED <<stripe, request>>
  BY <1>1, <1>3 DEF CheckoutCommit, Activate, Sub, tables, Stored
<1> QED BY <1>1, <1>3, <1>4

-----------------------------------------------------------------------------
(* The theorems                                                            *)

LEMMA InitInv == Init => Inv
<1> SUFFICES ASSUME Init PROVE Inv
  OBVIOUS
<1>1. Idle \in Handling /\ Idle \in Request
  BY DEF Handling, Request
<1>2. TypeOK
  BY <1>1 DEF Init, TypeOK, Stored, Status
<1>3. Known
  BY ConstantsAssumption DEF Init, Known, Stored
<1>4. Following /\ Asking
  BY DEF Init, Following, Asking, Asks, Idle
<1> QED BY <1>2, <1>3, <1>4 DEF Inv

LEMMA StepInv == Inv /\ [Next]_vars => Inv'
<1> SUFFICES ASSUME Inv, [Next]_vars PROVE Inv'
  OBVIOUS
<1>1. \A h \in Handlers : handler[h] # Idle => handler[h].event \in sent
  BY DEF Inv, Following, Follows
<1>2. queue' \subseteq sent' /\ processed' \subseteq sent'
  <2>1. queue \subseteq sent /\ processed \subseteq sent /\ sent \subseteq sent'
    BY StripeStep DEF Inv, TypeOK
  <2>2. ASSUME NEW h \in Handlers, Deliver(h) \/ Step(h) \/ Fail(h)
        PROVE  queue' \subseteq sent' /\ processed' \subseteq sent'
    <3>1. Fail(h) \/ CheckoutCommit(h) \/ Mark(h) => handler[h] # Idle
      BY DEF Fail, CheckoutCommit, Mark, Idle
    <3> QED
      BY <1>1, <2>1, <2>2, <3>1
      DEF Deliver, Step, CheckoutRead, CheckoutCommit, UpdatedRead, UpdatedFetch, UpdatedUpdate,
          UpdatedCommit, DeletedRead, DeletedCommit, Mark, Fail
  <2>3. CASE ~\E h \in Handlers : Deliver(h) \/ Step(h) \/ Fail(h)
    BY <2>1, <2>3
    DEF Next, vars, Send, CheckoutSession, Subscribe, ChangePayment, EndAtStripe, Duplicate,
        CancelRead, CancelStripe, CancelCommit, ReactivateRead, ReactivateCommit, RequestFails
  <2> QED BY <2>2, <2>3
<1>3. duplicates' \in Nat /\ faults' \in Nat
  <2>1. duplicates \in Nat /\ faults \in Nat
    BY DEF Inv, TypeOK
  <2>2. /\ UNCHANGED duplicates \/ duplicates' = duplicates + 1
        /\ UNCHANGED faults \/ faults' = faults + 1
    BY ZenonT(60)
    DEF Next, vars, bounds, Step, CheckoutSession, Subscribe, ChangePayment, EndAtStripe, Duplicate,
        Deliver, CheckoutRead, CheckoutCommit, UpdatedRead, UpdatedFetch, UpdatedUpdate,
        UpdatedCommit, DeletedRead, DeletedCommit, Mark, Fail, CancelRead, CancelStripe,
        CancelCommit, ReactivateRead, ReactivateCommit, RequestFails
  <2> QED BY <2>1, <2>2
<1>4. disturbed' \in BOOLEAN
  <2>1. \/ UNCHANGED disturbed
        \/ disturbed' = (disturbed \/ Busy)
        \/ disturbed' = TRUE
        \/ \E h \in Handlers : disturbed' = (disturbed \/ handler[h].event.kind = "updated")
    BY ZenonT(60)
    DEF Next, vars, bounds, Step, CheckoutSession, Subscribe, ChangePayment, EndAtStripe, Duplicate,
        Deliver, CheckoutRead, CheckoutCommit, UpdatedRead, UpdatedFetch, UpdatedUpdate,
        UpdatedCommit, DeletedRead, DeletedCommit, Mark, Fail, CancelRead, CancelStripe,
        CancelCommit, ReactivateRead, ReactivateCommit, RequestFails
  <2>2. disturbed \in BOOLEAN
    BY DEF Inv, TypeOK
  <2> QED BY <2>1, <2>2, Zenon
<1>5. TypeOK'
  BY <1>2, <1>3, <1>4, StripeStep, RowStep, HandlerStep, RequestStep DEF TypeOK
<1> QED BY <1>5, KnownStep, HandlerStep, RequestStep DEF Inv

\* The invariant holds of every behaviour: what a handler run or an owner's
\* request learnt before its commit is still so when it commits.
THEOREM InvCorrect == Spec => []Inv
<1> QED BY InitInv, StepInv, PTL DEF Spec

\* Every variable keeps its type: what a handler stores is a status the enum has.
THEOREM TypeCorrect == Spec => []TypeOK
<1>1. Inv => TypeOK
  BY DEF Inv
<1> QED BY <1>1, InvCorrect, PTL

\* handle_checkout_completed links a subscription when it inserts its row and
\* never otherwise, however the handlers interleave.
THEOREM LinkedAtCreationCorrect == Spec => LinkedAtCreation
<1>1. Inv /\ [Next]_vars => [link' # link => link' \in Subs /\ row[link'] = "absent"]_vars
  BY LinkStep
<1> QED BY <1>1, InvCorrect, PTL DEF Spec, LinkedAtCreation

-----------------------------------------------------------------------------
(* While nothing has disturbed the order of the events                     *)

\* One handler run or owner's request at a time.
Alone ==
    /\ \A g, h \in Handlers : handler[g] # Idle /\ handler[h] # Idle => g = h
    /\ \A o, p \in Owners : request[o] # Idle /\ request[p] # Idle => o = p
    /\ \A h \in Handlers, o \in Owners : handler[h] = Idle \/ request[o] = Idle

\* The events that tell of a change of state.
Turning == {"updated", "deleted"}

\* One for s waits, and no run has it.
Pending(s) ==
    \E e \in queue \ processed :
        /\ e.sub = s /\ e.kind \in Turning
        /\ \A h \in Handlers : handler[h] # Idle => handler[h].event # e

\* A run is applying one for s.
Applying(h, s) ==
    /\ handler[h].pc \in {"read", "fetch", "update", "commit", "delete"}
    /\ Sub(h) = s /\ handler[h].event.kind \in Turning
    /\ handler[h].event \notin processed

Working(s) == \E h \in Handlers : Applying(h, s)

\* The status the row of s has, or gets when it is created.
Target(s) == IF row[s] = "absent" THEN "active" ELSE row[s]

Tracked(s) == stripe[s] \in Status /\ (link = s \/ row[s] = "absent")

\* The row tells the state at Stripe, or an event is on its way that will.
Reflecting ==
    \A s \in Subs : Tracked(s) => Target(s) = stripe[s] \/ Pending(s) \/ Working(s)

\* What a run has fetched is Stripe's state, or a later event is on its way.
Fresh ==
    \A h \in Handlers : handler[h].pc \in {"update", "commit"} =>
        handler[h].status = stripe[Sub(h)] \/ Pending(Sub(h))

Serial == ~disturbed => Alone /\ Reflecting /\ Fresh

\* A step that leaves the order undisturbed comes from such a state, ...
LEMMA UndisturbedStep ==
    ASSUME [Next]_vars, ~disturbed'
    PROVE  ~disturbed
BY ZenonT(60)
DEF Next, vars, bounds, Step, CheckoutSession, Subscribe, ChangePayment, EndAtStripe, Duplicate,
    Deliver, CheckoutRead, CheckoutCommit, UpdatedRead, UpdatedFetch, UpdatedUpdate,
    UpdatedCommit, DeletedRead, DeletedCommit, Mark, Fail, CancelRead, CancelStripe,
    CancelCommit, ReactivateRead, ReactivateCommit, RequestFails

\* ... starts a run or a request only when there is no other, ...
LEMMA StartStep ==
    ASSUME Inv, [Next]_vars, ~disturbed'
    PROVE  /\ \A h \in Handlers : Deliver(h) => UNCHANGED handler \/ ~Busy
           /\ \A o \in Owners : CancelRead(o) \/ ReactivateRead(o) => ~Busy
BY ZenonT(60) DEF Deliver, CancelRead, ReactivateRead

\* ... and what a run does to the queue and the marks.
LEMMA RunStep ==
    ASSUME Inv, NEW h \in Handlers, Step(h) \/ Fail(h)
    PROVE  /\ handler[h] # Idle /\ UNCHANGED request
           /\ \A g \in Handlers : g # h => handler'[g] = handler[g]
           /\ handler'[h] # Idle => handler'[h].event = handler[h].event
           /\ queue \subseteq queue'
           /\ \/ processed' = processed
              \/ handler[h].pc = "mark" /\ processed' = processed \cup {handler[h].event}
           /\ Fail(h) => /\ handler'[h] = Idle /\ handler[h].event \in queue'
                         /\ processed' = processed
<1>1. handler \in [Handlers -> Handling]
  BY DEF Inv, TypeOK
<1>2. handler[h] # Idle
  BY DEF Step, CheckoutRead, CheckoutCommit, UpdatedRead, UpdatedFetch, UpdatedUpdate,
         UpdatedCommit, DeletedRead, DeletedCommit, Mark, Fail, Idle
<1>3. \/ handler' = [handler EXCEPT ![h] = Idle]
      \/ \E r : r.event = handler[h].event /\ handler' = [handler EXCEPT ![h] = r]
  BY DEF Step, CheckoutRead, CheckoutCommit, UpdatedRead, UpdatedFetch, UpdatedUpdate,
         UpdatedCommit, DeletedRead, DeletedCommit, Mark, Fail
<1>4. /\ \A g \in Handlers : g # h => handler'[g] = handler[g]
      /\ handler'[h] # Idle => handler'[h].event = handler[h].event
  BY <1>1, <1>3
<1>5. /\ UNCHANGED request /\ queue \subseteq queue'
      /\ \/ processed' = processed
         \/ handler[h].pc = "mark" /\ processed' = processed \cup {handler[h].event}
  BY DEF Step, CheckoutRead, CheckoutCommit, UpdatedRead, UpdatedFetch, UpdatedUpdate,
         UpdatedCommit, DeletedRead, DeletedCommit, Mark, Fail
<1>6. Fail(h) => /\ handler'[h] = Idle /\ handler[h].event \in queue'
                 /\ processed' = processed
  BY <1>1 DEF Fail
<1> QED BY <1>2, <1>4, <1>5, <1>6

\* The other steps leave the runs alone.
LEMMA OtherStep ==
    ASSUME [Next]_vars, ~\E h \in Handlers : Deliver(h) \/ Step(h) \/ Fail(h)
    PROVE  UNCHANGED <<handler, processed>> /\ queue \subseteq queue'
BY DEF Next, vars, Send, CheckoutSession, Subscribe, ChangePayment, EndAtStripe, Duplicate,
       CancelRead, CancelStripe, CancelCommit, ReactivateRead, ReactivateCommit, RequestFails

LEMMA AloneStep ==
    ASSUME Inv, [Next]_vars, Alone, ~disturbed'
    PROVE  Alone'
<1>1. handler \in [Handlers -> Handling] /\ request \in [Owners -> Request]
  BY DEF Inv, TypeOK
\* Nothing starts.
<1>2. ASSUME \A h \in Handlers : handler'[h] # Idle => handler[h] # Idle,
             \A o \in Owners : request'[o] # Idle => request[o] # Idle
      PROVE  Alone'
  BY <1>2 DEF Alone
<1>3. ASSUME NEW h \in Handlers, Deliver(h) PROVE Alone'
  <2>1. CASE UNCHANGED handler
    BY <1>2, <1>3, <2>1 DEF Deliver
  <2>2. CASE ~Busy
    <3>1. \A g \in Handlers : g # h => handler'[g] = Idle
      <4>1. UNCHANGED handler \/ \E r : handler' = [handler EXCEPT ![h] = r]
        BY <1>3 DEF Deliver
      <4> QED BY <1>1, <2>2, <4>1 DEF Busy
    <3>2. \A o \in Owners : request'[o] = Idle
      BY <1>3, <2>2 DEF Deliver, Busy
    <3> QED BY <3>1, <3>2 DEF Alone
  <2> QED BY <1>3, <2>1, <2>2, StartStep
<1>4. ASSUME NEW h \in Handlers, Step(h) \/ Fail(h) PROVE Alone'
  BY <1>2, <1>4, RunStep
<1>5. ASSUME NEW o \in Owners, CancelRead(o) \/ ReactivateRead(o), UNCHANGED handler
      PROVE  Alone'
  <2>1. ~Busy
    BY <1>5, StartStep
  <2>2. \A p \in Owners : p # o => request'[p] = Idle
    BY <1>1, <1>5, <2>1 DEF CancelRead, ReactivateRead, Busy
  <2> QED BY <1>5, <2>1, <2>2 DEF Alone, Busy
<1>6. ASSUME ~\E h \in Handlers : Deliver(h) \/ Step(h) \/ Fail(h),
             ~\E o \in Owners : CancelRead(o) \/ ReactivateRead(o)
      PROVE  Alone'
  <2>1. UNCHANGED handler
    BY <1>6, OtherStep
  <2>2. \A o \in Owners : request'[o] # Idle => request[o] # Idle
    <3>1. ASSUME NEW o \in Owners,
                 CancelStripe(o) \/ CancelCommit(o) \/ ReactivateCommit(o) \/ RequestFails(o)
          PROVE  request[o] # Idle /\ \E r : request' = [request EXCEPT ![o] = r]
      BY <3>1 DEF CancelStripe, CancelCommit, ReactivateCommit, RequestFails, Idle
    <3>2. \/ UNCHANGED request
          \/ \E o \in Owners : \/ CancelStripe(o) \/ CancelCommit(o)
                               \/ ReactivateCommit(o) \/ RequestFails(o)
      BY <1>6
      DEF Next, vars, CheckoutSession, Subscribe, ChangePayment, EndAtStripe, Duplicate
    <3> QED BY <1>1, <3>1, <3>2
  <2> QED BY <1>2, <2>1, <2>2
<1>7. CASE \E h \in Handlers : Deliver(h) \/ Step(h) \/ Fail(h)
  BY <1>3, <1>4, <1>7
<1>8. CASE ~\E h \in Handlers : Deliver(h) \/ Step(h) \/ Fail(h)
  BY <1>5, <1>6, <1>8, OtherStep
<1> QED BY <1>7, <1>8

\* A waiting event goes on waiting until a run takes it.
LEMMA PendingStep ==
    ASSUME Inv, [Next]_vars, ~disturbed', NEW s \in Subs, Pending(s)
    PROVE  Pending(s)' \/ (~Busy /\ Working(s)')
<1>1. PICK e \in queue \ processed :
        /\ e.sub = s /\ e.kind \in Turning
        /\ \A h \in Handlers : handler[h] # Idle => handler[h].event # e
  BY DEF Pending
<1>2. handler \in [Handlers -> Handling]
  BY DEF Inv, TypeOK
<1>3. ASSUME e \in queue', e \notin processed',
             \A h \in Handlers : handler'[h] # Idle => handler'[h].event # e
      PROVE  Pending(s)'
  BY <1>1, <1>3 DEF Pending
<1>4. ASSUME NEW h \in Handlers, Deliver(h) PROVE Pending(s)' \/ (~Busy /\ Working(s)')
  <2>1. PICK d \in queue : /\ queue' = queue \ {d} /\ UNCHANGED processed
                           /\ d \in processed => UNCHANGED handler
                           /\ d \notin processed =>
                                handler' = [handler EXCEPT ![h] = [pc |-> "read", event |-> d]]
    BY <1>4 DEF Deliver
  <2>2. CASE d \in processed
    BY <1>1, <1>3, <2>1, <2>2
  <2>3. CASE d \notin processed /\ d # e
    <3>1. /\ handler'[h].event = d
          /\ \A g \in Handlers : g # h => handler'[g] = handler[g]
      BY <1>2, <2>1, <2>3
    <3> QED BY <1>1, <1>3, <2>1, <2>3, <3>1
  <2>4. CASE d = e
    <3>1. handler'[h] = [pc |-> "read", event |-> e]
      BY <1>1, <1>2, <2>1, <2>4
    <3>2. UNCHANGED processed /\ handler' # handler
      BY <1>1, <1>4, <2>1, <2>4, <3>1 DEF Deliver, Idle
    <3>3. Applying(h, s)'
      BY <1>1, <3>1, <3>2 DEF Applying, Sub
    <3> QED BY <1>4, <3>2, <3>3, StartStep DEF Working
  <2> QED BY <2>2, <2>3, <2>4
<1>5. ASSUME NEW h \in Handlers, Step(h) \/ Fail(h) PROVE Pending(s)'
  <2>1. e \in queue' /\ e \notin processed'
    BY <1>1, <1>5, RunStep
  <2>2. \A g \in Handlers : handler'[g] # Idle => handler'[g].event # e
    BY <1>1, <1>5, RunStep
  <2> QED BY <1>3, <2>1, <2>2
<1>6. CASE ~\E h \in Handlers : Deliver(h) \/ Step(h) \/ Fail(h)
  BY <1>1, <1>3, <1>6, OtherStep
<1> QED BY <1>4, <1>5, <1>6

\* A change of state at Stripe sends an event, except a first payment.
LEMMA NewsStep ==
    ASSUME Inv, [Next]_vars, NEW s \in Subs, stripe'[s] # stripe[s]
    PROVE  /\ UNCHANGED <<tables, handler>>
           /\ \/ stripe'[s] = "session"
              \/ stripe[s] = "session" /\ stripe'[s] = "active"
              \/ Pending(s)'
<1>1. /\ stripe \in [Subs -> Status \cup {"none", "session"}] /\ processed \subseteq sent
      /\ changes \in Nat
      /\ \A h \in Handlers : handler[h] # Idle => handler[h].event \in sent
  BY DEF Inv, TypeOK, Following, Follows
\* An event that is new waits.
<1>2. ASSUME NEW e, e \notin sent, e.sub = s, e.kind \in Turning, e \in queue',
             UNCHANGED <<handler, processed>>
      PROVE  Pending(s)'
  BY <1>1, <1>2 DEF Pending
<1> DEFINE d == [kind |-> "deleted", sub |-> s, no |-> 0]
           u == [kind |-> "updated", sub |-> s, no |-> changes + 1]
<1>3. d.sub = s /\ d.kind \in Turning /\ (stripe[s] # "canceled" => d \notin sent)
  BY DEF Turning, Inv, Known
<1>4. u.sub = s /\ u.kind \in Turning /\ u \notin sent
  <2>1. u.no = changes + 1 /\ ~(changes + 1 <= changes)
    BY <1>1
  <2> QED BY <2>1 DEF Turning, Inv, Known
<1>5. CASE CheckoutSession(s)
  BY <1>1, <1>5 DEF CheckoutSession
<1>6. CASE Subscribe(s)
  BY <1>1, <1>6 DEF Subscribe
<1>7. CASE ChangePayment(s)
  <2>1. u \in queue' /\ UNCHANGED <<handler, processed, tables>>
    BY <1>7 DEF ChangePayment, Send
  <2> HIDE DEF u
  <2> QED BY <1>2, <1>4, <2>1
<1>8. CASE EndAtStripe(s)
  <2>1. /\ d \in queue' /\ UNCHANGED <<handler, processed, tables>>
        /\ stripe[s] # "canceled"
    BY <1>8 DEF EndAtStripe, Send
  <2> HIDE DEF d
  <2> QED BY <1>2, <1>3, <2>1
<1>9. ASSUME NEW o \in Owners, CancelStripe(o), stripe' # stripe, request[o].sub = s
      PROVE  Pending(s)' /\ UNCHANGED <<tables, handler>>
  <2>1. /\ d \in queue' /\ UNCHANGED <<handler, processed, tables>>
        /\ stripe[s] # "canceled"
    BY <1>9 DEF CancelStripe, Send
  <2> HIDE DEF d
  <2> QED BY <1>2, <1>3, <2>1
<1>10. \/ CheckoutSession(s) \/ Subscribe(s) \/ ChangePayment(s) \/ EndAtStripe(s)
       \/ \E o \in Owners : CancelStripe(o) /\ request[o].sub = s
  <2>1. \/ \E t \in Subs : /\ \/ CheckoutSession(t) \/ Subscribe(t) \/ ChangePayment(t)
                              \/ EndAtStripe(t)
                           /\ \E v : stripe' = [stripe EXCEPT ![t] = v]
        \/ \E o \in Owners : /\ CancelStripe(o)
                             /\ stripe' = [stripe EXCEPT ![request[o].sub] = "canceled"]
        \/ UNCHANGED stripe
    BY DEF Next, vars, Step, CheckoutSession, Subscribe, ChangePayment, EndAtStripe, Duplicate,
        Deliver, CheckoutRead, CheckoutCommit, UpdatedRead, UpdatedFetch, UpdatedUpdate,
         UpdatedCommit, DeletedRead, DeletedCommit, Mark, Fail, CancelRead, CancelStripe,
         CancelCommit, ReactivateRead, ReactivateCommit, RequestFails
  <2> QED BY <1>1, <2>1
<1> QED BY <1>5, <1>6, <1>7, <1>8, <1>9, <1>10

\* A run that applies an event goes on, comes back as a waiting event, or
\* leaves the row as it is at Stripe.
LEMMA WorkingStep ==
    ASSUME Inv, [Next]_vars, ~disturbed', Alone, Fresh, NEW s \in Subs, Working(s)
    PROVE  \/ Working(s)' \/ Pending(s)'
           \/ row'[s] # "absent" /\ row'[s] = stripe'[s]
<1>1. PICK h \in Handlers : Applying(h, s)
  BY DEF Working
<1>2. handler \in [Handlers -> Handling] /\ row \in [Stored -> Status \cup {"absent"}]
      /\ stripe \in [Subs -> Status \cup {"none", "session"}]
      /\ s \in Stored /\ "absent" \notin Status
  BY DEF Inv, TypeOK, Stored, Status
<1>3. /\ handler[h] # Idle /\ handler[h].event.sub = s /\ handler[h].event.kind \in Turning
      /\ handler[h].event \notin processed
      /\ handler[h].pc \in {"read", "fetch", "update", "commit", "delete"}
      /\ handler[h] \in Handling /\ Follows(handler[h], sent, row, stripe)
  BY <1>1, <1>2 DEF Applying, Sub, Idle, Inv, Following
<1>4. Busy /\ \A g \in Handlers : g # h => handler[g] = Idle
  BY <1>3 DEF Busy, Alone
<1>5. CASE ~\E g \in Handlers : Step(g) \/ Fail(g)
  <2>1. UNCHANGED <<handler, processed>>
    <3>1. ASSUME NEW g \in Handlers, Deliver(g) PROVE UNCHANGED <<handler, processed>>
      BY <1>4, <3>1, StartStep DEF Deliver
    <3>2. CASE ~\E g \in Handlers : Deliver(g)
      BY <1>5, <3>2, OtherStep
    <3> QED BY <3>1, <3>2
  <2> QED BY <1>1, <2>1 DEF Working, Applying, Sub
<1>6. CASE Fail(h)
  <2>1. /\ handler[h].event \in queue' /\ handler[h].event \notin processed'
        /\ \A g \in Handlers : handler'[g] = Idle
    BY <1>3, <1>4, <1>6, RunStep
  <2> QED BY <1>3, <2>1 DEF Pending
<1>7. CASE Step(h)
  <2>1. CASE UpdatedRead(h) \/ DeletedRead(h)
    <3>1. row[s] # "absent"
      BY <1>3, <2>1 DEF UpdatedRead, DeletedRead, Sub, Turning
    <3>2. /\ handler'[h].pc \in {"fetch", "delete"} /\ handler'[h].event = handler[h].event
          /\ UNCHANGED processed
      BY <1>2, <1>3, <2>1, <3>1 DEF UpdatedRead, DeletedRead
    <3>3. Applying(h, s)'
      BY <1>3, <3>2 DEF Applying, Sub
    <3> QED BY <3>3 DEF Working
  <2>2. CASE UpdatedFetch(h) \/ UpdatedUpdate(h)
    <3>1. /\ handler'[h].pc \in {"update", "commit"} /\ handler'[h].event = handler[h].event
          /\ UNCHANGED processed
      BY <1>2, <2>2 DEF UpdatedFetch, UpdatedUpdate
    <3>2. Applying(h, s)'
      BY <1>3, <3>1 DEF Applying, Sub
    <3> QED BY <3>2 DEF Working
  <2>3. CASE UpdatedCommit(h)
    <3>1. /\ row' = [row EXCEPT ![s] = handler[h].status] /\ UNCHANGED stripe
          /\ handler[h].pc = "commit"
      BY <1>3, <2>3 DEF UpdatedCommit, Sub
    <3>2. handler[h].status = stripe[s] \/ Pending(s)
      BY <1>3, <3>1 DEF Fresh, Sub
    <3>3. handler[h].status \in Status
      BY <1>3, <3>1, HandlingShape
    <3> QED BY <1>2, <1>4, <3>1, <3>2, <3>3, PendingStep
  <2>4. CASE DeletedCommit(h)
    <3>1. /\ row' = [row EXCEPT ![s] = "canceled"] /\ UNCHANGED stripe
          /\ handler[h].pc = "delete"
      BY <1>3, <2>4 DEF DeletedCommit, Sub
    <3>2. stripe[s] = "canceled"
      BY <1>3, <3>1 DEF Follows, Inv, Known
    <3> QED BY <1>2, <3>1, <3>2
  <2>5. ~(CheckoutRead(h) \/ CheckoutCommit(h) \/ Mark(h))
    BY <1>3 DEF CheckoutRead, CheckoutCommit, Mark, Turning
  <2> QED BY <1>7, <2>1, <2>2, <2>3, <2>4, <2>5 DEF Step
<1> QED BY <1>4, <1>5, <1>6, <1>7, RunStep

\* What was fetched stays fresh, or an event waits.
LEMMA FreshStep ==
    ASSUME Inv, [Next]_vars, ~disturbed', Alone, Fresh
    PROVE  Fresh'
<1>1. handler \in [Handlers -> Handling] /\ handler' \in [Handlers -> Handling]
  BY HandlerStep DEF Inv, TypeOK
<1> SUFFICES ASSUME NEW h \in Handlers, handler'[h].pc \in {"update", "commit"},
                    NEW s \in Subs, handler'[h].event.sub = s
             PROVE  handler'[h].status = stripe'[s] \/ Pending(s)'
  <2>1. ASSUME NEW h \in Handlers, handler'[h].pc \in {"update", "commit"}
        PROVE  handler'[h].event.sub \in Subs
    BY <1>1, <2>1, HandlingShape, EventShape DEF Idle
  <2> QED BY <2>1 DEF Fresh, Sub
\* A run that keeps its event and has been fresh remains so.
<1>2. ASSUME handler[h] # Idle, handler'[h].event = handler[h].event, row[s] # "absent",
             handler'[h].status = stripe[s] \/ Pending(s)
      PROVE  handler'[h].status = stripe'[s] \/ Pending(s)'
  <2>1. Busy
    BY <1>2 DEF Busy
  <2>2. stripe[s] \in Status
    BY <1>2 DEF Inv, Known
  <2>3. stripe'[s] = stripe[s] \/ Pending(s)'
    BY <2>2, NewsStep, StripeStep DEF Status
  <2>4. Pending(s) => Pending(s)'
    BY <2>1, PendingStep
  <2> QED BY <1>2, <2>3, <2>4
<1>3. CASE handler'[h] = handler[h]
  <2>1. handler[h] # Idle /\ handler[h].pc \in {"update", "commit"}
    BY <1>3 DEF Idle
  <2>2. row[s] # "absent" /\ (handler[h].status = stripe[s] \/ Pending(s))
    BY <1>3, <2>1 DEF Fresh, Sub, Inv, Following, Follows
  <2> QED BY <1>2, <1>3, <2>1, <2>2
<1>4. CASE UpdatedFetch(h)
  <2>1. handler[h] # Idle /\ handler[h].pc = "fetch"
    BY <1>4 DEF UpdatedFetch, Idle
  <2>2. handler'[h].event = handler[h].event /\ handler'[h].status = stripe[handler[h].event.sub]
    BY <1>1, <1>4 DEF UpdatedFetch, StatusOf
  <2>3. row[s] # "absent" /\ handler'[h].status = stripe[s]
    BY <2>1, <2>2 DEF Inv, Following, Follows
  <2> QED BY <1>2, <2>1, <2>2, <2>3
<1>5. CASE UpdatedUpdate(h)
  <2>1. handler[h] # Idle /\ handler[h].pc = "update"
    BY <1>5 DEF UpdatedUpdate, Idle
  <2>2. handler'[h].event = handler[h].event /\ handler'[h].status = handler[h].status
    BY <1>1, <1>5 DEF UpdatedUpdate
  <2>3. row[s] # "absent" /\ (handler[h].status = stripe[s] \/ Pending(s))
    BY <2>1, <2>2 DEF Fresh, Sub, Inv, Following, Follows
  <2> QED BY <1>2, <2>1, <2>2, <2>3
<1>6. CASE handler'[h] # handler[h] /\ ~UpdatedFetch(h) /\ ~UpdatedUpdate(h)
  <2>1. Deliver(h) \/ Step(h) \/ Fail(h)
    <3>1. ASSUME NEW g \in Handlers, g # h, Deliver(g) PROVE handler'[h] = handler[h]
      BY <1>1, <3>1 DEF Deliver
    <3> QED BY <1>6, <3>1, RunStep, OtherStep
  <2>2. handler'[h] = Idle \/ handler'[h].pc \in {"read", "mark", "create", "fetch", "delete"}
    BY <1>1, <1>6, <2>1
    DEF Deliver, Step, CheckoutRead, CheckoutCommit, UpdatedRead,
        UpdatedCommit, DeletedRead, DeletedCommit, Mark, Fail
  <2> QED BY <2>2 DEF Idle
<1> QED BY <1>3, <1>4, <1>5, <1>6

\* A write to the row of a tracked subscription tells the state at Stripe.
LEMMA WriteStep ==
    ASSUME Inv, [Next]_vars, ~disturbed', Fresh, NEW s \in Subs, Tracked(s)'
    PROVE  Target(s)' = Target(s) \/ Target(s)' = stripe'[s] \/ Pending(s)'
<1>1. /\ row \in [Stored -> Status \cup {"absent"}] /\ s \in Stored /\ "absent" \notin Status
      /\ \A h \in Handlers : handler[h] # Idle => handler[h] \in Handling
  BY DEF Inv, TypeOK, Stored, Status
<1>2. CASE row'[s] = row[s]
  BY <1>2 DEF Target
<1>3. ASSUME NEW h \in Handlers, CheckoutCommit(h), row'[s] # row[s]
      PROVE  Target(s)' = Target(s)
  <2>1. /\ row[Sub(h)] = "absent" /\ link' = Sub(h)
        /\ row'[s] = IF s = Sub(h) THEN "active" ELSE "canceled"
    BY <1>1, <1>3 DEF CheckoutCommit, Activate, Sub, tables
  <2>2. s = Sub(h)
    BY <2>1 DEF Tracked
  <2> QED BY <2>1, <2>2 DEF Target
<1>4. ASSUME NEW h \in Handlers, UpdatedCommit(h), row'[s] # row[s]
      PROVE  Target(s)' = stripe'[s] \/ Pending(s)'
  <2>1. /\ Sub(h) = s /\ row'[s] = handler[h].status /\ UNCHANGED stripe
        /\ handler[h].pc = "commit"
    BY <1>1, <1>4 DEF UpdatedCommit
  <2>2. handler[h] # Idle /\ Busy
    BY <2>1 DEF Idle, Busy
  <2>3. handler[h].status \in Status
    BY <1>1, <2>1, <2>2, HandlingShape
  <2>4. handler[h].status = stripe[s] \/ Pending(s)
    BY <2>1 DEF Fresh
  <2> QED BY <1>1, <2>1, <2>2, <2>3, <2>4, PendingStep DEF Target
<1>5. ASSUME NEW h \in Handlers, DeletedCommit(h), row'[s] # row[s]
      PROVE  Target(s)' = stripe'[s]
  <2>1. /\ handler[h].event.sub = s /\ row'[s] = "canceled" /\ UNCHANGED stripe
        /\ handler[h].pc = "delete" /\ handler[h] # Idle
    BY <1>1, <1>5 DEF DeletedCommit, Sub, Idle
  <2>2. stripe[s] = "canceled"
    BY <2>1 DEF Inv, Following, Follows, Known
  <2> QED BY <2>1, <2>2 DEF Target
<1>6. ASSUME NEW o \in Owners, CancelCommit(o), row'[s] # row[s]
      PROVE  Target(s)' = stripe'[s]
  <2>1. /\ request[o].sub = s /\ row'[s] = "canceled" /\ UNCHANGED stripe
        /\ request[o].pc = "cancel"
    BY <1>1, <1>6 DEF CancelCommit
  <2>2. stripe[s] = "canceled"
    BY <2>1 DEF Inv, Asking, Asks
  <2> QED BY <2>1, <2>2 DEF Target
<1>7. \/ \E h \in Handlers : CheckoutCommit(h) \/ UpdatedCommit(h) \/ DeletedCommit(h)
      \/ \E o \in Owners : CancelCommit(o)
      \/ UNCHANGED row
  BY DEF Next, vars, tables, Step, CheckoutSession, Subscribe, ChangePayment, EndAtStripe, Duplicate,
        Deliver, CheckoutRead, UpdatedRead, UpdatedFetch, UpdatedUpdate, DeletedRead, Mark, Fail,
        CancelRead, CancelStripe, ReactivateRead, ReactivateCommit, RequestFails
<1> QED BY <1>2, <1>3, <1>4, <1>5, <1>6, <1>7

LEMMA ReflectStep ==
    ASSUME Inv, [Next]_vars, ~disturbed', Alone, Reflecting, Fresh
    PROVE  Reflecting'
<1> SUFFICES ASSUME NEW s \in Subs, Tracked(s)'
             PROVE  Target(s)' = stripe'[s] \/ Pending(s)' \/ Working(s)'
  BY DEF Reflecting
<1>1. CASE stripe'[s] # stripe[s]
  <2>1. CASE stripe[s] = "session" /\ stripe'[s] = "active"
    <3>1. row[s] = "absent" /\ UNCHANGED row
      BY <1>1, <2>1, NewsStep DEF Inv, Known, Status, tables
    <3> QED BY <2>1, <3>1 DEF Target
  <2>2. stripe'[s] # "session"
    BY DEF Tracked, Status
  <2> QED BY <1>1, <2>1, <2>2, NewsStep
<1>2. CASE stripe'[s] = stripe[s]
  <2>1. Tracked(s)
    <3>1. CASE row'[s] = "absent"
      <4>1. s \in Stored
        BY DEF Stored
      <4> QED BY <1>2, <3>1, <4>1, RowStep DEF Tracked
    <3>2. CASE link' = s
      BY <1>2, <3>2, LinkStep DEF Tracked
    <3> QED BY <3>1, <3>2 DEF Tracked
  <2>2. CASE Target(s) = stripe[s]
    BY <1>2, <2>2, WriteStep
  <2>3. CASE Pending(s)
    BY <2>3, PendingStep
  <2>4. CASE Working(s)
    BY <2>4, WorkingStep DEF Target
  <2> QED BY <2>1, <2>2, <2>3, <2>4 DEF Reflecting
<1> QED BY <1>1, <1>2

LEMMA SerialStep == Inv /\ Serial /\ [Next]_vars => Serial'
<1> SUFFICES ASSUME Inv, Serial, [Next]_vars, ~disturbed'
             PROVE  Alone' /\ Reflecting' /\ Fresh'
  BY DEF Serial
<1>1. Alone /\ Reflecting /\ Fresh
  BY UndisturbedStep DEF Serial
<1> QED BY <1>1, AloneStep, ReflectStep, FreshStep

THEOREM SerialCorrect == Spec => []Serial
<1>1. Init => Serial
  BY DEF Init, Serial, Alone, Reflecting, Fresh, Tracked, Idle, Status
<1> QED BY <1>1, SerialStep, InvCorrect, PTL DEF Spec

\* Handled one at a time, none ahead of its checkout, the events of Stripe leave
\* the linked subscription's status as it is at Stripe, whatever was repeated,
\* retried or crashed.
THEOREM LinkedFollowsStripeCorrect == Spec => []LinkedFollowsStripe
<1>1. ASSUME Inv, Serial PROVE LinkedFollowsStripe
  <2> SUFFICES ASSUME Quiet, ~disturbed, link \in Subs PROVE row[link] = stripe[link]
    BY DEF LinkedFollowsStripe
  <2>1. Tracked(link) /\ Target(link) = row[link]
    BY <1>1, ConstantsAssumption DEF Inv, Known, Tracked, Target
  <2>2. ~Pending(link)
    BY DEF Quiet, Pending
  <2>3. ~Working(link)
    BY DEF Quiet, Busy, Working, Applying, Idle
  <2> QED BY <1>1, <2>1, <2>2, <2>3 DEF Serial, Reflecting
<1> QED BY <1>1, SerialCorrect, InvCorrect, PTL

-----------------------------------------------------------------------------
(* The workspace                                                           *)

\* The workspace is frozen exactly when its subscription's row is canceled, ...
FrozenWhenCanceled ==
    link \in Subs =>
        /\ workspace = "frozen" <=> row[link] = "canceled"
        /\ row[link] = "canceled" => stripe[link] = "canceled"

\* ... a run remembers whether its subscription is linked, ...
RunsMatch ==
    \A h \in Handlers :
        /\ handler[h].pc \in {"fetch", "update", "commit", "delete"} =>
             (handler[h].linked <=> link = Sub(h))
        /\ handler[h].pc \in {"update", "commit"} /\ link = Sub(h)
             /\ handler[h].status # "canceled" => row[link] # "canceled"

\* ... and a request is about the linked subscription.
RequestsMatch ==
    \A o \in Owners :
        /\ request[o].pc = "thaw" => LinkedActive
        /\ request[o].pc \in {"stripe", "cancel"} => link = request[o].sub

Matching == ~disturbed => FrozenWhenCanceled /\ RunsMatch /\ RequestsMatch

\* The one who writes the tables is then done with them, and nobody else runs.
LEMMA WriterStep ==
    ASSUME Inv, [Next]_vars, Alone, ~UNCHANGED tables
    PROVE  /\ \A h \in Handlers : handler'[h].pc \in {"mark", "idle"}
           /\ \A o \in Owners : request'[o] = Idle
<1>1. handler \in [Handlers -> Handling] /\ request \in [Owners -> Request]
  BY DEF Inv, TypeOK
<1>2. ASSUME NEW h \in Handlers, CheckoutCommit(h) \/ UpdatedCommit(h) \/ DeletedCommit(h)
      PROVE  /\ \A g \in Handlers : handler'[g].pc \in {"mark", "idle"}
             /\ \A o \in Owners : request'[o] = Idle
  <2>1. handler[h] # Idle /\ UNCHANGED request
    BY <1>2 DEF CheckoutCommit, UpdatedCommit, DeletedCommit, Idle
  <2>2. handler'[h].pc \in {"mark", "idle"}
    BY <1>1, <1>2 DEF CheckoutCommit, UpdatedCommit, DeletedCommit, Idle
  <2>3. \A g \in Handlers : g # h => handler'[g] = Idle
    BY <1>2, <2>1, RunStep DEF Step, Alone
  <2> QED BY <2>1, <2>2, <2>3 DEF Alone, Idle
<1>3. ASSUME NEW o \in Owners, CancelCommit(o) \/ ReactivateCommit(o)
      PROVE  /\ \A h \in Handlers : handler'[h].pc \in {"mark", "idle"}
             /\ \A p \in Owners : request'[p] = Idle
  <2>1. request[o] # Idle /\ UNCHANGED handler /\ request' = [request EXCEPT ![o] = Idle]
    BY <1>3 DEF CancelCommit, ReactivateCommit, Idle
  <2> QED BY <1>1, <2>1 DEF Alone, Idle
<1>4. \/ \E h \in Handlers : CheckoutCommit(h) \/ UpdatedCommit(h) \/ DeletedCommit(h)
      \/ \E o \in Owners : CancelCommit(o) \/ ReactivateCommit(o)
  BY DEF Next, vars, tables, Step, CheckoutSession, Subscribe, ChangePayment, EndAtStripe, Duplicate,
        Deliver, CheckoutRead, UpdatedRead, UpdatedFetch, UpdatedUpdate, DeletedRead, Mark, Fail,
        CancelRead, CancelStripe, ReactivateRead, RequestFails
<1> QED BY <1>2, <1>3, <1>4

LEMMA FrozenStep ==
    ASSUME Inv, [Next]_vars, FrozenWhenCanceled, RunsMatch, RequestsMatch
    PROVE  FrozenWhenCanceled'
<1> SUFFICES ASSUME link' \in Subs
             PROVE  /\ workspace' = "frozen" <=> row'[link'] = "canceled"
                    /\ row'[link'] = "canceled" => stripe'[link'] = "canceled"
  BY DEF FrozenWhenCanceled
<1>1. /\ row \in [Stored -> Status \cup {"absent"}] /\ Subs \subseteq Stored
      /\ handler \in [Handlers -> Handling]
      /\ \A s \in Subs : stripe[s] = "canceled" => stripe'[s] = "canceled"
  BY StripeStep DEF Inv, TypeOK, Stored
<1>2. CASE link' # link
  BY <1>2, LinkStep
<1>3. CASE UNCHANGED tables
  BY <1>1, <1>3 DEF tables, FrozenWhenCanceled
<1>4. ASSUME NEW h \in Handlers, CheckoutCommit(h), link' = link PROVE UNCHANGED tables
  <2>1. ~Activate(Sub(h), handler[h].current) \/ row[Sub(h)] # "absent"
    BY <1>4, ConstantsAssumption DEF Activate, Inv, Known
  <2> QED BY <1>4, <2>1 DEF CheckoutCommit, Sub, tables
<1>5. ASSUME NEW h \in Handlers, UpdatedCommit(h)
      PROVE  /\ workspace' = "frozen" <=> row'[link'] = "canceled"
             /\ row'[link'] = "canceled" => stripe'[link'] = "canceled"
  <2>1. /\ handler[h].pc = "commit" /\ handler[h] # Idle /\ link' = link /\ UNCHANGED stripe
        /\ row' = [row EXCEPT ![Sub(h)] = handler[h].status]
        /\ workspace' = IF handler[h].linked /\ handler[h].status = "canceled" THEN "frozen"
                        ELSE IF handler[h].thaw THEN "active" ELSE workspace
    BY <1>5 DEF UpdatedCommit, Idle
  <2>2. /\ handler[h].linked <=> link = Sub(h)
        /\ handler[h].thaw => handler[h].linked
        /\ handler[h].status = "canceled" => stripe[Sub(h)] = "canceled"
        /\ link = Sub(h) /\ handler[h].status # "canceled" => row[link] # "canceled"
    BY <2>1 DEF RunsMatch, Inv, Following, Follows, Sub
  <2>3. link \in Subs /\ link \in Stored
    BY <1>1, <2>1
  <2>4. CASE link = Sub(h)
    BY <1>1, <2>1, <2>2, <2>3, <2>4 DEF FrozenWhenCanceled
  <2>5. CASE link # Sub(h)
    BY <1>1, <2>1, <2>2, <2>3, <2>5 DEF FrozenWhenCanceled
  <2> QED BY <2>4, <2>5
<1>6. ASSUME NEW h \in Handlers, DeletedCommit(h)
      PROVE  /\ workspace' = "frozen" <=> row'[link'] = "canceled"
             /\ row'[link'] = "canceled" => stripe'[link'] = "canceled"
  <2>1. /\ handler[h].pc = "delete" /\ handler[h] # Idle /\ link' = link /\ UNCHANGED stripe
        /\ row' = [row EXCEPT ![Sub(h)] = "canceled"]
        /\ workspace' = IF handler[h].linked THEN "frozen" ELSE workspace
    BY <1>6 DEF DeletedCommit, Idle
  <2>2. /\ handler[h].linked <=> link = Sub(h)
        /\ stripe[Sub(h)] = "canceled"
    BY <2>1 DEF RunsMatch, Inv, Following, Follows, Known, Sub
  <2>3. link \in Subs /\ link \in Stored
    BY <1>1, <2>1
  <2> QED BY <1>1, <2>1, <2>2, <2>3 DEF FrozenWhenCanceled
<1>7. ASSUME NEW o \in Owners, CancelCommit(o)
      PROVE  /\ workspace' = "frozen" <=> row'[link'] = "canceled"
             /\ row'[link'] = "canceled" => stripe'[link'] = "canceled"
  <2>1. /\ request[o].pc = "cancel" /\ link' = link /\ UNCHANGED stripe
        /\ row' = [row EXCEPT ![request[o].sub] = "canceled"] /\ workspace' = "frozen"
    BY <1>7 DEF CancelCommit
  <2>2. link = request[o].sub /\ stripe[link] = "canceled"
    BY <2>1 DEF RequestsMatch, Inv, Asking, Asks
  <2> QED BY <1>1, <2>1, <2>2
<1>8. ASSUME NEW o \in Owners, ReactivateCommit(o)
      PROVE  /\ workspace' = "frozen" <=> row'[link'] = "canceled"
             /\ row'[link'] = "canceled" => stripe'[link'] = "canceled"
  <2>1. /\ request[o].pc = "thaw" /\ UNCHANGED <<row, link, stripe>> /\ workspace' = "active"
    BY <1>8 DEF ReactivateCommit
  <2>2. row[link] = "active"
    BY <2>1 DEF RequestsMatch, LinkedActive
  <2> QED BY <2>1, <2>2
<1>9. \/ UNCHANGED tables
      \/ \E h \in Handlers : CheckoutCommit(h) \/ UpdatedCommit(h) \/ DeletedCommit(h)
      \/ \E o \in Owners : CancelCommit(o) \/ ReactivateCommit(o)
  BY DEF Next, vars, tables, Step, CheckoutSession, Subscribe, ChangePayment, EndAtStripe, Duplicate,
        Deliver, CheckoutRead, UpdatedRead, UpdatedFetch, UpdatedUpdate, DeletedRead, Mark, Fail,
        CancelRead, CancelStripe, ReactivateRead, RequestFails
<1>10. CASE \E h \in Handlers : CheckoutCommit(h) \/ UpdatedCommit(h) \/ DeletedCommit(h)
  BY <1>2, <1>3, <1>4, <1>5, <1>6, <1>10
<1>11. CASE \E o \in Owners : CancelCommit(o) \/ ReactivateCommit(o)
  BY <1>7, <1>8, <1>11
<1> QED BY <1>3, <1>9, <1>10, <1>11

LEMMA RunsMatchStep ==
    ASSUME Inv, [Next]_vars, Alone, FrozenWhenCanceled, RunsMatch
    PROVE  RunsMatch'
<1>1. handler \in [Handlers -> Handling]
  BY DEF Inv, TypeOK
<1>2. CASE ~UNCHANGED tables
  BY <1>2, WriterStep DEF RunsMatch
<1> SUFFICES ASSUME UNCHANGED tables, NEW h \in Handlers
             PROVE  /\ handler'[h].pc \in {"fetch", "update", "commit", "delete"} =>
                         (handler'[h].linked <=> link' = handler'[h].event.sub)
                    /\ handler'[h].pc \in {"update", "commit"} /\ link' = handler'[h].event.sub
                         /\ handler'[h].status # "canceled" => row'[link'] # "canceled"
  BY <1>2 DEF RunsMatch, Sub
<1>3. link' = link /\ row' = row
  BY DEF tables
<1>4. CASE handler'[h] = handler[h]
  BY <1>3, <1>4 DEF RunsMatch, Sub
<1>5. CASE UpdatedRead(h) \/ DeletedRead(h)
  <2> DEFINE e == handler[h].event
  <2>1. \/ handler'[h] = [pc |-> "mark", event |-> e]
        \/ \E n \in {"fetch", "delete"} :
             handler'[h] = [pc |-> n, event |-> e, linked |-> link = e.sub]
    BY <1>1, <1>5 DEF UpdatedRead, DeletedRead
  <2>2. \/ handler'[h].pc = "mark"
        \/ /\ handler'[h].pc \in {"fetch", "delete"} /\ handler'[h].event = e
           /\ handler'[h].linked = (link = e.sub)
    BY <2>1
  <2> QED BY <1>3, <2>2
<1>6. CASE UpdatedFetch(h)
  <2>1. /\ handler[h].pc = "fetch" /\ handler[h] # Idle
        /\ handler'[h].event = handler[h].event /\ handler'[h].linked = handler[h].linked
        /\ handler'[h].status = stripe[handler[h].event.sub]
    BY <1>1, <1>6 DEF UpdatedFetch, StatusOf, Idle
  <2>2. handler[h].linked <=> link = handler[h].event.sub
    BY <2>1 DEF RunsMatch, Sub
  <2>3. handler[h].event.sub \in Subs
    BY <1>1, <2>1, HandlingShape, EventShape
  <2>4. link = handler[h].event.sub /\ handler'[h].status # "canceled" => row[link] # "canceled"
    BY <2>1, <2>3 DEF FrozenWhenCanceled
  <2> QED BY <1>3, <2>1, <2>2, <2>4
<1>7. CASE UpdatedUpdate(h)
  <2>1. /\ handler[h].pc = "update"
        /\ handler'[h].event = handler[h].event /\ handler'[h].linked = handler[h].linked
        /\ handler'[h].status = handler[h].status
    BY <1>1, <1>7 DEF UpdatedUpdate
  <2> QED BY <1>3, <2>1 DEF RunsMatch, Sub
<1>8. CASE /\ handler'[h] # handler[h] /\ ~UpdatedRead(h) /\ ~DeletedRead(h)
           /\ ~UpdatedFetch(h) /\ ~UpdatedUpdate(h)
  <2>1. Deliver(h) \/ Step(h) \/ Fail(h)
    <3>1. ASSUME NEW g \in Handlers, g # h, Deliver(g) PROVE handler'[h] = handler[h]
      BY <1>1, <3>1 DEF Deliver
    <3> QED BY <1>8, <3>1, RunStep, OtherStep
  <2>2. handler'[h].pc \in {"idle", "read", "mark", "create"}
    BY <1>1, <1>8, <2>1
    DEF Deliver, Step, CheckoutRead, CheckoutCommit, UpdatedCommit, DeletedCommit, Mark, Fail, Idle
  <2> QED BY <2>2
<1> QED BY <1>4, <1>5, <1>6, <1>7, <1>8

LEMMA RequestsMatchStep ==
    ASSUME Inv, [Next]_vars, Alone, RequestsMatch
    PROVE  RequestsMatch'
<1>1. request \in [Owners -> Request]
  BY DEF Inv, TypeOK
<1>2. CASE ~UNCHANGED tables
  BY <1>2, WriterStep DEF RequestsMatch, Idle
<1> SUFFICES ASSUME UNCHANGED tables, NEW o \in Owners
             PROVE  /\ request'[o].pc = "thaw" => LinkedActive'
                    /\ request'[o].pc \in {"stripe", "cancel"} => link' = request'[o].sub
  BY <1>2, Zenon DEF RequestsMatch
<1>3. link' = link /\ (LinkedActive' <=> LinkedActive)
  BY DEF tables, LinkedActive
<1>4. CASE request'[o] = request[o]
  BY <1>3, <1>4 DEF RequestsMatch
<1>5. CASE CancelRead(o) \/ ReactivateRead(o)
  BY <1>1, <1>3, <1>5 DEF CancelRead, ReactivateRead
<1>6. CASE CancelStripe(o)
  <2>1. request[o].pc = "stripe" /\ request[o] \in [pc: {"stripe", "cancel"}, sub: Stored]
    BY <1>1, <1>6 DEF CancelStripe, Request, Idle
  <2>2. request'[o] = Idle \/ request'[o] = [request[o] EXCEPT !.pc = "cancel"]
    BY <1>1, <1>6 DEF CancelStripe
  <2>3. \/ request'[o] = Idle
        \/ request'[o].sub = request[o].sub /\ request'[o].pc = "cancel"
    BY <2>1, <2>2
  <2> QED BY <1>3, <2>1, <2>3 DEF RequestsMatch, Idle
<1>7. CASE CancelCommit(o) \/ ReactivateCommit(o) \/ RequestFails(o)
  BY <1>1, <1>7 DEF CancelCommit, ReactivateCommit, RequestFails, Idle
<1>8. \/ \E p \in Owners : /\ \E r : request' = [request EXCEPT ![p] = r]
                           /\ \/ CancelRead(p) \/ CancelStripe(p) \/ CancelCommit(p)
                              \/ ReactivateRead(p) \/ ReactivateCommit(p) \/ RequestFails(p)
      \/ UNCHANGED request
  <2>1. ASSUME NEW p \in Owners,
               \/ CancelRead(p) \/ CancelStripe(p) \/ CancelCommit(p)
               \/ ReactivateRead(p) \/ ReactivateCommit(p) \/ RequestFails(p)
        PROVE  \E r : request' = [request EXCEPT ![p] = r]
    BY <2>1 DEF CancelRead, CancelStripe, CancelCommit, ReactivateRead, ReactivateCommit, RequestFails
  <2>2. \/ UNCHANGED request
        \/ \E p \in Owners : \/ CancelRead(p) \/ CancelStripe(p) \/ CancelCommit(p)
                             \/ ReactivateRead(p) \/ ReactivateCommit(p) \/ RequestFails(p)
    BY DEF Next, vars, Step, CheckoutSession, Subscribe, ChangePayment, EndAtStripe, Duplicate,
           Deliver, CheckoutRead, CheckoutCommit, UpdatedRead, UpdatedFetch, UpdatedUpdate,
           UpdatedCommit, DeletedRead, DeletedCommit, Mark, Fail
  <2> QED BY <2>1, <2>2
<1>9. \A p \in Owners : p # o /\ (\E r : request' = [request EXCEPT ![p] = r]) =>
        request'[o] = request[o]
  BY <1>1
<1> QED BY <1>4, <1>5, <1>6, <1>7, <1>8, <1>9

LEMMA MatchingStep == Inv /\ Serial /\ Matching /\ [Next]_vars => Matching'
<1> SUFFICES ASSUME Inv, Serial, Matching, [Next]_vars, ~disturbed'
             PROVE  FrozenWhenCanceled' /\ RunsMatch' /\ RequestsMatch'
  BY DEF Matching
<1>1. Alone /\ FrozenWhenCanceled /\ RunsMatch /\ RequestsMatch
  BY UndisturbedStep DEF Serial, Matching
<1> QED BY <1>1, FrozenStep, RunsMatchStep, RequestsMatchStep

\* Under the same conditions the workspace is frozen exactly when its subscription
\* has ended at Stripe: no handler freezes it for a replaced subscription, none
\* thaws it after the end.
THEOREM WorkspaceFollowsCorrect == Spec => []WorkspaceFollows
<1>1. Init => Matching
  BY ConstantsAssumption DEF Init, Matching, FrozenWhenCanceled, RunsMatch, RequestsMatch, Idle
<1>2. Spec => []Matching
  BY <1>1, MatchingStep, SerialCorrect, InvCorrect, PTL DEF Spec
<1>3. Matching /\ LinkedFollowsStripe => WorkspaceFollows
  BY DEF Matching, FrozenWhenCanceled, LinkedFollowsStripe, WorkspaceFollows
<1> QED BY <1>2, <1>3, LinkedFollowsStripeCorrect, PTL
=============================================================================
