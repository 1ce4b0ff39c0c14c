------------------------ MODULE OutboundCallsProofs -------------------------
(* Theorems about OutboundCalls, for every value of its constants.         *)
EXTENDS OutboundCalls, FiniteSetTheorems, TLAPS

USE DEF Idle

\* The record a checkout is at each call.
LEMMA RequestShape ==
    ASSUME NEW r \in Request
    PROVE  /\ r.pc = "customer" => r.key \in Keys \cup {NoKey} /\ r.attempt \in Attempts
           /\ r.pc = "store" => r.key \in Keys \cup {NoKey} /\ r.customer \in Nat \ {0}
           /\ r.pc = "session" => /\ r.key \in Keys \cup {NoKey} /\ r.attempt \in Attempts
                                  /\ r.customer \in Nat \ {0} /\ r.wrote \in BOOLEAN
           /\ r.pc = "commit" => /\ r.key \in Keys \cup {NoKey}
                                 /\ r.customer \in Nat \ {0} /\ r.wrote \in BOOLEAN
           /\ r.pc \in {"idle", "customer", "store", "session", "commit"}
  BY DEF Request

\* An attempt that is repeated is still one of max_attempts.
LEMMA RepeatShape ==
    ASSUME NEW r \in Request, r.pc \in {"customer", "session"}, Repeatable(r)
    PROVE  /\ Repeat(r) \in Request
           /\ Repeat(r).pc = r.pc /\ Repeat(r).key = r.key
           /\ Repeat(r).attempt = r.attempt + 1
           /\ r.pc = "session" => Repeat(r).customer = r.customer /\ Repeat(r).wrote = r.wrote
<1>1. r.attempt \in Attempts /\ r.attempt + 1 \in Attempts
  BY RequestShape, ConstantsAssumption DEF Repeatable, Attempts
<1>2. CASE r.pc = "customer"
  <2>1. r \in [pc: {"customer"}, key: Keys \cup {NoKey}, attempt: Attempts]
    BY <1>2 DEF Request
  <2>2. Repeat(r) \in [pc: {"customer"}, key: Keys \cup {NoKey}, attempt: Attempts]
    BY <1>1, <2>1 DEF Repeat
  <2> QED BY <1>2, <2>1, <2>2 DEF Request, Repeat
<1>3. CASE r.pc = "session"
  <2>1. r \in [pc: {"session"}, key: Keys \cup {NoKey}, attempt: Attempts,
               customer: Nat \ {0}, wrote: BOOLEAN]
    BY <1>3 DEF Request
  <2>2. Repeat(r) \in [pc: {"session"}, key: Keys \cup {NoKey}, attempt: Attempts,
                       customer: Nat \ {0}, wrote: BOOLEAN]
    BY <1>1, <2>1 DEF Repeat
  <2> QED BY <1>3, <2>1, <2>2 DEF Request, Repeat
<1> QED BY <1>2, <1>3

\* What is left of an attempt that is not answered.
LEMMA FailShape ==
    ASSUME TypeOK, NEW q \in Requests, checkout[q].pc \in {"customer", "session"}, Fail(q)
    PROVE  /\ checkout' \in [Requests -> Request]
           /\ disturbed' \in BOOLEAN /\ UNCHANGED <<started, unkeyed, unnamed>>
           /\ \/ /\ checkout' = [checkout EXCEPT ![q] = Repeat(checkout[q])]
                 /\ Repeatable(checkout[q])
                 /\ disturbed' = disturbed
              \/ checkout' = [checkout EXCEPT ![q] = Idle] /\ disturbed' = TRUE
<1>1. CASE Repeatable(checkout[q])
  <2>1. Repeat(checkout[q]) \in Request
    BY <1>1, RepeatShape DEF TypeOK
  <2> QED BY <1>1, <2>1 DEF Fail, Go, Raise, history, TypeOK
<1>2. CASE ~Repeatable(checkout[q])
  BY <1>2 DEF Fail, Go, Raise, Request, TypeOK
<1> QED BY <1>1, <1>2

\* A message that waits in its queue has a run left.
RunsLeft == \A m \in Mails : mail[m].pc = "queued" => mail[m].runs <= MaxRetries

LEMMA TypeStep ==
    ASSUME TypeOK, RunsLeft, [Next]_vars
    PROVE  TypeOK' /\ RunsLeft'
<1> USE DEF TypeOK
<1>0. Idle \in Request
  BY DEF Request
<1>1. ASSUME NEW q \in Requests, NEW k \in Keys \cup {NoKey}, StartCheckout(q, k) PROVE TypeOK'
  <2>1. 1 \in Attempts
    BY ConstantsAssumption DEF Attempts
  <2>2. /\ [pc |-> "customer", key |-> k, attempt |-> 1] \in Request
        /\ stripe_customer_id # 0 =>
             [pc |-> "session", key |-> k, attempt |-> 1,
              customer |-> stripe_customer_id, wrote |-> FALSE] \in Request
    BY <2>1 DEF Request
  <2>3. checkout' \in [Requests -> Request] /\ unnamed' \in Nat
    <3>1. CASE stripe_customer_id = 0
      BY <1>1, <2>2, <3>1 DEF StartCheckout, Go
    <3>2. CASE stripe_customer_id # 0
      BY <1>1, <2>2, <3>2 DEF StartCheckout, Go
    <3> QED BY <3>1, <3>2
  <2> QED BY <1>1, <2>3 DEF StartCheckout, stripe, mails, Overlapping
<1>2. ASSUME NEW q \in Requests, CreateCustomer(q) PROVE TypeOK'
  <2>1. checkout[q].key \in Keys \cup {NoKey}
    BY <1>2, RequestShape DEF CreateCustomer
  <2>2. customers' \in Nat \ {0}
    BY <1>2 DEF CreateCustomer
  <2>3. [pc |-> "store", key |-> checkout[q].key, customer |-> customers'] \in Request
    BY <2>1, <2>2 DEF Request
  <2>4. /\ checkout' \in [Requests -> Request] /\ disturbed' \in BOOLEAN
        /\ UNCHANGED <<started, unkeyed, unnamed>>
    BY <1>2, <2>3, FailShape DEF CreateCustomer, Go, history
  <2> QED BY <1>2, <2>2, <2>4 DEF CreateCustomer, mails
<1>3. ASSUME NEW q \in Requests, CreateSession(q) PROVE TypeOK'
  <2>1. /\ checkout[q].key \in Keys \cup {NoKey} /\ checkout[q].customer \in Nat \ {0}
        /\ checkout[q].wrote \in BOOLEAN
    BY <1>3, RequestShape DEF CreateSession
  <2>2. [pc |-> "commit", key |-> checkout[q].key, customer |-> checkout[q].customer,
         wrote |-> checkout[q].wrote] \in Request
    BY <2>1 DEF Request
  <2>3. /\ checkout' \in [Requests -> Request] /\ disturbed' \in BOOLEAN
        /\ UNCHANGED <<started, unkeyed, unnamed>>
    BY <1>3, <2>2, FailShape DEF CreateSession, Go, history
  <2>4. named' \in [Keys -> Nat] /\ sessions' \in [Keys \cup {NoKey} -> Nat]
    BY <1>3, <2>1 DEF CreateSession
  <2> QED BY <1>3, <2>3, <2>4 DEF CreateSession, mails
<1>4. ASSUME NEW q \in Requests, AttemptFails(q) PROVE TypeOK'
  BY <1>4, FailShape DEF AttemptFails, stripe, mails
<1>5. ASSUME NEW q \in Requests, Refused(q) \/ Rollback(q) PROVE TypeOK'
  BY <1>0, <1>5 DEF Refused, Rollback, Raise, Go, stripe, mails
<1>6. ASSUME NEW q \in Requests, StoreCustomer(q) PROVE TypeOK'
  <2>1. [pc |-> "session", key |-> checkout[q].key, attempt |-> 1,
         customer |-> checkout[q].customer, wrote |-> TRUE] \in Request
    BY <1>6, RequestShape, ConstantsAssumption DEF StoreCustomer, Request, Attempts
  <2> QED BY <1>6, <2>1 DEF StoreCustomer, Go, stripe, history, mails
<1>7. ASSUME NEW q \in Requests, Commit(q) PROVE TypeOK'
  BY <1>0, <1>7, RequestShape DEF Commit, Go, stripe, history, mails
<1>8. ASSUME NEW k \in Keys, KeyExpires(k) PROVE TypeOK'
  BY <1>8 DEF KeyExpires, history, mails
<1>9. ASSUME NEW m \in Mails, MailStep(m) PROVE TypeOK' /\ RunsLeft'
  <2>0. /\ mail[m].pc \in {"queued", "send", "done", "dead"}
        /\ mail[m].runs \in 0 .. MaxRetries + 1 /\ mail[m].attempt \in 0 .. MaxAttempts
    BY DEF Message
  <2>1. ASSUME NEW next \in Message, ToMail(m, next), sent' = sent \/ sent' = [sent EXCEPT ![m] = @ + 1],
               next.pc = "queued" => next.runs <= MaxRetries
        PROVE  TypeOK' /\ RunsLeft'
    BY <2>1 DEF ToMail, stripe, history, RunsLeft
  <2>2. CASE Handle(m)
    <3>1. [pc |-> "send", runs |-> mail[m].runs + 1, attempt |-> 1] \in Message
      BY <2>0, <2>2, ConstantsAssumption DEF Handle, RunsLeft, Message
    <3> QED BY <2>1, <2>2, <3>1 DEF Handle
  <2>3. CASE Deliver(m)
    <3>1. [mail[m] EXCEPT !.pc = "done"] \in Message /\ [mail[m] EXCEPT !.pc = "done"].pc = "done"
      BY DEF Message
    <3> QED BY <2>1, <2>3, <3>1 DEF Deliver
  <2>4. /\ Undelivered(mail[m]) \in Message
        /\ Undelivered(mail[m]).pc = "queued" => Undelivered(mail[m]).runs <= MaxRetries
    BY <2>0 DEF Undelivered, Message
  <2>5. CASE SendFails(m)
    <3>1. CASE Repeatable(mail[m])
      <4>1. Repeat(mail[m]) \in Message /\ Repeat(mail[m]).pc = "send"
        BY <2>0, <2>5, <3>1, ConstantsAssumption DEF SendFails, Repeatable, Repeat, Message
      <4> QED BY <2>1, <2>5, <3>1, <4>1 DEF SendFails
    <3>2. CASE ~Repeatable(mail[m])
      BY <2>1, <2>4, <2>5, <3>2 DEF SendFails
    <3> QED BY <3>1, <3>2
  <2>6. CASE SendRefused(m)
    BY <2>1, <2>4, <2>6 DEF SendRefused
  <2> QED BY <1>9, <2>2, <2>3, <2>5, <2>6 DEF MailStep
<1>10. CASE UNCHANGED vars
  BY <1>10 DEF vars, stripe, history, mails, RunsLeft
<1>11. UNCHANGED mail => RunsLeft'
  BY DEF RunsLeft
<1>12. UNCHANGED mail \/ \E m \in Mails : MailStep(m)
  BY DEF Next, RequestStep, StartCheckout, CreateCustomer, CreateSession, AttemptFails, Refused,
     StoreCustomer, Commit, Rollback, KeyExpires, vars, mails
<1>13. TypeOK'
  BY <1>1, <1>2, <1>3, <1>4, <1>5, <1>6, <1>7, <1>8, <1>9, <1>10 DEF Next, RequestStep
<1>14. RunsLeft'
  <2>1. CASE UNCHANGED mail
    BY <1>11, <2>1
  <2>2. CASE \E m \in Mails : MailStep(m)
    BY <1>9, <2>2
  <2> QED BY <1>12, <2>1, <2>2
<1> QED BY <1>13, <1>14

\* Every reachable state is well typed: no call is tried more than max_attempts times,
\* and no message run more than max_retries + 1 times.
THEOREM TypeCorrect == Spec => []TypeOK
<1>1. Init => TypeOK /\ RunsLeft
  <2> SUFFICES ASSUME Init PROVE TypeOK /\ RunsLeft
    OBVIOUS
  <2>1. [pc |-> "queued", runs |-> 0, attempt |-> 0] \in Message
    BY ConstantsAssumption DEF Message
  <2>2. Idle \in Request
    BY DEF Request
  <2>3. mail \in [Mails -> Message] /\ checkout \in [Requests -> Request]
    BY <2>1, <2>2 DEF Init
  <2>4. RunsLeft
    BY ConstantsAssumption DEF Init, RunsLeft
  <2>5. /\ named \in [Keys -> Nat] /\ expired \in [Keys -> Nat]
        /\ sessions \in [Keys \cup {NoKey} -> Nat] /\ sent \in [Mails -> Nat]
    BY DEF Init
  <2>6. /\ stripe_customer_id \in Nat /\ customers \in Nat
        /\ started \in Nat /\ unkeyed \in Nat /\ unnamed \in Nat
    <3>1. /\ customers \in {0, 1} /\ stripe_customer_id = customers
          /\ started = 0 /\ unkeyed = 0 /\ unnamed = 0
      BY DEF Init
    <3> QED BY <3>1
  <2>7. disturbed \in BOOLEAN
    BY DEF Init
  <2> QED BY <2>3, <2>4, <2>5, <2>6, <2>7 DEF TypeOK
<1> QED BY <1>1, TypeStep, PTL DEF Spec

-----------------------------------------------------------------------------
(* Idempotency keys                                                        *)

LEMMA SessionStep ==
    ASSUME TypeOK, OneSessionPerKey, [Next]_vars
    PROVE  OneSessionPerKey'
<1>1. ASSUME NEW q \in Requests, CreateSession(q) PROVE OneSessionPerKey'
  <2> DEFINE k == checkout[q].key
  <2>1. checkout[q].customer \in Nat \ {0} /\ k \in Keys \cup {NoKey}
    BY <1>1, RequestShape DEF CreateSession, TypeOK
  <2>2. ASSUME NEW j \in Keys, j # k
        PROVE  named'[j] = named[j] /\ sessions'[j] = sessions[j] /\ expired'[j] = expired[j]
    BY <1>1, <2>2 DEF CreateSession, TypeOK
  <2>3. ASSUME k \in Keys
        PROVE  /\ named'[k] # 0 /\ expired'[k] = expired[k]
               /\ sessions'[k] = IF named[k] # 0 THEN sessions[k] ELSE sessions[k] + 1
    BY <1>1, <2>1, <2>3 DEF CreateSession, TypeOK
  <2>4. ASSUME NEW j \in Keys
        PROVE  sessions'[j] <= expired'[j] + (IF named'[j] = 0 THEN 0 ELSE 1)
    BY <2>2, <2>3 DEF OneSessionPerKey, TypeOK
  <2> QED BY <2>4 DEF OneSessionPerKey
<1>2. ASSUME NEW k \in Keys, KeyExpires(k) PROVE OneSessionPerKey'
  BY <1>2 DEF KeyExpires, OneSessionPerKey, TypeOK
<1>3. CASE UNCHANGED <<named, sessions, expired>>
  BY <1>3 DEF OneSessionPerKey
<1>4. \/ UNCHANGED <<named, sessions, expired>>
      \/ \E q \in Requests : CreateSession(q)
      \/ \E k \in Keys : KeyExpires(k)
  BY DEF Next, RequestStep, MailStep, StartCheckout, CreateCustomer, AttemptFails, Refused,
     StoreCustomer, Commit, Rollback, Handle, Deliver, SendFails, SendRefused, ToMail, vars, stripe
<1> QED BY <1>1, <1>2, <1>3, <1>4

\* However often a checkout is repeated, by client or user, a key makes one session
\* until Stripe forgets it.
THEOREM OneSessionPerKeyCorrect == Spec => []OneSessionPerKey
<1>1. Init => OneSessionPerKey
  BY DEF Init, OneSessionPerKey
<1>2. TypeOK /\ OneSessionPerKey /\ [Next]_vars => OneSessionPerKey'
  BY SessionStep
<1> QED BY <1>1, <1>2, TypeCorrect, PTL DEF Spec

\* What holds while no checkout has failed and none overlapped: there is one at a
\* time, and the customer it names is the user's, or will be when it commits.
CustomerKnown(c) ==
    /\ c.pc \in {"customer", "store"} => stripe_customer_id = 0
    /\ c.pc \in {"session", "commit"} =>
         IF c.wrote THEN stripe_customer_id = 0 ELSE c.customer = stripe_customer_id

NamedBy(k) ==
    {0, stripe_customer_id}
    \cup {checkout[q].customer : q \in {r \in Requests : checkout[r].pc \in {"session", "commit"}}}

Undisturbed ==
    ~disturbed =>
        /\ \A q, p \in Requests : q # p => checkout[q] = Idle \/ checkout[p] = Idle
        /\ \A q \in Requests : CustomerKnown(checkout[q])
        /\ \A k \in Keys : named[k] \in NamedBy(k)

\* A checkout whose call fails leaves the checkouts disturbed, or goes on with it.
LEMMA UndisturbedStep ==
    ASSUME TypeOK, TypeOK', Undisturbed, [Next]_vars
    PROVE  Undisturbed'
<1> SUFFICES ASSUME ~disturbed' PROVE Undisturbed'
  BY DEF Undisturbed
<1> DEFINE One == \A q, p \in Requests : q # p => checkout[q] = Idle \/ checkout[p] = Idle
<1>0. disturbed => disturbed'
  BY DEF Next, RequestStep, MailStep, StartCheckout, CreateCustomer, CreateSession, AttemptFails,
     Refused, StoreCustomer, Commit, Rollback, KeyExpires, Handle, Deliver, SendFails, SendRefused,
     ToMail, Fail, Raise, vars, history
<1>1. /\ One
      /\ \A q \in Requests : CustomerKnown(checkout[q])
      /\ \A k \in Keys : named[k] \in NamedBy(k)
  BY <1>0 DEF Undisturbed
\* One checkout goes on: the others are idle, and the customers named are kept.
<1>2. ASSUME NEW q \in Requests, NEW next \in Request, Go(q, next),
             UNCHANGED stripe_customer_id,
             CustomerKnown(next),
             next.pc \in {"customer", "store", "session", "commit"},
             checkout[q] # Idle \/ \A p \in Requests : checkout[p] = Idle,
             checkout[q].pc \in {"session", "commit"} =>
                next.pc \in {"session", "commit"} /\ next.customer = checkout[q].customer,
             \A k \in Keys : \/ named'[k] = named[k]
                             \/ next.pc \in {"session", "commit"} /\ named'[k] = next.customer
      PROVE  Undisturbed'
  <2>1. checkout'[q] = next /\ \A p \in Requests \ {q} : checkout'[p] = checkout[p]
    BY <1>2 DEF Go, TypeOK
  <2>2. \A p \in Requests \ {q} : checkout'[p] = Idle
    BY <1>1, <1>2, <2>1
  <2>3. One'
    BY <2>2
  <2>4. ASSUME NEW p \in Requests PROVE CustomerKnown(checkout[p])'
    BY <1>2, <2>1, <2>2 DEF CustomerKnown
  <2>5. ASSUME NEW k \in Keys PROVE named'[k] \in NamedBy(k)'
    <3>1. CASE next.pc \in {"session", "commit"} /\ named'[k] = next.customer
      BY <2>1, <3>1 DEF NamedBy
    <3>2. CASE named'[k] = named[k]
      <4>1. CASE named[k] \in {0, stripe_customer_id}
        BY <1>2, <3>2, <4>1 DEF NamedBy
      <4>2. CASE named[k] \notin {0, stripe_customer_id}
        <5>1. PICK p \in Requests : /\ checkout[p].pc \in {"session", "commit"}
                                    /\ named[k] = checkout[p].customer
          BY <1>1, <4>2 DEF NamedBy
        <5>2. p = q
          BY <1>1, <1>2, <5>1
        <5> QED BY <1>2, <2>1, <3>2, <5>1, <5>2 DEF NamedBy
      <4> QED BY <4>1, <4>2
    <3> QED BY <1>2, <3>1, <3>2
  <2> QED BY <2>3, <2>4, <2>5 DEF Undisturbed
\* A call that fails is repeated, for the checkouts are not disturbed.
<1>3. ASSUME NEW q \in Requests, checkout[q].pc \in {"customer", "session"}, Fail(q)
      PROVE  Go(q, Repeat(checkout[q])) /\ Repeatable(checkout[q])
  BY <1>3, FailShape DEF Go
<1>4. ASSUME NEW q \in Requests, checkout[q].pc \in {"customer", "session"}, Fail(q),
             UNCHANGED stripe_customer_id,
             \A k \in Keys : \/ named'[k] = named[k]
                             \/ checkout[q].pc = "session" /\ named'[k] = checkout[q].customer
      PROVE  Undisturbed'
  <2>1. /\ Repeat(checkout[q]) \in Request
        /\ Repeat(checkout[q]).pc = checkout[q].pc
        /\ checkout[q].pc = "session" =>
             /\ Repeat(checkout[q]).customer = checkout[q].customer
             /\ Repeat(checkout[q]).wrote = checkout[q].wrote
    BY <1>3, <1>4, RepeatShape DEF TypeOK
  <2>2. CustomerKnown(Repeat(checkout[q]))
    BY <1>1, <1>4, <2>1 DEF CustomerKnown
  <2>3. checkout[q] # Idle
    BY <1>4
  <2> QED BY <1>2, <1>3, <1>4, <2>1, <2>2, <2>3
<1>5. ASSUME NEW q \in Requests, NEW k \in Keys \cup {NoKey}, StartCheckout(q, k) PROVE Undisturbed'
  <2>1. \A p \in Requests : checkout[p] = Idle
    BY <1>5 DEF StartCheckout, Overlapping
  <2>2. 1 \in Attempts
    BY ConstantsAssumption DEF Attempts
  <2>3. CASE stripe_customer_id = 0
    <3> DEFINE next == [pc |-> "customer", key |-> k, attempt |-> 1]
    <3>1. next \in Request /\ CustomerKnown(next)
      BY <2>2, <2>3 DEF Request, CustomerKnown
    <3>2. Go(q, next) /\ UNCHANGED <<stripe_customer_id, named>>
      BY <1>5, <2>3 DEF StartCheckout, stripe
    <3> QED BY <1>2, <2>1, <3>1, <3>2
  <2>4. CASE stripe_customer_id # 0
    <3> DEFINE next == [pc |-> "session", key |-> k, attempt |-> 1,
                        customer |-> stripe_customer_id, wrote |-> FALSE]
    <3>1. next \in Request /\ CustomerKnown(next)
      BY <2>2, <2>4 DEF Request, CustomerKnown, TypeOK
    <3>2. Go(q, next) /\ UNCHANGED <<stripe_customer_id, named>>
      BY <1>5, <2>4 DEF StartCheckout, stripe
    <3> QED BY <1>2, <2>1, <3>1, <3>2
  <2> QED BY <2>3, <2>4
<1>6. ASSUME NEW q \in Requests, CreateCustomer(q) PROVE Undisturbed'
  <2>1. CASE Fail(q)
    BY <1>4, <1>6, <2>1 DEF CreateCustomer
  <2>2. CASE ~Fail(q)
    <3> DEFINE next == [pc |-> "store", key |-> checkout[q].key, customer |-> customers']
    <3>1. /\ Go(q, next) /\ UNCHANGED <<stripe_customer_id, named>> /\ checkout[q].pc = "customer"
      BY <1>6, <2>2 DEF CreateCustomer
    <3>2. next \in Request
      BY <1>6, RequestShape DEF CreateCustomer, Request, TypeOK
    <3>3. CustomerKnown(next)
      BY <1>1, <3>1 DEF CustomerKnown
    <3> QED BY <1>2, <3>1, <3>2, <3>3
  <2> QED BY <2>1, <2>2
<1>7. ASSUME NEW q \in Requests, CreateSession(q) PROVE Undisturbed'
  <2>1. /\ \A k \in Keys : named'[k] = named[k] \/ named'[k] = checkout[q].customer
        /\ checkout[q].pc = "session" /\ UNCHANGED stripe_customer_id
    BY <1>7 DEF CreateSession
  <2>2. CASE Fail(q)
    BY <1>4, <2>1, <2>2
  <2>3. CASE ~Fail(q)
    <3> DEFINE next == [pc |-> "commit", key |-> checkout[q].key, customer |-> checkout[q].customer,
                        wrote |-> checkout[q].wrote]
    <3>1. Go(q, next)
      BY <1>7, <2>3 DEF CreateSession
    <3>2. next \in Request
      BY <2>1, RequestShape DEF Request, TypeOK
    <3>3. CustomerKnown(next)
      BY <1>1, <2>1 DEF CustomerKnown
    <3> QED BY <1>2, <2>1, <3>1, <3>2, <3>3
  <2> QED BY <2>2, <2>3
<1>8. ASSUME NEW q \in Requests, AttemptFails(q) PROVE Undisturbed'
  BY <1>4, <1>8 DEF AttemptFails, stripe
<1>9. ASSUME NEW q \in Requests, StoreCustomer(q) PROVE Undisturbed'
  <2> DEFINE next == [pc |-> "session", key |-> checkout[q].key, attempt |-> 1,
                      customer |-> checkout[q].customer, wrote |-> TRUE]
  <2>1. /\ Go(q, next) /\ UNCHANGED <<stripe_customer_id, named>> /\ checkout[q].pc = "store"
    BY <1>9 DEF StoreCustomer, stripe
  <2>2. next \in Request
    BY <2>1, RequestShape, ConstantsAssumption DEF Request, Attempts, TypeOK
  <2>3. CustomerKnown(next)
    BY <1>1, <2>1 DEF CustomerKnown
  <2> QED BY <1>2, <2>1, <2>2, <2>3
<1>10. ASSUME NEW q \in Requests, Commit(q) PROVE Undisturbed'
  <2>1. /\ checkout[q].pc = "commit" /\ checkout'[q] = Idle
        /\ \A p \in Requests \ {q} : checkout[p] = Idle /\ checkout'[p] = Idle
        /\ UNCHANGED named
    BY <1>1, <1>10 DEF Commit, Go, stripe, TypeOK
  <2>2. stripe_customer_id' = checkout[q].customer /\ stripe_customer_id \in {0, stripe_customer_id'}
    BY <1>1, <1>10, <2>1 DEF Commit, CustomerKnown
  <2>3. \A k \in Keys : named[k] \in {0, stripe_customer_id'}
    BY <1>1, <2>1, <2>2 DEF NamedBy
  <2>4. \A p \in Requests : checkout'[p] = Idle
    BY <2>1
  <2>5. \A p \in Requests : CustomerKnown(checkout[p])'
    BY <2>4 DEF CustomerKnown
  <2>6. \A k \in Keys : named'[k] \in NamedBy(k)'
    BY <2>1, <2>3 DEF NamedBy
  <2> QED BY <2>4, <2>5, <2>6 DEF Undisturbed
<1>11. ASSUME NEW q \in Requests, Refused(q) \/ Rollback(q) PROVE FALSE
  BY <1>11 DEF Refused, Rollback, Raise
<1>12. ASSUME UNCHANGED <<stripe_customer_id, checkout>>,
              \A k \in Keys : named'[k] \in {0, named[k]}
       PROVE  Undisturbed'
  BY <1>1, <1>12 DEF Undisturbed, CustomerKnown, NamedBy
<1>13. ASSUME NEW k \in Keys, KeyExpires(k) PROVE Undisturbed'
  BY <1>12, <1>13 DEF KeyExpires, TypeOK
<1>14. ASSUME NEW m \in Mails, MailStep(m) PROVE Undisturbed'
  BY <1>12, <1>14 DEF MailStep, Handle, Deliver, SendFails, SendRefused, ToMail, stripe
<1>15. CASE UNCHANGED vars
  BY <1>12, <1>15 DEF vars, stripe
<1> QED
  BY <1>5, <1>6, <1>7, <1>8, <1>9, <1>10, <1>11, <1>13, <1>14, <1>15 DEF Next, RequestStep

\* As long as no checkout has failed and none overlapped, a key names the user's
\* customer.
THEOREM KeysUsableCorrect == Spec => []KeysUsable
<1>1. Init => Undisturbed
  BY DEF Init, Undisturbed, CustomerKnown, NamedBy
<1>2. TypeOK /\ TypeOK' /\ Undisturbed /\ [Next]_vars => Undisturbed'
  BY UndisturbedStep
<1>3. Undisturbed => KeysUsable
  BY DEF Undisturbed, KeysUsable, NamedBy, Overlapping
<1> QED BY <1>1, <1>2, <1>3, TypeCorrect, PTL DEF Spec

-----------------------------------------------------------------------------
(* Calls without a key.  What may still take effect is a set of pairs of a *)
(* checkout and an attempt; each effect takes one pair away, and only a    *)
(* checkout that starts brings new ones: MaxAttempts of them.              *)

\* The attempts left to create a customer.
CustomerCalls ==
    {p \in Requests \X Attempts :
        checkout[p[1]].pc = "customer" /\ checkout[p[1]].attempt <= p[2]}

\* The attempts that can still create a session without a key.
KeylessCalls ==
    {p \in Requests \X Attempts :
        /\ checkout[p[1]].pc \in {"customer", "store", "session"}
        /\ checkout[p[1]].key = NoKey
        /\ checkout[p[1]].pc = "session" => checkout[p[1]].attempt <= p[2]}

\* What a step of a checkout makes of it.
LEMMA CheckoutMoved ==
    ASSUME TypeOK, NEW q \in Requests, RequestStep(q) \/ Rollback(q)
    PROVE  LET c == checkout[q]
               d == checkout'[q]
           IN  /\ \A p \in Requests \ {q} : checkout'[p] = checkout[p]
               /\ \/ d = Idle
                  \/ /\ c.pc \in {"customer", "session"} /\ d.pc = c.pc /\ d.key = c.key
                     /\ d.attempt = c.attempt + 1
                     /\ d.pc = "session" => d.wrote = c.wrote
                  \/ c.pc = "customer" /\ d.pc = "store" /\ d.key = c.key
                  \/ /\ c.pc = "store" /\ d.pc = "session" /\ d.key = c.key
                     /\ d.attempt = 1
                  \/ c.pc = "session" /\ d.pc = "commit" /\ d.wrote = c.wrote
<1> DEFINE c == checkout[q]
           d == checkout'[q]
<1>0. c \in Request
  BY DEF TypeOK
<1>1. ASSUME NEW next, Go(q, next)
      PROVE  d = next /\ \A p \in Requests \ {q} : checkout'[p] = checkout[p]
  BY <1>1 DEF Go, TypeOK
<1>2. ASSUME c.pc \in {"customer", "session"}, Fail(q)
      PROVE  \/ Go(q, Idle)
             \/ /\ Go(q, Repeat(c))
                /\ Repeat(c).pc = c.pc /\ Repeat(c).key = c.key
                /\ Repeat(c).attempt = c.attempt + 1
                /\ c.pc = "session" => Repeat(c).wrote = c.wrote
  <2>1. CASE Repeatable(c)
    BY <1>0, <1>2, <2>1, RepeatShape DEF Fail
  <2>2. CASE ~Repeatable(c)
    BY <1>2, <2>2 DEF Fail, Raise
  <2> QED BY <2>1, <2>2
<1>3. CASE CreateCustomer(q)
  <2>1. c.pc = "customer" /\ (Fail(q) \/ Go(q, [pc |-> "store", key |-> c.key, customer |-> customers']))
    BY <1>3 DEF CreateCustomer
  <2> QED BY <1>1, <1>2, <2>1
<1>4. CASE CreateSession(q)
  <2>1. /\ c.pc = "session"
        /\ \/ Fail(q)
           \/ Go(q, [pc |-> "commit", key |-> c.key, customer |-> c.customer, wrote |-> c.wrote])
    BY <1>4 DEF CreateSession
  <2> QED BY <1>1, <1>2, <2>1
<1>5. CASE AttemptFails(q)
  BY <1>1, <1>2, <1>5 DEF AttemptFails
<1>6. CASE Refused(q) \/ Commit(q) \/ Rollback(q)
  BY <1>1, <1>6 DEF Refused, Commit, Rollback, Raise
<1>7. CASE StoreCustomer(q)
  <2>1. /\ c.pc = "store"
        /\ Go(q, [pc |-> "session", key |-> c.key, attempt |-> 1,
                  customer |-> c.customer, wrote |-> TRUE])
    BY <1>7 DEF StoreCustomer
  <2> QED BY <1>1, <2>1
<1> QED BY <1>3, <1>4, <1>5, <1>6, <1>7 DEF RequestStep

\* A step of a checkout adds no call, and takes away the one it makes.
LEMMA CallsKept ==
    ASSUME TypeOK, NEW q \in Requests, RequestStep(q) \/ Rollback(q)
    PROVE  /\ CustomerCalls' \subseteq CustomerCalls
           /\ KeylessCalls' \subseteq KeylessCalls
           /\ checkout[q].pc = "customer" =>
                /\ <<q, checkout[q].attempt>> \in CustomerCalls
                /\ CustomerCalls' \subseteq CustomerCalls \ {<<q, checkout[q].attempt>>}
           /\ checkout[q].pc = "session" /\ checkout[q].key = NoKey =>
                /\ <<q, checkout[q].attempt>> \in KeylessCalls
                /\ KeylessCalls' \subseteq KeylessCalls \ {<<q, checkout[q].attempt>>}
<1> DEFINE c == checkout[q]
           d == checkout'[q]
<1>1. PICK a : a = c.attempt
  OBVIOUS
<1>2. /\ \A p \in Requests \ {q} : checkout'[p] = checkout[p]
      /\ \/ d = Idle
         \/ /\ c.pc \in {"customer", "session"} /\ d.pc = c.pc /\ d.key = c.key
            /\ d.attempt = c.attempt + 1
         \/ c.pc = "customer" /\ d.pc = "store" /\ d.key = c.key
         \/ c.pc = "store" /\ d.pc = "session" /\ d.key = c.key
         \/ d.pc = "commit"
  BY CheckoutMoved
<1>3. c.pc \in {"customer", "session"} => a \in Attempts /\ a \in Nat
  BY <1>1, RequestShape, ConstantsAssumption DEF TypeOK, Attempts
<1>4. \A i \in Attempts : i \in Nat
  BY ConstantsAssumption DEF Attempts
<1>5. ASSUME NEW i \in Attempts
      PROVE  /\ <<q, i>> \in CustomerCalls' => /\ <<q, i>> \in CustomerCalls
                                               /\ i # a
             /\ <<q, i>> \in KeylessCalls' => /\ <<q, i>> \in KeylessCalls
                                              /\ c.pc = "session" => i # a
  BY <1>1, <1>2, <1>3, <1>4 DEF CustomerCalls, KeylessCalls
<1>6. ASSUME NEW p \in Requests \ {q}, NEW i \in Attempts
      PROVE  /\ <<p, i>> \in CustomerCalls' <=> <<p, i>> \in CustomerCalls
             /\ <<p, i>> \in KeylessCalls' <=> <<p, i>> \in KeylessCalls
  BY <1>2 DEF CustomerCalls, KeylessCalls
<1>7. /\ CustomerCalls \subseteq Requests \X Attempts /\ CustomerCalls' \subseteq Requests \X Attempts
      /\ KeylessCalls \subseteq Requests \X Attempts /\ KeylessCalls' \subseteq Requests \X Attempts
  BY DEF CustomerCalls, KeylessCalls
<1>8. CustomerCalls' \subseteq CustomerCalls /\ KeylessCalls' \subseteq KeylessCalls
  BY <1>5, <1>6, <1>7
<1>9. ASSUME c.pc = "customer"
      PROVE  <<q, a>> \in CustomerCalls /\ <<q, a>> \notin CustomerCalls'
  BY <1>1, <1>3, <1>5, <1>9 DEF CustomerCalls
<1>10. ASSUME c.pc = "session", c.key = NoKey
       PROVE  <<q, a>> \in KeylessCalls /\ <<q, a>> \notin KeylessCalls'
  BY <1>1, <1>3, <1>5, <1>10 DEF KeylessCalls
<1> QED BY <1>1, <1>8, <1>9, <1>10

\* A checkout that starts without a customer, or without a key, brings MaxAttempts calls.
LEMMA CallsStarted ==
    ASSUME TypeOK, NEW q \in Requests, NEW k \in Keys \cup {NoKey}, StartCheckout(q, k)
    PROVE  /\ CustomerCalls' \subseteq
                IF stripe_customer_id = 0 THEN CustomerCalls \cup ({q} \X Attempts) ELSE CustomerCalls
           /\ KeylessCalls' \subseteq
                IF k = NoKey THEN KeylessCalls \cup ({q} \X Attempts) ELSE KeylessCalls
<1>1. /\ \A p \in Requests \ {q} : checkout'[p] = checkout[p]
      /\ checkout'[q].key = k
      /\ stripe_customer_id # 0 => checkout'[q].pc = "session"
  BY DEF StartCheckout, Go, TypeOK
<1>2. ASSUME NEW p \in Requests \ {q}, NEW i \in Attempts
      PROVE  /\ <<p, i>> \in CustomerCalls' <=> <<p, i>> \in CustomerCalls
             /\ <<p, i>> \in KeylessCalls' <=> <<p, i>> \in KeylessCalls
  BY <1>1 DEF CustomerCalls, KeylessCalls
<1>3. ASSUME NEW i \in Attempts
      PROVE  /\ <<q, i>> \in CustomerCalls' => stripe_customer_id = 0
             /\ <<q, i>> \in KeylessCalls' => k = NoKey
  BY <1>1 DEF CustomerCalls, KeylessCalls
<1>4. CustomerCalls' \subseteq Requests \X Attempts /\ KeylessCalls' \subseteq Requests \X Attempts
  BY DEF CustomerCalls, KeylessCalls
<1> QED BY <1>2, <1>3, <1>4

LEMMA CountLess ==
    ASSUME NEW S, IsFiniteSet(S), NEW T, T \subseteq S
    PROVE  /\ IsFiniteSet(T)
           /\ Cardinality(S) \in Nat /\ Cardinality(T) \in Nat /\ Cardinality(T) <= Cardinality(S)
           /\ \A x \in S : T \subseteq S \ {x} => Cardinality(T) + 1 <= Cardinality(S)
<1>1. /\ IsFiniteSet(T) /\ Cardinality(S) \in Nat /\ Cardinality(T) \in Nat
      /\ Cardinality(T) <= Cardinality(S)
  BY FS_Subset, FS_CardinalityType
<1>2. ASSUME NEW x \in S, T \subseteq S \ {x} PROVE Cardinality(T) + 1 <= Cardinality(S)
  <2>1. IsFiniteSet(S \ {x}) /\ Cardinality(S \ {x}) = Cardinality(S) - 1
    BY FS_RemoveElement
  <2>2. Cardinality(T) <= Cardinality(S \ {x})
    BY <1>2, <2>1, FS_Subset
  <2> QED BY <1>1, <2>1, <2>2
<1> QED BY <1>1, <1>2

LEMMA CountMore ==
    ASSUME NEW S, IsFiniteSet(S), NEW q, NEW T, T \subseteq S \cup ({q} \X Attempts)
    PROVE  /\ IsFiniteSet(T)
           /\ Cardinality(S) \in Nat /\ Cardinality(T) \in Nat
           /\ Cardinality(T) <= Cardinality(S) + MaxAttempts
<1> DEFINE A == {q} \X Attempts
<1>1. IsFiniteSet(Attempts) /\ Cardinality(Attempts) = MaxAttempts
  BY FS_Interval, ConstantsAssumption DEF Attempts
<1>2. IsFiniteSet({q}) /\ Cardinality({q}) = 1
  BY FS_Singleton
<1>3. IsFiniteSet(A) /\ Cardinality(A) = 1 * MaxAttempts
  BY <1>1, <1>2, FS_Product
<1>4. /\ IsFiniteSet(S \cup A)
      /\ Cardinality(S \cup A) = Cardinality(S) + Cardinality(A) - Cardinality(S \cap A)
  BY <1>3, FS_Union
<1>5. IsFiniteSet(S \cap A) /\ Cardinality(S \cap A) \in Nat /\ Cardinality(S) \in Nat
  <2>1. IsFiniteSet(S \cap A)
    BY FS_Subset
  <2> QED BY <2>1, FS_CardinalityType
<1>6. IsFiniteSet(T) /\ Cardinality(T) <= Cardinality(S \cup A) /\ Cardinality(T) \in Nat
  BY <1>4, FS_Subset, FS_CardinalityType
<1> QED BY <1>3, <1>4, <1>5, <1>6, ConstantsAssumption

\* What a step of a checkout does at Stripe and to the user.
LEMMA CheckoutEffect ==
    ASSUME TypeOK, NEW q \in Requests, RequestStep(q) \/ Rollback(q)
    PROVE  /\ UNCHANGED <<unkeyed, unnamed, mail, sent>>
           /\ \/ customers' = customers
              \/ checkout[q].pc = "customer" /\ customers' = customers + 1
           /\ \/ sessions'[NoKey] = sessions[NoKey]
              \/ /\ checkout[q].pc = "session" /\ checkout[q].key = NoKey
                 /\ sessions'[NoKey] = sessions[NoKey] + 1
           /\ \/ stripe_customer_id' = stripe_customer_id
              \/ checkout[q].pc = "commit" /\ checkout[q].wrote
<1>1. CASE CreateCustomer(q)
  <2>1. checkout[q].pc = "customer" /\ UNCHANGED <<unkeyed, unnamed>>
    BY <1>1, FailShape DEF CreateCustomer, history
  <2> QED BY <1>1, <2>1 DEF CreateCustomer, mails
<1>2. CASE CreateSession(q)
  <2>1. checkout[q].pc = "session" /\ UNCHANGED <<unkeyed, unnamed>>
    BY <1>2, FailShape DEF CreateSession, history
  <2>2. sessions'[NoKey] = IF checkout[q].key = NoKey THEN sessions[NoKey] + 1 ELSE sessions[NoKey]
    BY <1>2, ConstantsAssumption DEF CreateSession, TypeOK
  <2> QED BY <1>2, <2>1, <2>2 DEF CreateSession, mails
<1>3. CASE AttemptFails(q)
  <2>1. UNCHANGED <<unkeyed, unnamed>>
    BY <1>3, FailShape DEF AttemptFails
  <2> QED BY <1>3, <2>1 DEF AttemptFails, stripe, mails
<1>4. CASE Refused(q) \/ Rollback(q)
  BY <1>4 DEF Refused, Rollback, Raise, stripe, mails
<1>5. CASE StoreCustomer(q) \/ Commit(q)
  BY <1>5 DEF StoreCustomer, Commit, stripe, history, mails
<1> QED BY <1>1, <1>2, <1>3, <1>4, <1>5 DEF RequestStep

\* The user's customer is the one from the signing up, or there is none.
NoneCreated ==
    /\ stripe_customer_id = customers /\ customers <= 1
    /\ \A q \in Requests : /\ checkout[q].pc \notin {"customer", "store"}
                           /\ checkout[q].pc \in {"session", "commit"} => ~checkout[q].wrote

CustomersAccounted ==
    /\ IsFiniteSet(CustomerCalls)
    /\ IF unnamed = 0 THEN NoneCreated
       ELSE customers + Cardinality(CustomerCalls) <= MaxAttempts * unnamed

SessionsAccounted ==
    /\ IsFiniteSet(KeylessCalls)
    /\ sessions[NoKey] + Cardinality(KeylessCalls) <= MaxAttempts * unkeyed

\* A checkout may start, or step; the other steps leave the accounts alone.
LEMMA AccountStep ==
    ASSUME TypeOK, [Next]_vars
    PROVE  \/ \E q \in Requests, k \in Keys \cup {NoKey} : StartCheckout(q, k)
           \/ \E q \in Requests : RequestStep(q) \/ Rollback(q)
           \/ UNCHANGED <<stripe_customer_id, customers, sessions, checkout, unkeyed, unnamed>>
  BY DEF Next, MailStep, KeyExpires, Handle, Deliver, SendFails, SendRefused, ToMail, vars,
     stripe, history

\* One more checkout of MaxAttempts calls.
LEMMA AccountMore ==
    ASSUME NEW m \in Nat, NEW n \in Nat, NEW u \in Nat, NEW v \in Nat,
           m + u <= MaxAttempts * n, v <= u + MaxAttempts
    PROVE  m + v <= MaxAttempts * (n + 1)
<1>1. MaxAttempts * (n + 1) = MaxAttempts * n + MaxAttempts
  BY ConstantsAssumption
<1>2. MaxAttempts * n \in Nat /\ MaxAttempts \in Nat
  BY ConstantsAssumption
<1>3. PICK x \in Nat : x = MaxAttempts * n
  BY <1>2
<1>4. m + v <= x + MaxAttempts
  BY <1>2, <1>3
<1> QED BY <1>1, <1>3, <1>4

\* A call that takes effect, or does not.
LEMMA AccountSame ==
    ASSUME NEW m \in Nat, NEW n \in Nat, NEW u \in Nat, NEW v \in Nat, NEW l \in Nat,
           m + u <= MaxAttempts * n,
           \/ l = m /\ v <= u
           \/ l = m + 1 /\ v + 1 <= u
    PROVE  l + v <= MaxAttempts * n
<1>1. MaxAttempts * n \in Nat
  BY ConstantsAssumption
<1>2. PICK x \in Nat : x = MaxAttempts * n
  BY <1>1
<1>3. l + v <= x
  BY <1>2
<1> QED BY <1>2, <1>3

LEMMA CustomersAccountedStep ==
    ASSUME TypeOK, TypeOK', CustomersAccounted, [Next]_vars
    PROVE  CustomersAccounted'
<1>0. /\ customers \in Nat /\ customers' \in Nat /\ unnamed \in Nat /\ unnamed' \in Nat
      /\ IsFiniteSet(CustomerCalls) /\ Cardinality(CustomerCalls) \in Nat
  BY FS_CardinalityType DEF TypeOK, CustomersAccounted
<1>1. ASSUME NEW q \in Requests, NEW k \in Keys \cup {NoKey}, StartCheckout(q, k)
      PROVE  CustomersAccounted'
  <2>1. CASE stripe_customer_id = 0
    <3>1. CustomerCalls' \subseteq CustomerCalls \cup ({q} \X Attempts)
      BY <1>1, <2>1, CallsStarted
    <3>2. /\ IsFiniteSet(CustomerCalls') /\ Cardinality(CustomerCalls') \in Nat
          /\ Cardinality(CustomerCalls') <= Cardinality(CustomerCalls) + MaxAttempts
      BY <1>0, <3>1, CountMore
    <3>3. customers + Cardinality(CustomerCalls) <= MaxAttempts * unnamed
      <4>1. CASE unnamed = 0
        <5>1. CustomerCalls = {}
          BY <4>1 DEF CustomersAccounted, NoneCreated, CustomerCalls
        <5>2. Cardinality(CustomerCalls) = 0
          BY <5>1, FS_EmptySet
        <5>3. customers = 0
          BY <2>1, <4>1 DEF CustomersAccounted, NoneCreated
        <5> QED BY <4>1, <5>2, <5>3, ConstantsAssumption
      <4>2. CASE unnamed # 0
        BY <4>2 DEF CustomersAccounted
      <4> QED BY <4>1, <4>2
    <3>4. unnamed' = unnamed + 1 /\ customers' = customers
      BY <1>1, <2>1 DEF StartCheckout, stripe
    <3>5. customers + Cardinality(CustomerCalls') <= MaxAttempts * (unnamed + 1)
      BY <1>0, <3>2, <3>3, AccountMore
    <3>6. unnamed' # 0
      BY <1>0, <3>4
    <3> QED BY <3>2, <3>4, <3>5, <3>6 DEF CustomersAccounted
  <2>2. CASE stripe_customer_id # 0
    <3>1. CustomerCalls' \subseteq CustomerCalls
      BY <1>1, <2>2, CallsStarted
    <3>2. /\ IsFiniteSet(CustomerCalls') /\ Cardinality(CustomerCalls') \in Nat
          /\ Cardinality(CustomerCalls') <= Cardinality(CustomerCalls)
      BY <1>0, <3>1, CountLess
    <3>3. UNCHANGED <<unnamed, customers, stripe_customer_id>>
      BY <1>1, <2>2 DEF StartCheckout, stripe
    <3>4. /\ \A p \in Requests \ {q} : checkout'[p] = checkout[p]
          /\ checkout'[q].pc = "session" /\ ~checkout'[q].wrote
      BY <1>1, <2>2 DEF StartCheckout, Go, TypeOK
    <3>5. ASSUME unnamed = 0 PROVE NoneCreated'
      BY <3>3, <3>4, <3>5 DEF CustomersAccounted, NoneCreated
    <3>6. ASSUME unnamed # 0 PROVE customers + Cardinality(CustomerCalls') <= MaxAttempts * unnamed
      <4>1. customers + Cardinality(CustomerCalls) <= MaxAttempts * unnamed
        BY <3>6 DEF CustomersAccounted
      <4>2. customers = customers /\ Cardinality(CustomerCalls') <= Cardinality(CustomerCalls)
        BY <3>2
      <4> QED BY <1>0, <3>2, <4>1, <4>2, AccountSame, Zenon
    <3> QED BY <3>2, <3>3, <3>5, <3>6 DEF CustomersAccounted
  <2> QED BY <2>1, <2>2
<1>2. ASSUME NEW q \in Requests, RequestStep(q) \/ Rollback(q)
      PROVE  CustomersAccounted'
  <2>1. CustomerCalls' \subseteq CustomerCalls /\ UNCHANGED unnamed
    BY <1>2, CallsKept, CheckoutEffect
  <2>2. /\ IsFiniteSet(CustomerCalls') /\ Cardinality(CustomerCalls') \in Nat
        /\ Cardinality(CustomerCalls') <= Cardinality(CustomerCalls)
    BY <1>0, <2>1, CountLess
  <2>3. CASE unnamed = 0
    <3>1. NoneCreated
      BY <2>3 DEF CustomersAccounted
    <3>2. UNCHANGED <<customers, stripe_customer_id>>
      BY <1>2, <3>1, CheckoutEffect DEF NoneCreated
    <3>3. NoneCreated'
      BY <1>2, <3>1, <3>2, CheckoutMoved DEF NoneCreated
    <3> QED BY <2>1, <2>2, <2>3, <3>3 DEF CustomersAccounted
  <2>4. CASE unnamed # 0
    <3>1. customers + Cardinality(CustomerCalls) <= MaxAttempts * unnamed
      BY <2>4 DEF CustomersAccounted
    <3>2. \/ customers' = customers /\ Cardinality(CustomerCalls') <= Cardinality(CustomerCalls)
          \/ customers' = customers + 1 /\ Cardinality(CustomerCalls') + 1 <= Cardinality(CustomerCalls)
      <4>1. CASE customers' = customers
        BY <2>2, <4>1
      <4>2. CASE customers' # customers
        <5>1. checkout[q].pc = "customer" /\ customers' = customers + 1
          BY <1>2, <4>2, CheckoutEffect
        <5>2. \E x \in CustomerCalls : CustomerCalls' \subseteq CustomerCalls \ {x}
          BY <1>2, <5>1, CallsKept
        <5> QED BY <1>0, <2>1, <5>1, <5>2, CountLess
      <4> QED BY <4>1, <4>2
    <3>3. customers' + Cardinality(CustomerCalls') <= MaxAttempts * unnamed
      BY <1>0, <2>2, <3>1, <3>2, AccountSame, Zenon
    <3> QED BY <2>1, <2>2, <2>4, <3>3 DEF CustomersAccounted
  <2> QED BY <2>3, <2>4
<1>3. CASE UNCHANGED <<stripe_customer_id, customers, sessions, checkout, unkeyed, unnamed>>
  BY <1>3 DEF CustomersAccounted, NoneCreated, CustomerCalls
<1> QED BY <1>1, <1>2, <1>3, AccountStep

LEMMA SessionsAccountedStep ==
    ASSUME TypeOK, TypeOK', SessionsAccounted, [Next]_vars
    PROVE  SessionsAccounted'
<1>0. /\ sessions[NoKey] \in Nat /\ sessions'[NoKey] \in Nat /\ unkeyed \in Nat
      /\ IsFiniteSet(KeylessCalls) /\ Cardinality(KeylessCalls) \in Nat
      /\ sessions[NoKey] + Cardinality(KeylessCalls) <= MaxAttempts * unkeyed
  BY FS_CardinalityType DEF TypeOK, SessionsAccounted
<1>1. ASSUME NEW q \in Requests, NEW k \in Keys \cup {NoKey}, StartCheckout(q, k)
      PROVE  SessionsAccounted'
  <2>0. sessions' = sessions
    BY <1>1 DEF StartCheckout, stripe
  <2>1. CASE k = NoKey
    <3>1. KeylessCalls' \subseteq KeylessCalls \cup ({q} \X Attempts)
      BY <1>1, <2>1, CallsStarted
    <3>2. /\ IsFiniteSet(KeylessCalls') /\ Cardinality(KeylessCalls') \in Nat
          /\ Cardinality(KeylessCalls') <= Cardinality(KeylessCalls) + MaxAttempts
      BY <1>0, <3>1, CountMore
    <3>3. unkeyed' = unkeyed + 1
      BY <1>1, <2>1 DEF StartCheckout
    <3>4. sessions[NoKey] + Cardinality(KeylessCalls') <= MaxAttempts * (unkeyed + 1)
      BY <1>0, <3>2, AccountMore
    <3> QED BY <2>0, <3>2, <3>3, <3>4 DEF SessionsAccounted
  <2>2. CASE k # NoKey
    <3>1. KeylessCalls' \subseteq KeylessCalls
      BY <1>1, <2>2, CallsStarted
    <3>2. /\ IsFiniteSet(KeylessCalls') /\ Cardinality(KeylessCalls') \in Nat
          /\ Cardinality(KeylessCalls') <= Cardinality(KeylessCalls)
      BY <1>0, <3>1, CountLess
    <3>3. unkeyed' = unkeyed
      BY <1>1, <2>2 DEF StartCheckout
    <3>4. sessions[NoKey] + Cardinality(KeylessCalls') <= MaxAttempts * unkeyed
      <4>1. sessions[NoKey] = sessions[NoKey] /\ Cardinality(KeylessCalls') <= Cardinality(KeylessCalls)
        BY <3>2
      <4> QED BY <1>0, <3>2, <4>1, AccountSame, Zenon
    <3> QED BY <2>0, <3>2, <3>3, <3>4 DEF SessionsAccounted
  <2> QED BY <2>1, <2>2
<1>2. ASSUME NEW q \in Requests, RequestStep(q) \/ Rollback(q)
      PROVE  SessionsAccounted'
  <2>1. KeylessCalls' \subseteq KeylessCalls /\ UNCHANGED unkeyed
    BY <1>2, CallsKept, CheckoutEffect
  <2>2. /\ IsFiniteSet(KeylessCalls') /\ Cardinality(KeylessCalls') \in Nat
        /\ Cardinality(KeylessCalls') <= Cardinality(KeylessCalls)
    BY <1>0, <2>1, CountLess
  <2>3. \/ /\ sessions'[NoKey] = sessions[NoKey]
           /\ Cardinality(KeylessCalls') <= Cardinality(KeylessCalls)
        \/ /\ sessions'[NoKey] = sessions[NoKey] + 1
           /\ Cardinality(KeylessCalls') + 1 <= Cardinality(KeylessCalls)
    <3>1. CASE sessions'[NoKey] = sessions[NoKey]
      BY <2>2, <3>1
    <3>2. CASE sessions'[NoKey] # sessions[NoKey]
      <4>1. /\ checkout[q].pc = "session" /\ checkout[q].key = NoKey
            /\ sessions'[NoKey] = sessions[NoKey] + 1
        BY <1>2, <3>2, CheckoutEffect
      <4>2. \E x \in KeylessCalls : KeylessCalls' \subseteq KeylessCalls \ {x}
        BY <1>2, <4>1, CallsKept
      <4> QED BY <1>0, <2>1, <4>1, <4>2, CountLess
    <3> QED BY <3>1, <3>2
  <2>4. sessions'[NoKey] + Cardinality(KeylessCalls') <= MaxAttempts * unkeyed
    BY <1>0, <2>2, <2>3, AccountSame, Zenon
  <2> QED BY <2>1, <2>2, <2>4 DEF SessionsAccounted
<1>3. CASE UNCHANGED <<stripe_customer_id, customers, sessions, checkout, unkeyed, unnamed>>
  BY <1>3 DEF SessionsAccounted, KeylessCalls
<1> QED BY <1>1, <1>2, <1>3, AccountStep

\* While a call is under way its attempts so far, and in the runs before, may each
\* have sent the e-mail.
MailAccounted(c, n) ==
    IF c.pc = "send"
    THEN n + MaxAttempts + 1 <= MaxAttempts * c.runs + c.attempt
    ELSE n <= MaxAttempts * c.runs /\ (c.pc = "done" => n > 0)

MailsAccounted == \A m \in Mails : MailAccounted(mail[m], sent[m])

LEMMA MailCount ==
    ASSUME NEW n \in Nat, NEW runs \in Nat, NEW attempt \in 0 .. MaxAttempts
    PROVE  /\ n <= MaxAttempts * runs => n + MaxAttempts + 1 <= MaxAttempts * (runs + 1) + 1
           /\ n + MaxAttempts + 1 <= MaxAttempts * runs + attempt =>
                /\ n <= MaxAttempts * runs /\ n + 1 <= MaxAttempts * runs
                /\ n + MaxAttempts + 1 <= MaxAttempts * runs + (attempt + 1)
                /\ (n + 1) + MaxAttempts + 1 <= MaxAttempts * runs + (attempt + 1)
<1>1. MaxAttempts * (runs + 1) = MaxAttempts * runs + MaxAttempts
  BY ConstantsAssumption
<1>2. MaxAttempts * runs \in Nat /\ MaxAttempts \in Nat /\ attempt \in Nat /\ attempt <= MaxAttempts
  BY ConstantsAssumption
<1>3. PICK x \in Nat : x = MaxAttempts * runs
  BY <1>2
<1> QED BY <1>1, <1>2, <1>3

LEMMA MailsAccountedStep ==
    ASSUME TypeOK, MailsAccounted, [Next]_vars
    PROVE  MailsAccounted'
<1>1. ASSUME NEW m \in Mails, MailStep(m) PROVE MailsAccounted'
  <2>1. PICK c, n, runs, attempt :
          c = mail[m] /\ n = sent[m] /\ runs = c.runs /\ attempt = c.attempt
    OBVIOUS
  <2>2. /\ c \in [pc: {"queued", "send", "done", "dead"}, runs: 0 .. MaxRetries + 1,
                  attempt: 0 .. MaxAttempts]
        /\ runs \in Nat /\ attempt \in 0 .. MaxAttempts /\ n \in Nat
    BY <2>1, ConstantsAssumption DEF TypeOK, Message
  <2>3. MailAccounted(c, n)
    BY <2>1 DEF MailsAccounted
  <2>4. ASSUME NEW d, NEW l, mail' = [mail EXCEPT ![m] = d], MailAccounted(d, l),
               sent' = [sent EXCEPT ![m] = l] \/ (sent' = sent /\ l = n)
        PROVE  MailsAccounted'
    <3>1. mail'[m] = d /\ sent'[m] = l
      BY <2>1, <2>4 DEF TypeOK
    <3>2. \A p \in Mails \ {m} : mail'[p] = mail[p] /\ sent'[p] = sent[p]
      BY <2>4 DEF TypeOK
    <3>3. ASSUME NEW p \in Mails PROVE MailAccounted(mail'[p], sent'[p])
      BY <2>4, <3>1, <3>2 DEF MailsAccounted
    <3> QED BY <3>3 DEF MailsAccounted, MailAccounted
  <2>5. CASE Handle(m)
    <3> DEFINE d == [pc |-> "send", runs |-> runs + 1, attempt |-> 1]
    <3>1. n <= MaxAttempts * runs
      BY <2>1, <2>3, <2>5 DEF Handle, MailAccounted
    <3>2. n + MaxAttempts + 1 <= MaxAttempts * (runs + 1) + 1
      BY <2>2, <3>1, MailCount
    <3>3. MailAccounted(d, n)
      BY <3>2 DEF MailAccounted
    <3>4. mail' = [mail EXCEPT ![m] = d] /\ sent' = sent
      BY <2>1, <2>5 DEF Handle, ToMail
    <3> QED BY <2>4, <3>3, <3>4
  <2>6. ASSUME c.pc = "send"
        PROVE  /\ n <= MaxAttempts * runs /\ n + 1 <= MaxAttempts * runs
               /\ n + MaxAttempts + 1 <= MaxAttempts * runs + (attempt + 1)
               /\ (n + 1) + MaxAttempts + 1 <= MaxAttempts * runs + (attempt + 1)
    <3>1. n + MaxAttempts + 1 <= MaxAttempts * runs + attempt
      BY <2>1, <2>3, <2>6 DEF MailAccounted
    <3> QED BY <2>2, <3>1, MailCount
  \* A call that is undelivered: the message waits, or is dead.
  <2>7. ASSUME c.pc = "send", NEW l \in {n, n + 1} PROVE MailAccounted(Undelivered(c), l)
    <3>1. Undelivered(c).pc \in {"queued", "dead"} /\ Undelivered(c).runs = runs
      BY <2>1, <2>2 DEF Undelivered
    <3> QED BY <2>6, <2>7, <3>1 DEF MailAccounted
  <2>8. CASE Deliver(m)
    <3> DEFINE d == [c EXCEPT !.pc = "done"]
    <3>1. d.pc = "done" /\ d.runs = runs
      BY <2>1, <2>2
    <3>2. c.pc = "send" /\ mail' = [mail EXCEPT ![m] = d] /\ sent' = [sent EXCEPT ![m] = n + 1]
      BY <2>1, <2>8 DEF Deliver, ToMail
    <3>3. MailAccounted(d, n + 1)
      BY <2>2, <2>6, <3>1, <3>2 DEF MailAccounted
    <3> QED BY <2>4, <3>2, <3>3
  <2>9. CASE SendFails(m)
    <3>1. PICK l \in {n, n + 1} : sent' = [sent EXCEPT ![m] = l] \/ (sent' = sent /\ l = n)
      BY <2>1, <2>9 DEF SendFails
    <3>2. CASE Repeatable(c)
      <4>1. c.pc = "send" /\ mail' = [mail EXCEPT ![m] = Repeat(c)]
        BY <2>1, <2>9, <3>2 DEF SendFails, ToMail
      <4>2. Repeat(c).pc = "send" /\ Repeat(c).runs = runs /\ Repeat(c).attempt = attempt + 1
        BY <2>1, <2>2, <4>1 DEF Repeat
      <4>3. MailAccounted(Repeat(c), l)
        BY <2>6, <4>1, <4>2 DEF MailAccounted
      <4> QED BY <2>4, <3>1, <4>1, <4>3
    <3>3. CASE ~Repeatable(c)
      <4>1. c.pc = "send" /\ mail' = [mail EXCEPT ![m] = Undelivered(c)]
        BY <2>1, <2>9, <3>3 DEF SendFails, ToMail
      <4> QED BY <2>4, <2>7, <3>1, <4>1
    <3> QED BY <3>2, <3>3
  <2>10. CASE SendRefused(m)
    <3>1. c.pc = "send" /\ mail' = [mail EXCEPT ![m] = Undelivered(c)] /\ sent' = sent
      BY <2>1, <2>10 DEF SendRefused, ToMail
    <3> QED BY <2>4, <2>7, <3>1
  <2> QED BY <1>1, <2>5, <2>8, <2>9, <2>10 DEF MailStep
<1>2. CASE UNCHANGED mails
  BY <1>2 DEF MailsAccounted, MailAccounted, mails
<1>3. UNCHANGED mails \/ \E m \in Mails : MailStep(m)
  BY CheckoutEffect DEF Next, StartCheckout, KeyExpires, vars, mails
<1> QED BY <1>1, <1>2, <1>3

\* Customers, sessions of the Career product and e-mails: each call without a key takes
\* effect at most max_attempts times, however many checkouts overlap, fail or are
\* repeated, and a message that is done with has been sent.
THEOREM CallsAccountedCorrect == Spec => []CallsAccounted
<1> DEFINE Accounts == CustomersAccounted /\ SessionsAccounted /\ MailsAccounted
<1>1. Init => Accounts
  <2> SUFFICES ASSUME Init PROVE Accounts
    OBVIOUS
  <2>1. CustomerCalls = {} /\ KeylessCalls = {}
    BY DEF Init, CustomerCalls, KeylessCalls
  <2>2. CustomersAccounted
    BY <2>1, FS_EmptySet DEF Init, CustomersAccounted, NoneCreated
  <2>3. SessionsAccounted
    BY <2>1, FS_EmptySet, ConstantsAssumption DEF Init, SessionsAccounted
  <2>4. MailsAccounted
    BY ConstantsAssumption DEF Init, MailsAccounted, MailAccounted
  <2> QED BY <2>2, <2>3, <2>4
<1>2. TypeOK /\ TypeOK' /\ Accounts /\ [Next]_vars => Accounts'
  BY CustomersAccountedStep, SessionsAccountedStep, MailsAccountedStep
<1>3. TypeOK /\ Accounts => CallsAccounted
  <2> SUFFICES ASSUME TypeOK, Accounts PROVE CallsAccounted
    OBVIOUS
  <2>1. customers <= IF unnamed = 0 THEN 1 ELSE MaxAttempts * unnamed
    <3>1. CASE unnamed = 0
      BY <3>1 DEF CustomersAccounted, NoneCreated
    <3>2. CASE unnamed # 0
      <4>1. /\ customers + Cardinality(CustomerCalls) <= MaxAttempts * unnamed
            /\ customers \in Nat /\ Cardinality(CustomerCalls) \in Nat
            /\ MaxAttempts * unnamed \in Nat
        BY <3>2, FS_CardinalityType, ConstantsAssumption DEF CustomersAccounted, TypeOK
      <4>2. customers <= MaxAttempts * unnamed
        BY <4>1
      <4> QED BY <3>2, <4>2
    <3> QED BY <3>1, <3>2
  <2>2. sessions[NoKey] <= MaxAttempts * unkeyed
    <3>1. /\ sessions[NoKey] + Cardinality(KeylessCalls) <= MaxAttempts * unkeyed
          /\ sessions[NoKey] \in Nat /\ Cardinality(KeylessCalls) \in Nat
          /\ MaxAttempts * unkeyed \in Nat
      BY FS_CardinalityType, ConstantsAssumption DEF SessionsAccounted, TypeOK
    <3> QED BY <3>1
  <2>3. ASSUME NEW m \in Mails
        PROVE  /\ sent[m] <= MaxAttempts * mail[m].runs
               /\ mail[m].pc = "done" => sent[m] > 0
    <3>1. /\ sent[m] \in Nat /\ mail[m].runs \in Nat /\ mail[m].attempt \in 0 .. MaxAttempts
          /\ MailAccounted(mail[m], sent[m])
      BY ConstantsAssumption DEF TypeOK, Message, MailsAccounted
    <3> QED BY <3>1, MailCount DEF MailAccounted
  <2> QED BY <2>1, <2>2, <2>3 DEF CallsAccounted
<1> QED BY <1>1, <1>2, <1>3, TypeCorrect, PTL DEF Spec
=============================================================================
