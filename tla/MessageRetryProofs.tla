------------------------- MODULE MessageRetryProofs -------------------------
(* Theorems about MessageRetry, for every value of its constants.          *)
EXTENDS MessageRetry, FiniteSetTheorems, TLAPS

WorkPcs == {"handle", "failed", "ack", "reject"}
DrainPcs == {"store", "ack"}

\* The record of a delivery in progress.
LEMMA DeliveryShape ==
    ASSUME NEW pcs, "idle" \notin pcs, NEW r \in Delivery(pcs)
    PROVE  /\ r.pc \in pcs \cup {"idle"}
           /\ r.pc = "idle" <=> r = Idle
           /\ r # Idle => /\ r \in [pc: pcs, copy: Copy, held: BOOLEAN]
                          /\ r.pc \in pcs /\ r.copy \in Copy /\ r.held \in BOOLEAN
BY DEF Delivery, Idle

LEMMA CopyShape ==
    ASSUME NEW x \in Copy
    PROVE  x.token \in Tokens /\ x.msg \in Messages /\ x.attempt \in 0 .. MaxRetries
BY DEF Copy

\* A row that is taken.
LEMMA RowShape ==
    ASSUME NEW r \in Row \cup {Free}
    PROVE  /\ r # Free => r \in Row /\ r.msg \in Messages
           /\ r.status \in {"pending", "retried", "discarded"} <=> r # Free
BY DEF Row, Free

-----------------------------------------------------------------------------
(* Counting by message                                                     *)

LEMMA CountType ==
    ASSUME NEW S, IsFiniteSet(S)
    PROVE  Count(S) \in [Messages -> Nat]
<1>1. ASSUME NEW m \in Messages PROVE Cardinality({x \in S : x.msg = m}) \in Nat
  <2>1. {x \in S : x.msg = m} \in SUBSET S
    OBVIOUS
  <2> QED BY <2>1, FS_Subset, FS_CardinalityType
<1> DEFINE f == [m \in Messages |-> Cardinality({x \in S : x.msg = m})]
<1>2. \A m \in Messages : f[m] \in Nat
  BY <1>1
<1>3. f = [m \in Messages |-> f[m]]
  OBVIOUS
<1> HIDE DEF f
<1>4. f \in [Messages -> Nat]
  BY <1>2, <1>3
<1> QED BY <1>4 DEF f, Count

LEMMA PlusType ==
    ASSUME NEW f \in [Messages -> Nat], NEW S, IsFiniteSet(S)
    PROVE  Plus(f, S) \in [Messages -> Nat]
<1>1. PICK g \in [Messages -> Nat] : g = Count(S)
  BY CountType
<1>2. Plus(f, S) = [m \in Messages |-> f[m] + g[m]]
  BY <1>1 DEF Plus
<1> QED BY <1>2

\* One thing fewer, one thing more.
LEMMA CountLess ==
    ASSUME NEW S, IsFiniteSet(S), NEW x \in S, x.msg \in Messages
    PROVE  /\ Count(S)[x.msg] > 0
           /\ Count(S \ {x}) = [Count(S) EXCEPT ![x.msg] = @ - 1]
<1> DEFINE Of(m) == {z \in S : z.msg = m}
           OfRest(m) == {z \in S \ {x} : z.msg = m}
<1>1. ASSUME NEW m \in Messages PROVE IsFiniteSet(Of(m))
  <2>1. Of(m) \in SUBSET S
    OBVIOUS
  <2> QED BY <2>1, FS_Subset
<1>2. Cardinality(OfRest(x.msg)) = Cardinality(Of(x.msg)) - 1 /\ Cardinality(Of(x.msg)) > 0
  <2>1. OfRest(x.msg) = Of(x.msg) \ {x} /\ x \in Of(x.msg)
    OBVIOUS
  <2> HIDE DEF Of, OfRest
  <2>2. Cardinality(OfRest(x.msg)) = Cardinality(Of(x.msg)) - 1
    BY <1>1, <2>1, FS_RemoveElement
  <2>3. Cardinality(Of(x.msg)) \in Nat /\ Cardinality(Of(x.msg)) # 0
    BY <1>1, <2>1, FS_CardinalityType, FS_EmptySet
  <2> QED BY <2>2, <2>3
<1>3. \A m \in Messages : m # x.msg => OfRest(m) = Of(m)
  OBVIOUS
<1>4. /\ Count(S) = [m \in Messages |-> Cardinality(Of(m))]
      /\ Count(S \ {x}) = [m \in Messages |-> Cardinality(OfRest(m))]
  BY DEF Count
<1> HIDE DEF Of, OfRest
<1>5. Count(S)[x.msg] > 0
  BY <1>2, <1>4
<1>6. ASSUME NEW m \in Messages
      PROVE  Count(S \ {x})[m] = IF m = x.msg THEN Count(S)[m] - 1 ELSE Count(S)[m]
  BY <1>2, <1>3, <1>4
<1>7. [Count(S) EXCEPT ![x.msg] = @ - 1]
        = [m \in Messages |-> IF m = x.msg THEN Count(S)[m] - 1 ELSE Count(S)[m]]
  BY <1>4
<1>8. Count(S \ {x}) = [m \in Messages |-> Count(S \ {x})[m]]
  BY <1>4
<1> QED BY <1>5, <1>6, <1>7, <1>8

LEMMA CountMore ==
    ASSUME NEW S, IsFiniteSet(S), NEW y, y \notin S, y.msg \in Messages
    PROVE  Count(S \cup {y}) = [Count(S) EXCEPT ![y.msg] = @ + 1]
<1>1. IsFiniteSet(S \cup {y}) /\ (S \cup {y}) \ {y} = S
  BY FS_AddElement
<1>2. Count(S) = [Count(S \cup {y}) EXCEPT ![y.msg] = @ - 1]
  BY <1>1, CountLess
<1>3. PICK f \in [Messages -> Nat], g \in [Messages -> Nat], m \in Messages :
        f = Count(S) /\ g = Count(S \cup {y}) /\ m = y.msg
  BY <1>1, CountType
<1>4. f = [g EXCEPT ![m] = g[m] - 1]
  BY <1>2, <1>3
<1>5. f[m] + 1 = g[m] /\ \A n \in Messages \ {m} : f[n] = g[n]
  BY <1>4
<1>6. \A n \in Messages : g[n] = [f EXCEPT ![m] = f[m] + 1][n]
  BY <1>5
<1>7. g = [f EXCEPT ![m] = f[m] + 1]
  BY <1>6
<1> QED BY <1>3, <1>7

LEMMA CountNone == Count({}) = [m \in Messages |-> 0]
<1>1. \A m \in Messages : {x \in {} : x.msg = m} = {}
  OBVIOUS
<1>2. Cardinality({}) = 0
  BY FS_EmptySet
<1> QED BY <1>1, <1>2 DEF Count

-----------------------------------------------------------------------------
(* The strengthened invariant                                              *)

\* The queues are finite, and a row an administrator has selected stays.
Finite == IsFiniteSet(main) /\ IsFiniteSet(retry) /\ IsFiniteSet(dead)

RowsSeen ==
    \A a \in Admins : admin[a] # Idle =>
        \A i \in admin[a].todo \cup admin[a].done : rows[i] # Free

Inv == TypeOK /\ Finite /\ RowsSeen

\* What is held is copies, finitely many.
LEMMA HeldCopies ==
    ASSUME TypeOK
    PROVE  /\ HeldMain \subseteq Copy /\ IsFiniteSet(HeldMain)
           /\ HeldDead \subseteq Copy /\ IsFiniteSet(HeldDead)
<1> DEFINE C == {b \in Consumers : work[b].pc # "idle" /\ work[b].held}
           D == {b \in Drainers : drain[b].pc # "idle" /\ drain[b].held}
           fc == [c \in C |-> work[c].copy]
           fd == [d \in D |-> drain[d].copy]
<1>1. IsFiniteSet(C) /\ IsFiniteSet(D)
  <2>1. C \in SUBSET Consumers /\ D \in SUBSET Drainers
    OBVIOUS
  <2> QED BY <2>1, ConstantsAssumption, FS_Subset
<1>2. HeldMain = {work[c].copy : c \in C} /\ HeldDead = {drain[d].copy : d \in D}
  BY DEF HeldMain, HeldDead
<1>3. \A c \in C : work[c].copy \in Copy
  <2> SUFFICES ASSUME NEW c \in Consumers, work[c].pc # "idle" PROVE work[c].copy \in Copy
    OBVIOUS
  <2>1. work[c] \in Delivery({"handle", "failed", "ack", "reject"})
    BY DEF TypeOK
  <2> QED BY <2>1, DeliveryShape
<1>4. \A d \in D : drain[d].copy \in Copy
  <2> SUFFICES ASSUME NEW d \in Drainers, drain[d].pc # "idle" PROVE drain[d].copy \in Copy
    OBVIOUS
  <2>1. drain[d] \in Delivery({"store", "ack"})
    BY DEF TypeOK
  <2> QED BY <2>1, DeliveryShape
<1> HIDE DEF C, D
<1>5. fc \in Surjection(C, HeldMain) /\ fd \in Surjection(D, HeldDead)
  BY <1>2 DEF Surjection
<1> HIDE DEF fc, fd
<1>6. IsFiniteSet(HeldMain) /\ IsFiniteSet(HeldDead)
  BY <1>1, <1>5, FS_Surjection
<1> QED BY <1>2, <1>3, <1>4, <1>6

\* A queue stays a finite set of copies when a copy joins it.
LEMMA Enqueued ==
    ASSUME NEW q, q \subseteq Copy, IsFiniteSet(q),
           NEW t \in Tokens, NEW m \in Messages, NEW n \in 0 .. MaxRetries
    PROVE  /\ q \cup {[token |-> t, msg |-> m, attempt |-> n]} \subseteq Copy
           /\ IsFiniteSet(q \cup {[token |-> t, msg |-> m, attempt |-> n]})
<1>1. [token |-> t, msg |-> m, attempt |-> n] \in Copy
  BY DEF Copy
<1>2. IsFiniteSet(q \cup {[token |-> t, msg |-> m, attempt |-> n]})
  BY FS_AddElement
<1> QED BY <1>1, <1>2

-----------------------------------------------------------------------------
(* Every step, by the part of the state it writes                          *)

\* The queues remain finite sets of copies.
LEMMA QueuesStep ==
    ASSUME Inv, [Next]_vars
    PROVE  /\ main' \subseteq Copy /\ retry' \subseteq Copy /\ dead' \subseteq Copy
           /\ IsFiniteSet(main') /\ IsFiniteSet(retry') /\ IsFiniteSet(dead')
<1> DEFINE Good == /\ main' \subseteq Copy /\ retry' \subseteq Copy /\ dead' \subseteq Copy
                   /\ IsFiniteSet(main') /\ IsFiniteSet(retry') /\ IsFiniteSet(dead')
<1> USE DEF Inv, TypeOK, Finite
<1>1. ASSUME NEW m \in Messages, NEW n \in 0 .. MaxRetries, Enqueue(main, m, n),
             UNCHANGED <<retry, dead>>
      PROVE  Good
  <2>1. PICK t \in Tokens : main' = main \cup {[token |-> t, msg |-> m, attempt |-> n]}
    BY <1>1 DEF Enqueue
  <2>2. main' \subseteq Copy /\ IsFiniteSet(main')
    BY <2>1, Enqueued
  <2> QED BY <1>1, <2>2
<1>2. ASSUME RetryExpires PROVE Good
  <2>1. PICK x \in retry : retry' = retry \ {x} /\ main' = main \cup {x} /\ dead' = dead
    BY <1>2 DEF RetryExpires
  <2>2. IsFiniteSet(retry \ {x}) /\ IsFiniteSet(main \cup {x})
    BY FS_AddElement, FS_RemoveElement
  <2> QED BY <2>1, <2>2
<1>3. ASSUME NEW c \in Consumers, Deliver(c) PROVE Good
  BY <1>3, FS_RemoveElement DEF Deliver
<1>4. ASSUME NEW c \in Consumers, Forward(c) PROVE Good
  <2>1. work[c] \in Delivery({"handle", "failed", "ack", "reject"}) /\ work[c].pc = "failed"
    BY <1>4 DEF Forward
  <2>2. work[c].copy \in Copy
    BY <2>1, DeliveryShape
  <2> DEFINE x == work[c].copy
  <2>3. x.msg \in Messages /\ x.attempt \in 0 .. MaxRetries
    BY <2>2, CopyShape
  <2>4. CASE x.attempt < MaxRetries /\ Enqueue(retry, x.msg, x.attempt + 1) /\ UNCHANGED dead
    <3>1. x.attempt + 1 \in 0 .. MaxRetries
      BY <2>3, <2>4, ConstantsAssumption
    <3>2. main' = main
      BY <1>4 DEF Forward
    <3> HIDE DEF x
    <3>3. PICK t \in Tokens :
            retry' = retry \cup {[token |-> t, msg |-> x.msg, attempt |-> x.attempt + 1]}
      BY <2>4 DEF Enqueue
    <3>4. retry' \subseteq Copy /\ IsFiniteSet(retry')
      BY <2>3, <3>1, <3>3, Enqueued
    <3> QED BY <2>4, <3>2, <3>4
  <2>5. CASE Enqueue(dead, x.msg, x.attempt) /\ UNCHANGED retry
    <3>2. main' = main
      BY <1>4 DEF Forward
    <3> HIDE DEF x
    <3>3. PICK t \in Tokens :
            dead' = dead \cup {[token |-> t, msg |-> x.msg, attempt |-> x.attempt]}
      BY <2>5 DEF Enqueue
    <3>4. dead' \subseteq Copy /\ IsFiniteSet(dead')
      <4> DEFINE m == x.msg
                 n == x.attempt
      <4>1. m \in Messages /\ n \in 0 .. MaxRetries
        BY <2>3
      <4>2. dead' = dead \cup {[token |-> t, msg |-> m, attempt |-> n]}
        BY <3>3
      <4> HIDE DEF m, n
      <4> QED BY <4>1, <4>2, Enqueued
    <3> QED BY <2>5, <3>2, <3>4
  <2>6. \/ x.attempt < MaxRetries /\ Enqueue(retry, x.msg, x.attempt + 1) /\ UNCHANGED dead
        \/ Enqueue(dead, x.msg, x.attempt) /\ UNCHANGED retry
    BY <1>4 DEF Forward, Enqueue
  <2> QED BY <2>4, <2>5, <2>6
<1>5. ASSUME NEW d \in Drainers, DrainDeliver(d) PROVE Good
  BY <1>5, FS_RemoveElement DEF DrainDeliver
<1>6. ASSUME Crash \/ ConnectionLost PROVE Good
  <2>1. IsFiniteSet(main \cup HeldMain) /\ IsFiniteSet(dead \cup HeldDead) /\ IsFiniteSet({})
    BY HeldCopies, FS_Union, FS_EmptySet
  <2> QED BY <1>6, <2>1, HeldCopies DEF Crash, ConnectionLost
<1>7. ASSUME NEW a \in Admins, NEW i \in Rows, AdminRepublish(a, i) PROVE Good
  <2>1. CASE rows[i].status = "pending" /\ Enqueue(main, rows[i].msg, 0)
    <3>1. rows[i].msg \in Messages
      BY <2>1, RowShape
    <3>2. 0 \in 0 .. MaxRetries /\ UNCHANGED <<retry, dead>>
      BY <1>7, ConstantsAssumption DEF AdminRepublish
    <3> QED BY <1>1, <2>1, <3>1, <3>2
  <2>2. CASE UNCHANGED main
    BY <1>7, <2>2 DEF AdminRepublish
  <2> QED BY <1>7, <2>1, <2>2 DEF AdminRepublish
<1>8. ASSUME NEW m \in Messages, Publish(m) PROVE Good
  <2>1. 0 \in 0 .. MaxRetries
    BY ConstantsAssumption
  <2> QED BY <1>1, <1>8, <2>1 DEF Publish
<1>9. CASE UNCHANGED queues
  BY <1>9 DEF queues
<1> QED
  BY <1>2, <1>3, <1>4, <1>5, <1>6, <1>7, <1>8, <1>9
  DEF Next, vars, Handle, HandlerSucceeds, HandlerFails, ForwardRefused, Settle, DrainStore,
      DrainStoreFails, DrainAck, AdminSelect, AdminCommit, AdminFails, AdminDiscard

\* The runs of process_message.
LEMMA WorkStep ==
    ASSUME Inv, [Next]_vars
    PROVE  work' \in [Consumers -> Delivery({"handle", "failed", "ack", "reject"})]
<1> DEFINE Pcs == {"handle", "failed", "ack", "reject"}
<1> USE DEF Inv, TypeOK
<1>1. ASSUME NEW c \in Consumers, NEW r \in Delivery(Pcs), work' = [work EXCEPT ![c] = r]
      PROVE  work' \in [Consumers -> Delivery(Pcs)]
  BY <1>1
<1>2. Idle \in Delivery(Pcs)
  BY DEF Delivery
<1>3. ASSUME NEW c \in Consumers, Deliver(c)
      PROVE  work' \in [Consumers -> Delivery(Pcs)]
  <2>1. PICK x \in main :
          work' = [work EXCEPT ![c] = [pc |-> "handle", copy |-> x, held |-> TRUE]]
    BY <1>3 DEF Deliver
  <2>2. [pc |-> "handle", copy |-> x, held |-> TRUE] \in Delivery(Pcs)
    BY DEF Delivery
  <2> QED BY <1>1, <2>1, <2>2
<1>4. ASSUME NEW c \in Consumers, HandlerSucceeds(c) \/ HandlerFails(c) \/ Forward(c)
      PROVE  work' \in [Consumers -> Delivery(Pcs)]
  <2>1. PICK p \in Pcs : work' = [work EXCEPT ![c].pc = p]
    BY <1>4 DEF HandlerSucceeds, HandlerFails, Forward
  <2>2. work[c] \in Delivery(Pcs) /\ work[c] # Idle
    BY <1>4 DEF HandlerSucceeds, HandlerFails, Forward, Idle
  <2>3. work[c] \in [pc: Pcs, copy: Copy, held: BOOLEAN]
    BY <2>2 DEF Delivery
  <2>4. [work[c] EXCEPT !.pc = p] \in Delivery(Pcs)
    BY <2>3 DEF Delivery
  <2> QED BY <1>1, <2>1, <2>4
<1>5. ASSUME NEW c \in Consumers, ForwardRefused(c) \/ Settle(c)
      PROVE  work' \in [Consumers -> Delivery(Pcs)]
  BY <1>1, <1>2, <1>5 DEF ForwardRefused, Settle
<1>6. CASE Crash
  BY <1>2, <1>6 DEF Crash
<1>7. CASE ConnectionLost
  <2>1. ASSUME NEW c \in Consumers, work[c] # Idle
        PROVE  [work[c] EXCEPT !.held = FALSE] \in Delivery(Pcs)
    <3>1. work[c] \in [pc: Pcs, copy: Copy, held: BOOLEAN]
      BY <2>1 DEF Delivery
    <3> QED BY <3>1 DEF Delivery
  <2> QED BY <1>2, <1>7, <2>1 DEF ConnectionLost
<1>8. CASE UNCHANGED work
  BY <1>8
<1> QED
  BY <1>3, <1>4, <1>5, <1>6, <1>7, <1>8
  DEF Next, vars, Handle, Publish, RetryExpires, DrainDeliver, DrainStore, DrainStoreFails,
      DrainAck, AdminSelect, AdminRepublish, AdminCommit, AdminFails, AdminDiscard

\* The runs of handle_dlq_message.
LEMMA DrainStep ==
    ASSUME Inv, [Next]_vars
    PROVE  drain' \in [Drainers -> Delivery({"store", "ack"})]
<1> DEFINE Pcs == {"store", "ack"}
<1> USE DEF Inv, TypeOK
<1>1. ASSUME NEW d \in Drainers, NEW r \in Delivery(Pcs), drain' = [drain EXCEPT ![d] = r]
      PROVE  drain' \in [Drainers -> Delivery(Pcs)]
  BY <1>1
<1>2. Idle \in Delivery(Pcs)
  BY DEF Delivery
<1>3. ASSUME NEW d \in Drainers, DrainDeliver(d)
      PROVE  drain' \in [Drainers -> Delivery(Pcs)]
  <2>1. PICK x \in dead :
          drain' = [drain EXCEPT ![d] = [pc |-> "store", copy |-> x, held |-> TRUE]]
    BY <1>3 DEF DrainDeliver
  <2>2. [pc |-> "store", copy |-> x, held |-> TRUE] \in Delivery(Pcs)
    BY DEF Delivery
  <2> QED BY <1>1, <2>1, <2>2
<1>4. ASSUME NEW d \in Drainers, DrainStore(d)
      PROVE  drain' \in [Drainers -> Delivery(Pcs)]
  <2>1. drain[d] \in Delivery(Pcs) /\ drain[d] # Idle
    BY <1>4 DEF DrainStore, Idle
  <2>2. drain[d] \in [pc: Pcs, copy: Copy, held: BOOLEAN]
    BY <2>1 DEF Delivery
  <2>3. [drain[d] EXCEPT !.pc = "ack"] \in Delivery(Pcs)
    BY <2>2 DEF Delivery
  <2> QED BY <1>1, <1>4, <2>3 DEF DrainStore
<1>5. ASSUME NEW d \in Drainers, DrainStoreFails(d) \/ DrainAck(d)
      PROVE  drain' \in [Drainers -> Delivery(Pcs)]
  BY <1>1, <1>2, <1>5 DEF DrainStoreFails, DrainAck
<1>6. CASE Crash
  BY <1>2, <1>6 DEF Crash
<1>7. CASE ConnectionLost
  <2>1. ASSUME NEW d \in Drainers, drain[d] # Idle
        PROVE  [drain[d] EXCEPT !.held = FALSE] \in Delivery(Pcs)
    <3>1. drain[d] \in [pc: Pcs, copy: Copy, held: BOOLEAN]
      BY <2>1 DEF Delivery
    <3> QED BY <3>1 DEF Delivery
  <2> QED BY <1>2, <1>7, <2>1 DEF ConnectionLost
<1>8. CASE UNCHANGED drain
  BY <1>8
<1> QED
  BY <1>3, <1>4, <1>5, <1>6, <1>7, <1>8
  DEF Next, vars, Handle, HandlerSucceeds, HandlerFails, Publish, RetryExpires, Deliver, Forward,
      ForwardRefused, Settle, AdminSelect, AdminRepublish, AdminCommit, AdminFails, AdminDiscard

\* The rows: a row that is taken stays taken.
LEMMA RowsStep ==
    ASSUME Inv, [Next]_vars
    PROVE  /\ rows' \in [Rows -> Row \cup {Free}]
           /\ \A i \in Rows : rows[i] # Free => rows'[i] # Free /\ rows'[i].msg = rows[i].msg
<1> DEFINE Good == /\ rows' \in [Rows -> Row \cup {Free}]
                   /\ \A i \in Rows : rows[i] # Free => rows'[i] # Free
                                                        /\ rows'[i].msg = rows[i].msg
<1> USE DEF Inv, TypeOK
<1>1. ASSUME NEW i \in Rows, NEW s \in {"pending", "retried", "discarded"}, rows[i] # Free
      PROVE  /\ [rows[i] EXCEPT !.status = s] \in Row
             /\ [rows[i] EXCEPT !.status = s].msg = rows[i].msg
  <2>1. rows[i] \in Row
    BY <1>1
  <2> QED BY <2>1 DEF Row
<1>2. \A r \in Row : r # Free
  BY DEF Row, Free
<1>3. ASSUME NEW d \in Drainers, DrainStore(d) PROVE Good
  <2>1. PICK i \in Rows :
          /\ rows[i] = Free
          /\ rows' = [rows EXCEPT ![i] = [msg |-> drain[d].copy.msg, status |-> "pending"]]
    BY <1>3 DEF DrainStore
  <2>2. drain[d] \in Delivery({"store", "ack"}) /\ drain[d].pc = "store"
    BY <1>3 DEF DrainStore
  <2>3. drain[d].copy.msg \in Messages
    BY <2>2, DeliveryShape, CopyShape
  <2>4. [msg |-> drain[d].copy.msg, status |-> "pending"] \in Row
    BY <2>3 DEF Row
  <2> QED BY <1>2, <2>1, <2>4
<1>4. ASSUME NEW a \in Admins, AdminCommit(a) PROVE Good
  <2>1. admin[a] # Idle
    BY <1>4 DEF AdminCommit, Idle
  <2>2. \A i \in admin[a].done : rows[i] # Free
    BY <2>1 DEF RowsSeen
  <2> QED BY <1>1, <1>2, <1>4, <2>2 DEF AdminCommit
<1>5. ASSUME NEW selection \in SUBSET Rows, AdminDiscard(selection) PROVE Good
  <2>1. \A i \in Rows : rows[i].status = "pending" => rows[i] # Free
    BY DEF Free
  <2> QED BY <1>1, <1>2, <1>5, <2>1 DEF AdminDiscard
<1>6. CASE UNCHANGED rows
  BY <1>6
<1> QED
  BY <1>3, <1>4, <1>5, <1>6
  DEF Next, vars, Handle, HandlerSucceeds, HandlerFails, Publish, RetryExpires, Deliver, Forward,
      ForwardRefused, Settle, DrainDeliver, DrainStoreFails, DrainAck, AdminSelect, AdminRepublish,
      AdminFails, Crash, ConnectionLost

\* The requests of administrators, and that their rows stay.
LEMMA AdminStep ==
    ASSUME Inv, [Next]_vars
    PROVE  /\ admin' \in [Admins -> {Idle} \cup
                             [pc: {"retry"}, todo: SUBSET Rows, done: SUBSET Rows]]
           /\ RowsSeen'
<1> DEFINE Record == [pc: {"retry"}, todo: SUBSET Rows, done: SUBSET Rows]
           Good == admin' \in [Admins -> {Idle} \cup Record] /\ RowsSeen'
<1> USE DEF Inv, TypeOK
<1>1. ASSUME NEW a \in Admins, NEW r \in {Idle} \cup Record, admin' = [admin EXCEPT ![a] = r],
             r # Idle => \A i \in r.todo \cup r.done : rows[i] # Free
      PROVE  Good
  <2>1. admin' \in [Admins -> {Idle} \cup Record]
    BY <1>1
  <2>2. ASSUME NEW b \in Admins, admin'[b] # Idle, NEW i \in admin'[b].todo \cup admin'[b].done
        PROVE  rows'[i] # Free
    <3>1. admin'[b] \in Record
      BY <2>1, <2>2
    <3>2. i \in Rows
      BY <2>2, <3>1
    <3>3. rows[i] # Free
      <4>1. CASE b = a
        BY <1>1, <2>2, <4>1
      <4>2. CASE b # a
        BY <1>1, <2>2, <4>2 DEF RowsSeen
      <4> QED BY <4>1, <4>2
    <3> QED BY <3>2, <3>3, RowsStep
  <2> QED BY <2>1, <2>2 DEF RowsSeen
<1>2. ASSUME NEW a \in Admins, NEW selection \in SUBSET Rows, AdminSelect(a, selection) PROVE Good
  <2> DEFINE r == [pc |-> "retry", todo |-> selection, done |-> {}]
  <2>1. r \in Record /\ r.todo \cup r.done = selection
    OBVIOUS
  <2>2. admin' = [admin EXCEPT ![a] = r] /\ \A i \in selection : rows[i] # Free
    BY <1>2 DEF AdminSelect
  <2> HIDE DEF r, Good
  <2> QED BY <1>1, <2>1, <2>2
<1>3. ASSUME NEW a \in Admins, NEW i \in Rows, AdminRepublish(a, i) PROVE Good
  <2>1. admin[a] \in Record /\ admin[a] # Idle /\ i \in admin[a].todo
    BY <1>3 DEF AdminRepublish, Idle
  <2> DEFINE r1 == [admin[a] EXCEPT !.todo = admin[a].todo \ {i}]
             r2 == [admin[a] EXCEPT !.todo = admin[a].todo \ {i},
                                    !.done = admin[a].done \cup {i}]
  <2>2. /\ r1 \in Record /\ r1.todo \cup r1.done \subseteq admin[a].todo \cup admin[a].done
        /\ r2 \in Record /\ r2.todo \cup r2.done \subseteq admin[a].todo \cup admin[a].done
    BY <2>1
  <2>3. admin' = [admin EXCEPT ![a] = r1] \/ admin' = [admin EXCEPT ![a] = r2]
    BY <1>3, <2>1 DEF AdminRepublish
  <2>4. \A j \in admin[a].todo \cup admin[a].done : rows[j] # Free
    BY <2>1 DEF RowsSeen
  <2> HIDE DEF r1, r2, Good
  <2> QED BY <1>1, <2>2, <2>3, <2>4
<1>4. ASSUME NEW a \in Admins, AdminCommit(a) \/ AdminFails(a) PROVE Good
  <2>1. admin' = [admin EXCEPT ![a] = Idle]
    BY <1>4 DEF AdminCommit, AdminFails
  <2> HIDE DEF Good
  <2> QED BY <1>1, <2>1
<1>5. CASE UNCHANGED admin
  <2>1. ASSUME NEW a \in Admins, admin[a] # Idle, NEW i \in admin[a].todo \cup admin[a].done
        PROVE  rows'[i] # Free
    <3>1. i \in Rows
      BY <2>1
    <3>2. rows[i] # Free
      BY <2>1 DEF RowsSeen
    <3> QED BY <3>1, <3>2, RowsStep
  <2> QED BY <1>5, <2>1 DEF RowsSeen
<1> QED
  BY <1>2, <1>3, <1>4, <1>5
  DEF Next, vars, Handle, HandlerSucceeds, HandlerFails, Publish, RetryExpires, Deliver, Forward,
      ForwardRefused, Settle, DrainDeliver, DrainStore, DrainStoreFails, DrainAck, AdminDiscard,
      Crash, ConnectionLost

\* The counters remain numbers.
LEMMA CountersStep ==
    ASSUME Inv, [Next]_vars
    PROVE  /\ published' \subseteq Messages
           /\ runs' \in [Messages -> Nat] /\ effects' \in [Messages -> Nat]
           /\ again' \in [Messages -> Nat] /\ lost' \in [Messages -> Nat] /\ faults' \in Nat
<1> DEFINE Good == /\ published' \subseteq Messages
                   /\ runs' \in [Messages -> Nat] /\ effects' \in [Messages -> Nat]
                   /\ again' \in [Messages -> Nat] /\ lost' \in [Messages -> Nat] /\ faults' \in Nat
<1> USE DEF Inv, TypeOK, history
<1>1. ASSUME NEW c \in Consumers, Deliver(c) PROVE Good
  <2>1. PICK x \in main : runs' = [runs EXCEPT ![x.msg] = @ + 1]
    BY <1>1 DEF Deliver
  <2>2. x.msg \in Messages
    BY CopyShape
  <2>3. runs' \in [Messages -> Nat]
    BY <2>1, <2>2
  <2> QED BY <1>1, <2>3 DEF Deliver
<1>2. ASSUME NEW c \in Consumers, HandlerSucceeds(c) PROVE Good
  <2>1. work[c] \in Delivery({"handle", "failed", "ack", "reject"}) /\ work[c].pc = "handle"
    BY <1>2 DEF HandlerSucceeds
  <2>2. work[c].copy.msg \in Messages
    BY <2>1, DeliveryShape, CopyShape
  <2> DEFINE m == work[c].copy.msg
  <2>3. effects' = [effects EXCEPT ![m] = effects[m] + 1] /\ m \in Messages
    BY <1>2, <2>2 DEF HandlerSucceeds
  <2> HIDE DEF m
  <2>4. effects' \in [Messages -> Nat]
    BY <2>3
  <2> QED BY <1>2, <2>4 DEF HandlerSucceeds
<1>3. ASSUME NEW a \in Admins, NEW i \in Rows, AdminRepublish(a, i) PROVE Good
  BY <1>3 DEF AdminRepublish
<1>4. CASE Crash \/ ConnectionLost
  <2>1. IsFiniteSet(HeldMain \cup HeldDead) /\ IsFiniteSet(dead \cup HeldDead)
    BY HeldCopies, FS_Union DEF Finite
  <2>2. /\ Plus(again, HeldMain \cup HeldDead) \in [Messages -> Nat]
        /\ Plus(lost, dead \cup HeldDead) \in [Messages -> Nat]
    BY <2>1, PlusType
  <2>3. again' \in [Messages -> Nat] /\ lost' \in [Messages -> Nat]
    BY <1>4, <2>2 DEF Crash, ConnectionLost
  <2>4. faults' \in Nat /\ UNCHANGED <<published, runs, effects>>
    BY <1>4 DEF Crash, ConnectionLost
  <2> QED BY <2>3, <2>4
<1>5. ASSUME NEW m \in Messages, Publish(m) PROVE Good
  BY <1>5 DEF Publish
<1>6. CASE UNCHANGED history
  BY <1>6
<1>7. ASSUME NEW c \in Consumers, ForwardRefused(c) PROVE Good
  <2>1. lost' \in [Messages -> Nat]
    BY <1>7, FS_Singleton, PlusType DEF ForwardRefused, GivenUp
  <2> QED BY <1>7, <2>1 DEF ForwardRefused
<1>8. ASSUME NEW d \in Drainers, DrainStoreFails(d) PROVE Good
  <2>1. lost' \in [Messages -> Nat]
    BY <1>8, FS_Singleton, PlusType DEF DrainStoreFails, GivenUp
  <2> QED BY <1>8, <2>1 DEF DrainStoreFails
<1> QED
  BY <1>1, <1>2, <1>3, <1>4, <1>5, <1>6, <1>7, <1>8
  DEF Next, vars, Handle, HandlerFails, RetryExpires, Forward, Settle, DrainDeliver,
      DrainStore, DrainAck, AdminSelect, AdminCommit, AdminFails, AdminDiscard

LEMMA InvCorrect == Spec => []Inv
<1>1. Init => Inv
  BY FS_EmptySet DEF Init, Inv, TypeOK, Finite, RowsSeen, Delivery
<1>2. Inv /\ [Next]_vars => Inv'
  BY QueuesStep, WorkStep, DrainStep, RowsStep, AdminStep, CountersStep DEF Inv, TypeOK, Finite
<1> QED BY <1>1, <1>2, PTL DEF Spec

\* Every reachable state is well typed: no republication or commit meets a row that was
\* never written, and no copy has an attempt number above max_retries.
THEOREM TypeCorrect == Spec => []TypeOK
<1>1. Inv => TypeOK
  BY DEF Inv
<1> QED BY <1>1, InvCorrect, PTL

-----------------------------------------------------------------------------
(* Each message has one fate                                               *)

\* A run of process_message that is in progress after a step and did not begin with it
\* holds the copy it held.
LEMMA WorkKept ==
    ASSUME Inv, [Next]_vars, \A c \in Consumers : ~Deliver(c),
           NEW b \in Consumers, work'[b].pc # "idle"
    PROVE  /\ work[b].pc # "idle" /\ work'[b].copy = work[b].copy
           /\ work'[b].held = work[b].held \/ work'[b].held = FALSE
           /\ work'[b].pc \in {"handle", "failed"} => work[b].pc \in {"handle", "failed"}
<1> DEFINE Pcs == {"handle", "failed", "ack", "reject"}
           Kept == /\ work[b].pc # "idle" /\ work'[b].copy = work[b].copy
                   /\ work'[b].held = work[b].held \/ work'[b].held = FALSE
                   /\ work'[b].pc \in {"handle", "failed"} => work[b].pc \in {"handle", "failed"}
<1>1. work \in [Consumers -> Delivery(Pcs)] /\ work[b] \in Delivery(Pcs) /\ Idle.pc = "idle"
  BY DEF Inv, TypeOK, Idle
<1>2. ASSUME NEW p \in Pcs, work[b].pc # "idle", work'[b] = [work[b] EXCEPT !.pc = p]
      PROVE  /\ work'[b].pc = p /\ work'[b].copy = work[b].copy /\ work'[b].held = work[b].held
  <2>1. work[b] \in [pc: Pcs, copy: Copy, held: BOOLEAN]
    BY <1>1, <1>2, DeliveryShape
  <2> QED BY <1>2, <2>1
<1>3. ASSUME NEW c \in Consumers, HandlerSucceeds(c) PROVE Kept
  BY <1>1, <1>2, <1>3 DEF HandlerSucceeds
<1>4. ASSUME NEW c \in Consumers, HandlerFails(c) PROVE Kept
  BY <1>1, <1>2, <1>4 DEF HandlerFails
<1>5. ASSUME NEW c \in Consumers, Forward(c) PROVE Kept
  <2>1. work' = [work EXCEPT ![c].pc = "reject"] /\ work[c].pc = "failed"
    BY <1>5 DEF Forward
  <2> QED BY <1>1, <1>2, <2>1
<1>6. ASSUME NEW c \in Consumers, ForwardRefused(c) \/ Settle(c) PROVE Kept
  BY <1>1, <1>6 DEF ForwardRefused, Settle
<1>7. ~Crash
  BY <1>1 DEF Crash
<1>8. CASE ConnectionLost
  <2>1. work'[b] = IF work[b] = Idle THEN Idle ELSE [work[b] EXCEPT !.held = FALSE]
    BY <1>8 DEF ConnectionLost
  <2>2. work[b] \in [pc: Pcs, copy: Copy, held: BOOLEAN] /\ work[b].pc # "idle"
    BY <1>1, <2>1, DeliveryShape
  <2>3. work'[b] = [work[b] EXCEPT !.held = FALSE]
    BY <1>1, <2>1, <2>2
  <2>4. work'[b].pc = work[b].pc /\ work'[b].copy = work[b].copy /\ work'[b].held = FALSE
    BY <2>2, <2>3
  <2> QED BY <2>2, <2>4
<1>9. CASE UNCHANGED work
  BY <1>9
<1> QED
  BY <1>3, <1>4, <1>5, <1>6, <1>7, <1>8, <1>9
  DEF Next, vars, Handle, Publish, RetryExpires, DrainDeliver, DrainStore, DrainStoreFails,
      DrainAck, AdminSelect, AdminRepublish, AdminCommit, AdminFails, AdminDiscard

\* The same of handle_dlq_message.
LEMMA DrainKept ==
    ASSUME Inv, [Next]_vars, \A d \in Drainers : ~DrainDeliver(d),
           NEW b \in Drainers, drain'[b].pc # "idle"
    PROVE  /\ drain[b].pc # "idle" /\ drain'[b].copy = drain[b].copy
           /\ drain'[b].held = drain[b].held \/ drain'[b].held = FALSE
           /\ drain'[b].pc = "store" => drain[b].pc = "store"
<1> DEFINE Pcs == {"store", "ack"}
           Kept == /\ drain[b].pc # "idle" /\ drain'[b].copy = drain[b].copy
                   /\ drain'[b].held = drain[b].held \/ drain'[b].held = FALSE
                   /\ drain'[b].pc = "store" => drain[b].pc = "store"
<1>1. drain \in [Drainers -> Delivery(Pcs)] /\ drain[b] \in Delivery(Pcs) /\ Idle.pc = "idle"
  BY DEF Inv, TypeOK, Idle
<1>2. ASSUME NEW d \in Drainers, DrainStore(d) PROVE Kept
  <2>1. drain' = [drain EXCEPT ![d].pc = "ack"] /\ drain[d].pc = "store"
    BY <1>2 DEF DrainStore
  <2>2. CASE b = d
    <3>1. drain[b] \in [pc: Pcs, copy: Copy, held: BOOLEAN]
      BY <1>1, <2>1, <2>2, DeliveryShape
    <3>2. drain'[b] = [drain[b] EXCEPT !.pc = "ack"]
      BY <1>1, <2>1, <2>2
    <3>3. drain'[b].pc = "ack" /\ drain'[b].copy = drain[b].copy /\ drain'[b].held = drain[b].held
      BY <3>1, <3>2
    <3> QED BY <2>1, <2>2, <3>3
  <2> QED BY <1>1, <2>1, <2>2
<1>3. ASSUME NEW d \in Drainers, DrainStoreFails(d) \/ DrainAck(d) PROVE Kept
  BY <1>1, <1>3 DEF DrainStoreFails, DrainAck
<1>4. ~Crash
  BY <1>1 DEF Crash
<1>5. CASE ConnectionLost
  <2>1. drain'[b] = IF drain[b] = Idle THEN Idle ELSE [drain[b] EXCEPT !.held = FALSE]
    BY <1>5 DEF ConnectionLost
  <2>2. drain[b] \in [pc: Pcs, copy: Copy, held: BOOLEAN] /\ drain[b].pc # "idle"
    BY <1>1, <2>1, DeliveryShape
  <2>3. drain'[b] = [drain[b] EXCEPT !.held = FALSE]
    BY <1>1, <2>1, <2>2
  <2>4. drain'[b].pc = drain[b].pc /\ drain'[b].copy = drain[b].copy /\ drain'[b].held = FALSE
    BY <2>2, <2>3
  <2> QED BY <2>2, <2>4
<1>6. CASE UNCHANGED drain
  BY <1>6
<1> QED
  BY <1>2, <1>3, <1>4, <1>5, <1>6
  DEF Next, vars, Handle, HandlerSucceeds, HandlerFails, Publish, RetryExpires, Deliver, Forward,
      ForwardRefused, Settle, AdminSelect, AdminRepublish, AdminCommit, AdminFails, AdminDiscard

\* Only a delivery adds to what the broker has in consumers' hands.
LEMMA HeldKept ==
    ASSUME Inv, [Next]_vars
    PROVE  /\ (\A c \in Consumers : ~Deliver(c)) => HeldMain' \subseteq HeldMain
           /\ (\A d \in Drainers : ~DrainDeliver(d)) => HeldDead' \subseteq HeldDead
<1>1. ASSUME \A c \in Consumers : ~Deliver(c), NEW b \in Consumers, work'[b].pc # "idle",
             work'[b].held
      PROVE  work'[b].copy \in HeldMain
  <2>1. /\ work[b].pc # "idle" /\ work'[b].copy = work[b].copy
        /\ work'[b].held = work[b].held \/ work'[b].held = FALSE
    BY <1>1, WorkKept
  <2>2. work[b].held
    BY <1>1, <2>1
  <2> QED BY <2>1, <2>2 DEF HeldMain
<1>2. ASSUME \A d \in Drainers : ~DrainDeliver(d), NEW b \in Drainers, drain'[b].pc # "idle",
             drain'[b].held
      PROVE  drain'[b].copy \in HeldDead
  <2>1. /\ drain[b].pc # "idle" /\ drain'[b].copy = drain[b].copy
        /\ drain'[b].held = drain[b].held \/ drain'[b].held = FALSE
    BY <1>2, DrainKept
  <2>2. drain[b].held
    BY <1>2, <2>1
  <2> QED BY <2>1, <2>2 DEF HeldDead
<1>3. /\ HeldMain' = {work'[c].copy : c \in {b \in Consumers : work'[b].pc # "idle" /\ work'[b].held}}
      /\ HeldDead' = {drain'[d].copy : d \in {b \in Drainers : drain'[b].pc # "idle" /\ drain'[b].held}}
  BY DEF HeldMain, HeldDead
<1> QED BY <1>1, <1>2, <1>3

\* A copy is in one place.
Apart ==
    /\ main \cap retry = {} /\ main \cap dead = {} /\ retry \cap dead = {}
    /\ HeldMain \cap HeldDead = {}
    /\ (HeldMain \cup HeldDead) \cap (main \cup retry \cup dead) = {}

LEMMA ApartStep ==
    ASSUME Inv, Apart, [Next]_vars
    PROVE  Apart'
<1> DEFINE Quiet == /\ \A c \in Consumers : ~Deliver(c)
                    /\ \A d \in Drainers : ~DrainDeliver(d)
<1>1. ASSUME HeldMain' \subseteq HeldMain, HeldDead' \subseteq HeldDead,
             main' \subseteq main, retry' \subseteq retry, dead' \subseteq dead
      PROVE  Apart'
  BY <1>1 DEF Apart
<1>2. ASSUME HeldMain' \subseteq HeldMain, HeldDead' \subseteq HeldDead, NEW y,
             y.token \notin UsedTokens,
             \/ main' = main \cup {y} /\ retry' = retry /\ dead' = dead
             \/ main' = main /\ retry' = retry \cup {y} /\ dead' = dead
             \/ main' = main /\ retry' = retry /\ dead' = dead \cup {y}
      PROVE  Apart'
  <2>1. y \notin main \cup retry \cup dead \cup HeldMain \cup HeldDead
    BY <1>2 DEF UsedTokens
  <2> QED BY <1>2, <2>1 DEF Apart
<1>3. ASSUME Quiet PROVE HeldMain' \subseteq HeldMain /\ HeldDead' \subseteq HeldDead
  BY <1>3, HeldKept
<1>4. ASSUME Quiet, NEW m \in Messages, Publish(m) PROVE Apart'
  <2>1. PICK t \in Tokens \ UsedTokens :
          main' = main \cup {[token |-> t, msg |-> m, attempt |-> 0]}
    BY <1>4 DEF Publish, Enqueue
  <2>2. retry' = retry /\ dead' = dead
    BY <1>4 DEF Publish
  <2> DEFINE y == [token |-> t, msg |-> m, attempt |-> 0]
  <2>3. y.token \notin UsedTokens /\ main' = main \cup {y}
    BY <2>1
  <2> HIDE DEF y, Quiet
  <2> QED BY <1>2, <1>3, <1>4, <2>2, <2>3
<1>5. ASSUME Quiet, NEW c \in Consumers, Forward(c) PROVE Apart'
  <2>1. PICK t \in Tokens \ UsedTokens, n \in {work[c].copy.attempt, work[c].copy.attempt + 1} :
          \/ /\ retry' = retry \cup {[token |-> t, msg |-> work[c].copy.msg, attempt |-> n]}
             /\ dead' = dead
          \/ /\ dead' = dead \cup {[token |-> t, msg |-> work[c].copy.msg, attempt |-> n]}
             /\ retry' = retry
    BY <1>5 DEF Forward, Enqueue
  <2>2. main' = main
    BY <1>5 DEF Forward
  <2> DEFINE y == [token |-> t, msg |-> work[c].copy.msg, attempt |-> n]
  <2>3. y.token = t
    OBVIOUS
  <2>4. \/ retry' = retry \cup {y} /\ dead' = dead
        \/ retry' = retry /\ dead' = dead \cup {y}
    BY <2>1
  <2>5. y.token \notin UsedTokens
    BY <2>1, <2>3
  <2> HIDE DEF y, Quiet
  <2> QED BY <1>2, <1>3, <1>5, <2>2, <2>4, <2>5
<1>6. ASSUME Quiet, NEW a \in Admins, NEW i \in Rows, AdminRepublish(a, i) PROVE Apart'
  <2>1. retry' = retry /\ dead' = dead
    BY <1>6 DEF AdminRepublish
  <2>2. CASE main' = main
    <3> HIDE DEF Quiet
    <3> QED BY <1>1, <1>3, <1>6, <2>1, <2>2
  <2>3. CASE Enqueue(main, rows[i].msg, 0)
    <3>1. PICK t \in Tokens \ UsedTokens :
            main' = main \cup {[token |-> t, msg |-> rows[i].msg, attempt |-> 0]}
      BY <2>3 DEF Enqueue
    <3> DEFINE y == [token |-> t, msg |-> rows[i].msg, attempt |-> 0]
    <3>2. y.token \notin UsedTokens /\ main' = main \cup {y}
      BY <3>1
    <3> HIDE DEF y, Quiet
    <3> QED BY <1>2, <1>3, <1>6, <2>1, <3>2
  <2>4. main' = main \/ Enqueue(main, rows[i].msg, 0)
    BY <1>6 DEF AdminRepublish, Enqueue
  <2> QED BY <2>2, <2>3, <2>4
<1>7. ASSUME Quiet, RetryExpires PROVE Apart'
  <2>1. PICK x \in retry : retry' = retry \ {x} /\ main' = main \cup {x} /\ dead' = dead
    BY <1>7 DEF RetryExpires
  <2>2. HeldMain' \subseteq HeldMain /\ HeldDead' \subseteq HeldDead
    BY <1>3, <1>7
  <2> QED BY <2>1, <2>2 DEF Apart
<1>8. ASSUME NEW c \in Consumers, Deliver(c) PROVE Apart'
  <2>1. PICK x \in main :
          /\ main' = main \ {x}
          /\ work' = [work EXCEPT ![c] = [pc |-> "handle", copy |-> x, held |-> TRUE]]
    BY <1>8 DEF Deliver
  <2>2. retry' = retry /\ dead' = dead /\ drain' = drain
    BY <1>8 DEF Deliver
  <2>3. HeldDead' = HeldDead
    BY <2>2 DEF HeldDead
  <2>4. ASSUME NEW b \in Consumers, work'[b].pc # "idle", work'[b].held
        PROVE  work'[b].copy \in HeldMain \cup {x}
    <3>1. work'[c].copy = x /\ \A d \in Consumers : d # c => work'[d] = work[d]
      BY <2>1 DEF Inv, TypeOK
    <3> QED BY <2>4, <3>1 DEF HeldMain
  <2>5. HeldMain' \subseteq HeldMain \cup {x}
    BY <2>4 DEF HeldMain
  <2> QED BY <2>1, <2>2, <2>3, <2>5 DEF Apart
<1>9. ASSUME NEW d \in Drainers, DrainDeliver(d) PROVE Apart'
  <2>1. PICK x \in dead :
          /\ dead' = dead \ {x}
          /\ drain' = [drain EXCEPT ![d] = [pc |-> "store", copy |-> x, held |-> TRUE]]
    BY <1>9 DEF DrainDeliver
  <2>2. retry' = retry /\ main' = main /\ work' = work
    BY <1>9 DEF DrainDeliver
  <2>3. HeldMain' = HeldMain
    BY <2>2 DEF HeldMain
  <2>4. ASSUME NEW b \in Drainers, drain'[b].pc # "idle", drain'[b].held
        PROVE  drain'[b].copy \in HeldDead \cup {x}
    <3>1. drain'[d].copy = x /\ \A c \in Drainers : c # d => drain'[c] = drain[c]
      BY <2>1 DEF Inv, TypeOK
    <3> QED BY <2>4, <3>1 DEF HeldDead
  <2>5. HeldDead' \subseteq HeldDead \cup {x}
    BY <2>4 DEF HeldDead
  <2> QED BY <2>1, <2>2, <2>3, <2>5 DEF Apart
<1>10. ASSUME Crash \/ ConnectionLost PROVE Apart'
  <2>1. /\ main' = main \cup HeldMain /\ retry' = retry
        /\ dead' \subseteq dead \cup HeldDead
    BY <1>10 DEF Crash, ConnectionLost
  <2>2. ASSUME NEW b \in Consumers PROVE work'[b].pc = "idle" \/ work'[b].held = FALSE
    <3>1. CASE work'[b] = Idle
      BY <3>1 DEF Idle
    <3>2. CASE work[b] # Idle /\ work'[b] = [work[b] EXCEPT !.held = FALSE]
      <4>1. work[b] \in Delivery({"handle", "failed", "ack", "reject"})
        BY DEF Inv, TypeOK
      <4>2. work[b] \in [pc: {"handle", "failed", "ack", "reject"}, copy: Copy, held: BOOLEAN]
        BY <3>2, <4>1, DeliveryShape
      <4> QED BY <3>2, <4>2
    <3> QED BY <1>10, <3>1, <3>2 DEF Crash, ConnectionLost
  <2>3. ASSUME NEW b \in Drainers PROVE drain'[b].pc = "idle" \/ drain'[b].held = FALSE
    <3>1. CASE drain'[b] = Idle
      BY <3>1 DEF Idle
    <3>2. CASE drain[b] # Idle /\ drain'[b] = [drain[b] EXCEPT !.held = FALSE]
      <4>1. drain[b] \in Delivery({"store", "ack"})
        BY DEF Inv, TypeOK
      <4>2. drain[b] \in [pc: {"store", "ack"}, copy: Copy, held: BOOLEAN]
        BY <3>2, <4>1, DeliveryShape
      <4> QED BY <3>2, <4>2
    <3> QED BY <1>10, <3>1, <3>2 DEF Crash, ConnectionLost
  <2>4. \A b \in Consumers : ~(work'[b].pc # "idle" /\ work'[b].held)
    BY <2>2
  <2>5. \A b \in Drainers : ~(drain'[b].pc # "idle" /\ drain'[b].held)
    BY <2>3
  <2>6. HeldMain' = {} /\ HeldDead' = {}
    BY <2>4, <2>5 DEF HeldMain, HeldDead
  <2> QED BY <2>1, <2>6 DEF Apart
<1>11. ASSUME Quiet, UNCHANGED queues PROVE Apart'
  BY <1>1, <1>3, <1>11 DEF queues
<1> QED
  BY <1>4, <1>5, <1>6, <1>7, <1>8, <1>9, <1>10, <1>11
  DEF Next, vars, Handle, HandlerSucceeds, HandlerFails, ForwardRefused, Settle, DrainStore,
      DrainStoreFails, DrainAck, AdminSelect, AdminCommit, AdminFails, AdminDiscard

\* What OpenCopies and RowsOf count.
Waiting(m) == {x \in main \cup retry \cup dead : x.msg = m}
InHand(m) == {c \in Consumers : work[c].pc \in {"handle", "failed"} /\ work[c].copy.msg = m}
ToStore(m) == {d \in Drainers : drain[d].pc = "store" /\ drain[d].copy.msg = m}
RowsFor(m) == {i \in Rows : rows[i] # Free /\ rows[i].msg = m}

\* A first copy comes with the publication, others with redeliveries and republications.
Allowed(m) == IF m \in published THEN 1 + again[m] ELSE again[m]

Fates ==
    \A m \in Messages :
        Cardinality(Waiting(m)) + Cardinality(InHand(m)) + Cardinality(ToStore(m)) + effects[m]
        + Cardinality(RowsFor(m)) <= Allowed(m)

\* Sizes of sets that differ by a little.
LEMMA Sizes ==
    ASSUME NEW S, IsFiniteSet(S), NEW T
    PROVE  /\ Cardinality(S) \in Nat
           /\ T \subseteq S => Cardinality(T) \in Nat /\ Cardinality(T) <= Cardinality(S)
           /\ \A x \in S : T \subseteq S \ {x} =>
                Cardinality(T) \in Nat /\ Cardinality(T) + 1 <= Cardinality(S)
           /\ \A U : IsFiniteSet(U) /\ T \subseteq S \cup U =>
                Cardinality(T) \in Nat /\ Cardinality(T) <= Cardinality(S) + Cardinality(U)
           /\ \A x : T \subseteq S \cup {x} =>
                Cardinality(T) \in Nat /\ Cardinality(T) <= Cardinality(S) + 1
<1>1. ASSUME NEW A, IsFiniteSet(A), NEW B, B \subseteq A
      PROVE  /\ IsFiniteSet(B) /\ Cardinality(B) \in Nat /\ Cardinality(A) \in Nat
             /\ Cardinality(B) <= Cardinality(A)
  <2>1. B \in SUBSET A
    BY <1>1
  <2>2. IsFiniteSet(B) /\ Cardinality(B) <= Cardinality(A)
    BY <1>1, <2>1, FS_Subset
  <2> QED BY <1>1, <2>2, FS_CardinalityType
<1>2. ASSUME NEW x \in S, T \subseteq S \ {x}
      PROVE  Cardinality(T) \in Nat /\ Cardinality(T) + 1 <= Cardinality(S)
  <2>1. IsFiniteSet(S \ {x}) /\ Cardinality(S \ {x}) = Cardinality(S) - 1
    BY FS_RemoveElement
  <2>2. Cardinality(S) \in Nat
    BY FS_CardinalityType
  <2> QED BY <1>1, <1>2, <2>1, <2>2
<1>3. ASSUME NEW U, IsFiniteSet(U), T \subseteq S \cup U
      PROVE  Cardinality(T) \in Nat /\ Cardinality(T) <= Cardinality(S) + Cardinality(U)
  <2>1. IsFiniteSet(S \cup U)
        /\ Cardinality(S \cup U) = Cardinality(S) + Cardinality(U) - Cardinality(S \cap U)
    BY <1>3, FS_Union
  <2>2. Cardinality(S) \in Nat /\ Cardinality(U) \in Nat /\ Cardinality(S \cap U) \in Nat
    BY <1>1, <1>3, FS_CardinalityType
  <2>3. Cardinality(T) \in Nat /\ Cardinality(T) <= Cardinality(S \cup U)
    BY <1>1, <1>3, <2>1
  <2> QED BY <2>1, <2>2, <2>3
<1>4. ASSUME NEW x, T \subseteq S \cup {x}
      PROVE  Cardinality(T) \in Nat /\ Cardinality(T) <= Cardinality(S) + 1
  <2>1. IsFiniteSet({x}) /\ Cardinality({x}) = 1
    BY FS_Singleton
  <2> QED BY <1>3, <1>4, <2>1
<1> QED BY <1>1, <1>2, <1>3, <1>4, FS_CardinalityType

LEMMA PlacesFinite ==
    ASSUME Inv, NEW m
    PROVE  /\ IsFiniteSet(Waiting(m)) /\ IsFiniteSet(InHand(m)) /\ IsFiniteSet(ToStore(m))
           /\ IsFiniteSet(RowsFor(m))
<1>1. IsFiniteSet(main \cup retry)
  BY FS_Union DEF Inv, Finite
<1>2. IsFiniteSet(main \cup retry \cup dead)
  BY <1>1, FS_Union DEF Inv, Finite
<1>3. /\ Waiting(m) \in SUBSET (main \cup retry \cup dead) /\ InHand(m) \in SUBSET Consumers
      /\ ToStore(m) \in SUBSET Drainers /\ RowsFor(m) \in SUBSET Rows
  BY DEF Waiting, InHand, ToStore, RowsFor
<1> QED BY <1>2, <1>3, ConstantsAssumption, FS_Subset

\* A step that neither delivers nor stores adds no run and no row.
LEMMA PlacesKept ==
    ASSUME Inv, [Next]_vars, NEW m
    PROVE  /\ (\A c \in Consumers : ~Deliver(c)) => InHand(m)' \subseteq InHand(m)
           /\ (\A d \in Drainers : ~DrainDeliver(d)) => ToStore(m)' \subseteq ToStore(m)
           /\ (\A d \in Drainers : ~DrainStore(d)) => RowsFor(m)' \subseteq RowsFor(m)
<1>1. ASSUME \A c \in Consumers : ~Deliver(c), NEW b \in InHand(m)' PROVE b \in InHand(m)
  <2>1. b \in Consumers /\ work'[b].pc \in {"handle", "failed"} /\ work'[b].copy.msg = m
    BY <1>1 DEF InHand
  <2>2. work[b].pc \in {"handle", "failed"} /\ work'[b].copy = work[b].copy
    BY <1>1, <2>1, WorkKept
  <2> QED BY <2>1, <2>2 DEF InHand
<1>2. ASSUME \A d \in Drainers : ~DrainDeliver(d), NEW b \in ToStore(m)' PROVE b \in ToStore(m)
  <2>1. b \in Drainers /\ drain'[b].pc = "store" /\ drain'[b].copy.msg = m
    BY <1>2 DEF ToStore
  <2>2. drain[b].pc = "store" /\ drain'[b].copy = drain[b].copy
    BY <1>2, <2>1, DrainKept
  <2> QED BY <2>1, <2>2 DEF ToStore
<1>3. ASSUME \A d \in Drainers : ~DrainStore(d), NEW i \in RowsFor(m)' PROVE i \in RowsFor(m)
  <2>1. i \in Rows /\ rows'[i] # Free /\ rows'[i].msg = m
    BY <1>3 DEF RowsFor
  <2>2. CASE rows[i] # Free
    BY <2>1, <2>2, RowsStep DEF RowsFor
  <2>3. ASSUME rows[i] = Free PROVE rows'[i] = rows[i]
    <3>1. ASSUME NEW a \in Admins, AdminCommit(a) PROVE rows'[i] = rows[i]
      <4>1. admin[a] # Idle
        BY <3>1 DEF AdminCommit, Idle
      <4>2. i \notin admin[a].done
        BY <2>3, <4>1 DEF Inv, RowsSeen
      <4> QED BY <2>1, <3>1, <4>2 DEF AdminCommit
    <3>2. ASSUME NEW selection \in SUBSET Rows, AdminDiscard(selection) PROVE rows'[i] = rows[i]
      <4>1. rows[i].status # "pending"
        BY <2>3 DEF Free
      <4> QED BY <2>1, <3>2, <4>1 DEF AdminDiscard
    <3>3. CASE UNCHANGED rows
      BY <3>3
    <3> QED
      BY <1>3, <3>1, <3>2, <3>3
      DEF Next, vars, Handle, HandlerSucceeds, HandlerFails, Publish, RetryExpires, Deliver,
          Forward, ForwardRefused, Settle, DrainDeliver, DrainStoreFails, DrainAck, AdminSelect,
          AdminRepublish, AdminFails, Crash, ConnectionLost
  <2> QED BY <2>1, <2>2, <2>3
<1> QED BY <1>1, <1>2, <1>3

\* A redelivery counts every copy of the message that goes back.
LEMMA AgainStep ==
    ASSUME Inv, [Next]_vars, NEW m \in Messages
    PROVE  /\ Allowed(m) \in Nat /\ Allowed(m)' \in Nat /\ Allowed(m) <= Allowed(m)'
           /\ Crash \/ ConnectionLost =>
                Allowed(m)' = Allowed(m) + Cardinality({x \in HeldMain \cup HeldDead : x.msg = m})
           /\ \A n \in Messages : Publish(n) => m # n \/ Allowed(m)' = Allowed(m) + 1
<1> DEFINE H == {x \in HeldMain \cup HeldDead : x.msg = m}
<1>1. again \in [Messages -> Nat] /\ again' \in [Messages -> Nat]
  BY CountersStep DEF Inv, TypeOK
<1>2. Cardinality(H) \in Nat
  <2>1. IsFiniteSet(HeldMain \cup HeldDead)
    BY HeldCopies, FS_Union DEF Inv
  <2>2. H \in SUBSET (HeldMain \cup HeldDead)
    OBVIOUS
  <2>3. IsFiniteSet(H)
    BY <2>1, <2>2, FS_Subset
  <2> QED BY <2>3, FS_CardinalityType
<1>3. ASSUME Crash \/ ConnectionLost
      PROVE  again'[m] = again[m] + Cardinality(H) /\ published' = published
  BY <1>3 DEF Crash, ConnectionLost, Plus, Count
<1>4. published \subseteq published'
  BY DEF Next, vars, history, Handle, HandlerSucceeds, HandlerFails, Publish, RetryExpires, Deliver,
         Forward, ForwardRefused, Settle, DrainDeliver, DrainStore, DrainStoreFails, DrainAck,
         AdminSelect, AdminRepublish, AdminCommit, AdminFails, AdminDiscard, Crash, ConnectionLost
<1>5. again[m] <= again'[m]
  <2>1. ASSUME NEW a \in Admins, NEW i \in Rows, AdminRepublish(a, i) PROVE again[m] <= again'[m]
    <3>1. again' = again \/ again' = [again EXCEPT ![rows[i].msg] = again[rows[i].msg] + 1]
      BY <2>1 DEF AdminRepublish
    <3> QED BY <1>1, <3>1
  <2>2. CASE UNCHANGED again
    BY <1>1, <2>2
  <2>3. CASE Crash \/ ConnectionLost
    <3> HIDE DEF H
    <3> QED BY <1>1, <1>2, <1>3, <2>3
  <2> QED
    BY <2>1, <2>2, <2>3
    DEF Next, vars, history, Handle, HandlerSucceeds, HandlerFails, Publish, RetryExpires, Deliver,
        Forward, ForwardRefused, Settle, DrainDeliver, DrainStore, DrainStoreFails, DrainAck,
        AdminSelect, AdminCommit, AdminFails, AdminDiscard
<1>6. ASSUME NEW n \in Messages, Publish(n), m = n
      PROVE  m \notin published /\ m \in published' /\ again' = again
  BY <1>6 DEF Publish
<1> HIDE DEF H
<1>7. Allowed(m) \in Nat /\ Allowed(m)' \in Nat /\ Allowed(m) <= Allowed(m)'
  BY <1>1, <1>4, <1>5 DEF Allowed
<1>8. Crash \/ ConnectionLost => Allowed(m)' = Allowed(m) + Cardinality(H)
  BY <1>1, <1>2, <1>3 DEF Allowed
<1>9. \A n \in Messages : Publish(n) => m # n \/ Allowed(m)' = Allowed(m) + 1
  BY <1>1, <1>6 DEF Allowed
<1> QED BY <1>7, <1>8, <1>9 DEF H

\* Each step moves a message from one count to another, or adds to what it is allowed.
LEMMA FatesStep ==
    ASSUME Inv, Apart, Fates, [Next]_vars
    PROVE  Fates'
<1> SUFFICES ASSUME NEW m \in Messages
             PROVE  Cardinality(Waiting(m)') + Cardinality(InHand(m)') + Cardinality(ToStore(m)')
                    + effects'[m] + Cardinality(RowsFor(m)') <= Allowed(m)'
  BY DEF Fates
<1> DEFINE q == Cardinality(Waiting(m))   q1 == Cardinality(Waiting(m)')
           w == Cardinality(InHand(m))    w1 == Cardinality(InHand(m)')
           s == Cardinality(ToStore(m))   s1 == Cardinality(ToStore(m)')
           r == Cardinality(RowsFor(m))   r1 == Cardinality(RowsFor(m)')
           Good == q1 + w1 + s1 + effects'[m] + r1 <= Allowed(m)'
           Undelivered == \A c \in Consumers : ~Deliver(c)
           Undrained == \A d \in Drainers : ~DrainDeliver(d)
           Unstored == \A d \in Drainers : ~DrainStore(d)
<1>1. /\ q + w + s + effects[m] + r <= Allowed(m)
      /\ q \in Nat /\ w \in Nat /\ s \in Nat /\ r \in Nat
      /\ effects[m] \in Nat /\ effects'[m] \in Nat
  BY PlacesFinite, FS_CardinalityType, CountersStep DEF Fates, Inv, TypeOK
<1>2. /\ Undelivered => w1 \in Nat /\ w1 <= w
      /\ Undrained => s1 \in Nat /\ s1 <= s
      /\ Unstored => r1 \in Nat /\ r1 <= r
  BY PlacesKept, PlacesFinite, Sizes
<1>3. Waiting(m)' \subseteq Waiting(m) => q1 \in Nat /\ q1 <= q
  BY PlacesFinite, Sizes
<1>4. \A y : Waiting(m)' \subseteq Waiting(m) \cup {y} => q1 \in Nat /\ q1 <= q + 1
  BY PlacesFinite, Sizes
<1>5. Allowed(m) \in Nat /\ Allowed(m)' \in Nat /\ Allowed(m) <= Allowed(m)'
  BY AgainStep
<1>6. ASSUME Undelivered, Undrained, Unstored, effects'[m] = effects[m], q1 \in Nat,
             q1 + Allowed(m) <= q + Allowed(m)'
      PROVE  Good
  <2> HIDE DEF q, q1, w, w1, s, s1, r, r1, Undelivered, Undrained, Unstored
  <2> QED BY <1>1, <1>2, <1>5, <1>6
<1>7. ASSUME Undelivered, Undrained, Unstored, effects'[m] = effects[m],
             Waiting(m)' \subseteq Waiting(m)
      PROVE  Good
  <2>1. q1 \in Nat /\ q1 <= q
    BY <1>3, <1>7
  <2>2. q1 + Allowed(m) <= q + Allowed(m)'
    <3> HIDE DEF q, q1
    <3> QED BY <1>1, <1>5, <2>1
  <2> HIDE DEF q, q1, Good, Undelivered, Undrained, Unstored
  <2> QED BY <1>6, <1>7, <2>1, <2>2
<1>8. ASSUME UNCHANGED queues PROVE Waiting(m)' \subseteq Waiting(m)
  BY <1>8 DEF queues, Waiting
<1>9. ASSUME NEW c \in Consumers, Deliver(c) PROVE Good
  <2>1. PICK x \in main :
          /\ main' = main \ {x}
          /\ work' = [work EXCEPT ![c] = [pc |-> "handle", copy |-> x, held |-> TRUE]]
    BY <1>9 DEF Deliver
  <2>2. /\ retry' = retry /\ dead' = dead /\ drain' = drain /\ rows' = rows
        /\ effects' = effects
    BY <1>9 DEF Deliver
  <2>3. ToStore(m)' = ToStore(m) /\ RowsFor(m)' = RowsFor(m)
    BY <2>2 DEF ToStore, RowsFor
  <2>4. /\ work'[c] = [pc |-> "handle", copy |-> x, held |-> TRUE]
        /\ \A b \in Consumers : b # c => work'[b] = work[b]
    BY <2>1 DEF Inv, TypeOK
  <2>5. CASE x.msg = m
    <3>1. InHand(m)' \subseteq InHand(m) \cup {c}
      BY <2>4 DEF InHand
    <3>2. x \in Waiting(m) /\ Waiting(m)' \subseteq Waiting(m) \ {x}
      BY <2>1, <2>2, <2>5 DEF Waiting, Apart
    <3>3. w1 \in Nat /\ w1 <= w + 1
      BY <3>1, PlacesFinite, Sizes
    <3>4. q1 \in Nat /\ q1 + 1 <= q
      BY <3>2, PlacesFinite, Sizes
    <3>5. s1 = s /\ r1 = r
      BY <2>3
    <3> HIDE DEF q, q1, w, w1, s, s1, r, r1
    <3> QED BY <1>1, <1>5, <2>2, <3>3, <3>4, <3>5
  <2>6. CASE x.msg # m
    <3>1. InHand(m)' \subseteq InHand(m)
      BY <2>4, <2>6 DEF InHand
    <3>2. Waiting(m)' \subseteq Waiting(m)
      BY <2>1, <2>2 DEF Waiting
    <3>3. w1 \in Nat /\ w1 <= w
      BY <3>1, PlacesFinite, Sizes
    <3>4. q1 \in Nat /\ q1 <= q
      BY <1>3, <3>2
    <3>5. s1 = s /\ r1 = r
      BY <2>3
    <3> HIDE DEF q, q1, w, w1, s, s1, r, r1
    <3> QED BY <1>1, <1>5, <2>2, <3>3, <3>4, <3>5
  <2> QED BY <2>5, <2>6
<1>10. ASSUME NEW d \in Drainers, DrainDeliver(d) PROVE Good
  <2>1. PICK x \in dead :
          /\ dead' = dead \ {x}
          /\ drain' = [drain EXCEPT ![d] = [pc |-> "store", copy |-> x, held |-> TRUE]]
    BY <1>10 DEF DrainDeliver
  <2>2. /\ retry' = retry /\ main' = main /\ work' = work /\ rows' = rows
        /\ effects' = effects
    BY <1>10 DEF DrainDeliver, history
  <2>3. InHand(m)' = InHand(m) /\ RowsFor(m)' = RowsFor(m)
    BY <2>2 DEF InHand, RowsFor
  <2>4. /\ drain'[d] = [pc |-> "store", copy |-> x, held |-> TRUE]
        /\ \A b \in Drainers : b # d => drain'[b] = drain[b]
    BY <2>1 DEF Inv, TypeOK
  <2>5. CASE x.msg = m
    <3>1. ToStore(m)' \subseteq ToStore(m) \cup {d}
      BY <2>4 DEF ToStore
    <3>2. x \in Waiting(m) /\ Waiting(m)' \subseteq Waiting(m) \ {x}
      BY <2>1, <2>2, <2>5 DEF Waiting, Apart
    <3>3. s1 \in Nat /\ s1 <= s + 1
      BY <3>1, PlacesFinite, Sizes
    <3>4. q1 \in Nat /\ q1 + 1 <= q
      BY <3>2, PlacesFinite, Sizes
    <3>5. w1 = w /\ r1 = r
      BY <2>3
    <3> HIDE DEF q, q1, w, w1, s, s1, r, r1
    <3> QED BY <1>1, <1>5, <2>2, <3>3, <3>4, <3>5
  <2>6. CASE x.msg # m
    <3>1. ToStore(m)' \subseteq ToStore(m)
      BY <2>4, <2>6 DEF ToStore
    <3>2. Waiting(m)' \subseteq Waiting(m)
      BY <2>1, <2>2 DEF Waiting
    <3>3. s1 \in Nat /\ s1 <= s
      BY <3>1, PlacesFinite, Sizes
    <3>4. q1 \in Nat /\ q1 <= q
      BY <1>3, <3>2
    <3>5. w1 = w /\ r1 = r
      BY <2>3
    <3> HIDE DEF q, q1, w, w1, s, s1, r, r1
    <3> QED BY <1>1, <1>5, <2>2, <3>3, <3>4, <3>5
  <2> QED BY <2>5, <2>6
<1>11. ASSUME Undelivered, Undrained, NEW d \in Drainers, DrainStore(d) PROVE Good
  <2>1. PICK i \in Rows :
          /\ rows[i] = Free
          /\ rows' = [rows EXCEPT ![i] = [msg |-> drain[d].copy.msg, status |-> "pending"]]
    BY <1>11 DEF DrainStore
  <2>2. /\ drain[d].pc = "store" /\ drain' = [drain EXCEPT ![d].pc = "ack"]
        /\ effects' = effects /\ UNCHANGED queues
    BY <1>11 DEF DrainStore, history
  <2>3. q1 \in Nat /\ q1 <= q
    BY <1>3, <1>8, <2>2
  <2>4. w1 \in Nat /\ w1 <= w /\ s1 \in Nat /\ s1 <= s
    BY <1>2, <1>11
  <2>5. CASE drain[d].copy.msg = m
    <3>1. d \in ToStore(m)
      BY <2>2, <2>5 DEF ToStore
    <3>2. drain'[d].pc = "ack"
      BY <2>2 DEF Inv, TypeOK
    <3>3. d \notin ToStore(m)'
      BY <3>2 DEF ToStore
    <3>4. ToStore(m)' \subseteq ToStore(m) \ {d}
      BY <1>11, <3>3, PlacesKept
    <3>5. s1 \in Nat /\ s1 + 1 <= s
      BY <3>1, <3>4, PlacesFinite, Sizes
    <3>6. RowsFor(m)' \subseteq RowsFor(m) \cup {i}
      BY <2>1 DEF RowsFor, Inv, TypeOK
    <3>7. r1 \in Nat /\ r1 <= r + 1
      BY <3>6, PlacesFinite, Sizes
    <3> HIDE DEF q, q1, w, w1, s, s1, r, r1
    <3> QED BY <1>1, <1>5, <2>2, <2>3, <2>4, <3>5, <3>7
  <2>6. CASE drain[d].copy.msg # m
    <3>1. rows'[i].msg = drain[d].copy.msg /\ \A j \in Rows : j # i => rows'[j] = rows[j]
      BY <2>1 DEF Inv, TypeOK
    <3>2. RowsFor(m)' \subseteq RowsFor(m)
      BY <2>6, <3>1 DEF RowsFor
    <3>3. r1 \in Nat /\ r1 <= r
      BY <3>2, PlacesFinite, Sizes
    <3> HIDE DEF q, q1, w, w1, s, s1, r, r1
    <3> QED BY <1>1, <1>5, <2>2, <2>3, <2>4, <3>3
  <2> QED BY <2>5, <2>6
<1>12. ASSUME Undelivered, Undrained, Unstored, NEW c \in Consumers, HandlerSucceeds(c) PROVE Good
  <2>1. /\ work[c].pc = "handle" /\ work' = [work EXCEPT ![c].pc = "ack"] /\ UNCHANGED queues
        /\ effects' = [effects EXCEPT ![work[c].copy.msg] = effects[work[c].copy.msg] + 1]
    BY <1>12 DEF HandlerSucceeds
  <2>2. CASE work[c].copy.msg # m
    <3>1. effects'[m] = effects[m]
      BY <2>1, <2>2 DEF Inv, TypeOK
    <3> HIDE DEF Good, Undelivered, Undrained, Unstored
    <3> QED BY <1>7, <1>8, <1>12, <2>1, <3>1
  <2>3. CASE work[c].copy.msg = m
    <3>1. effects'[m] = effects[m] + 1
      BY <2>1, <2>3 DEF Inv, TypeOK
    <3>2. c \in InHand(m)
      BY <2>1, <2>3 DEF InHand
    <3>3. work'[c].pc = "ack"
      BY <2>1 DEF Inv, TypeOK
    <3>4. c \notin InHand(m)'
      BY <3>3 DEF InHand
    <3>5. InHand(m)' \subseteq InHand(m) \ {c}
      BY <1>12, <3>4, PlacesKept
    <3>6. w1 \in Nat /\ w1 + 1 <= w
      BY <3>2, <3>5, PlacesFinite, Sizes
    <3>7. q1 \in Nat /\ q1 <= q
      BY <1>3, <1>8, <2>1
    <3>8. s1 \in Nat /\ s1 <= s /\ r1 \in Nat /\ r1 <= r
      BY <1>2, <1>12
    <3> HIDE DEF q, q1, w, w1, s, s1, r, r1
    <3> QED BY <1>1, <1>5, <3>1, <3>6, <3>7, <3>8
  <2> QED BY <2>2, <2>3
<1>13. ASSUME Undelivered, Undrained, Unstored, NEW c \in Consumers, Forward(c) PROVE Good
  <2>1. PICK t \in Tokens, n \in {work[c].copy.attempt, work[c].copy.attempt + 1} :
          \/ /\ retry' = retry \cup {[token |-> t, msg |-> work[c].copy.msg, attempt |-> n]}
             /\ dead' = dead
          \/ /\ dead' = dead \cup {[token |-> t, msg |-> work[c].copy.msg, attempt |-> n]}
             /\ retry' = retry
    BY <1>13 DEF Forward, Enqueue
  <2>2. /\ main' = main /\ effects' = effects /\ work[c].pc = "failed"
        /\ work' = [work EXCEPT ![c].pc = "reject"]
    BY <1>13 DEF Forward, history
  <2> DEFINE y == [token |-> t, msg |-> work[c].copy.msg, attempt |-> n]
  <2>3. y.msg = work[c].copy.msg
    OBVIOUS
  <2>4. CASE work[c].copy.msg # m
    <3>1. Waiting(m)' \subseteq Waiting(m)
      <4>1. main' \cup retry' \cup dead' \subseteq main \cup retry \cup dead \cup {y}
        BY <2>1, <2>2
      <4> HIDE DEF y
      <4> QED BY <2>3, <2>4, <4>1 DEF Waiting
    <3> HIDE DEF Good, Undelivered, Undrained, Unstored
    <3> QED BY <1>7, <1>13, <2>2, <3>1
  <2>5. CASE work[c].copy.msg = m
    <3>1. Waiting(m)' \subseteq Waiting(m) \cup {y}
      <4>1. main' \cup retry' \cup dead' \subseteq main \cup retry \cup dead \cup {y}
        BY <2>1, <2>2
      <4> HIDE DEF y
      <4> QED BY <4>1 DEF Waiting
    <3>2. c \in InHand(m)
      BY <2>2, <2>5 DEF InHand
    <3>3. work'[c].pc = "reject"
      BY <2>2 DEF Inv, TypeOK
    <3>4. c \notin InHand(m)'
      BY <3>3 DEF InHand
    <3>5. InHand(m)' \subseteq InHand(m) \ {c}
      BY <1>13, <3>4, PlacesKept
    <3>6. w1 \in Nat /\ w1 + 1 <= w
      BY <3>2, <3>5, PlacesFinite, Sizes
    <3>7. q1 \in Nat /\ q1 <= q + 1
      BY <1>4, <3>1
    <3>8. s1 \in Nat /\ s1 <= s /\ r1 \in Nat /\ r1 <= r
      BY <1>2, <1>13
    <3> HIDE DEF q, q1, w, w1, s, s1, r, r1
    <3> QED BY <1>1, <1>5, <2>2, <3>6, <3>7, <3>8
  <2> QED BY <2>4, <2>5
<1>14. ASSUME Undelivered, Undrained, Unstored, NEW n \in Messages, Publish(n) PROVE Good
  <2>1. PICK t \in Tokens : main' = main \cup {[token |-> t, msg |-> n, attempt |-> 0]}
    BY <1>14 DEF Publish, Enqueue
  <2>2. effects' = effects /\ retry' = retry /\ dead' = dead
    BY <1>14 DEF Publish
  <2> DEFINE y == [token |-> t, msg |-> n, attempt |-> 0]
  <2>3. y.msg = n /\ main' = main \cup {y}
    BY <2>1
  <2> HIDE DEF y, Good, Undelivered, Undrained, Unstored
  <2>4. CASE n # m
    <3>1. Waiting(m)' \subseteq Waiting(m)
      BY <2>2, <2>3, <2>4 DEF Waiting
    <3> QED BY <1>7, <1>14, <2>2, <3>1
  <2>5. CASE n = m
    <3>1. Waiting(m)' \subseteq Waiting(m) \cup {y}
      BY <2>2, <2>3 DEF Waiting
    <3>2. q1 \in Nat /\ q1 <= q + 1
      BY <1>4, <3>1
    <3>3. Allowed(m)' = Allowed(m) + 1
      BY <1>14, <2>5, AgainStep
    <3>4. q1 + Allowed(m) <= q + Allowed(m)'
      <4> HIDE DEF q, q1
      <4> QED BY <1>1, <1>5, <3>2, <3>3
    <3> QED BY <1>6, <1>14, <2>2, <3>2, <3>4
  <2> QED BY <2>4, <2>5
<1>15. ASSUME Undelivered, Undrained, Unstored, NEW a \in Admins, NEW i \in Rows,
              AdminRepublish(a, i)
       PROVE  Good
  <2>1. effects' = effects /\ retry' = retry /\ dead' = dead
    BY <1>15 DEF AdminRepublish
  <2>2. CASE main' = main
    <3>1. Waiting(m)' \subseteq Waiting(m)
      BY <2>1, <2>2 DEF Waiting
    <3> HIDE DEF Good, Undelivered, Undrained, Unstored
    <3> QED BY <1>7, <1>15, <2>1, <3>1
  <2>3. ASSUME NEW t \in Tokens,
               main' = main \cup {[token |-> t, msg |-> rows[i].msg, attempt |-> 0]},
               again' = [again EXCEPT ![rows[i].msg] = again[rows[i].msg] + 1]
        PROVE  Good
    <3> DEFINE y == [token |-> t, msg |-> rows[i].msg, attempt |-> 0]
    <3>1. y.msg = rows[i].msg /\ main' = main \cup {y}
      BY <2>3
    <3> HIDE DEF y, Good, Undelivered, Undrained, Unstored
    <3>2. CASE rows[i].msg # m
      <4>1. Waiting(m)' \subseteq Waiting(m)
        BY <2>1, <3>1, <3>2 DEF Waiting
      <4> QED BY <1>7, <1>15, <2>1, <4>1
    <3>3. CASE rows[i].msg = m
      <4>1. Waiting(m)' \subseteq Waiting(m) \cup {y}
        BY <2>1, <3>1 DEF Waiting
      <4>2. q1 \in Nat /\ q1 <= q + 1
        BY <1>4, <4>1
      <4>3. again \in [Messages -> Nat] /\ published' = published
        BY <1>15 DEF AdminRepublish, Inv, TypeOK
      <4>4. again'[m] = again[m] + 1
        BY <2>3, <3>3, <4>3
      <4>5. Allowed(m)' = Allowed(m) + 1
        BY <4>3, <4>4 DEF Allowed
      <4>6. q1 + Allowed(m) <= q + Allowed(m)'
        <5> HIDE DEF q, q1
        <5> QED BY <1>1, <1>5, <4>2, <4>5
      <4> QED BY <1>6, <1>15, <2>1, <4>2, <4>6
    <3> QED BY <3>2, <3>3
  <2> HIDE DEF Good, Undelivered, Undrained, Unstored
  <2>4. \/ main' = main
        \/ \E t \in Tokens :
             /\ main' = main \cup {[token |-> t, msg |-> rows[i].msg, attempt |-> 0]}
             /\ again' = [again EXCEPT ![rows[i].msg] = again[rows[i].msg] + 1]
    BY <1>15 DEF AdminRepublish, Enqueue
  <2> QED BY <2>2, <2>3, <2>4
<1>16. ASSUME Undelivered, Undrained, Unstored, Crash \/ ConnectionLost PROVE Good
  <2> DEFINE H == {x \in HeldMain \cup HeldDead : x.msg = m}
  <2>1. /\ main' \subseteq main \cup HeldMain /\ dead' \subseteq dead \cup HeldDead
        /\ retry' = retry /\ effects' = effects
    BY <1>16 DEF Crash, ConnectionLost
  <2>2. Waiting(m)' \subseteq Waiting(m) \cup H
    BY <2>1 DEF Waiting
  <2>3. IsFiniteSet(H)
    <3>1. IsFiniteSet(HeldMain \cup HeldDead)
      BY HeldCopies, FS_Union DEF Inv
    <3>2. H \in SUBSET (HeldMain \cup HeldDead)
      OBVIOUS
    <3> QED BY <3>1, <3>2, FS_Subset
  <2>4. Allowed(m)' = Allowed(m) + Cardinality(H)
    BY <1>16, AgainStep
  <2> HIDE DEF H, Good, Undelivered, Undrained, Unstored
  <2>5. q1 \in Nat /\ q1 <= q + Cardinality(H) /\ Cardinality(H) \in Nat
    BY <2>2, <2>3, PlacesFinite, Sizes, FS_CardinalityType
  <2>6. q1 + Allowed(m) <= q + Allowed(m)'
    <3> HIDE DEF q, q1
    <3> QED BY <1>1, <1>5, <2>4, <2>5
  <2> QED BY <1>6, <1>16, <2>1, <2>5, <2>6
<1>17. ASSUME Undelivered, Undrained, Unstored, RetryExpires PROVE Good
  <2>1. Waiting(m)' \subseteq Waiting(m) /\ effects' = effects
    BY <1>17 DEF RetryExpires, Waiting, history
  <2> HIDE DEF Good, Undelivered, Undrained, Unstored
  <2> QED BY <1>7, <1>17, <2>1
<1>18. ASSUME Undelivered, Undrained, Unstored, UNCHANGED <<queues, effects>> PROVE Good
  <2> HIDE DEF Good, Undelivered, Undrained, Unstored
  <2> QED BY <1>7, <1>8, <1>18
<1>19. Good
  <2> HIDE DEF Good
  <2> QED
    BY <1>9, <1>10, <1>11, <1>12, <1>13, <1>14, <1>15, <1>16, <1>17, <1>18
    DEF Next, vars, history, Handle, HandlerFails, ForwardRefused, Settle, DrainStoreFails,
        DrainAck, AdminSelect, AdminCommit, AdminFails, AdminDiscard
<1> QED BY <1>19

\* Whatever crashes, breaks or is refused, and whatever an administrator puts back, a
\* message has at most one fate more than it had redeliveries and republications.
THEOREM FatesAccountedCorrect == Spec => []FatesAccounted
<1>1. Init => Apart /\ Fates
  <2> SUFFICES ASSUME Init PROVE Apart /\ Fates
    OBVIOUS
  <2>1. HeldMain = {} /\ HeldDead = {}
    BY DEF Init, HeldMain, HeldDead, Idle
  <2>2. ASSUME NEW m \in Messages
        PROVE  Waiting(m) = {} /\ InHand(m) = {} /\ ToStore(m) = {} /\ RowsFor(m) = {}
    BY DEF Init, Waiting, InHand, ToStore, RowsFor, Idle
  <2>3. Cardinality({}) = 0
    BY FS_EmptySet
  <2>4. Fates
    BY <2>2, <2>3 DEF Fates, Allowed, Init
  <2> QED BY <2>1, <2>4 DEF Apart, Init
<1>2. Inv /\ Apart /\ Fates /\ [Next]_vars => (Apart /\ Fates)'
  BY ApartStep, FatesStep
<1>3. Inv /\ Fates => FatesAccounted
  <2> SUFFICES ASSUME Inv, Fates, NEW m \in Messages
               PROVE  OpenCopies(m) + effects[m] + RowsOf(m) <= 1 + again[m]
    BY DEF FatesAccounted
  <2>1. /\ OpenCopies(m) = Cardinality(Waiting(m)) + Cardinality(InHand(m)) + Cardinality(ToStore(m))
        /\ RowsOf(m) = Cardinality(RowsFor(m))
    BY DEF OpenCopies, RowsOf, Waiting, InHand, ToStore, RowsFor
  <2>2. Allowed(m) <= 1 + again[m] /\ Allowed(m) \in Nat /\ again[m] \in Nat /\ effects[m] \in Nat
    BY DEF Allowed, Inv, TypeOK
  <2>3. /\ Cardinality(Waiting(m)) \in Nat /\ Cardinality(InHand(m)) \in Nat
        /\ Cardinality(ToStore(m)) \in Nat /\ Cardinality(RowsFor(m)) \in Nat
    BY PlacesFinite, FS_CardinalityType
  <2> QED BY <2>1, <2>2, <2>3 DEF Fates
<1> QED BY <1>1, <1>2, <1>3, InvCorrect, PTL DEF Spec

-----------------------------------------------------------------------------
(* A message that keeps failing is not handled for ever                    *)

\* The runs a message can still have, one pair for each: those of its ready copies, and
\* those that follow when the runs in progress fail.
Left(m) ==
    {p \in (main \cup retry) \X (0 .. MaxRetries) : p[1].msg = m /\ p[2] >= p[1].attempt}
HandLeft(m) ==
    {p \in Consumers \X (0 .. MaxRetries) :
        p[1] \in InHand(m) /\ p[2] > work[p[1]].copy.attempt}

RunsInv ==
    \A m \in Messages :
        Cardinality(Left(m)) + Cardinality(HandLeft(m)) + runs[m] <= (MaxRetries + 1) * Allowed(m)

\* The runs of one copy from an attempt on.
LEMMA RunsFrom ==
    ASSUME NEW z, NEW a \in 0 .. MaxRetries + 1
    PROVE  /\ IsFiniteSet({z} \X (a .. MaxRetries))
           /\ Cardinality({z} \X (a .. MaxRetries)) = MaxRetries + 1 - a
<1>1. MaxRetries \in Nat /\ a \in Nat
  BY ConstantsAssumption
<1>2. IsFiniteSet(a .. MaxRetries) /\ Cardinality(a .. MaxRetries) = MaxRetries + 1 - a
  BY <1>1, FS_Interval
<1>3. IsFiniteSet({z}) /\ Cardinality({z}) = 1
  BY FS_Singleton
<1>4. /\ IsFiniteSet({z} \X (a .. MaxRetries))
      /\ Cardinality({z} \X (a .. MaxRetries)) = Cardinality({z}) * Cardinality(a .. MaxRetries)
  BY <1>2, <1>3, FS_Product
<1> QED BY <1>1, <1>2, <1>3, <1>4

LEMMA LeftFinite ==
    ASSUME Inv, NEW m
    PROVE  IsFiniteSet(Left(m)) /\ IsFiniteSet(HandLeft(m))
<1>1. IsFiniteSet(0 .. MaxRetries)
  BY ConstantsAssumption, FS_Interval
<1>2. IsFiniteSet(main \cup retry)
  BY FS_Union DEF Inv, Finite
<1>3. /\ IsFiniteSet((main \cup retry) \X (0 .. MaxRetries))
      /\ IsFiniteSet(Consumers \X (0 .. MaxRetries))
  BY <1>1, <1>2, FS_Product, ConstantsAssumption
<1>4. /\ Left(m) \in SUBSET ((main \cup retry) \X (0 .. MaxRetries))
      /\ HandLeft(m) \in SUBSET (Consumers \X (0 .. MaxRetries))
  BY DEF Left, HandLeft
<1> QED BY <1>3, <1>4, FS_Subset

\* Two sets apart in a third.
LEMMA Split ==
    ASSUME NEW S, IsFiniteSet(S), NEW T, NEW P, T \subseteq S, P \subseteq S, T \cap P = {}
    PROVE  /\ Cardinality(S) \in Nat /\ Cardinality(T) \in Nat /\ Cardinality(P) \in Nat
           /\ Cardinality(T) + Cardinality(P) <= Cardinality(S)
<1>1. T \in SUBSET S /\ P \in SUBSET S /\ T \cup P \in SUBSET S
  OBVIOUS
<1>2. IsFiniteSet(T) /\ IsFiniteSet(P)
  BY <1>1, FS_Subset
<1>3. Cardinality(T \cup P) = Cardinality(T) + Cardinality(P) - Cardinality(T \cap P)
  BY <1>2, FS_Union
<1>4. Cardinality(T \cup P) <= Cardinality(S)
  BY <1>1, FS_Subset
<1>5. Cardinality(T \cap P) = 0
  BY FS_EmptySet
<1>6. Cardinality(S) \in Nat /\ Cardinality(T) \in Nat /\ Cardinality(P) \in Nat
  BY <1>2, FS_CardinalityType
<1> QED BY <1>3, <1>4, <1>5, <1>6

\* Without a delivery the runs in progress have no more to come.
LEMMA HandLeftKept ==
    ASSUME Inv, [Next]_vars, \A c \in Consumers : ~Deliver(c), NEW m
    PROVE  HandLeft(m)' \subseteq HandLeft(m)
<1> SUFFICES ASSUME NEW p \in HandLeft(m)' PROVE p \in HandLeft(m)
  OBVIOUS
<1>1. /\ p \in Consumers \X (0 .. MaxRetries) /\ p[1] \in Consumers
      /\ p[1] \in InHand(m)' /\ p[2] > work'[p[1]].copy.attempt
  BY DEF HandLeft
<1>2. work'[p[1]].pc # "idle"
  BY <1>1 DEF InHand
<1>3. work'[p[1]].copy = work[p[1]].copy
  BY <1>1, <1>2, WorkKept
<1>4. p[1] \in InHand(m)
  BY <1>1, PlacesKept
<1> QED BY <1>1, <1>3, <1>4 DEF HandLeft

\* A delivery spends one run, a retry none; what a fault or an administrator puts back
\* has at most max_retries + 1 of them.
LEMMA RunsStep ==
    ASSUME Inv, Apart, RunsInv, [Next]_vars
    PROVE  RunsInv'
<1> SUFFICES ASSUME NEW m \in Messages
             PROVE  Cardinality(Left(m)') + Cardinality(HandLeft(m)') + runs'[m]
                      <= (MaxRetries + 1) * Allowed(m)'
  BY DEF RunsInv
<1> DEFINE l == Cardinality(Left(m))       l1 == Cardinality(Left(m)')
           h == Cardinality(HandLeft(m))   h1 == Cardinality(HandLeft(m)')
           k == MaxRetries + 1
           Good == l1 + h1 + runs'[m] <= k * Allowed(m)'
           Undelivered == \A c \in Consumers : ~Deliver(c)
<1>1. /\ l + h + runs[m] <= k * Allowed(m)
      /\ l \in Nat /\ h \in Nat /\ k \in Nat /\ MaxRetries \in Nat
      /\ runs[m] \in Nat /\ runs'[m] \in Nat
  <2>1. l + h + runs[m] <= k * Allowed(m)
    BY DEF RunsInv
  <2>2. l \in Nat /\ h \in Nat
    BY LeftFinite, FS_CardinalityType
  <2>3. k \in Nat /\ MaxRetries \in Nat
    BY ConstantsAssumption
  <2>4. runs[m] \in Nat /\ runs'[m] \in Nat
    BY CountersStep DEF Inv, TypeOK
  <2> QED BY <2>1, <2>2, <2>3, <2>4
<1>2. Undelivered => h1 \in Nat /\ h1 <= h
  BY HandLeftKept, LeftFinite, Sizes
<1>3. Allowed(m) \in Nat /\ Allowed(m)' \in Nat /\ Allowed(m) <= Allowed(m)'
  BY AgainStep
<1>4. k * Allowed(m) <= k * Allowed(m)'
  <2> HIDE DEF k
  <2> QED BY <1>1, <1>3
<1>5. ASSUME Undelivered, runs'[m] = runs[m], Left(m)' \subseteq Left(m) PROVE Good
  <2>1. l1 \in Nat /\ l1 <= l
    BY <1>5, LeftFinite, Sizes
  <2>2. k * Allowed(m) \in Nat /\ k * Allowed(m)' \in Nat
    <3> HIDE DEF k
    <3> QED BY <1>1, <1>3
  <2> HIDE DEF l, l1, h, h1, k, Undelivered
  <2> QED BY <1>1, <1>2, <1>4, <1>5, <2>1, <2>2
\* The message comes back n times.
<1>6. ASSUME Undelivered, runs'[m] = runs[m], NEW n \in Nat, Allowed(m)' = Allowed(m) + n,
             l1 \in Nat, l1 <= l + k * n
      PROVE  Good
  <2>1. k * Allowed(m)' = k * Allowed(m) + k * n
    <3> HIDE DEF k
    <3> QED BY <1>1, <1>3, <1>6
  <2>2. k * Allowed(m) \in Nat /\ k * n \in Nat
    <3> HIDE DEF k
    <3> QED BY <1>1, <1>3
  <2> HIDE DEF l, l1, h, h1, k, Undelivered
  <2> QED BY <1>1, <1>2, <1>6, <2>1, <2>2
<1>7. ASSUME Undelivered, runs'[m] = runs[m], NEW y, Allowed(m)' = Allowed(m) + 1,
             Left(m)' \subseteq Left(m) \cup ({y} \X (0 .. MaxRetries))
      PROVE  Good
  <2>1. /\ IsFiniteSet({y} \X (0 .. MaxRetries))
        /\ Cardinality({y} \X (0 .. MaxRetries)) = k
    <3>1. 0 \in 0 .. MaxRetries + 1 /\ MaxRetries + 1 - 0 = k
      BY <1>1
    <3> QED BY <3>1, RunsFrom
  <2>2. l1 \in Nat /\ l1 <= l + Cardinality({y} \X (0 .. MaxRetries))
    BY <1>7, <2>1, LeftFinite, Sizes
  <2>3. l1 \in Nat /\ l1 <= l + k * 1
    <3> HIDE DEF l, l1
    <3> QED BY <1>1, <2>1, <2>2
  <2> HIDE DEF l, l1, k, Good, Undelivered
  <2> QED BY <1>6, <1>7, <2>3
\* A ready copy more is an open run more for each attempt it has.
<1>8. ASSUME NEW y, NEW n \in 0 .. MaxRetries, y.attempt = n, y.msg = m,
             main' \cup retry' \subseteq main \cup retry \cup {y}
      PROVE  Left(m)' \subseteq Left(m) \cup ({y} \X (n .. MaxRetries))
  BY <1>1, <1>8 DEF Left
<1>9. ASSUME NEW y, y.msg # m, main' \cup retry' \subseteq main \cup retry \cup {y}
      PROVE  Left(m)' \subseteq Left(m)
  BY <1>9 DEF Left
<1>10. ASSUME main' \cup retry' \subseteq main \cup retry PROVE Left(m)' \subseteq Left(m)
  BY <1>10 DEF Left
<1>11. ASSUME Undelivered, NEW n \in Messages, Publish(n) PROVE Good
  <2>1. PICK t \in Tokens : main' = main \cup {[token |-> t, msg |-> n, attempt |-> 0]}
    BY <1>11 DEF Publish, Enqueue
  <2>2. runs' = runs /\ retry' = retry
    BY <1>11 DEF Publish
  <2> DEFINE y == [token |-> t, msg |-> n, attempt |-> 0]
  <2>3. y.msg = n /\ y.attempt = 0 /\ main' = main \cup {y}
    BY <2>1
  <2>4. 0 \in 0 .. MaxRetries
    BY <1>1
  <2> HIDE DEF y, k, Good, Undelivered
  <2>5. CASE n # m
    <3>1. Left(m)' \subseteq Left(m)
      BY <1>9, <2>2, <2>3, <2>5
    <3> QED BY <1>5, <1>11, <2>2, <3>1
  <2>6. CASE n = m
    <3>1. Left(m)' \subseteq Left(m) \cup ({y} \X (0 .. MaxRetries))
      BY <1>8, <2>2, <2>3, <2>4, <2>6
    <3>2. Allowed(m)' = Allowed(m) + 1
      BY <1>11, <2>6, AgainStep
    <3> QED BY <1>7, <1>11, <2>2, <3>1, <3>2
  <2> QED BY <2>5, <2>6
<1>12. ASSUME Undelivered, NEW a \in Admins, NEW i \in Rows, AdminRepublish(a, i) PROVE Good
  <2>1. runs' = runs /\ retry' = retry
    BY <1>12 DEF AdminRepublish
  <2>2. CASE main' = main
    <3>1. Left(m)' \subseteq Left(m)
      BY <1>10, <2>1, <2>2
    <3> HIDE DEF Good, Undelivered
    <3> QED BY <1>5, <1>12, <2>1, <3>1
  <2>3. ASSUME NEW t \in Tokens,
               main' = main \cup {[token |-> t, msg |-> rows[i].msg, attempt |-> 0]},
               again' = [again EXCEPT ![rows[i].msg] = again[rows[i].msg] + 1]
        PROVE  Good
    <3> DEFINE y == [token |-> t, msg |-> rows[i].msg, attempt |-> 0]
    <3>1. y.msg = rows[i].msg /\ y.attempt = 0 /\ main' = main \cup {y}
      BY <2>3
    <3>2. 0 \in 0 .. MaxRetries
      BY <1>1
    <3> HIDE DEF y, k, Good, Undelivered
    <3>3. CASE rows[i].msg # m
      <4>1. Left(m)' \subseteq Left(m)
        BY <1>9, <2>1, <3>1, <3>3
      <4> QED BY <1>5, <1>12, <2>1, <4>1
    <3>4. CASE rows[i].msg = m
      <4>1. Left(m)' \subseteq Left(m) \cup ({y} \X (0 .. MaxRetries))
        BY <1>8, <2>1, <3>1, <3>2, <3>4
      <4>2. again \in [Messages -> Nat] /\ published' = published
        BY <1>12 DEF AdminRepublish, Inv, TypeOK
      <4>3. again'[m] = again[m] + 1
        BY <2>3, <3>4, <4>2
      <4>4. Allowed(m)' = Allowed(m) + 1
        BY <4>2, <4>3 DEF Allowed
      <4> QED BY <1>7, <1>12, <2>1, <4>1, <4>4
    <3> QED BY <3>3, <3>4
  <2> HIDE DEF Good, Undelivered
  <2>4. \/ main' = main
        \/ \E t \in Tokens :
             /\ main' = main \cup {[token |-> t, msg |-> rows[i].msg, attempt |-> 0]}
             /\ again' = [again EXCEPT ![rows[i].msg] = again[rows[i].msg] + 1]
    BY <1>12 DEF AdminRepublish, Enqueue
  <2> QED BY <2>2, <2>3, <2>4
<1>13. ASSUME Undelivered, Crash \/ ConnectionLost PROVE Good
  <2> DEFINE B == {x \in HeldMain \cup HeldDead : x.msg = m}
             n == Cardinality(B)
  <2>1. main' = main \cup HeldMain /\ retry' = retry /\ runs' = runs
    BY <1>13 DEF Crash, ConnectionLost
  <2>2. Left(m)' \subseteq Left(m) \cup (B \X (0 .. MaxRetries))
    BY <2>1 DEF Left
  <2>3. IsFiniteSet(B)
    <3>1. IsFiniteSet(HeldMain \cup HeldDead)
      BY HeldCopies, FS_Union DEF Inv
    <3>2. B \in SUBSET (HeldMain \cup HeldDead)
      OBVIOUS
    <3> QED BY <3>1, <3>2, FS_Subset
  <2>4. Allowed(m)' = Allowed(m) + n
    BY <1>13, AgainStep
  <2> HIDE DEF B
  <2>5. IsFiniteSet(0 .. MaxRetries) /\ Cardinality(0 .. MaxRetries) = k
    <3>1. 0 \in Int /\ MaxRetries \in Int /\ ~(0 > MaxRetries) /\ MaxRetries - 0 + 1 = k
      BY <1>1
    <3> QED BY <3>1, FS_Interval
  <2>6. /\ IsFiniteSet(B \X (0 .. MaxRetries))
        /\ Cardinality(B \X (0 .. MaxRetries)) = n * k
    BY <2>3, <2>5, FS_Product
  <2>7. n \in Nat
    BY <2>3, FS_CardinalityType
  <2>8. l1 \in Nat /\ l1 <= l + Cardinality(B \X (0 .. MaxRetries))
    BY <2>2, <2>6, LeftFinite, Sizes
  <2>9. l1 <= l + k * n
    <3>1. n * k = k * n
      <4> HIDE DEF n, k
      <4> QED BY <1>1, <2>7
    <3> HIDE DEF l, l1, k, n
    <3> QED BY <2>6, <2>8, <3>1
  <2> HIDE DEF n, l, l1, k, Good, Undelivered
  <2> QED BY <1>6, <1>13, <2>1, <2>4, <2>7, <2>8, <2>9
<1>14. ASSUME Undelivered, RetryExpires PROVE Good
  <2>1. Left(m)' \subseteq Left(m) /\ runs' = runs
    BY <1>10, <1>14 DEF RetryExpires, history
  <2> HIDE DEF Good, Undelivered
  <2> QED BY <1>5, <1>14, <2>1
<1>15. ASSUME Undelivered, UNCHANGED <<main, retry, runs>> PROVE Good
  <2>1. Left(m)' \subseteq Left(m)
    BY <1>10, <1>15
  <2> HIDE DEF Good, Undelivered
  <2> QED BY <1>5, <1>15, <2>1
<1>16. ASSUME Undelivered, NEW c \in Consumers, Forward(c) PROVE Good
  <2> DEFINE x == work[c].copy
  <2>1. /\ main' = main /\ runs' = runs /\ work[c].pc = "failed"
        /\ work' = [work EXCEPT ![c].pc = "reject"]
    BY <1>16 DEF Forward, history
  <2>2. x.msg \in Messages /\ x.attempt \in 0 .. MaxRetries
    <3>1. work[c] \in Delivery({"handle", "failed", "ack", "reject"})
      BY DEF Inv, TypeOK
    <3> QED BY <2>1, <3>1, DeliveryShape, CopyShape
  <2>3. CASE retry' = retry
    <3> HIDE DEF Good, Undelivered
    <3> QED BY <1>15, <1>16, <2>1, <2>3
  <2>4. ASSUME x.attempt < MaxRetries, NEW t \in Tokens,
               retry' = retry \cup {[token |-> t, msg |-> x.msg, attempt |-> x.attempt + 1]}
        PROVE  Good
    <3> DEFINE n == x.attempt + 1
               y == [token |-> t, msg |-> x.msg, attempt |-> n]
               P == {c} \X (n .. MaxRetries)
               Y == {y} \X (n .. MaxRetries)
    <3>1. n \in 0 .. MaxRetries /\ n \in 0 .. MaxRetries + 1
      BY <1>1, <2>2, <2>4
    <3>2. y.msg = x.msg /\ y.attempt = n /\ retry' = retry \cup {y}
      BY <2>4
    <3>3. CASE x.msg # m
      <4> HIDE DEF y, Good, Undelivered
      <4>1. Left(m)' \subseteq Left(m)
        BY <1>9, <2>1, <3>2, <3>3
      <4> QED BY <1>5, <1>16, <2>1, <4>1
    <3>4. CASE x.msg = m
      <4>1. Left(m)' \subseteq Left(m) \cup Y
        <5> HIDE DEF y, n
        <5> QED BY <1>8, <2>1, <3>1, <3>2, <3>4
      <4>2. /\ IsFiniteSet(Y) /\ Cardinality(Y) = MaxRetries + 1 - n
            /\ IsFiniteSet(P) /\ Cardinality(P) = MaxRetries + 1 - n
        <5> HIDE DEF y, n
        <5> QED BY <3>1, RunsFrom
      <4>3. l1 \in Nat /\ l1 <= l + Cardinality(Y)
        <5> HIDE DEF Y
        <5> QED BY <4>1, <4>2, LeftFinite, Sizes
      <4>4. HandLeft(m)' \subseteq HandLeft(m)
        BY <1>16, HandLeftKept
      <4>5. c \in InHand(m) /\ c \notin InHand(m)'
        <5>1. work'[c].pc = "reject"
          BY <2>1 DEF Inv, TypeOK
        <5> QED BY <2>1, <3>4, <5>1 DEF InHand
      <4>6. P \subseteq HandLeft(m)
        BY <1>1, <2>2, <4>5 DEF HandLeft
      <4>7. HandLeft(m)' \cap P = {}
        BY <4>5 DEF HandLeft
      <4>8. h1 \in Nat /\ h1 + Cardinality(P) <= h
        <5> HIDE DEF P
        <5> QED BY <4>4, <4>6, <4>7, LeftFinite, Split
      <4>9. MaxRetries + 1 - n \in Nat
        BY <1>1, <3>1
      <4>10. l1 + h1 <= l + h
        <5> HIDE DEF l, l1, h, h1, n, P, Y
        <5> QED BY <1>1, <4>2, <4>3, <4>8, <4>9
      <4>11. k * Allowed(m) \in Nat /\ k * Allowed(m)' \in Nat
        <5> HIDE DEF k
        <5> QED BY <1>1, <1>3
      <4> HIDE DEF l, l1, h, h1, k, n
      <4> QED BY <1>1, <1>4, <2>1, <4>3, <4>8, <4>10, <4>11
    <3> QED BY <3>3, <3>4
  <2>5. \/ retry' = retry
        \/ /\ x.attempt < MaxRetries
           /\ \E t \in Tokens :
                retry' = retry \cup {[token |-> t, msg |-> x.msg, attempt |-> x.attempt + 1]}
    BY <1>16 DEF Forward, Enqueue
  <2> HIDE DEF Good, Undelivered, x
  <2> QED BY <2>3, <2>4, <2>5
<1>17. ASSUME NEW c \in Consumers, Deliver(c) PROVE Good
  <2>1. PICK x \in main :
          /\ main' = main \ {x}
          /\ work' = [work EXCEPT ![c] = [pc |-> "handle", copy |-> x, held |-> TRUE]]
          /\ runs' = [runs EXCEPT ![x.msg] = runs[x.msg] + 1]
    BY <1>17 DEF Deliver
  <2>2. retry' = retry /\ x \in Copy /\ x.msg \in Messages /\ x.attempt \in 0 .. MaxRetries
    BY <1>17, CopyShape DEF Deliver, Inv, TypeOK
  <2>3. /\ work'[c] = [pc |-> "handle", copy |-> x, held |-> TRUE]
        /\ \A b \in Consumers : b # c => work'[b] = work[b]
    BY <2>1 DEF Inv, TypeOK
  <2>4. k * Allowed(m) \in Nat /\ k * Allowed(m)' \in Nat
    <3> HIDE DEF k
    <3> QED BY <1>1, <1>3
  <2>5. CASE x.msg # m
    <3>1. runs'[m] = runs[m]
      BY <2>1, <2>2, <2>5 DEF Inv, TypeOK
    <3>2. Left(m)' \subseteq Left(m)
      BY <1>10, <2>1, <2>2
    <3>3. HandLeft(m)' \subseteq HandLeft(m)
      <4> SUFFICES ASSUME NEW p \in HandLeft(m)' PROVE p \in HandLeft(m)
        OBVIOUS
      <4>1. /\ p \in Consumers \X (0 .. MaxRetries) /\ p[1] \in Consumers
            /\ p[1] \in InHand(m)' /\ p[2] > work'[p[1]].copy.attempt
        BY DEF HandLeft
      <4>2. work'[p[1]].copy.msg = m
        BY <4>1 DEF InHand
      <4>3. p[1] # c
        BY <2>3, <2>5, <4>2
      <4>4. work'[p[1]] = work[p[1]]
        BY <2>3, <4>1, <4>3
      <4>5. p[1] \in InHand(m)
        BY <4>1, <4>4 DEF InHand
      <4> QED BY <4>1, <4>4, <4>5 DEF HandLeft
    <3>4. l1 \in Nat /\ l1 <= l /\ h1 \in Nat /\ h1 <= h
      BY <3>2, <3>3, LeftFinite, Sizes
    <3> HIDE DEF l, l1, h, h1, k
    <3> QED BY <1>1, <1>4, <2>4, <3>1, <3>4
  <2>6. CASE x.msg = m
    <3> DEFINE n == x.attempt
               P == {x} \X (n .. MaxRetries)
               Y == {c} \X (n + 1 .. MaxRetries)
    <3>1. runs'[m] = runs[m] + 1
      BY <2>1, <2>2, <2>6 DEF Inv, TypeOK
    <3>2. n \in 0 .. MaxRetries + 1 /\ n + 1 \in 0 .. MaxRetries + 1 /\ n \in Nat /\ n <= MaxRetries
      BY <1>1, <2>2
    <3>3. /\ IsFiniteSet(P) /\ Cardinality(P) = MaxRetries + 1 - n
          /\ IsFiniteSet(Y) /\ Cardinality(Y) = MaxRetries + 1 - (n + 1)
      <4> HIDE DEF n
      <4> QED BY <3>2, RunsFrom
    <3>4. Left(m)' \subseteq Left(m)
      BY <1>10, <2>1, <2>2
    <3>5. P \subseteq Left(m)
      BY <1>1, <2>2, <2>6 DEF Left
    <3>6. Left(m)' \cap P = {}
      <4>1. x \notin main' \cup retry'
        BY <2>1, <2>2 DEF Apart
      <4>2. \A p \in Left(m)' : p[1] \in main' \cup retry'
        BY DEF Left
      <4>3. \A p \in P : p[1] = x
        OBVIOUS
      <4> HIDE DEF P
      <4> QED BY <4>1, <4>2, <4>3
    <3>7. l1 \in Nat /\ l1 + Cardinality(P) <= l
      <4> HIDE DEF P
      <4> QED BY <3>4, <3>5, <3>6, LeftFinite, Split
    <3>8. HandLeft(m)' \subseteq HandLeft(m) \cup Y
      <4> SUFFICES ASSUME NEW p \in HandLeft(m)', p \notin Y PROVE p \in HandLeft(m)
        OBVIOUS
      <4>1. /\ p \in Consumers \X (0 .. MaxRetries) /\ p[1] \in Consumers
            /\ p[2] \in 0 .. MaxRetries /\ p = <<p[1], p[2]>>
            /\ p[1] \in InHand(m)' /\ p[2] > work'[p[1]].copy.attempt
        BY DEF HandLeft
      <4>2. p[1] # c
        <5> SUFFICES ASSUME p[1] = c PROVE FALSE
          OBVIOUS
        <5>1. work'[c].copy = x
          BY <2>3
        <5>2. p[2] > n
          BY <4>1, <5>1
        <5>3. p[2] \in n + 1 .. MaxRetries
          BY <1>1, <3>2, <4>1, <5>2
        <5>4. <<p[1], p[2]>> \in Y
          BY <5>3
        <5> QED BY <4>1, <5>4
      <4>3. work'[p[1]] = work[p[1]]
        BY <2>3, <4>1, <4>2
      <4>4. p[1] \in InHand(m)
        BY <4>1, <4>3 DEF InHand
      <4> QED BY <4>1, <4>3, <4>4 DEF HandLeft
    <3>9. h1 \in Nat /\ h1 <= h + Cardinality(Y)
      <4> HIDE DEF Y
      <4> QED BY <3>3, <3>8, LeftFinite, Sizes
    <3>10. l1 + h1 + 1 <= l + h
      <4> HIDE DEF l, l1, h, h1, P, Y, n
      <4> QED BY <1>1, <3>2, <3>3, <3>7, <3>9
    <3> HIDE DEF l, l1, h, h1, k
    <3> QED BY <1>1, <1>4, <2>4, <3>1, <3>7, <3>9, <3>10
  <2> QED BY <2>5, <2>6
<1>18. Good
  <2> HIDE DEF Good
  <2> QED
    BY <1>11, <1>12, <1>13, <1>14, <1>15, <1>16, <1>17
    DEF Next, vars, queues, history, Handle, HandlerSucceeds, HandlerFails, ForwardRefused, Settle,
        DrainDeliver, DrainStore, DrainStoreFails, DrainAck, AdminSelect, AdminCommit, AdminFails,
        AdminDiscard
<1> QED BY <1>18

\* However often it fails, a message is handled at most max_retries + 1 times, and as
\* often again for each redelivery and republication.
THEOREM RunsBoundedCorrect == Spec => []RunsBounded
<1>1. Init => Apart /\ RunsInv
  <2> SUFFICES ASSUME Init PROVE Apart /\ RunsInv
    OBVIOUS
  <2>1. HeldMain = {} /\ HeldDead = {}
    BY DEF Init, HeldMain, HeldDead, Idle
  <2>2. ASSUME NEW m \in Messages PROVE Left(m) = {} /\ HandLeft(m) = {}
    BY DEF Init, Left, HandLeft, InHand, Idle
  <2>3. Cardinality({}) = 0
    BY FS_EmptySet
  <2>4. ASSUME NEW m \in Messages PROVE Allowed(m) = 0 /\ runs[m] = 0
    BY DEF Allowed, Init
  <2>5. RunsInv
    BY <2>2, <2>3, <2>4, ConstantsAssumption DEF RunsInv
  <2> QED BY <2>1, <2>5 DEF Apart, Init
<1>2. Inv /\ Apart /\ RunsInv /\ [Next]_vars => (Apart /\ RunsInv)'
  BY ApartStep, RunsStep
<1>3. Inv /\ RunsInv => RunsBounded
  <2> SUFFICES ASSUME Inv, RunsInv, NEW m \in Messages
               PROVE  runs[m] <= (MaxRetries + 1) * (1 + again[m])
    BY DEF RunsBounded
  <2> DEFINE k == MaxRetries + 1
  <2>1. Cardinality(Left(m)) \in Nat /\ Cardinality(HandLeft(m)) \in Nat
    BY LeftFinite, FS_CardinalityType
  <2>2. /\ Allowed(m) <= 1 + again[m] /\ Allowed(m) \in Nat /\ again[m] \in Nat /\ runs[m] \in Nat
        /\ k \in Nat
    BY ConstantsAssumption DEF Allowed, Inv, TypeOK
  <2>3. Cardinality(Left(m)) + Cardinality(HandLeft(m)) + runs[m] <= k * Allowed(m)
    BY DEF RunsInv
  <2> HIDE DEF k
  <2>4. k * Allowed(m) <= k * (1 + again[m]) /\ k * Allowed(m) \in Nat /\ k * (1 + again[m]) \in Nat
    BY <2>2
  <2>5. runs[m] <= k * (1 + again[m])
    BY <2>1, <2>2, <2>3, <2>4
  <2> QED BY <2>5 DEF k
<1> QED BY <1>1, <1>2, <1>3, InvCorrect, PTL DEF Spec
-----------------------------------------------------------------------------
(* MessageRetry implements MessageLedger                                   *)

HandCopies == {work[c].copy : c \in Handling(TRUE)}
StoreCopies == {drain[d].copy : d \in Storing(TRUE)}
HandRuns == {[by |-> <<"work", c>>, msg |-> work[c].copy.msg] : c \in Handling(FALSE)}
StoreRuns == {[by |-> <<"drain", d>>, msg |-> drain[d].copy.msg] : d \in Storing(FALSE)}

\* A valid delivery has one holder.
OneHolder ==
    /\ \A b, c \in Consumers :
         /\ work[b].pc # "idle" /\ work[b].held /\ work[c].pc # "idle" /\ work[c].held
         /\ work[b].copy = work[c].copy
         => b = c
    /\ \A b, d \in Drainers :
         /\ drain[b].pc # "idle" /\ drain[b].held /\ drain[d].pc # "idle" /\ drain[d].held
         /\ drain[b].copy = drain[d].copy
         => b = d

LEMMA OneHolderStep ==
    ASSUME Inv, Apart, OneHolder, [Next]_vars
    PROVE  OneHolder'
<1>1. ASSUME NEW b \in Consumers, NEW c \in Consumers,
             work'[b].pc # "idle", work'[b].held, work'[c].pc # "idle", work'[c].held,
             work'[b].copy = work'[c].copy, b # c
      PROVE  FALSE
  <2>1. CASE \A a \in Consumers : ~Deliver(a)
    <3>1. /\ work[b].pc # "idle" /\ work'[b].copy = work[b].copy
          /\ work'[b].held = work[b].held \/ work'[b].held = FALSE
      BY <1>1, <2>1, WorkKept
    <3>2. /\ work[c].pc # "idle" /\ work'[c].copy = work[c].copy
          /\ work'[c].held = work[c].held \/ work'[c].held = FALSE
      BY <1>1, <2>1, WorkKept
    <3> QED BY <1>1, <3>1, <3>2 DEF OneHolder
  <2>2. ASSUME NEW a \in Consumers, Deliver(a) PROVE FALSE
    <3>1. PICK x \in main :
            work' = [work EXCEPT ![a] = [pc |-> "handle", copy |-> x, held |-> TRUE]]
      BY <2>2 DEF Deliver
    <3>2. /\ work'[a].copy = x
          /\ \A e \in Consumers : e # a => work'[e] = work[e]
      BY <3>1 DEF Inv, TypeOK
    <3>3. ASSUME NEW e \in Consumers, e # a, work'[e].pc # "idle", work'[e].held
          PROVE  work'[e].copy # x
      <4>1. work[e].copy \in HeldMain
        BY <3>2, <3>3 DEF HeldMain
      <4> QED BY <3>2, <3>3, <4>1 DEF Apart
    <3>4. CASE b = a
      BY <1>1, <3>2, <3>3, <3>4
    <3>5. CASE c = a
      BY <1>1, <3>2, <3>3, <3>5
    <3>6. CASE b # a /\ c # a
      BY <1>1, <3>2, <3>6 DEF OneHolder
    <3> QED BY <3>4, <3>5, <3>6
  <2> QED BY <2>1, <2>2
<1>2. ASSUME NEW b \in Drainers, NEW d \in Drainers,
             drain'[b].pc # "idle", drain'[b].held, drain'[d].pc # "idle", drain'[d].held,
             drain'[b].copy = drain'[d].copy, b # d
      PROVE  FALSE
  <2>1. CASE \A a \in Drainers : ~DrainDeliver(a)
    <3>1. /\ drain[b].pc # "idle" /\ drain'[b].copy = drain[b].copy
          /\ drain'[b].held = drain[b].held \/ drain'[b].held = FALSE
      BY <1>2, <2>1, DrainKept
    <3>2. /\ drain[d].pc # "idle" /\ drain'[d].copy = drain[d].copy
          /\ drain'[d].held = drain[d].held \/ drain'[d].held = FALSE
      BY <1>2, <2>1, DrainKept
    <3> QED BY <1>2, <3>1, <3>2 DEF OneHolder
  <2>2. ASSUME NEW a \in Drainers, DrainDeliver(a) PROVE FALSE
    <3>1. PICK x \in dead :
            drain' = [drain EXCEPT ![a] = [pc |-> "store", copy |-> x, held |-> TRUE]]
      BY <2>2 DEF DrainDeliver
    <3>2. /\ drain'[a].copy = x
          /\ \A e \in Drainers : e # a => drain'[e] = drain[e]
      BY <3>1 DEF Inv, TypeOK
    <3>3. ASSUME NEW e \in Drainers, e # a, drain'[e].pc # "idle", drain'[e].held
          PROVE  drain'[e].copy # x
      <4>1. drain[e].copy \in HeldDead
        BY <3>2, <3>3 DEF HeldDead
      <4> QED BY <3>2, <3>3, <4>1 DEF Apart
    <3>4. CASE b = a
      BY <1>2, <3>2, <3>3, <3>4
    <3>5. CASE d = a
      BY <1>2, <3>2, <3>3, <3>5
    <3>6. CASE b # a /\ d # a
      BY <1>2, <3>2, <3>6 DEF OneHolder
    <3> QED BY <3>4, <3>5, <3>6
  <2> QED BY <2>1, <2>2
<1> QED BY <1>1, <1>2 DEF OneHolder

\* The image of a set without one of its elements, whose image is its own.
LEMMA ImageLess ==
    ASSUME NEW f, NEW S, NEW c \in S, \A b \in S : b # c => f[b] # f[c]
    PROVE  /\ f[c] \in {f[b] : b \in S}
           /\ {f[b] : b \in S \ {c}} = {f[b] : b \in S} \ {f[c]}
<1>1. {f[b] : b \in S} \ {f[c]} \subseteq {f[b] : b \in S \ {c}}
  OBVIOUS
<1>2. {f[b] : b \in S \ {c}} \subseteq {f[b] : b \in S} \ {f[c]}
  OBVIOUS
<1> QED BY <1>1, <1>2

LEMMA ImageFinite ==
    ASSUME NEW f, NEW S, IsFiniteSet(S)
    PROVE  IsFiniteSet({f[x] : x \in S})
<1> DEFINE g == [x \in S |-> f[x]]
           T == {f[x] : x \in S}
<1>1. g \in Surjection(S, T)
  BY DEF Surjection
<1> HIDE DEF g, T
<1>2. IsFiniteSet(T)
  BY <1>1, FS_Surjection
<1> QED BY <1>2 DEF T

\* What is counted is finite and of messages.
LEMMA CountedShape ==
    ASSUME Inv
    PROVE  /\ HandCopies \subseteq HeldMain /\ StoreCopies \subseteq HeldDead
           /\ Owed = main \cup retry \cup dead \cup HandCopies \cup StoreCopies
           /\ Owed \subseteq Copy /\ IsFiniteSet(Owed)
           /\ Stray = HandRuns \cup StoreRuns
           /\ IsFiniteSet(Stray) /\ \A z \in Stray : z.msg \in Messages
           /\ IsFiniteSet(Stored) /\ \A z \in Stored : z.msg \in Messages
<1> USE DEF Inv, TypeOK, Finite
<1>1. HandCopies \subseteq HeldMain /\ StoreCopies \subseteq HeldDead
  BY DEF HandCopies, StoreCopies, HeldMain, HeldDead, Handling, Storing
<1>2. Owed = main \cup retry \cup dead \cup HandCopies \cup StoreCopies
  BY DEF Owed, HandCopies, StoreCopies
<1>3. Stray = HandRuns \cup StoreRuns
  BY DEF Stray, HandRuns, StoreRuns
<1>4. Owed \subseteq Copy
  BY <1>1, <1>2, HeldCopies
<1>5. IsFiniteSet(Owed)
  <2>1. HandCopies \in SUBSET HeldMain /\ StoreCopies \in SUBSET HeldDead
    BY <1>1
  <2>2. IsFiniteSet(HandCopies) /\ IsFiniteSet(StoreCopies)
    BY <2>1, HeldCopies, FS_Subset
  <2>3. IsFiniteSet(main \cup retry)
    BY FS_Union
  <2>4. IsFiniteSet(main \cup retry \cup dead)
    BY <2>3, FS_Union
  <2>5. IsFiniteSet(main \cup retry \cup dead \cup HandCopies)
    BY <2>2, <2>4, FS_Union
  <2> QED BY <1>2, <2>2, <2>5, FS_Union
<1>6. IsFiniteSet(HandRuns) /\ \A z \in HandRuns : z.msg \in Messages
  <2> DEFINE f == [c \in Consumers |-> [by |-> <<"work", c>>, msg |-> work[c].copy.msg]]
  <2>1. Handling(FALSE) \in SUBSET Consumers
    BY DEF Handling
  <2>2. IsFiniteSet(Handling(FALSE))
    BY <2>1, ConstantsAssumption, FS_Subset
  <2>3. HandRuns = {f[c] : c \in Handling(FALSE)}
    BY <2>1 DEF HandRuns
  <2>4. ASSUME NEW c \in Handling(FALSE) PROVE work[c].copy.msg \in Messages
    <3>1. work[c] \in Delivery({"handle", "failed", "ack", "reject"}) /\ work[c].pc # "idle"
      BY <2>4 DEF Handling
    <3> QED BY <3>1, DeliveryShape, CopyShape
  <2>5. ASSUME NEW z \in HandRuns PROVE z.msg \in Messages
    <3>1. PICK c \in Handling(FALSE) : z = [by |-> <<"work", c>>, msg |-> work[c].copy.msg]
      BY <2>5 DEF HandRuns
    <3>2. z.msg = work[c].copy.msg
      BY <3>1
    <3> QED BY <2>4, <3>2
  <2> HIDE DEF f
  <2> QED BY <2>2, <2>3, <2>5, ImageFinite
<1>7. IsFiniteSet(StoreRuns) /\ \A z \in StoreRuns : z.msg \in Messages
  <2> DEFINE f == [d \in Drainers |-> [by |-> <<"drain", d>>, msg |-> drain[d].copy.msg]]
  <2>1. Storing(FALSE) \in SUBSET Drainers
    BY DEF Storing
  <2>2. IsFiniteSet(Storing(FALSE))
    BY <2>1, ConstantsAssumption, FS_Subset
  <2>3. StoreRuns = {f[d] : d \in Storing(FALSE)}
    BY <2>1 DEF StoreRuns
  <2>4. ASSUME NEW d \in Storing(FALSE) PROVE drain[d].copy.msg \in Messages
    <3>1. drain[d] \in Delivery({"store", "ack"}) /\ drain[d].pc # "idle"
      BY <2>4 DEF Storing
    <3> QED BY <3>1, DeliveryShape, CopyShape
  <2>5. ASSUME NEW z \in StoreRuns PROVE z.msg \in Messages
    <3>1. PICK d \in Storing(FALSE) : z = [by |-> <<"drain", d>>, msg |-> drain[d].copy.msg]
      BY <2>5 DEF StoreRuns
    <3>2. z.msg = drain[d].copy.msg
      BY <3>1
    <3> QED BY <2>4, <3>2
  <2> HIDE DEF f
  <2> QED BY <2>2, <2>3, <2>5, ImageFinite
<1>8. IsFiniteSet(Stored) /\ \A z \in Stored : z.msg \in Messages
  <2> DEFINE f == [i \in Rows |-> [row |-> i, msg |-> rows[i].msg]]
             T == {j \in Rows : rows[j] # Free}
  <2>1. T \in SUBSET Rows
    OBVIOUS
  <2>2. IsFiniteSet(T)
    BY <2>1, ConstantsAssumption, FS_Subset
  <2>3. Stored = {f[i] : i \in T}
    BY DEF Stored
  <2>4. \A z \in Stored : z.msg \in Messages
    BY RowShape DEF Stored
  <2> HIDE DEF f, T
  <2> QED BY <2>2, <2>3, <2>4, ImageFinite
<1> QED BY <1>1, <1>2, <1>3, <1>4, <1>5, <1>6, <1>7, <1>8, FS_Union

\* The effect of a step of one run of process_message on what is counted: it acts on
\* its copy, takes one, or goes on.
LEMMA HandEnds ==
    ASSUME Inv, OneHolder, NEW c \in Consumers, work[c].pc \in {"handle", "failed"},
           work'[c].pc \notin {"handle", "failed"},
           \A b \in Consumers : b # c => work'[b] = work[b],
           NEW x, x = work[c].copy
    PROVE  /\ x \in Copy /\ work[c].held \in BOOLEAN
           /\ work[c].held =>
                x \in HandCopies /\ HandCopies' = HandCopies \ {x} /\ HandRuns' = HandRuns
           /\ ~work[c].held =>
                /\ [by |-> <<"work", c>>, msg |-> x.msg] \in HandRuns
                /\ HandRuns' = HandRuns \ {[by |-> <<"work", c>>, msg |-> x.msg]}
                /\ HandCopies' = HandCopies
<1> DEFINE run(b) == [by |-> <<"work", b>>, msg |-> work[b].copy.msg]
<1>1. x \in Copy /\ work[c].held \in BOOLEAN
  <2>1. work[c] \in Delivery({"handle", "failed", "ack", "reject"}) /\ work[c].pc # "idle"
    BY DEF Inv, TypeOK
  <2> QED BY <2>1, DeliveryShape
<1>2. Handling(TRUE)' = Handling(TRUE) \ {c} /\ Handling(FALSE)' = Handling(FALSE) \ {c}
  BY DEF Handling
<1>3. /\ HandCopies' = {work[b].copy : b \in Handling(TRUE) \ {c}}
      /\ HandRuns' = {run(b) : b \in Handling(FALSE) \ {c}}
  <2>1. \A b \in Handling(TRUE) \cup Handling(FALSE) : b \in Consumers
    BY DEF Handling
  <2>2. \A b \in (Handling(TRUE) \cup Handling(FALSE)) \ {c} : work'[b].copy = work[b].copy
    BY <2>1
  <2> QED BY <1>2, <2>2 DEF HandCopies, HandRuns
<1>4. ASSUME work[c].held
      PROVE  x \in HandCopies /\ HandCopies' = HandCopies \ {x} /\ HandRuns' = HandRuns
  <2>1. c \in Handling(TRUE) /\ c \notin Handling(FALSE)
    BY <1>1, <1>4 DEF Handling
  <2>2. ASSUME NEW b \in Handling(TRUE), b # c PROVE work[b].copy # x
    BY <1>4, <2>2 DEF Handling, OneHolder
  <2> QED BY <1>3, <2>1, <2>2 DEF HandCopies, HandRuns
<1>5. ASSUME ~work[c].held
      PROVE  run(c) \in HandRuns /\ HandRuns' = HandRuns \ {run(c)} /\ HandCopies' = HandCopies
  <2>1. c \in Handling(FALSE) /\ c \notin Handling(TRUE)
    BY <1>1, <1>5 DEF Handling
  <2>2. ASSUME NEW b, b # c PROVE run(b) # run(c)
    <3>1. run(b).by = <<"work", b>> /\ run(c).by = <<"work", c>> /\ <<"work", b>> # <<"work", c>>
      BY <2>2
    <3> QED BY <3>1
  <2>3. HandRuns = {run(b) : b \in Handling(FALSE)} /\ HandRuns' = {run(b) : b \in Handling(FALSE) \ {c}}
    BY <1>3 DEF HandRuns
  <2>4. Handling(TRUE) \ {c} = Handling(TRUE)
    BY <2>1
  <2>5. HandCopies' = HandCopies
    BY <1>3, <2>4 DEF HandCopies
  <2> DEFINE g == [b \in Consumers |-> run(b)]
             S == Handling(FALSE)
  <2>6. g[c] \in {g[b] : b \in S} /\ {g[b] : b \in S \ {c}} = {g[b] : b \in S} \ {g[c]}
    <3>1. \A b \in S : g[b] = run(b) /\ b \in Consumers
      BY DEF Handling
    <3>2. \A b \in S : b # c => g[b] # g[c]
      BY <2>1, <2>2, <3>1
    <3>3. c \in S
      BY <2>1
    <3> HIDE DEF g, S
    <3> QED BY <3>2, <3>3, ImageLess
  <2>7. S \subseteq Consumers /\ \A b \in Consumers : g[b] = run(b)
    BY DEF Handling
  <2> HIDE DEF run, g
  <2>8. {run(b) : b \in S} = {g[b] : b \in S} /\ {run(b) : b \in S \ {c}} = {g[b] : b \in S \ {c}}
    BY <2>7
  <2>9. run(c) \in HandRuns /\ HandRuns' = HandRuns \ {run(c)}
    BY <2>1, <2>3, <2>6, <2>7, <2>8
  <2> QED BY <2>5, <2>9
<1> QED BY <1>1, <1>4, <1>5

LEMMA HandTakes ==
    ASSUME Inv, NEW c \in Consumers, work[c] = Idle, NEW x,
           work' = [work EXCEPT ![c] = [pc |-> "handle", copy |-> x, held |-> TRUE]]
    PROVE  HandCopies' = HandCopies \cup {x} /\ HandRuns' = HandRuns
<1>1. /\ work'[c] = [pc |-> "handle", copy |-> x, held |-> TRUE] /\ work[c].pc = "idle"
      /\ \A b \in Consumers : b # c => work'[b] = work[b]
  BY DEF Inv, TypeOK, Idle
<1>2. Handling(TRUE)' = Handling(TRUE) \cup {c} /\ c \notin Handling(TRUE)
  BY <1>1 DEF Handling
<1>3. Handling(FALSE)' = Handling(FALSE) /\ c \notin Handling(FALSE)
  BY <1>1 DEF Handling
<1>4. \A b \in Handling(TRUE) \cup Handling(FALSE) : work'[b] = work[b]
  BY <1>1, <1>2, <1>3 DEF Handling
<1>5. HandRuns' = HandRuns
  BY <1>3, <1>4 DEF HandRuns
<1>6. HandCopies' = {work'[b].copy : b \in Handling(TRUE) \cup {c}}
  BY <1>2 DEF HandCopies
<1>7. HandCopies' = HandCopies \cup {x}
  <2>1. ASSUME NEW z \in HandCopies' PROVE z \in HandCopies \cup {x}
    <3>1. PICK b \in Handling(TRUE) \cup {c} : z = work'[b].copy
      BY <1>6, <2>1
    <3>2. CASE b = c
      BY <1>1, <3>1, <3>2
    <3>3. CASE b # c
      BY <1>4, <3>1, <3>3 DEF HandCopies
    <3> QED BY <3>2, <3>3
  <2>2. ASSUME NEW z \in HandCopies PROVE z \in HandCopies'
    BY <1>4, <1>6, <2>2 DEF HandCopies
  <2>3. x \in HandCopies'
    <3>1. work'[c].copy \in {work'[b].copy : b \in Handling(TRUE) \cup {c}}
      OBVIOUS
    <3>2. work'[c].copy \in HandCopies'
      BY <1>6, <3>1
    <3>3. work'[c].copy = x
      BY <1>1
    <3> QED BY <3>2, <3>3
  <2> QED BY <2>1, <2>2, <2>3
<1> QED BY <1>5, <1>7

LEMMA HandGoesOn ==
    ASSUME \A b \in Consumers :
             /\ work'[b].pc \in {"handle", "failed"} <=> work[b].pc \in {"handle", "failed"}
             /\ work[b].pc \in {"handle", "failed"} =>
                  work'[b].held = work[b].held /\ work'[b].copy = work[b].copy
    PROVE  HandCopies' = HandCopies /\ HandRuns' = HandRuns
<1>1. Handling(TRUE)' = Handling(TRUE) /\ Handling(FALSE)' = Handling(FALSE)
  BY DEF Handling
<1>2. \A b \in Handling(TRUE) \cup Handling(FALSE) : work'[b].copy = work[b].copy
  BY DEF Handling
<1> QED BY <1>1, <1>2 DEF HandCopies, HandRuns

\* The same of handle_dlq_message.
LEMMA StoreEnds ==
    ASSUME Inv, OneHolder, NEW d \in Drainers, drain[d].pc = "store", drain'[d].pc # "store",
           \A b \in Drainers : b # d => drain'[b] = drain[b],
           NEW x, x = drain[d].copy
    PROVE  /\ x \in Copy /\ drain[d].held \in BOOLEAN
           /\ drain[d].held =>
                x \in StoreCopies /\ StoreCopies' = StoreCopies \ {x} /\ StoreRuns' = StoreRuns
           /\ ~drain[d].held =>
                /\ [by |-> <<"drain", d>>, msg |-> x.msg] \in StoreRuns
                /\ StoreRuns' = StoreRuns \ {[by |-> <<"drain", d>>, msg |-> x.msg]}
                /\ StoreCopies' = StoreCopies
<1> DEFINE run(b) == [by |-> <<"drain", b>>, msg |-> drain[b].copy.msg]
<1>1. x \in Copy /\ drain[d].held \in BOOLEAN
  <2>1. drain[d] \in Delivery({"store", "ack"}) /\ drain[d].pc # "idle"
    BY DEF Inv, TypeOK
  <2> QED BY <2>1, DeliveryShape
<1>2. Storing(TRUE)' = Storing(TRUE) \ {d} /\ Storing(FALSE)' = Storing(FALSE) \ {d}
  BY DEF Storing
<1>3. /\ StoreCopies' = {drain[b].copy : b \in Storing(TRUE) \ {d}}
      /\ StoreRuns' = {run(b) : b \in Storing(FALSE) \ {d}}
  <2>1. \A b \in Storing(TRUE) \cup Storing(FALSE) : b \in Drainers
    BY DEF Storing
  <2>2. \A b \in (Storing(TRUE) \cup Storing(FALSE)) \ {d} : drain'[b].copy = drain[b].copy
    BY <2>1
  <2> QED BY <1>2, <2>2 DEF StoreCopies, StoreRuns
<1>4. ASSUME drain[d].held
      PROVE  x \in StoreCopies /\ StoreCopies' = StoreCopies \ {x} /\ StoreRuns' = StoreRuns
  <2>1. d \in Storing(TRUE) /\ d \notin Storing(FALSE)
    BY <1>1, <1>4 DEF Storing
  <2>2. ASSUME NEW b \in Storing(TRUE), b # d PROVE drain[b].copy # x
    BY <1>4, <2>2 DEF Storing, OneHolder
  <2> QED BY <1>3, <2>1, <2>2 DEF StoreCopies, StoreRuns
<1>5. ASSUME ~drain[d].held
      PROVE  run(d) \in StoreRuns /\ StoreRuns' = StoreRuns \ {run(d)} /\ StoreCopies' = StoreCopies
  <2>1. d \in Storing(FALSE) /\ d \notin Storing(TRUE)
    BY <1>1, <1>5 DEF Storing
  <2>2. ASSUME NEW b, b # d PROVE run(b) # run(d)
    <3>1. run(b).by = <<"drain", b>> /\ run(d).by = <<"drain", d>> /\ <<"drain", b>> # <<"drain", d>>
      BY <2>2
    <3> QED BY <3>1
  <2>3. StoreRuns = {run(b) : b \in Storing(FALSE)} /\ StoreRuns' = {run(b) : b \in Storing(FALSE) \ {d}}
    BY <1>3 DEF StoreRuns
  <2>4. Storing(TRUE) \ {d} = Storing(TRUE)
    BY <2>1
  <2>5. StoreCopies' = StoreCopies
    BY <1>3, <2>4 DEF StoreCopies
  <2> DEFINE g == [b \in Drainers |-> run(b)]
             S == Storing(FALSE)
  <2>6. g[d] \in {g[b] : b \in S} /\ {g[b] : b \in S \ {d}} = {g[b] : b \in S} \ {g[d]}
    <3>1. \A b \in S : g[b] = run(b) /\ b \in Drainers
      BY DEF Storing
    <3>2. \A b \in S : b # d => g[b] # g[d]
      BY <2>1, <2>2, <3>1
    <3>3. d \in S
      BY <2>1
    <3> HIDE DEF g, S
    <3> QED BY <3>2, <3>3, ImageLess
  <2>7. S \subseteq Drainers /\ \A b \in Drainers : g[b] = run(b)
    BY DEF Storing
  <2> HIDE DEF run, g
  <2>8. {run(b) : b \in S} = {g[b] : b \in S} /\ {run(b) : b \in S \ {d}} = {g[b] : b \in S \ {d}}
    BY <2>7
  <2>9. run(d) \in StoreRuns /\ StoreRuns' = StoreRuns \ {run(d)}
    BY <2>1, <2>3, <2>6, <2>7, <2>8
  <2> QED BY <2>5, <2>9
<1> QED BY <1>1, <1>4, <1>5

LEMMA StoreTakes ==
    ASSUME Inv, NEW d \in Drainers, drain[d] = Idle, NEW x,
           drain' = [drain EXCEPT ![d] = [pc |-> "store", copy |-> x, held |-> TRUE]]
    PROVE  StoreCopies' = StoreCopies \cup {x} /\ StoreRuns' = StoreRuns
<1>1. /\ drain'[d] = [pc |-> "store", copy |-> x, held |-> TRUE] /\ drain[d].pc = "idle"
      /\ \A b \in Drainers : b # d => drain'[b] = drain[b]
  BY DEF Inv, TypeOK, Idle
<1>2. Storing(TRUE)' = Storing(TRUE) \cup {d} /\ d \notin Storing(TRUE)
  BY <1>1 DEF Storing
<1>3. Storing(FALSE)' = Storing(FALSE) /\ d \notin Storing(FALSE)
  BY <1>1 DEF Storing
<1>4. \A b \in Storing(TRUE) \cup Storing(FALSE) : drain'[b] = drain[b]
  BY <1>1, <1>2, <1>3 DEF Storing
<1>5. StoreRuns' = StoreRuns
  BY <1>3, <1>4 DEF StoreRuns
<1>6. StoreCopies' = {drain'[b].copy : b \in Storing(TRUE) \cup {d}}
  BY <1>2 DEF StoreCopies
<1>7. StoreCopies' = StoreCopies \cup {x}
  <2>1. ASSUME NEW z \in StoreCopies' PROVE z \in StoreCopies \cup {x}
    <3>1. PICK b \in Storing(TRUE) \cup {d} : z = drain'[b].copy
      BY <1>6, <2>1
    <3>2. CASE b = d
      BY <1>1, <3>1, <3>2
    <3>3. CASE b # d
      BY <1>4, <3>1, <3>3 DEF StoreCopies
    <3> QED BY <3>2, <3>3
  <2>2. ASSUME NEW z \in StoreCopies PROVE z \in StoreCopies'
    BY <1>4, <1>6, <2>2 DEF StoreCopies
  <2>3. x \in StoreCopies'
    <3>1. drain'[d].copy \in {drain'[b].copy : b \in Storing(TRUE) \cup {d}}
      OBVIOUS
    <3>2. drain'[d].copy \in StoreCopies'
      BY <1>6, <3>1
    <3>3. drain'[d].copy = x
      BY <1>1
    <3> QED BY <3>2, <3>3
  <2> QED BY <2>1, <2>2, <2>3
<1> QED BY <1>5, <1>7

LEMMA StoreGoesOn ==
    ASSUME \A b \in Drainers :
             /\ drain'[b].pc = "store" <=> drain[b].pc = "store"
             /\ drain[b].pc = "store" =>
                  drain'[b].held = drain[b].held /\ drain'[b].copy = drain[b].copy
    PROVE  StoreCopies' = StoreCopies /\ StoreRuns' = StoreRuns
<1>1. Storing(TRUE)' = Storing(TRUE) /\ Storing(FALSE)' = Storing(FALSE)
  BY DEF Storing
<1>2. \A b \in Storing(TRUE) \cup Storing(FALSE) : drain'[b].copy = drain[b].copy
  BY DEF Storing
<1> QED BY <1>1, <1>2 DEF StoreCopies, StoreRuns


-----------------------------------------------------------------------------
(* What a step does to the ledger                                          *)

LEMMA Parts ==
    /\ Owed = main \cup retry \cup dead \cup HandCopies \cup StoreCopies
    /\ Owed' = main' \cup retry' \cup dead' \cup HandCopies' \cup StoreCopies'
    /\ Stray = HandRuns \cup StoreRuns
    /\ Stray' = HandRuns' \cup StoreRuns'
BY DEF Owed, Stray, HandCopies, StoreCopies, HandRuns, StoreRuns

LEMMA HandSame ==
    ASSUME work' = work PROVE HandCopies' = HandCopies /\ HandRuns' = HandRuns
BY DEF HandCopies, HandRuns, Handling

LEMMA StoreSame ==
    ASSUME drain' = drain PROVE StoreCopies' = StoreCopies /\ StoreRuns' = StoreRuns
BY DEF StoreCopies, StoreRuns, Storing

LEMMA StoredSame ==
    ASSUME Inv, [Next]_vars, \A d \in Drainers : ~DrainStore(d)
    PROVE  Stored' = Stored
<1>1. ASSUME NEW i \in Rows
      PROVE  /\ rows'[i] # Free <=> rows[i] # Free
             /\ rows[i] # Free => rows'[i].msg = rows[i].msg
  <2>1. rows[i] # Free => rows'[i] # Free /\ rows'[i].msg = rows[i].msg
    BY RowsStep
  <2>2. ASSUME rows'[i] # Free PROVE rows[i] # Free
    <3>1. PICK m : m = rows'[i].msg
      OBVIOUS
    <3>2. i \in RowsFor(m)'
      BY <2>2, <3>1 DEF RowsFor
    <3>3. i \in RowsFor(m)
      BY <3>2, PlacesKept
    <3> QED BY <3>3 DEF RowsFor
  <2> QED BY <2>1, <2>2
<1>2. {j \in Rows : rows'[j] # Free} = {j \in Rows : rows[j] # Free}
  BY <1>1
<1>3. Stored' = {[row |-> i, msg |-> rows'[i].msg] : i \in {j \in Rows : rows[j] # Free}}
  BY <1>2 DEF Stored
<1>4. \A i \in {j \in Rows : rows[j] # Free} : rows'[i].msg = rows[i].msg
  BY <1>1
<1> QED BY <1>3, <1>4 DEF Stored

\* A step with the same copies, runs and rows.
LEMMA SameCounts ==
    /\ Owed' = Owed => Count(Owed)' = Count(Owed)
    /\ Stray' = Stray => Count(Stray)' = Count(Stray)
    /\ Stored' = Stored => Count(Stored)' = Count(Stored)
BY DEF Count

LEMMA OwedLess ==
    ASSUME Inv, NEW x \in Owed, Owed' = Owed \ {x}
    PROVE  /\ Count(Owed)[x.msg] > 0
           /\ Count(Owed)' = [Count(Owed) EXCEPT ![x.msg] = @ - 1]
<1>1. x.msg \in Messages /\ IsFiniteSet(Owed)
  BY CountedShape, CopyShape
<1>2. Count(Owed)' = Count(Owed \ {x})
  BY DEF Count
<1> QED BY <1>1, <1>2, CountLess

LEMMA OwedMore ==
    ASSUME Inv, NEW y, y \notin Owed, y.msg \in Messages, Owed' = Owed \cup {y}
    PROVE  Count(Owed)' = [Count(Owed) EXCEPT ![y.msg] = @ + 1]
<1>1. IsFiniteSet(Owed)
  BY CountedShape
<1>2. Count(Owed)' = Count(Owed \cup {y})
  BY DEF Count
<1> QED BY <1>1, <1>2, CountMore

\* A copy takes the place of another copy of its message.
LEMMA OwedSwapped ==
    ASSUME Inv, NEW x \in Owed, NEW y, y \notin Owed, y.msg = x.msg,
           Owed' = (Owed \ {x}) \cup {y}
    PROVE  Count(Owed)' = Count(Owed)
<1>1. x.msg \in Messages /\ IsFiniteSet(Owed)
  BY CountedShape, CopyShape
<1>2. PICK S : S = Owed \ {x}
  OBVIOUS
<1>3. IsFiniteSet(S) /\ y \notin S /\ Count(S) = [Count(Owed) EXCEPT ![x.msg] = @ - 1]
  BY <1>1, <1>2, FS_RemoveElement, CountLess
<1>4. Count(S \cup {y}) = [Count(S) EXCEPT ![y.msg] = @ + 1]
  BY <1>1, <1>3, CountMore
<1>5. PICK f \in [Messages -> Nat], m \in Messages : f = Count(Owed) /\ m = x.msg /\ m = y.msg
  BY <1>1, CountType
<1>6. PICK g : g = [f EXCEPT ![m] = f[m] - 1]
  OBVIOUS
<1>7. Count(S \cup {y}) = Count(Owed)
  <2>1. [g EXCEPT ![m] = g[m] + 1] = [n \in Messages |-> f[n]]
    BY <1>6
  <2>2. Count(S \cup {y}) = [g EXCEPT ![m] = g[m] + 1]
    BY <1>3, <1>4, <1>5, <1>6
  <2> QED BY <1>5, <2>1, <2>2
<1>8. Count(Owed)' = Count(S \cup {y})
  BY <1>2 DEF Count
<1> QED BY <1>7, <1>8

LEMMA StrayLess ==
    ASSUME Inv, NEW z \in Stray, Stray' = Stray \ {z}
    PROVE  /\ Count(Stray)[z.msg] > 0
           /\ Count(Stray)' = [Count(Stray) EXCEPT ![z.msg] = @ - 1]
<1>1. z.msg \in Messages /\ IsFiniteSet(Stray)
  BY CountedShape
<1>2. Count(Stray)' = Count(Stray \ {z})
  BY DEF Count
<1> QED BY <1>1, <1>2, CountLess

LEMMA StoredMore ==
    ASSUME Inv, NEW z, z \notin Stored, z.msg \in Messages, Stored' = Stored \cup {z}
    PROVE  Count(Stored)' = [Count(Stored) EXCEPT ![z.msg] = @ + 1]
<1>1. IsFiniteSet(Stored)
  BY CountedShape
<1>2. Count(Stored)' = Count(Stored \cup {z})
  BY DEF Count
<1> QED BY <1>1, <1>2, CountMore

LEMMA PlusOne ==
    ASSUME NEW f \in [Messages -> Nat], NEW x, x.msg \in Messages
    PROVE  Plus(f, {x}) = [f EXCEPT ![x.msg] = @ + 1]
<1>1. IsFiniteSet({}) /\ x \notin {} /\ {} \cup {x} = {x}
  BY FS_EmptySet
<1>2. Count({x}) = [Count({}) EXCEPT ![x.msg] = @ + 1]
  BY <1>1, CountMore
<1>3. Count({x}) = [[m \in Messages |-> 0] EXCEPT ![x.msg] = @ + 1]
  BY <1>2, CountNone
<1>4. PICK g : g = Count({x})
  OBVIOUS
<1> DEFINE n == x.msg
<1>5. g = [m \in Messages |-> IF m = n THEN 1 ELSE 0] /\ n \in Messages
  BY <1>3, <1>4
<1> HIDE DEF n
<1>6. [m \in Messages |-> f[m] + g[m]] = [f EXCEPT ![n] = f[n] + 1]
  <2>1. \A m \in Messages : f[m] + g[m] = IF m = n THEN f[n] + 1 ELSE f[m]
    BY <1>5
  <2>2. [f EXCEPT ![n] = f[n] + 1] = [m \in Messages |-> IF m = n THEN f[n] + 1 ELSE f[m]]
    OBVIOUS
  <2> QED BY <2>1, <2>2
<1> QED BY <1>4, <1>6 DEF Plus, n

\* A copy with a new token is not answered for yet.
LEMMA Fresh ==
    ASSUME Inv, NEW t \in Tokens \ UsedTokens, NEW m, NEW n
    PROVE  [token |-> t, msg |-> m, attempt |-> n] \notin Owed
<1> DEFINE y == [token |-> t, msg |-> m, attempt |-> n]
<1>1. y.token = t
  OBVIOUS
<1> HIDE DEF y
<1>2. y \notin main \cup retry \cup dead \cup HeldMain \cup HeldDead
  BY <1>1 DEF UsedTokens
<1>3. y \notin Owed
  BY <1>2, CountedShape
<1> QED BY <1>3 DEF y

\* A row that is taken.
LEMMA RowTaken ==
    ASSUME Inv, NEW i \in Rows, rows[i] = Free, NEW m \in Messages,
           rows' = [rows EXCEPT ![i] = [msg |-> m, status |-> "pending"]]
    PROVE  Count(Stored)' = [Count(Stored) EXCEPT ![m] = @ + 1]
<1> DEFINE z == [row |-> i, msg |-> m]
           T == {j \in Rows : rows[j] # Free}
<1>1. [msg |-> m, status |-> "pending"] # Free
  BY DEF Free
<1>2. /\ rows'[i] = [msg |-> m, status |-> "pending"]
      /\ \A j \in Rows : j # i => rows'[j] = rows[j]
  BY DEF Inv, TypeOK
<1>3. {j \in Rows : rows'[j] # Free} = T \cup {i} /\ i \notin T
  BY <1>1, <1>2
<1>4. rows'[i].msg = m /\ \A j \in T : rows'[j].msg = rows[j].msg
  BY <1>2, <1>3
<1>5. /\ Stored = {[row |-> j, msg |-> rows[j].msg] : j \in T}
      /\ Stored' = {[row |-> j, msg |-> rows'[j].msg] : j \in T \cup {i}}
  BY <1>3 DEF Stored
<1>6. z.msg = m /\ z.row = i
  OBVIOUS
<1>7. z \notin Stored
  <2> SUFFICES ASSUME z \in Stored PROVE FALSE
    OBVIOUS
  <2>1. PICK j \in T : z = [row |-> j, msg |-> rows[j].msg]
    BY <1>5
  <2>2. z.row = j
    BY <2>1
  <2> QED BY <1>3, <1>6, <2>2
<1> HIDE DEF T
<1>8. Stored' = Stored \cup {z}
  <2>1. ASSUME NEW u \in Stored' PROVE u \in Stored \cup {z}
    <3>1. PICK j \in T \cup {i} : u = [row |-> j, msg |-> rows'[j].msg]
      BY <1>5, <2>1
    <3>2. CASE j = i
      BY <1>4, <3>1, <3>2
    <3>3. CASE j # i
      BY <1>4, <1>5, <3>1, <3>3
    <3> QED BY <3>2, <3>3
  <2>2. ASSUME NEW u \in Stored PROVE u \in Stored'
    BY <1>4, <1>5, <2>2
  <2>3. [row |-> i, msg |-> rows'[i].msg] \in Stored'
    BY <1>5
  <2> QED BY <1>4, <2>1, <2>2, <2>3
<1> HIDE DEF z
<1> QED BY <1>6, <1>7, <1>8, StoredMore

-----------------------------------------------------------------------------
(* One lemma per kind of step                                              *)

LEMMA LedgerPublish ==
    ASSUME Inv, [Next]_vars, NEW m \in Messages, Publish(m)
    PROVE  Ledger!Publish(m)
<1>1. PICK t \in Tokens \ UsedTokens : main' = main \cup {[token |-> t, msg |-> m, attempt |-> 0]}
  BY DEF Publish, Enqueue
<1> DEFINE y == [token |-> t, msg |-> m, attempt |-> 0]
<1>2. y.msg = m /\ y \notin Owed /\ main' = main \cup {y}
  BY <1>1, Fresh
<1> HIDE DEF y
<1>3. /\ retry' = retry /\ dead' = dead /\ HandCopies' = HandCopies /\ HandRuns' = HandRuns
      /\ StoreCopies' = StoreCopies /\ StoreRuns' = StoreRuns /\ rows' = rows
  BY HandSame, StoreSame DEF Publish
<1>4. Owed' = Owed \cup {y} /\ Stray' = Stray /\ Stored' = Stored
  BY <1>2, <1>3, Parts DEF Stored
<1>5. Count(Owed)' = [Count(Owed) EXCEPT ![m] = @ + 1]
  BY <1>2, <1>4, OwedMore
<1>6. Count(Stray)' = Count(Stray) /\ Count(Stored)' = Count(Stored)
  BY <1>4, SameCounts
<1> QED BY <1>5, <1>6 DEF Publish, Ledger!Publish, Ledger!More, Ledger!outcomes

\* Copies that only change place, and steps of administrators.
LEMMA LedgerSame ==
    ASSUME Inv, [Next]_vars, Owed' = Owed, Stray' = Stray, \A d \in Drainers : ~DrainStore(d),
           UNCHANGED <<published, effects, again, lost>>
    PROVE  UNCHANGED Ledger!ledger
<1>1. Stored' = Stored
  BY StoredSame
<1> QED BY <1>1, SameCounts DEF Ledger!ledger, Ledger!outcomes

\* A run acts upon its copy: the copy, or the stray run, is spent.
LEMMA LedgerSpend ==
    ASSUME Inv, NEW m \in Messages,
           \/ \E x \in Owed : x.msg = m /\ Owed' = Owed \ {x} /\ Stray' = Stray
           \/ \E z \in Stray : z.msg = m /\ Stray' = Stray \ {z} /\ Owed' = Owed
    PROVE  Ledger!Spend(m)
<1>1. ASSUME NEW x \in Owed, x.msg = m, Owed' = Owed \ {x}, Stray' = Stray PROVE Ledger!Spend(m)
  BY <1>1, OwedLess, SameCounts DEF Ledger!Spend, Ledger!Less
<1>2. ASSUME NEW z \in Stray, z.msg = m, Stray' = Stray \ {z}, Owed' = Owed PROVE Ledger!Spend(m)
  BY <1>2, StrayLess, SameCounts DEF Ledger!Spend, Ledger!Less
<1> QED BY <1>1, <1>2

\* Runs are told apart by their consumer.
LEMMA RunsTagged ==
    /\ \A z \in HandRuns : z.by[1] = "work"
    /\ \A z \in StoreRuns : z.by[1] = "drain"
<1>1. ASSUME NEW z \in HandRuns PROVE z.by[1] = "work"
  <2>1. PICK c \in Consumers : z = [by |-> <<"work", c>>, msg |-> work[c].copy.msg]
    BY <1>1 DEF HandRuns, Handling
  <2>2. z.by = <<"work", c>>
    BY <2>1
  <2> QED BY <2>2
<1>2. ASSUME NEW z \in StoreRuns PROVE z.by[1] = "drain"
  <2>1. PICK d \in Drainers : z = [by |-> <<"drain", d>>, msg |-> drain[d].copy.msg]
    BY <1>2 DEF StoreRuns, Storing
  <2>2. z.by = <<"drain", d>>
    BY <2>1
  <2> QED BY <2>2
<1> QED BY <1>1, <1>2

\* A run of process_message that acts and leaves the queues as they are.
LEMMA HandSpends ==
    ASSUME Inv, Apart, OneHolder, NEW c \in Consumers, work[c].pc \in {"handle", "failed"},
           NEW r, work' = [work EXCEPT ![c] = r], r.pc \notin {"handle", "failed"},
           UNCHANGED <<queues, drain>>, NEW x, x = work[c].copy
    PROVE  /\ x \in Copy /\ x.msg \in Messages /\ work[c].held \in BOOLEAN
           /\ work[c].held => x \in Owed /\ Owed' = Owed \ {x} /\ Stray' = Stray
           /\ ~work[c].held => \E z \in Stray : z.msg = x.msg /\ Stray' = Stray \ {z} /\ Owed' = Owed
<1>1. work'[c] = r /\ \A b \in Consumers : b # c => work'[b] = work[b]
  BY DEF Inv, TypeOK
<1>2. /\ x \in Copy /\ work[c].held \in BOOLEAN
      /\ work[c].held =>
           x \in HandCopies /\ HandCopies' = HandCopies \ {x} /\ HandRuns' = HandRuns
      /\ ~work[c].held =>
           /\ [by |-> <<"work", c>>, msg |-> x.msg] \in HandRuns
           /\ HandRuns' = HandRuns \ {[by |-> <<"work", c>>, msg |-> x.msg]}
           /\ HandCopies' = HandCopies
  BY <1>1, HandEnds
<1>3. /\ main' = main /\ retry' = retry /\ dead' = dead
      /\ StoreCopies' = StoreCopies /\ StoreRuns' = StoreRuns
  BY StoreSame DEF queues
<1>4. ASSUME work[c].held PROVE x \in Owed /\ Owed' = Owed \ {x} /\ Stray' = Stray
  <2>1. x \in HeldMain
    BY <1>2, <1>4, CountedShape
  <2>2. x \notin main \cup retry \cup dead \cup StoreCopies
    BY <2>1, CountedShape DEF Apart
  <2> QED BY <1>2, <1>3, <1>4, <2>2, Parts
<1>5. ASSUME ~work[c].held
      PROVE  \E z \in Stray : z.msg = x.msg /\ Stray' = Stray \ {z} /\ Owed' = Owed
  <2> DEFINE z == [by |-> <<"work", c>>, msg |-> x.msg]
  <2>1. z \notin StoreRuns
    <3>1. z.by = <<"work", c>>
      OBVIOUS
    <3>2. z.by[1] = "work"
      BY <3>1
    <3> QED BY <3>2, RunsTagged
  <2>2. z.msg = x.msg
    OBVIOUS
  <2>3. z \in HandRuns /\ HandRuns' = HandRuns \ {z} /\ HandCopies' = HandCopies
    BY <1>2, <1>5
  <2> HIDE DEF z
  <2>4. z \in Stray /\ Stray' = Stray \ {z} /\ Owed' = Owed
    BY <1>3, <2>1, <2>3, Parts
  <2> QED BY <2>2, <2>4
<1> QED BY <1>2, <1>4, <1>5, CopyShape

\* The same of handle_dlq_message.
LEMMA StoreSpends ==
    ASSUME Inv, Apart, OneHolder, NEW d \in Drainers, drain[d].pc = "store",
           NEW r, drain' = [drain EXCEPT ![d] = r], r.pc # "store",
           UNCHANGED <<queues, work>>, NEW x, x = drain[d].copy
    PROVE  /\ x \in Copy /\ x.msg \in Messages /\ drain[d].held \in BOOLEAN
           /\ drain[d].held => x \in Owed /\ Owed' = Owed \ {x} /\ Stray' = Stray
           /\ ~drain[d].held => \E z \in Stray : z.msg = x.msg /\ Stray' = Stray \ {z} /\ Owed' = Owed
<1>1. drain'[d] = r /\ \A b \in Drainers : b # d => drain'[b] = drain[b]
  BY DEF Inv, TypeOK
<1>2. /\ x \in Copy /\ drain[d].held \in BOOLEAN
      /\ drain[d].held =>
           x \in StoreCopies /\ StoreCopies' = StoreCopies \ {x} /\ StoreRuns' = StoreRuns
      /\ ~drain[d].held =>
           /\ [by |-> <<"drain", d>>, msg |-> x.msg] \in StoreRuns
           /\ StoreRuns' = StoreRuns \ {[by |-> <<"drain", d>>, msg |-> x.msg]}
           /\ StoreCopies' = StoreCopies
  BY <1>1, StoreEnds
<1>3. /\ main' = main /\ retry' = retry /\ dead' = dead
      /\ HandCopies' = HandCopies /\ HandRuns' = HandRuns
  BY HandSame DEF queues
<1>4. ASSUME drain[d].held PROVE x \in Owed /\ Owed' = Owed \ {x} /\ Stray' = Stray
  <2>1. x \in HeldDead
    BY <1>2, <1>4, CountedShape
  <2>2. x \notin main \cup retry \cup dead \cup HandCopies
    BY <2>1, CountedShape DEF Apart
  <2> QED BY <1>2, <1>3, <1>4, <2>2, Parts
<1>5. ASSUME ~drain[d].held
      PROVE  \E z \in Stray : z.msg = x.msg /\ Stray' = Stray \ {z} /\ Owed' = Owed
  <2> DEFINE z == [by |-> <<"drain", d>>, msg |-> x.msg]
  <2>1. z \notin HandRuns
    <3>1. z.by = <<"drain", d>>
      OBVIOUS
    <3>2. z.by[1] = "drain"
      BY <3>1
    <3> QED BY <3>2, RunsTagged
  <2>2. z.msg = x.msg
    OBVIOUS
  <2>3. z \in StoreRuns /\ StoreRuns' = StoreRuns \ {z} /\ StoreCopies' = StoreCopies
    BY <1>2, <1>5
  <2> HIDE DEF z
  <2>4. z \in Stray /\ Stray' = Stray \ {z} /\ Owed' = Owed
    BY <1>3, <2>1, <2>3, Parts
  <2> QED BY <2>2, <2>4
<1> QED BY <1>2, <1>4, <1>5, CopyShape

LEMMA LedgerHandle ==
    ASSUME Inv, Apart, OneHolder, [Next]_vars, NEW c \in Consumers, HandlerSucceeds(c)
    PROVE  Ledger!Handle(work[c].copy.msg) /\ work[c].copy.msg \in Messages
<1> DEFINE r == [work[c] EXCEPT !.pc = "ack"]
<1>1. PICK x : x = work[c].copy
  OBVIOUS
<1>2. /\ work[c].pc = "handle" /\ work' = [work EXCEPT ![c] = r] /\ UNCHANGED <<queues, drain>>
      /\ UNCHANGED <<published, rows, again, lost>> /\ effects' = [effects EXCEPT ![x.msg] = @ + 1]
  BY <1>1 DEF HandlerSucceeds
<1>3. r.pc = "ack"
  <2>1. work[c] \in Delivery({"handle", "failed", "ack", "reject"}) /\ work[c] # Idle
    BY <1>2 DEF Inv, TypeOK, Idle
  <2>2. work[c] \in [pc: {"handle", "failed", "ack", "reject"}, copy: Copy, held: BOOLEAN]
    BY <2>1 DEF Delivery
  <2> QED BY <2>2
<1> HIDE DEF r
<1>4. /\ x \in Copy /\ x.msg \in Messages /\ work[c].held \in BOOLEAN
      /\ work[c].held => x \in Owed /\ Owed' = Owed \ {x} /\ Stray' = Stray
      /\ ~work[c].held => \E z \in Stray : z.msg = x.msg /\ Stray' = Stray \ {z} /\ Owed' = Owed
  BY <1>1, <1>2, <1>3, HandSpends
<1>5. PICK m \in Messages : m = x.msg
  BY <1>4
<1>6. Ledger!Spend(m)
  BY <1>4, <1>5, LedgerSpend
<1>7. Stored' = Stored
  BY <1>2 DEF Stored
<1>8. Ledger!Handle(m)
  BY <1>2, <1>5, <1>6, <1>7, SameCounts DEF Ledger!Handle, Ledger!More
<1> QED BY <1>1, <1>5, <1>8

\* A run of process_message that fails and cannot forward its copy.
LEMMA LedgerRefused ==
    ASSUME Inv, Apart, OneHolder, [Next]_vars, NEW c \in Consumers, ForwardRefused(c)
    PROVE  Ledger!Next
<1>1. PICK x : x = work[c].copy
  OBVIOUS
<1>2. /\ work[c].pc = "failed" /\ work' = [work EXCEPT ![c] = Idle] /\ UNCHANGED <<queues, drain>>
      /\ UNCHANGED <<published, rows, again, effects>> /\ (PublishMayFail \/ ~work[c].held)
      /\ lost' = IF work[c].held THEN Plus(lost, {x}) ELSE lost
  BY <1>1 DEF ForwardRefused, GivenUp
<1>3. Idle.pc = "idle"
  BY DEF Idle
<1>4. /\ x \in Copy /\ x.msg \in Messages /\ work[c].held \in BOOLEAN
      /\ work[c].held => x \in Owed /\ Owed' = Owed \ {x} /\ Stray' = Stray
      /\ ~work[c].held => \E z \in Stray : z.msg = x.msg /\ Stray' = Stray \ {z} /\ Owed' = Owed
  BY <1>1, <1>2, <1>3, HandSpends
<1>5. PICK m \in Messages : m = x.msg
  BY <1>4
<1>6. Stored' = Stored /\ Count(Stored)' = Count(Stored)
  BY <1>2, SameCounts DEF Stored
<1>7. CASE work[c].held
  <2>1. lost' = [lost EXCEPT ![m] = @ + 1]
    BY <1>2, <1>5, <1>7, PlusOne DEF Inv, TypeOK
  <2>2. Count(Owed)[m] > 0 /\ Count(Owed)' = [Count(Owed) EXCEPT ![m] = @ - 1]
    BY <1>4, <1>5, <1>7, OwedLess
  <2>3. Count(Stray)' = Count(Stray)
    BY <1>4, <1>7, SameCounts
  <2>4. Ledger!Lose(m)
    BY <1>2, <1>6, <1>7, <2>1, <2>2, <2>3 DEF Ledger!Lose, Ledger!Less, Ledger!More
  <2> QED BY <2>4 DEF Ledger!Next
<1>8. CASE ~work[c].held
  <2>1. PICK z \in Stray : z.msg = m /\ Stray' = Stray \ {z} /\ Owed' = Owed
    BY <1>4, <1>5, <1>8
  <2>2. Count(Stray)[m] > 0 /\ Count(Stray)' = [Count(Stray) EXCEPT ![m] = @ - 1]
    BY <2>1, StrayLess
  <2>3. Count(Owed)' = Count(Owed)
    BY <2>1, SameCounts
  <2>4. Ledger!Abandon(m)
    BY <1>2, <1>6, <1>8, <2>2, <2>3 DEF Ledger!Abandon, Ledger!Less, Ledger!outcomes
  <2> QED BY <2>4 DEF Ledger!Next
<1> QED BY <1>4, <1>7, <1>8

LEMMA LedgerStoreFails ==
    ASSUME Inv, Apart, OneHolder, [Next]_vars, NEW d \in Drainers, DrainStoreFails(d)
    PROVE  Ledger!Next
<1>1. PICK x : x = drain[d].copy
  OBVIOUS
<1>2. /\ drain[d].pc = "store" /\ drain' = [drain EXCEPT ![d] = Idle] /\ UNCHANGED <<queues, work>>
      /\ UNCHANGED <<published, rows, again, effects>> /\ StoreMayFail
      /\ lost' = IF drain[d].held THEN Plus(lost, {x}) ELSE lost
  BY <1>1 DEF DrainStoreFails, GivenUp
<1>3. Idle.pc = "idle"
  BY DEF Idle
<1>4. /\ x \in Copy /\ x.msg \in Messages /\ drain[d].held \in BOOLEAN
      /\ drain[d].held => x \in Owed /\ Owed' = Owed \ {x} /\ Stray' = Stray
      /\ ~drain[d].held => \E z \in Stray : z.msg = x.msg /\ Stray' = Stray \ {z} /\ Owed' = Owed
  BY <1>1, <1>2, <1>3, StoreSpends
<1>5. PICK m \in Messages : m = x.msg
  BY <1>4
<1>6. Stored' = Stored /\ Count(Stored)' = Count(Stored)
  BY <1>2, SameCounts DEF Stored
<1>7. CASE drain[d].held
  <2>1. lost' = [lost EXCEPT ![m] = @ + 1]
    BY <1>2, <1>5, <1>7, PlusOne DEF Inv, TypeOK
  <2>2. Count(Owed)[m] > 0 /\ Count(Owed)' = [Count(Owed) EXCEPT ![m] = @ - 1]
    BY <1>4, <1>5, <1>7, OwedLess
  <2>3. Count(Stray)' = Count(Stray)
    BY <1>4, <1>7, SameCounts
  <2>4. Ledger!Lose(m)
    BY <1>2, <1>6, <1>7, <2>1, <2>2, <2>3 DEF Ledger!Lose, Ledger!Less, Ledger!More
  <2> QED BY <2>4 DEF Ledger!Next
<1>8. CASE ~drain[d].held
  <2>1. PICK z \in Stray : z.msg = m /\ Stray' = Stray \ {z} /\ Owed' = Owed
    BY <1>4, <1>5, <1>8
  <2>2. Count(Stray)[m] > 0 /\ Count(Stray)' = [Count(Stray) EXCEPT ![m] = @ - 1]
    BY <2>1, StrayLess
  <2>3. Count(Owed)' = Count(Owed)
    BY <2>1, SameCounts
  <2>4. Ledger!Abandon(m)
    BY <1>2, <1>6, <1>8, <2>2, <2>3 DEF Ledger!Abandon, Ledger!Less, Ledger!outcomes
  <2> QED BY <2>4 DEF Ledger!Next
<1> QED BY <1>4, <1>7, <1>8

LEMMA LedgerStore ==
    ASSUME Inv, Apart, OneHolder, [Next]_vars, NEW d \in Drainers, DrainStore(d)
    PROVE  Ledger!Next
<1> DEFINE r == [drain[d] EXCEPT !.pc = "ack"]
<1>1. PICK x : x = drain[d].copy
  OBVIOUS
<1>2. PICK i \in Rows :
        /\ rows[i] = Free
        /\ rows' = [rows EXCEPT ![i] = [msg |-> x.msg, status |-> "pending"]]
  BY <1>1 DEF DrainStore
<1>3. /\ drain[d].pc = "store" /\ drain' = [drain EXCEPT ![d] = r] /\ UNCHANGED <<queues, work>>
      /\ UNCHANGED <<published, effects, again, lost>>
  BY DEF DrainStore, history
<1>4. r.pc = "ack"
  <2>1. drain[d] \in Delivery({"store", "ack"}) /\ drain[d] # Idle
    BY <1>3 DEF Inv, TypeOK, Idle
  <2>2. drain[d] \in [pc: {"store", "ack"}, copy: Copy, held: BOOLEAN]
    BY <2>1 DEF Delivery
  <2> QED BY <2>2
<1> HIDE DEF r
<1>5. /\ x \in Copy /\ x.msg \in Messages /\ drain[d].held \in BOOLEAN
      /\ drain[d].held => x \in Owed /\ Owed' = Owed \ {x} /\ Stray' = Stray
      /\ ~drain[d].held => \E z \in Stray : z.msg = x.msg /\ Stray' = Stray \ {z} /\ Owed' = Owed
  BY <1>1, <1>3, <1>4, StoreSpends
<1>6. PICK m \in Messages : m = x.msg
  BY <1>5
<1>7. Ledger!Spend(m)
  BY <1>5, <1>6, LedgerSpend
<1>8. Count(Stored)' = [Count(Stored) EXCEPT ![m] = @ + 1]
  BY <1>2, <1>6, RowTaken
<1>9. Ledger!Store(m)
  BY <1>3, <1>7, <1>8 DEF Ledger!Store, Ledger!More
<1> QED BY <1>9 DEF Ledger!Next

LEMMA LedgerRepublish ==
    ASSUME Inv, [Next]_vars, NEW a \in Admins, NEW i \in Rows, AdminRepublish(a, i)
    PROVE  [Ledger!Next]_(Ledger!ledger)
<1>1. /\ UNCHANGED <<retry, dead, work, drain, rows, published, effects, lost>>
      /\ HandCopies' = HandCopies /\ HandRuns' = HandRuns
      /\ StoreCopies' = StoreCopies /\ StoreRuns' = StoreRuns /\ Stored' = Stored
  BY HandSame, StoreSame DEF AdminRepublish, Stored
<1>2. Stray' = Stray
  BY <1>1, Parts
<1>3. CASE UNCHANGED <<main, again>>
  <2>1. Owed' = Owed
    BY <1>1, <1>3, Parts
  <2>2. UNCHANGED Ledger!ledger
    BY <1>1, <1>2, <1>3, <2>1, SameCounts DEF Ledger!ledger, Ledger!outcomes
  <2> QED BY <2>2
<1>4. ASSUME rows[i].status = "pending", Enqueue(main, rows[i].msg, 0),
             again' = [again EXCEPT ![rows[i].msg] = @ + 1]
      PROVE  Ledger!Next
  <2>1. rows[i] # Free /\ rows[i].msg \in Messages
    BY <1>4, RowShape DEF Inv, TypeOK
  <2>2. PICK m \in Messages : m = rows[i].msg
    BY <2>1
  <2>3. PICK t \in Tokens \ UsedTokens : main' = main \cup {[token |-> t, msg |-> m, attempt |-> 0]}
    BY <1>4, <2>2 DEF Enqueue
  <2> DEFINE y == [token |-> t, msg |-> m, attempt |-> 0]
             z == [row |-> i, msg |-> m]
  <2>4. y.msg = m /\ y \notin Owed /\ main' = main \cup {y}
    BY <2>3, Fresh
  <2>5. z \in Stored /\ z.msg = m
    BY <2>1, <2>2 DEF Stored
  <2> HIDE DEF y, z
  <2>6. Owed' = Owed \cup {y}
    BY <1>1, <2>4, Parts
  <2>7. Count(Owed)' = [Count(Owed) EXCEPT ![m] = @ + 1]
    BY <2>4, <2>6, OwedMore
  <2>8. Count(Stored)[m] > 0
    BY <2>5, CountedShape, CountLess
  <2>9. Ledger!Republish(m)
    BY <1>1, <1>2, <1>4, <2>2, <2>7, <2>8, SameCounts
    DEF Ledger!Republish, Ledger!More, Ledger!outcomes
  <2> QED BY <2>9 DEF Ledger!Next
<1> QED BY <1>3, <1>4 DEF AdminRepublish

LEMMA LedgerForward ==
    ASSUME Inv, Apart, OneHolder, [Next]_vars, NEW c \in Consumers, Forward(c)
    PROVE  [Ledger!Next]_(Ledger!ledger)
<1>1. PICK x : x = work[c].copy
  OBVIOUS
<1>2. /\ work[c].pc = "failed" /\ work' = [work EXCEPT ![c].pc = "reject"]
      /\ UNCHANGED <<drain, rows, published, effects, again, lost>> /\ main' = main
  BY DEF Forward, history
<1>3. /\ work'[c].pc = "reject" /\ \A b \in Consumers : b # c => work'[b] = work[b]
  <2>1. work[c] \in Delivery({"handle", "failed", "ack", "reject"}) /\ work[c] # Idle
    BY <1>2 DEF Inv, TypeOK, Idle
  <2>2. work[c] \in [pc: {"handle", "failed", "ack", "reject"}, copy: Copy, held: BOOLEAN]
    BY <2>1 DEF Delivery
  <2>3. [work[c] EXCEPT !.pc = "reject"].pc = "reject"
    BY <2>2
  <2>4. /\ work'[c] = [work[c] EXCEPT !.pc = "reject"]
        /\ \A b \in Consumers : b # c => work'[b] = work[b]
    BY <1>2 DEF Inv, TypeOK
  <2> QED BY <2>3, <2>4
<1>4. /\ x \in Copy /\ work[c].held \in BOOLEAN
      /\ work[c].held =>
           x \in HandCopies /\ HandCopies' = HandCopies \ {x} /\ HandRuns' = HandRuns
      /\ ~work[c].held =>
           /\ [by |-> <<"work", c>>, msg |-> x.msg] \in HandRuns
           /\ HandRuns' = HandRuns \ {[by |-> <<"work", c>>, msg |-> x.msg]}
           /\ HandCopies' = HandCopies
  BY <1>1, <1>2, <1>3, HandEnds
<1>5. StoreCopies' = StoreCopies /\ StoreRuns' = StoreRuns /\ Stored' = Stored
  BY <1>2, StoreSame DEF Stored
<1>6. PICK y : /\ y \notin Owed /\ y.msg = x.msg
               /\ retry' \cup dead' = retry \cup dead \cup {y}
  <2>1. PICK n, q, q1 :
          /\ \E t \in Tokens \ UsedTokens :
               q1 = q \cup {[token |-> t, msg |-> x.msg, attempt |-> n]}
          /\ \/ q = retry /\ q1 = retry' /\ dead' = dead
             \/ q = dead /\ q1 = dead' /\ retry' = retry
    <3>1. CASE Enqueue(retry, x.msg, x.attempt + 1) /\ UNCHANGED dead
      BY <3>1 DEF Enqueue
    <3>2. CASE Enqueue(dead, x.msg, x.attempt) /\ UNCHANGED retry
      BY <3>2 DEF Enqueue
    <3> QED BY <1>1, <3>1, <3>2 DEF Forward
  <2>2. PICK t \in Tokens \ UsedTokens :
          q1 = q \cup {[token |-> t, msg |-> x.msg, attempt |-> n]}
    BY <2>1
  <2>3. [token |-> t, msg |-> x.msg, attempt |-> n] \notin Owed
    BY <2>2, Fresh
  <2>4. [token |-> t, msg |-> x.msg, attempt |-> n].msg = x.msg
    OBVIOUS
  <2>5. retry' \cup dead' = retry \cup dead \cup {[token |-> t, msg |-> x.msg, attempt |-> n]}
    BY <2>1, <2>2
  <2> QED BY <2>3, <2>4, <2>5
<1>7. PICK m \in Messages : m = x.msg
  BY <1>4, CopyShape
<1>8. CASE work[c].held
  <2>1. x \in HeldMain
    BY <1>4, <1>8, CountedShape
  <2>2. x \notin main \cup retry \cup dead \cup StoreCopies
    BY <2>1, CountedShape DEF Apart
  <2>3. x \in Owed
    BY <1>4, <1>8, Parts
  <2>4. Owed' = (Owed \ {x}) \cup {y} /\ Stray' = Stray
    BY <1>2, <1>4, <1>5, <1>6, <1>8, <2>2, <2>3, Parts
  <2>5. Count(Owed)' = Count(Owed)
    BY <1>6, <2>3, <2>4, OwedSwapped
  <2> QED BY <1>2, <1>5, <2>4, <2>5, SameCounts DEF Ledger!ledger, Ledger!outcomes
<1>9. CASE ~work[c].held
  <2> DEFINE z == [by |-> <<"work", c>>, msg |-> x.msg]
  <2>1. z \notin StoreRuns
    <3>1. z.by = <<"work", c>>
      OBVIOUS
    <3>2. z.by[1] = "work"
      BY <3>1
    <3> QED BY <3>2, RunsTagged
  <2>2. z.msg = m
    BY <1>7
  <2>3. z \in HandRuns /\ HandRuns' = HandRuns \ {z} /\ HandCopies' = HandCopies
    BY <1>4, <1>9
  <2> HIDE DEF z
  <2>4. z \in Stray /\ Stray' = Stray \ {z} /\ Owed' = Owed \cup {y}
    BY <1>2, <1>5, <1>6, <2>1, <2>3, Parts
  <2>5. Count(Stray)[m] > 0 /\ Count(Stray)' = [Count(Stray) EXCEPT ![m] = @ - 1]
    BY <2>2, <2>4, StrayLess
  <2>6. Count(Owed)' = [Count(Owed) EXCEPT ![m] = @ + 1]
    BY <1>6, <1>7, <2>4, OwedMore
  <2>7. Ledger!Revive(m)
    BY <1>2, <1>5, <2>5, <2>6, SameCounts DEF Ledger!Revive, Ledger!Less, Ledger!More, Ledger!outcomes
  <2> QED BY <2>7 DEF Ledger!Next
<1> QED BY <1>4, <1>8, <1>9

-----------------------------------------------------------------------------
(* Faults                                                                  *)

LEMMA CountBounds ==
    ASSUME NEW S, IsFiniteSet(S), NEW T, NEW m \in Messages
    PROVE  /\ Count(S)[m] \in Nat
           /\ T \subseteq S => Count(T)[m] \in Nat /\ Count(T)[m] <= Count(S)[m]
           /\ \A U : IsFiniteSet(U) /\ T \subseteq S \cup U =>
                Count(T)[m] \in Nat /\ Count(T)[m] <= Count(S)[m] + Count(U)[m]
           /\ \A P : T \subseteq S /\ P \subseteq S /\ T \cap P = {} =>
                Count(T)[m] + Count(P)[m] <= Count(S)[m]
<1> DEFINE Of(A) == {x \in A : x.msg = m}
<1>1. \A A : Count(A)[m] = Cardinality(Of(A))
  BY DEF Count
<1>2. ASSUME NEW A, IsFiniteSet(A) PROVE IsFiniteSet(Of(A))
  <2>1. Of(A) \in SUBSET A
    OBVIOUS
  <2> QED BY <1>2, <2>1, FS_Subset
<1>3. T \subseteq S => Of(T) \subseteq Of(S)
  OBVIOUS
<1>4. \A U : T \subseteq S \cup U => Of(T) \subseteq Of(S) \cup Of(U)
  OBVIOUS
<1>5. \A P : /\ P \subseteq S => Of(P) \subseteq Of(S)
             /\ T \cap P = {} => Of(T) \cap Of(P) = {}
  OBVIOUS
<1> HIDE DEF Of
<1>6. IsFiniteSet(Of(S))
  BY <1>2
<1>7. /\ Cardinality(Of(S)) \in Nat
      /\ T \subseteq S => Cardinality(Of(T)) \in Nat /\ Cardinality(Of(T)) <= Cardinality(Of(S))
  BY <1>3, <1>6, Sizes
<1>8. ASSUME NEW U, IsFiniteSet(U), T \subseteq S \cup U
      PROVE  Count(T)[m] \in Nat /\ Count(T)[m] <= Count(S)[m] + Count(U)[m]
  <2>1. IsFiniteSet(Of(U)) /\ Of(T) \subseteq Of(S) \cup Of(U)
    BY <1>2, <1>4, <1>8
  <2>2. /\ Cardinality(Of(T)) \in Nat
        /\ Cardinality(Of(T)) <= Cardinality(Of(S)) + Cardinality(Of(U))
    BY <1>6, <2>1, Sizes
  <2> QED BY <1>1, <2>2
<1>9. ASSUME NEW P, T \subseteq S, P \subseteq S, T \cap P = {}
      PROVE  Count(T)[m] + Count(P)[m] <= Count(S)[m]
  <2>1. Of(T) \subseteq Of(S) /\ Of(P) \subseteq Of(S) /\ Of(T) \cap Of(P) = {}
    BY <1>3, <1>5, <1>9
  <2>2. Cardinality(Of(T)) + Cardinality(Of(P)) <= Cardinality(Of(S))
    BY <1>6, <2>1, Split
  <2> QED BY <1>1, <2>2
<1> QED BY <1>1, <1>7, <1>8, <1>9

\* Of two images of a finite set, one by an injective function.
LEMMA ImageSizes ==
    ASSUME NEW S, IsFiniteSet(S), NEW f, NEW g, \A a, b \in S : g[a] = g[b] => a = b
    PROVE  Cardinality({f[a] : a \in S}) <= Cardinality({g[a] : a \in S})
<1> DEFINE F == [a \in S |-> f[a]]
           G == [a \in S |-> g[a]]
           Fs == {f[a] : a \in S}
           Gs == {g[a] : a \in S}
<1>1. F \in Surjection(S, Fs)
  BY DEF Surjection
<1>2. G \in Surjection(S, Gs) /\ G \in Injection(S, Gs)
  <2>1. G \in [S -> Gs] /\ \A a \in S : G[a] = g[a]
    OBVIOUS
  <2>2. \A b \in Gs : \E a \in S : G[a] = b
    OBVIOUS
  <2> HIDE DEF G, Gs
  <2>3. \A a, b \in S : G[a] = G[b] => a = b
    BY <2>1
  <2>4. G \in Surjection(S, Gs)
    BY <2>1, <2>2 DEF Surjection
  <2>5. G \in Injection(S, Gs)
    BY <2>1, <2>3 DEF Injection, IsInjective
  <2> QED BY <2>4, <2>5
<1> HIDE DEF F, G, Fs, Gs
<1>3. IsFiniteSet(Fs) /\ Cardinality(Fs) <= Cardinality(S)
  BY <1>1, FS_Surjection
<1>4. IsFiniteSet(Gs) /\ Cardinality(Gs) = Cardinality(S)
  BY <1>2, FS_Surjection
<1>5. Cardinality(Fs) <= Cardinality(Gs)
  BY <1>3, <1>4, FS_CardinalityType
<1> QED BY <1>5 DEF Fs, Gs

\* A run whose delivery becomes void is a stray run, one for each copy that was open in
\* hand: a copy has one holder.
LEMMA HandStrays ==
    ASSUME Inv, OneHolder,
           \A c \in Consumers :
             /\ work'[c].pc = work[c].pc
             /\ work[c].pc # "idle" => work'[c].copy = work[c].copy /\ work'[c].held = FALSE
    PROVE  /\ HandCopies' = {} /\ HandRuns \subseteq HandRuns'
           /\ \E N : /\ IsFiniteSet(N) /\ HandRuns' \subseteq HandRuns \cup N
                     /\ \A m \in Messages : Count(N)[m] <= Count(HandCopies)[m]
<1> DEFINE run(c) == [by |-> <<"work", c>>, msg |-> work[c].copy.msg]
           C == Handling(TRUE)
           N == {run(c) : c \in C}
<1>1. \A c \in Consumers : work[c].pc \in {"handle", "failed"} =>
        work[c].held \in BOOLEAN /\ work'[c].copy = work[c].copy /\ work'[c].held = FALSE
  <2> SUFFICES ASSUME NEW c \in Consumers, work[c].pc \in {"handle", "failed"}
               PROVE  work[c].held \in BOOLEAN
    OBVIOUS
  <2>1. work[c] \in Delivery({"handle", "failed", "ack", "reject"}) /\ work[c].pc # "idle"
    BY DEF Inv, TypeOK
  <2> QED BY <2>1, DeliveryShape
<1>2. /\ Handling(TRUE)' = {} /\ Handling(FALSE)' = Handling(FALSE) \cup C
      /\ C \subseteq Consumers /\ Handling(FALSE) \subseteq Consumers
  BY <1>1 DEF Handling
<1>3. \A c \in Handling(FALSE) \cup C : work'[c].copy = work[c].copy
  BY <1>1 DEF Handling
<1>4. HandCopies' = {}
  BY <1>2 DEF HandCopies
<1>5. HandRuns' = {run(c) : c \in Handling(FALSE) \cup C} /\ HandRuns = {run(c) : c \in Handling(FALSE)}
  BY <1>2, <1>3 DEF HandRuns
<1>6. IsFiniteSet(C)
  <2>1. C \in SUBSET Consumers
    BY <1>2
  <2> HIDE DEF C
  <2> QED BY <2>1, ConstantsAssumption, FS_Subset
<1> DEFINE f == [c \in Consumers |-> run(c)]
           g == [c \in Consumers |-> work[c].copy]
<1>7. /\ \A c \in C : f[c] = run(c) /\ g[c] = work[c].copy /\ run(c).msg = work[c].copy.msg
      /\ HandCopies = {work[c].copy : c \in C}
  BY <1>2 DEF HandCopies
<1>8. \A b, c \in C : g[b] = g[c] => b = c
  <2> SUFFICES ASSUME NEW b \in C, NEW c \in C, work[b].copy = work[c].copy PROVE b = c
    BY <1>7
  <2>1. /\ b \in Consumers /\ work[b].pc # "idle" /\ work[b].held
        /\ c \in Consumers /\ work[c].pc # "idle" /\ work[c].held
    BY DEF Handling
  <2> QED BY <2>1 DEF OneHolder
<1> HIDE DEF f, g, C, run
<1>9. IsFiniteSet(N)
  <2>1. N = {f[c] : c \in C}
    BY <1>7
  <2> QED BY <1>6, <2>1, ImageFinite
<1>10. ASSUME NEW m \in Messages PROVE Count(N)[m] <= Count(HandCopies)[m]
  <2> DEFINE S == {c \in C : work[c].copy.msg = m}
  <2>1. {z \in N : z.msg = m} = {f[c] : c \in S}
    BY <1>7
  <2>2. {x \in HandCopies : x.msg = m} = {g[c] : c \in S}
    BY <1>7
  <2>3. S \in SUBSET C /\ \A b, c \in S : g[b] = g[c] => b = c
    BY <1>8
  <2> HIDE DEF S, N
  <2>4. IsFiniteSet(S)
    BY <1>6, <2>3, FS_Subset
  <2>5. Cardinality({f[c] : c \in S}) <= Cardinality({g[c] : c \in S})
    BY <2>3, <2>4, ImageSizes
  <2> QED BY <2>1, <2>2, <2>5 DEF Count
<1>11. HandRuns' \subseteq HandRuns \cup N /\ HandRuns \subseteq HandRuns'
  BY <1>5
<1> HIDE DEF N
<1> QED BY <1>4, <1>9, <1>10, <1>11

LEMMA StoreStrays ==
    ASSUME Inv, OneHolder,
           \A d \in Drainers :
             /\ drain'[d].pc = drain[d].pc
             /\ drain[d].pc # "idle" => drain'[d].copy = drain[d].copy /\ drain'[d].held = FALSE
    PROVE  /\ StoreCopies' = {} /\ StoreRuns \subseteq StoreRuns'
           /\ \E N : /\ IsFiniteSet(N) /\ StoreRuns' \subseteq StoreRuns \cup N
                     /\ \A m \in Messages : Count(N)[m] <= Count(StoreCopies)[m]
<1> DEFINE run(d) == [by |-> <<"drain", d>>, msg |-> drain[d].copy.msg]
           D == Storing(TRUE)
           N == {run(d) : d \in D}
<1>1. \A d \in Drainers : drain[d].pc = "store" =>
        drain[d].held \in BOOLEAN /\ drain'[d].copy = drain[d].copy /\ drain'[d].held = FALSE
  <2> SUFFICES ASSUME NEW d \in Drainers, drain[d].pc = "store"
               PROVE  drain[d].held \in BOOLEAN
    OBVIOUS
  <2>1. drain[d] \in Delivery({"store", "ack"}) /\ drain[d].pc # "idle"
    BY DEF Inv, TypeOK
  <2> QED BY <2>1, DeliveryShape
<1>2. /\ Storing(TRUE)' = {} /\ Storing(FALSE)' = Storing(FALSE) \cup D
      /\ D \subseteq Drainers /\ Storing(FALSE) \subseteq Drainers
  BY <1>1 DEF Storing
<1>3. \A d \in Storing(FALSE) \cup D : drain'[d].copy = drain[d].copy
  BY <1>1 DEF Storing
<1>4. StoreCopies' = {}
  BY <1>2 DEF StoreCopies
<1>5. StoreRuns' = {run(d) : d \in Storing(FALSE) \cup D} /\ StoreRuns = {run(d) : d \in Storing(FALSE)}
  BY <1>2, <1>3 DEF StoreRuns
<1>6. IsFiniteSet(D)
  <2>1. D \in SUBSET Drainers
    BY <1>2
  <2> HIDE DEF D
  <2> QED BY <2>1, ConstantsAssumption, FS_Subset
<1> DEFINE f == [d \in Drainers |-> run(d)]
           g == [d \in Drainers |-> drain[d].copy]
<1>7. /\ \A d \in D : f[d] = run(d) /\ g[d] = drain[d].copy /\ run(d).msg = drain[d].copy.msg
      /\ StoreCopies = {drain[d].copy : d \in D}
  BY <1>2 DEF StoreCopies
<1>8. \A b, d \in D : g[b] = g[d] => b = d
  <2> SUFFICES ASSUME NEW b \in D, NEW d \in D, drain[b].copy = drain[d].copy PROVE b = d
    BY <1>7
  <2>1. /\ b \in Drainers /\ drain[b].pc # "idle" /\ drain[b].held
        /\ d \in Drainers /\ drain[d].pc # "idle" /\ drain[d].held
    BY DEF Storing
  <2> QED BY <2>1 DEF OneHolder
<1> HIDE DEF f, g, D, run
<1>9. IsFiniteSet(N)
  <2>1. N = {f[d] : d \in D}
    BY <1>7
  <2> QED BY <1>6, <2>1, ImageFinite
<1>10. ASSUME NEW m \in Messages PROVE Count(N)[m] <= Count(StoreCopies)[m]
  <2> DEFINE S == {d \in D : drain[d].copy.msg = m}
  <2>1. {z \in N : z.msg = m} = {f[d] : d \in S}
    BY <1>7
  <2>2. {x \in StoreCopies : x.msg = m} = {g[d] : d \in S}
    BY <1>7
  <2>3. S \in SUBSET D /\ \A b, d \in S : g[b] = g[d] => b = d
    BY <1>8
  <2> HIDE DEF S, N
  <2>4. IsFiniteSet(S)
    BY <1>6, <2>3, FS_Subset
  <2>5. Cardinality({f[d] : d \in S}) <= Cardinality({g[d] : d \in S})
    BY <2>3, <2>4, ImageSizes
  <2> QED BY <2>1, <2>2, <2>5 DEF Count
<1>11. StoreRuns' \subseteq StoreRuns \cup N /\ StoreRuns \subseteq StoreRuns'
  BY <1>5
<1> HIDE DEF N
<1> QED BY <1>4, <1>9, <1>10, <1>11

LEMMA LedgerCrash ==
    ASSUME Inv, [Next]_vars, Crash
    PROVE  Ledger!Crash
<1>1. PICK H : H = HeldMain \cup HeldDead
  OBVIOUS
<1>2. /\ main' = main \cup HeldMain /\ dead' = dead \cup HeldDead /\ retry' = retry
      /\ again' = Plus(again, H) /\ UNCHANGED <<rows, published, effects, lost>>
      /\ work' = [c \in Consumers |-> Idle] /\ drain' = [d \in Drainers |-> Idle]
  BY <1>1 DEF Crash
<1>3. /\ Handling(TRUE)' = {} /\ Handling(FALSE)' = {}
      /\ Storing(TRUE)' = {} /\ Storing(FALSE)' = {}
  BY <1>2 DEF Handling, Storing, Idle
<1>4. HandCopies' = {} /\ StoreCopies' = {} /\ HandRuns' = {} /\ StoreRuns' = {}
  BY <1>3 DEF HandCopies, StoreCopies, HandRuns, StoreRuns
<1>5. Owed' = Owed \cup H /\ Stray' = {} /\ Stored' = Stored
  BY <1>1, <1>2, <1>4, Parts, CountedShape DEF Stored
<1>6. Count(Stray)' = [m \in Messages |-> 0]
  <2>1. Count(Stray)' = Count({})
    BY <1>5 DEF Count
  <2> QED BY <2>1, CountNone
<1>7. ASSUME NEW m \in Messages
      PROVE  Count(Owed)[m] <= Count(Owed)'[m] /\ Count(Owed)'[m] + again[m] <= Count(Owed)[m] + again'[m]
  <2>1. PICK P : P = Owed \cup H
    OBVIOUS
  <2>2. Count(Owed)' = Count(P)
    BY <1>5, <2>1 DEF Count
  <2>3. IsFiniteSet(Owed) /\ IsFiniteSet(H) /\ IsFiniteSet(P)
    BY <1>1, <2>1, CountedShape, HeldCopies, FS_Union DEF Inv
  <2>4. Count(Owed)[m] <= Count(P)[m] /\ Count(P)[m] <= Count(Owed)[m] + Count(H)[m]
    BY <2>1, <2>3, CountBounds
  <2>5. Count(Owed)[m] \in Nat /\ Count(P)[m] \in Nat /\ Count(H)[m] \in Nat
    BY <2>3, CountBounds
  <2>6. again[m] \in Nat /\ again'[m] = again[m] + Count(H)[m]
    BY <1>2 DEF Plus, Inv, TypeOK
  <2>7. PICK p \in Nat, o \in Nat, h \in Nat, a \in Nat :
          p = Count(P)[m] /\ o = Count(Owed)[m] /\ h = Count(H)[m] /\ a = again[m]
    BY <2>5, <2>6
  <2>8. o <= p /\ p <= o + h
    BY <2>4, <2>7
  <2>9. o <= p /\ p + a <= o + (a + h)
    BY <2>8
  <2> QED BY <2>2, <2>6, <2>7, <2>9
<1> QED BY <1>2, <1>5, <1>6, <1>7, SameCounts DEF Ledger!Crash, Ledger!None, Ledger!outcomes

LEMMA LedgerDisconnect ==
    ASSUME Inv, Apart, OneHolder, [Next]_vars, ConnectionLost
    PROVE  Ledger!Disconnect
<1>1. PICK H, D, E : H = HeldMain \cup HeldDead /\ D = dead \cup HeldDead /\ E = Owed \cup H
  OBVIOUS
<1>2. /\ main' = main \cup HeldMain /\ retry' = retry /\ again' = Plus(again, H)
      /\ UNCHANGED <<rows, published, effects>>
      /\ \/ dead' = D /\ lost' = lost
         \/ BrokerMayRestart /\ dead' = {} /\ lost' = Plus(lost, D)
  BY <1>1 DEF ConnectionLost
<1>3. ASSUME NEW c \in Consumers
      PROVE  /\ work'[c].pc = work[c].pc
             /\ work[c].pc # "idle" => work'[c].copy = work[c].copy /\ work'[c].held = FALSE
  <2>1. work[c] \in Delivery({"handle", "failed", "ack", "reject"})
    BY DEF Inv, TypeOK
  <2>2. work'[c] = IF work[c] = Idle THEN Idle ELSE [work[c] EXCEPT !.held = FALSE]
    BY DEF ConnectionLost
  <2>3. CASE work[c] = Idle
    BY <2>2, <2>3 DEF Idle
  <2>4. CASE work[c] # Idle
    <3>1. work[c] \in [pc: {"handle", "failed", "ack", "reject"}, copy: Copy, held: BOOLEAN]
      BY <2>1, <2>4 DEF Delivery
    <3> QED BY <2>2, <2>4, <3>1
  <2> QED BY <2>3, <2>4
<1>4. ASSUME NEW d \in Drainers
      PROVE  /\ drain'[d].pc = drain[d].pc
             /\ drain[d].pc # "idle" => drain'[d].copy = drain[d].copy /\ drain'[d].held = FALSE
  <2>1. drain[d] \in Delivery({"store", "ack"})
    BY DEF Inv, TypeOK
  <2>2. drain'[d] = IF drain[d] = Idle THEN Idle ELSE [drain[d] EXCEPT !.held = FALSE]
    BY DEF ConnectionLost
  <2>3. CASE drain[d] = Idle
    BY <2>2, <2>3 DEF Idle
  <2>4. CASE drain[d] # Idle
    <3>1. drain[d] \in [pc: {"store", "ack"}, copy: Copy, held: BOOLEAN]
      BY <2>1, <2>4 DEF Delivery
    <3> QED BY <2>2, <2>4, <3>1
  <2> QED BY <2>3, <2>4
<1>5. /\ HandCopies' = {} /\ HandRuns \subseteq HandRuns'
      /\ \E N : /\ IsFiniteSet(N) /\ HandRuns' \subseteq HandRuns \cup N
                /\ \A m \in Messages : Count(N)[m] <= Count(HandCopies)[m]
  BY <1>3, HandStrays
<1>6. /\ StoreCopies' = {} /\ StoreRuns \subseteq StoreRuns'
      /\ \E N : /\ IsFiniteSet(N) /\ StoreRuns' \subseteq StoreRuns \cup N
                /\ \A m \in Messages : Count(N)[m] <= Count(StoreCopies)[m]
  BY <1>4, StoreStrays
<1>7. Stored' = Stored /\ Stray \subseteq Stray'
  BY <1>2, <1>5, <1>6, Parts DEF Stored
<1>8. PICK O : O = HandCopies \cup StoreCopies
  OBVIOUS
<1>9. /\ HandCopies \cap StoreCopies = {} /\ O \subseteq H /\ O \subseteq Owed
      /\ E \subseteq Owed \cup (H \ O) /\ Owed \subseteq E
  BY <1>1, <1>8, Parts, CountedShape DEF Apart
<1>10. IsFiniteSet(Owed) /\ IsFiniteSet(Stray) /\ IsFiniteSet(H) /\ IsFiniteSet(D)
  BY <1>1, CountedShape, HeldCopies, FS_Union DEF Inv, Finite
<1>11. IsFiniteSet(E) /\ IsFiniteSet(O) /\ IsFiniteSet(H \ O)
  <2>1. O \in SUBSET H /\ H \ O \in SUBSET H
    BY <1>9
  <2> QED BY <1>1, <1>10, <2>1, FS_Union, FS_Subset
<1>12. IsFiniteSet(HandCopies) /\ IsFiniteSet(StoreCopies)
  <2>1. HandCopies \in SUBSET O /\ StoreCopies \in SUBSET O
    BY <1>8
  <2> QED BY <1>11, <2>1, FS_Subset
\* No stray run more than there were open copies in hand.
<1>13. ASSUME NEW m \in Messages
       PROVE  /\ Count(Stray)'[m] \in Nat /\ Count(Stray)[m] <= Count(Stray)'[m]
              /\ Count(Stray)'[m] <= Count(Stray)[m] + Count(O)[m]
  <2>1. PICK N1 : /\ IsFiniteSet(N1) /\ HandRuns' \subseteq HandRuns \cup N1
                  /\ Count(N1)[m] <= Count(HandCopies)[m]
    BY <1>5
  <2>2. PICK N2 : /\ IsFiniteSet(N2) /\ StoreRuns' \subseteq StoreRuns \cup N2
                  /\ Count(N2)[m] <= Count(StoreCopies)[m]
    BY <1>6
  <2>3. PICK S, N : S = Stray' /\ N = N1 \cup N2
    OBVIOUS
  <2>4. S \subseteq Stray \cup N /\ IsFiniteSet(N) /\ Stray \subseteq S
    BY <1>7, <2>1, <2>2, <2>3, Parts, FS_Union
  <2>5. Count(Stray)' = Count(S)
    BY <2>3 DEF Count
  <2>6. IsFiniteSet(S)
    <3>1. IsFiniteSet(Stray \cup N) /\ S \in SUBSET (Stray \cup N)
      BY <1>10, <2>4, FS_Union
    <3> QED BY <3>1, FS_Subset
  <2>7. /\ Count(S)[m] \in Nat /\ Count(S)[m] <= Count(Stray)[m] + Count(N)[m]
        /\ Count(Stray)[m] \in Nat /\ Count(Stray)[m] <= Count(S)[m]
    BY <1>10, <2>4, <2>6, CountBounds
  <2>8. Count(N)[m] \in Nat /\ Count(N)[m] <= Count(N1)[m] + Count(N2)[m]
    BY <2>1, <2>2, <2>3, CountBounds
  <2>9. Count(HandCopies)[m] + Count(StoreCopies)[m] <= Count(O)[m]
    <3>1. HandCopies \subseteq O /\ StoreCopies \subseteq O
      BY <1>8
    <3> QED BY <1>9, <1>11, <3>1, CountBounds
  <2>10. /\ Count(N1)[m] \in Nat /\ Count(N2)[m] \in Nat /\ Count(O)[m] \in Nat
         /\ Count(HandCopies)[m] \in Nat /\ Count(StoreCopies)[m] \in Nat
    BY <1>11, <1>12, <2>1, <2>2, CountBounds
  <2>11. Count(S)[m] <= Count(Stray)[m] + Count(O)[m]
    BY <2>1, <2>2, <2>7, <2>8, <2>9, <2>10
  <2> QED BY <2>5, <2>7, <2>11
\* What the broker takes back and what it forgets are all it answered for or had delivered.
<1>14. ASSUME NEW m \in Messages
       PROVE  /\ Count(Owed)'[m] \in Nat /\ lost'[m] \in Nat /\ lost[m] \in Nat
              /\ lost[m] <= lost'[m]
              /\ Count(Owed)'[m] + lost'[m] = Count(E)[m] + lost[m]
  <2>1. PICK P : P = Owed'
    OBVIOUS
  <2>2. Count(Owed)' = Count(P)
    BY <2>1 DEF Count
  <2>3. P = main \cup HeldMain \cup retry \cup dead'
    BY <1>2, <1>5, <1>6, <2>1, Parts
  <2>4. E = main \cup retry \cup dead \cup HeldMain \cup HeldDead
    BY <1>1, Parts, CountedShape
  <2>5. lost[m] \in Nat /\ Count(E)[m] \in Nat /\ Count(D)[m] \in Nat
    BY <1>10, <1>11, CountBounds DEF Inv, TypeOK
  <2>6. CASE dead' = D /\ lost' = lost
    <3>1. P = E
      BY <1>1, <2>3, <2>4, <2>6
    <3> QED BY <2>2, <2>5, <2>6, <3>1
  <2>7. CASE dead' = {} /\ lost' = Plus(lost, D)
    <3>1. P \subseteq E /\ D \subseteq E /\ P \cap D = {} /\ E \subseteq P \cup D
      BY <1>1, <2>3, <2>4, <2>7 DEF Apart
    <3>2. IsFiniteSet(P)
      <4>1. P \in SUBSET E
        BY <3>1
      <4> QED BY <1>11, <4>1, FS_Subset
    <3>3. Count(P)[m] + Count(D)[m] <= Count(E)[m] /\ Count(P)[m] \in Nat
      BY <1>11, <3>1, CountBounds
    <3>4. Count(E)[m] <= Count(P)[m] + Count(D)[m]
      BY <1>10, <3>1, <3>2, CountBounds
    <3>5. lost'[m] = lost[m] + Count(D)[m]
      BY <2>7 DEF Plus
    <3>6. PICK p \in Nat, d \in Nat, e \in Nat, l \in Nat :
            p = Count(P)[m] /\ d = Count(D)[m] /\ e = Count(E)[m] /\ l = lost[m]
      BY <2>5, <3>3
    <3>7. p + d = e /\ lost'[m] = l + d
      BY <3>3, <3>4, <3>5, <3>6
    <3>8. l + d \in Nat /\ l <= l + d /\ p + (l + d) = e + l
      BY <3>7
    <3> QED BY <2>2, <3>6, <3>7, <3>8
  <2> QED BY <1>2, <2>6, <2>7
<1>15. ASSUME NEW m \in Messages
       PROVE  /\ Count(Stray)[m] <= Count(Stray)'[m] /\ lost[m] <= lost'[m]
              /\ Count(Owed)[m] + lost[m] <= Count(Owed)'[m] + lost'[m]
              /\ Count(Owed)'[m] + lost'[m] + Count(Stray)'[m] + again[m]
                   <= Count(Owed)[m] + lost[m] + Count(Stray)[m] + again'[m]
  <2>1. PICK o1, l1, s1 : o1 = Count(Owed)'[m] /\ l1 = lost'[m] /\ s1 = Count(Stray)'[m]
    OBVIOUS
  <2>2. PICK o, l, s, a, h, k, e, r :
          /\ o = Count(Owed)[m] /\ l = lost[m] /\ s = Count(Stray)[m] /\ a = again[m]
          /\ h = Count(H)[m] /\ k = Count(O)[m] /\ e = Count(E)[m] /\ r = Count(H \ O)[m]
    OBVIOUS
  <2>3. /\ o \in Nat /\ s \in Nat /\ a \in Nat /\ h \in Nat /\ k \in Nat /\ e \in Nat /\ r \in Nat
    BY <1>10, <1>11, <2>2, CountBounds DEF Inv, TypeOK
  <2>4. /\ s1 \in Nat /\ s <= s1 /\ s1 <= s + k
        /\ o1 \in Nat /\ l1 \in Nat /\ l \in Nat /\ l <= l1 /\ o1 + l1 = e + l
    BY <1>13, <1>14, <2>1, <2>2
  <2>5. o <= e /\ e <= o + r
    BY <1>9, <1>10, <1>11, <2>2, CountBounds
  <2>6. k + r <= h
    <3>1. H \ O \subseteq H /\ O \cap (H \ O) = {}
      OBVIOUS
    <3> QED BY <1>9, <1>10, <2>2, <3>1, CountBounds
  <2>7. again'[m] = a + h
    BY <1>2, <2>2 DEF Plus
  <2>8. s <= s1 /\ l <= l1 /\ o + l <= o1 + l1 /\ o1 + l1 + s1 + a <= o + l + s + (a + h)
    BY <2>3, <2>4, <2>5, <2>6
  <2> QED BY <2>1, <2>2, <2>7, <2>8
<1>16. Count(Stored)' = Count(Stored)
  BY <1>7, SameCounts
<1> QED BY <1>2, <1>15, <1>16 DEF Ledger!Disconnect

-----------------------------------------------------------------------------

LEMMA LedgerStep ==
    ASSUME Inv, Apart, OneHolder, [Next]_vars
    PROVE  [Ledger!Next]_(Ledger!ledger)
<1> DEFINE Good == [Ledger!Next]_(Ledger!ledger)
<1>1. ASSUME Owed' = Owed, Stray' = Stray, \A d \in Drainers : ~DrainStore(d),
             UNCHANGED <<published, effects, again, lost>>
      PROVE  Good
  <2>1. UNCHANGED Ledger!ledger
    BY <1>1, LedgerSame
  <2> QED BY <2>1
<1>2. CASE \E d \in Drainers : DrainStore(d)
  <2>1. Ledger!Next
    BY <1>2, LedgerStore
  <2> QED BY <2>1
<1> DEFINE Quiet == \A d \in Drainers : ~DrainStore(d)
<1>3. ASSUME Quiet, UNCHANGED <<queues, work, drain, published, effects, again, lost>> PROVE Good
  <2>1. Owed' = Owed /\ Stray' = Stray
    BY <1>3, HandSame, StoreSame, Parts DEF queues
  <2> QED BY <1>1, <1>3, <2>1
<1>4. ASSUME Quiet, RetryExpires PROVE Good
  <2>1. PICK x \in retry : retry' = retry \ {x} /\ main' = main \cup {x}
    BY <1>4 DEF RetryExpires
  <2>2. UNCHANGED <<dead, work, drain, published, effects, again, lost>>
    BY <1>4 DEF RetryExpires, history
  <2>3. Owed' = Owed /\ Stray' = Stray
    BY <2>1, <2>2, HandSame, StoreSame, Parts
  <2> HIDE DEF Good, Quiet
  <2> QED BY <1>1, <1>4, <2>2, <2>3 DEF Quiet
<1>5. ASSUME Quiet, NEW c \in Consumers, Deliver(c) PROVE Good
  <2>1. PICK x \in main :
          /\ main' = main \ {x}
          /\ work' = [work EXCEPT ![c] = [pc |-> "handle", copy |-> x, held |-> TRUE]]
    BY <1>5 DEF Deliver
  <2>2. UNCHANGED <<retry, dead, drain, published, effects, again, lost>> /\ work[c] = Idle
    BY <1>5 DEF Deliver
  <2>3. HandCopies' = HandCopies \cup {x} /\ HandRuns' = HandRuns
    BY <2>1, <2>2, HandTakes
  <2>4. Owed' = Owed /\ Stray' = Stray
    BY <2>1, <2>2, <2>3, StoreSame, Parts
  <2> HIDE DEF Good, Quiet
  <2> QED BY <1>1, <1>5, <2>2, <2>4 DEF Quiet
<1>6. ASSUME Quiet, NEW d \in Drainers, DrainDeliver(d) PROVE Good
  <2>1. PICK x \in dead :
          /\ dead' = dead \ {x}
          /\ drain' = [drain EXCEPT ![d] = [pc |-> "store", copy |-> x, held |-> TRUE]]
    BY <1>6 DEF DrainDeliver
  <2>2. UNCHANGED <<main, retry, work, published, effects, again, lost>> /\ drain[d] = Idle
    BY <1>6 DEF DrainDeliver, history
  <2>3. StoreCopies' = StoreCopies \cup {x} /\ StoreRuns' = StoreRuns
    BY <2>1, <2>2, StoreTakes
  <2>4. Owed' = Owed /\ Stray' = Stray
    BY <2>1, <2>2, <2>3, HandSame, Parts
  <2> HIDE DEF Good, Quiet
  <2> QED BY <1>1, <1>6, <2>2, <2>4 DEF Quiet
<1>7. ASSUME Quiet, NEW c \in Consumers, HandlerFails(c) \/ Settle(c) PROVE Good
  <2>1. UNCHANGED <<queues, drain, published, effects, again, lost>>
    BY <1>7 DEF HandlerFails, Settle, history
  <2>2. \A b \in Consumers :
          /\ work'[b].pc \in {"handle", "failed"} <=> work[b].pc \in {"handle", "failed"}
          /\ work[b].pc \in {"handle", "failed"} =>
               work'[b].held = work[b].held /\ work'[b].copy = work[b].copy
    <3>1. CASE Settle(c)
      BY <3>1 DEF Settle, Idle, Inv, TypeOK
    <3>2. CASE HandlerFails(c)
      <4>1. work[c] \in Delivery({"handle", "failed", "ack", "reject"}) /\ work[c].pc = "handle"
        BY <3>2 DEF HandlerFails, Inv, TypeOK
      <4>2. work[c] \in [pc: {"handle", "failed", "ack", "reject"}, copy: Copy, held: BOOLEAN]
        BY <4>1 DEF Delivery, Idle
      <4>3. /\ work'[c] = [work[c] EXCEPT !.pc = "failed"]
            /\ \A b \in Consumers : b # c => work'[b] = work[b]
        BY <3>2 DEF HandlerFails, Inv, TypeOK
      <4>4. /\ work'[c].pc = "failed" /\ work'[c].held = work[c].held
            /\ work'[c].copy = work[c].copy
        BY <4>2, <4>3
      <4> QED BY <4>1, <4>3, <4>4
    <3> QED BY <1>7, <3>1, <3>2
  <2>3. HandCopies' = HandCopies /\ HandRuns' = HandRuns
    BY <2>2, HandGoesOn
  <2>4. Owed' = Owed /\ Stray' = Stray
    BY <2>1, <2>3, StoreSame, Parts DEF queues
  <2> HIDE DEF Good, Quiet
  <2> QED BY <1>1, <1>7, <2>1, <2>4 DEF Quiet
<1>8. ASSUME Quiet, NEW d \in Drainers, DrainAck(d) PROVE Good
  <2>1. UNCHANGED <<queues, work, published, effects, again, lost>>
    BY <1>8 DEF DrainAck, history
  <2>2. \A b \in Drainers :
          /\ drain'[b].pc = "store" <=> drain[b].pc = "store"
          /\ drain[b].pc = "store" =>
               drain'[b].held = drain[b].held /\ drain'[b].copy = drain[b].copy
    BY <1>8 DEF DrainAck, Idle, Inv, TypeOK
  <2>3. StoreCopies' = StoreCopies /\ StoreRuns' = StoreRuns
    BY <2>2, StoreGoesOn
  <2>4. Owed' = Owed /\ Stray' = Stray
    BY <2>1, <2>3, HandSame, Parts DEF queues
  <2> HIDE DEF Good, Quiet
  <2> QED BY <1>1, <1>8, <2>1, <2>4 DEF Quiet
<1>9. ASSUME NEW m \in Messages, Publish(m) PROVE Good
  <2>1. Ledger!Next
    BY <1>9, LedgerPublish DEF Ledger!Next
  <2> QED BY <2>1
<1>10. ASSUME NEW c \in Consumers, HandlerSucceeds(c) PROVE Good
  <2>1. PICK m \in Messages : Ledger!Handle(m)
    BY <1>10, LedgerHandle
  <2>2. Ledger!Next
    BY <2>1 DEF Ledger!Next
  <2> QED BY <2>2
<1>11. ASSUME NEW c \in Consumers, ForwardRefused(c) PROVE Good
  <2>1. Ledger!Next
    BY <1>11, LedgerRefused
  <2> QED BY <2>1
<1>12. ASSUME NEW c \in Consumers, Forward(c) PROVE Good
  BY <1>12, LedgerForward
<1>13. ASSUME NEW d \in Drainers, DrainStoreFails(d) PROVE Good
  <2>1. Ledger!Next
    BY <1>13, LedgerStoreFails
  <2> QED BY <2>1
<1>14. ASSUME NEW a \in Admins, NEW i \in Rows, AdminRepublish(a, i) PROVE Good
  BY <1>14, LedgerRepublish
<1>15. ASSUME Crash \/ ConnectionLost PROVE Good
  <2>1. Ledger!Next
    BY <1>15, LedgerCrash, LedgerDisconnect DEF Ledger!Next
  <2> QED BY <2>1
<1>16. ASSUME Quiet, UNCHANGED <<queues, work, drain, history>> PROVE Good
  <2> HIDE DEF Quiet, Good
  <2> QED BY <1>3, <1>16 DEF history
<1>17. ASSUME Quiet PROVE Good
  <2>1. \A d \in Drainers : ~DrainStore(d)
    BY <1>17
  <2> HIDE DEF Quiet, Good
  <2> QED
    BY <1>4, <1>5, <1>6, <1>7, <1>8, <1>9, <1>10, <1>11, <1>12, <1>13, <1>14, <1>15, <1>16, <1>17, <2>1
    DEF Next, vars, Handle, AdminSelect, AdminCommit, AdminFails, AdminDiscard
<1> QED BY <1>2, <1>17

LEMMA HoldersCorrect == Spec => [](Apart /\ OneHolder)
<1>1. Init => Apart /\ OneHolder
  BY DEF Init, Apart, OneHolder, HeldMain, HeldDead, Idle
<1>2. Inv /\ Apart /\ OneHolder /\ [Next]_vars => (Apart /\ OneHolder)'
  BY ApartStep, OneHolderStep
<1> QED BY <1>1, <1>2, InvCorrect, PTL DEF Spec

\* Every step of the queues, consumers and administrators is one of the ledger: a
\* delivered copy leaves it by its effect, as a row, or counted as given up.
THEOREM LedgerRefined == Spec => LedgerSpec
<1>1. Init => Ledger!Init
  <2> SUFFICES ASSUME Init PROVE Ledger!Init
    OBVIOUS
  <2>1. Handling(TRUE) = {} /\ Handling(FALSE) = {} /\ Storing(TRUE) = {} /\ Storing(FALSE) = {}
    BY DEF Init, Handling, Storing, Idle
  <2>2. Owed = {} /\ Stray = {}
    BY <2>1 DEF Init, Owed, Stray
  <2>3. Stored = {}
    BY DEF Init, Stored
  <2> QED BY <2>2, <2>3, CountNone DEF Init, Ledger!Init, Ledger!None
<1>2. Inv /\ Apart /\ OneHolder /\ [Next]_vars => [Ledger!Next]_(Ledger!ledger)
  BY LedgerStep
<1> QED BY <1>1, <1>2, InvCorrect, HoldersCorrect, PTL DEF Spec, LedgerSpec, Ledger!Spec

\* In the ledger: what was published is answered for, or something came of it.
Answered ==
    \A m \in published : Count(Owed)[m] + effects[m] + Count(Stored)[m] + lost[m] > 0

Counts ==
    /\ published \subseteq Messages
    /\ Count(Owed) \in [Messages -> Nat] /\ Count(Stray) \in [Messages -> Nat]
    /\ Count(Stored) \in [Messages -> Nat]
    /\ effects \in [Messages -> Nat] /\ lost \in [Messages -> Nat]

LEMMA CountsCorrect == Spec => []Counts
<1>1. Inv => Counts
  BY CountedShape, CountType DEF Inv, TypeOK, Counts
<1> QED BY <1>1, InvCorrect, PTL

\* The ledger alone keeps the promise.
LEMMA AnsweredStep ==
    ASSUME Counts, Counts', Answered, [Ledger!Next]_(Ledger!ledger)
    PROVE  Answered'
<1>1. PICK o \in [Messages -> Nat], s \in [Messages -> Nat], r \in [Messages -> Nat] :
        o = Count(Owed) /\ s = Count(Stray) /\ r = Count(Stored)
  BY DEF Counts
<1>2. PICK o1 \in [Messages -> Nat], s1 \in [Messages -> Nat], r1 \in [Messages -> Nat] :
        o1 = Count(Owed)' /\ s1 = Count(Stray)' /\ r1 = Count(Stored)'
  BY DEF Counts
<1>3. PICK e \in [Messages -> Nat], l \in [Messages -> Nat], e1 \in [Messages -> Nat], l1 \in [Messages -> Nat] :
        e = effects /\ l = lost /\ e1 = effects' /\ l1 = lost'
  BY DEF Counts
<1>4. \A n \in published : n \in Messages /\ o[n] + e[n] + r[n] + l[n] > 0
  BY <1>1, <1>3 DEF Answered, Counts
<1> SUFFICES ASSUME NEW n \in published' PROVE o1[n] + e1[n] + r1[n] + l1[n] > 0
  BY <1>2, <1>3 DEF Answered
<1>5. n \in Messages
  BY DEF Counts
<1>6. /\ o[n] \in Nat /\ e[n] \in Nat /\ r[n] \in Nat /\ l[n] \in Nat
      /\ o1[n] \in Nat /\ e1[n] \in Nat /\ r1[n] \in Nat /\ l1[n] \in Nat
  BY <1>5
<1>7. CASE UNCHANGED Ledger!ledger
  BY <1>1, <1>2, <1>3, <1>4, <1>7 DEF Ledger!ledger, Ledger!outcomes
<1>8. ASSUME NEW m \in Messages, Ledger!Publish(m) PROVE o1[n] + e1[n] + r1[n] + l1[n] > 0
  <2>1. o1 = [o EXCEPT ![m] = o[m] + 1] /\ published' = published \cup {m} /\ e1 = e /\ r1 = r /\ l1 = l
    BY <1>1, <1>2, <1>3, <1>8 DEF Ledger!Publish, Ledger!More, Ledger!outcomes
  <2> QED BY <1>4, <1>5, <1>6, <2>1
<1>9. ASSUME NEW m \in Messages, Ledger!Handle(m) \/ Ledger!Store(m)
      PROVE  o1[n] + e1[n] + r1[n] + l1[n] > 0
  <2>1. o1 = o \/ o1 = [o EXCEPT ![m] = o[m] - 1]
    BY <1>1, <1>2, <1>9 DEF Ledger!Handle, Ledger!Store, Ledger!Spend, Ledger!Less
  <2>2. /\ \/ e1 = [e EXCEPT ![m] = e[m] + 1] /\ r1 = r
           \/ e1 = e /\ r1 = [r EXCEPT ![m] = r[m] + 1]
        /\ published' = published /\ l1 = l
    BY <1>1, <1>2, <1>3, <1>9 DEF Ledger!Handle, Ledger!Store, Ledger!More
  <2>3. CASE n = m
    BY <1>5, <1>6, <2>2, <2>3
  <2>4. CASE n # m
    <3>1. o1[n] = o[n] /\ e1[n] = e[n] /\ r1[n] = r[n] /\ l1[n] = l[n] /\ n \in published
      BY <1>5, <2>1, <2>2, <2>4
    <3> QED BY <1>4, <3>1
  <2> QED BY <2>3, <2>4
<1>10. ASSUME NEW m \in Messages, Ledger!Lose(m) PROVE o1[n] + e1[n] + r1[n] + l1[n] > 0
  <2>1. /\ o1 = [o EXCEPT ![m] = o[m] - 1] /\ l1 = [l EXCEPT ![m] = l[m] + 1]
        /\ published' = published /\ e1 = e /\ r1 = r
    BY <1>1, <1>2, <1>3, <1>10 DEF Ledger!Lose, Ledger!Less, Ledger!More
  <2>2. CASE n = m
    BY <1>5, <1>6, <2>1, <2>2
  <2>3. CASE n # m
    <3>1. o1[n] = o[n] /\ e1[n] = e[n] /\ r1[n] = r[n] /\ l1[n] = l[n] /\ n \in published
      BY <1>5, <2>1, <2>3
    <3> QED BY <1>4, <3>1
  <2> QED BY <2>2, <2>3
<1>11. ASSUME NEW m \in Messages, Ledger!Revive(m) \/ Ledger!Abandon(m) \/ Ledger!Republish(m)
       PROVE  o1[n] + e1[n] + r1[n] + l1[n] > 0
  <2>1. /\ o1 = o \/ o1 = [o EXCEPT ![m] = o[m] + 1]
        /\ published' = published /\ e1 = e /\ r1 = r /\ l1 = l
    BY <1>1, <1>2, <1>3, <1>11
    DEF Ledger!Revive, Ledger!Abandon, Ledger!Republish, Ledger!More, Ledger!outcomes
  <2>2. o1[n] >= o[n]
    BY <1>5, <1>6, <2>1
  <2> QED BY <1>4, <1>6, <2>1, <2>2
<1>12. CASE Ledger!Crash
  <2>1. o[n] <= o1[n]
    BY <1>1, <1>2, <1>5, <1>12 DEF Ledger!Crash
  <2>2. published' = published /\ e1 = e /\ r1 = r /\ l1 = l
    BY <1>1, <1>2, <1>3, <1>12 DEF Ledger!Crash, Ledger!outcomes
  <2> QED BY <1>4, <1>6, <2>1, <2>2
<1>13. CASE Ledger!Disconnect
  <2>1. o[n] + l[n] <= o1[n] + l1[n]
    BY <1>1, <1>2, <1>3, <1>5, <1>13 DEF Ledger!Disconnect
  <2>2. published' = published /\ e1 = e /\ r1 = r
    BY <1>1, <1>2, <1>3, <1>13 DEF Ledger!Disconnect
  <2> QED BY <1>4, <1>6, <2>1, <2>2
<1> QED BY <1>7, <1>8, <1>9, <1>10, <1>11, <1>12, <1>13 DEF Ledger!Next

LEMMA AnsweredCorrect == Spec => []Answered
<1>1. Init => Answered
  BY DEF Init, Answered
<1>2. Counts /\ Counts' /\ Answered /\ [Ledger!Next]_(Ledger!ledger) => Answered'
  BY AnsweredStep
<1> QED BY <1>1, <1>2, CountsCorrect, LedgerRefined, PTL DEF Spec, LedgerSpec, Ledger!Spec

\* No message is lost: a published message is in a queue, in a consumer's hands, has
\* had its effect or is a row, through any crash, connection loss and broker restart,
\* unless the layer gave a copy of it up.
THEOREM NoMessageLostCorrect == Spec => []NoMessageLost
<1>1. Inv /\ Answered => NoMessageLost
  <2> SUFFICES ASSUME Inv, Answered, NEW m \in published
               PROVE  OpenCopies(m) > 0 \/ effects[m] > 0 \/ RowsOf(m) > 0 \/ lost[m] > 0
    BY DEF NoMessageLost
  <2>1. m \in Messages /\ effects[m] \in Nat /\ lost[m] \in Nat
    BY DEF Inv, TypeOK
  <2>2. /\ IsFiniteSet(Waiting(m)) /\ IsFiniteSet(InHand(m)) /\ IsFiniteSet(ToStore(m))
        /\ IsFiniteSet(RowsFor(m))
    BY PlacesFinite
  <2>3. PICK w \in Nat, h \in Nat, t \in Nat, r \in Nat :
          /\ w = Cardinality(Waiting(m)) /\ h = Cardinality(InHand(m))
          /\ t = Cardinality(ToStore(m)) /\ r = Cardinality(RowsFor(m))
    BY <2>2, FS_CardinalityType
  <2>4. OpenCopies(m) = w + h + t /\ RowsOf(m) = r
    BY <2>3 DEF OpenCopies, RowsOf, Waiting, InHand, ToStore, RowsFor
  <2>5. ASSUME w = 0, h = 0, t = 0 PROVE Count(Owed)[m] = 0
    <3>1. Waiting(m) = {} /\ InHand(m) = {} /\ ToStore(m) = {}
      BY <2>2, <2>3, <2>5, FS_EmptySet
    <3>2. \A c \in Handling(TRUE) : work[c].copy.msg # m
      BY <3>1 DEF Handling, InHand
    <3>3. \A d \in Storing(TRUE) : drain[d].copy.msg # m
      BY <3>1 DEF Storing, ToStore
    <3>4. {x \in Owed : x.msg = m} = {}
      BY <3>1, <3>2, <3>3, Parts DEF HandCopies, StoreCopies, Waiting
    <3> QED BY <2>1, <3>4, FS_EmptySet DEF Count
  <2>6. ASSUME r = 0 PROVE Count(Stored)[m] = 0
    <3>1. RowsFor(m) = {}
      BY <2>2, <2>3, <2>6, FS_EmptySet
    <3>2. ASSUME NEW z \in Stored PROVE z.msg # m
      <4>1. PICK i \in Rows : rows[i] # Free /\ z = [row |-> i, msg |-> rows[i].msg]
        BY <3>2 DEF Stored
      <4>2. z.msg = rows[i].msg
        BY <4>1
      <4> QED BY <3>1, <4>1, <4>2 DEF RowsFor
    <3>3. {z \in Stored : z.msg = m} = {}
      BY <3>2
    <3> QED BY <2>1, <3>3, FS_EmptySet DEF Count
  <2>7. Count(Owed)[m] + effects[m] + Count(Stored)[m] + lost[m] > 0
    BY DEF Answered
  <2> QED BY <2>1, <2>3, <2>4, <2>5, <2>6, <2>7
<1> QED BY <1>1, InvCorrect, AnsweredCorrect, PTL
=============================================================================
