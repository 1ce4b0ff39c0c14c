---------------------- MODULE CareerSubscriptionProofs ----------------------
(* Theorems about CareerSubscription, for every value of its constants.    *)
EXTENDS CareerSubscription, TLAPS

Paid(s) == stripe[s].plan # 0 /\ stripe[s].bought # 0

\* An event is of a subscription that has been paid for, and a deletion of one that
\* has ended.
Genuine(e) ==
    /\ e \in Event
    /\ Paid(e.sub) /\ stripe[e.sub].status \in Status
    /\ e.kind = "deleted" => stripe[e.sub].status = "canceled"

\* The row is the one of the subscription, or has been turned into a free one since.
RowIs(r, s) == r \in Rows /\ rows[r] # None /\ rows[r].sub \in {s, None}

HandlerSound(h) ==
    /\ handler[h].pc # "idle" => Genuine(handler[h].event)
    /\ handler[h].pc = "create" /\ handler[h].current # None => rows[handler[h].current] # None
    /\ handler[h].pc \in {"fetch", "update", "delete"} => RowIs(handler[h].id, handler[h].event.sub)
    /\ handler[h].pc = "update" => handler[h].fetched.plan # 0 /\ handler[h].fetched.status \in Status
    /\ handler[h].pc = "delete" => handler[h].event.kind = "deleted"

RequestSound(q) ==
    /\ request[q].pc # "idle" => RowIs(request[q].id, request[q].sub)
    /\ request[q].pc = "cancel" => request[q].sub # None
    /\ request[q].pc = "downgrade" /\ request[q].sub # None =>
         stripe[request[q].sub].status = "canceled"
    /\ request[q].pc \in {"upgrade", "write"} => request[q].plan # 0

Sound ==
    /\ \A s \in Subs : stripe[s].status # "none" => Paid(s)
    /\ \A e \in pending : Genuine(e)
    /\ link # None => rows[link] # None
    /\ \A h \in Handlers : HandlerSound(h)
    /\ \A q \in Requests : RequestSound(q)

\* A transaction reads, calls Stripe and writes in steps of their own: what it has read
\* stays true only as far as rows are never deleted or given to another subscription
\* and a subscription that has ended does not come back.
Inv == TypeOK /\ Sound

-----------------------------------------------------------------------------
(* What a handler and a request hold at each point                         *)

LEMMA HandlerShape ==
    ASSUME TypeOK, NEW h \in Handlers
    PROVE  /\ handler[h].pc \in {"idle", "mark", "create", "fetch", "update", "delete"}
           /\ handler[h].pc = "idle" => handler[h] = Idle
           /\ handler[h].pc # "idle" => handler[h].event \in Event
           /\ handler[h].pc = "create" => handler[h].current \in Rows \cup {None}
           /\ handler[h].pc \in {"fetch", "update", "delete"} => handler[h].id \in Rows
           /\ handler[h].pc \in {"fetch", "update"} => handler[h].plan \in Plans
           /\ handler[h].pc = "update" => handler[h].fetched \in AtStripe
<1>1. handler[h] \in Handling
  BY DEF TypeOK
<1>2. CASE handler[h] = Idle
  BY <1>2 DEF Idle
<1>3. CASE handler[h] \in [pc: {"mark"}, event: Event]
  BY <1>3
<1>4. CASE handler[h] \in [pc: {"create"}, event: Event, current: Rows \cup {None}]
  BY <1>4
<1>5. CASE handler[h] \in [pc: {"fetch"}, event: Event, id: Rows, plan: Plans]
  BY <1>5
<1>6. CASE handler[h] \in [pc: {"update"}, event: Event, id: Rows, plan: Plans, fetched: AtStripe]
  BY <1>6
<1>7. CASE handler[h] \in [pc: {"delete"}, event: Event, id: Rows]
  BY <1>7
<1> QED BY <1>1, <1>2, <1>3, <1>4, <1>5, <1>6, <1>7 DEF Handling

LEMMA RequestShape ==
    ASSUME TypeOK, NEW q \in Requests
    PROVE  /\ request[q].pc \in {"idle", "cancel", "downgrade", "upgrade", "write"}
           /\ request[q].pc = "idle" => request[q] = Idle
           /\ request[q].pc # "idle" => request[q].id \in Rows
           /\ request[q].pc \in {"cancel", "downgrade"} => request[q].sub \in Subs \cup {None}
           /\ request[q].pc = "cancel" => request[q] \in [pc: {"cancel"}, id: Rows, sub: Subs \cup {None}]
           /\ request[q].pc \in {"upgrade", "write"} =>
                /\ request[q] \in [pc: {"upgrade", "write"}, id: Rows, sub: Subs, plan: Plans]
                /\ request[q].sub \in Subs /\ request[q].plan \in Plans
<1>1. request[q] \in Request
  BY DEF TypeOK
<1>2. CASE request[q] = Idle
  BY <1>2 DEF Idle
<1>3. CASE request[q] \in [pc: {"cancel"}, id: Rows, sub: Subs \cup {None}]
  BY <1>3
<1>4. CASE request[q] \in [pc: {"downgrade"}, id: Rows, sub: Subs \cup {None}]
  BY <1>4
<1>5. CASE request[q] \in [pc: {"upgrade", "write"}, id: Rows, sub: Subs, plan: Plans]
  BY <1>5
<1> QED BY <1>1, <1>2, <1>3, <1>4, <1>5 DEF Request

-----------------------------------------------------------------------------
(* What every step keeps                                                   *)

StripeGoesOn ==
    \A s \in Subs :
        /\ Paid(s) => Paid(s)'
        /\ stripe[s].status \in Status => stripe'[s].status \in Status
        /\ stripe[s].status = "canceled" => stripe'[s].status = "canceled"

RowsStay ==
    \A r \in Rows : rows[r] # None => rows'[r] # None /\ rows'[r].sub \in {rows[r].sub, None}

LEMMA Kept ==
    ASSUME Inv, StripeGoesOn, RowsStay
    PROVE  /\ \A e : Genuine(e) => Genuine(e)'
           /\ \A r, s : RowIs(r, s) => RowIs(r, s)'
           /\ \A h \in Handlers : handler'[h] = handler[h] => HandlerSound(h)'
           /\ \A q \in Requests : request'[q] = request[q] => RequestSound(q)'
<1>1. \A e : Genuine(e) => Genuine(e)'
  <2> SUFFICES ASSUME NEW e, Genuine(e) PROVE Genuine(e)'
    OBVIOUS
  <2>1. e \in Event /\ e.sub \in Subs
    BY DEF Genuine, Event
  <2> QED BY <2>1 DEF Genuine, StripeGoesOn
<1>2. \A r, s : RowIs(r, s) => RowIs(r, s)'
  BY DEF RowIs, RowsStay
<1>3. ASSUME NEW h \in Handlers, handler'[h] = handler[h] PROVE HandlerSound(h)'
  <2>1. HandlerSound(h)
    BY DEF Inv, Sound
  <2>2. handler[h].pc = "create" /\ handler[h].current # None => rows'[handler[h].current] # None
    BY <2>1, HandlerShape DEF HandlerSound, RowsStay, Inv
  <2> QED BY <1>1, <1>2, <1>3, <2>1, <2>2 DEF HandlerSound
<1>4. ASSUME NEW q \in Requests, request'[q] = request[q] PROVE RequestSound(q)'
  <2>1. RequestSound(q)
    BY DEF Inv, Sound
  <2>2. request[q].pc = "downgrade" /\ request[q].sub # None
          => stripe'[request[q].sub].status = "canceled"
    BY <2>1, RequestShape DEF RequestSound, StripeGoesOn, Inv
  <2> QED BY <1>2, <1>4, <2>1, <2>2 DEF RequestSound
<1> QED BY <1>1, <1>2, <1>3, <1>4

\* A step of one handler that leaves Stripe, the events and the requests alone.
LEMMA HandlerStep ==
    ASSUME Inv, NEW h \in Handlers, NEW next \in Handling, Step(h, next),
           RowsStay, rows' \in [Rows -> Row \cup {None}], disturbed' \in BOOLEAN,
           link' \in Rows \cup {None}, link' # None => rows'[link'] # None,
           handler'[h] = next => HandlerSound(h)'
    PROVE  Inv'
<1>1. UNCHANGED <<stripe, changes, pending, request, faults>>
  BY DEF Step
<1>2. handler' \in [Handlers -> Handling] /\ handler'[h] = next
      /\ \A o \in Handlers \ {h} : handler'[o] = handler[o]
  BY DEF Step, Inv, TypeOK
<1>3. TypeOK'
  BY <1>1, <1>2 DEF Inv, TypeOK
<1>4. StripeGoesOn
  BY <1>1 DEF StripeGoesOn, Paid
<1>5. \A o \in Handlers : HandlerSound(o)'
  BY <1>2, <1>4, Kept
<1>6. \A q \in Requests : RequestSound(q)'
  BY <1>1, <1>4, Kept
<1>7. \A e \in pending' : Genuine(e)'
  BY <1>1, <1>4, Kept DEF Inv, Sound
<1>8. \A s \in Subs : stripe'[s].status # "none" => Paid(s)'
  BY <1>1 DEF Inv, Sound, Paid
<1> QED BY <1>3, <1>5, <1>6, <1>7, <1>8 DEF Inv, Sound

\* A handler begins: it has read the rows and writes none.
LEMMA StartKeeps ==
    ASSUME Inv, NEW h \in Handlers, NEW next \in Handling, Start(h, next),
           handler'[h] = next => HandlerSound(h)'
    PROVE  Inv'
<1>1. UNCHANGED <<rows, link>> /\ Step(h, next)
  BY DEF Start, tables
<1>2. disturbed' \in BOOLEAN
  BY DEF Start
<1>3. RowsStay
  BY <1>1 DEF RowsStay
<1>4. /\ rows' \in [Rows -> Row \cup {None}] /\ link' \in Rows \cup {None}
      /\ link' # None => rows'[link'] # None
  BY <1>1 DEF Inv, TypeOK, Sound
<1> QED BY <1>1, <1>2, <1>3, <1>4, HandlerStep

-----------------------------------------------------------------------------
(* Event handlers                                                          *)

LEMMA ReadKeeps ==
    ASSUME Inv, NEW h \in Handlers, NEW e \in pending,
           CheckoutRead(h, e) \/ UpdatedRead(h, e) \/ DeletedRead(h, e) \/ Skip(h, e)
    PROVE  Inv'
<1>1. e \in Event /\ e.sub \in Subs /\ Genuine(e)
  BY DEF Inv, TypeOK, Sound, Event
<1>2. \A next : Step(h, next) => handler'[h] = next
  BY DEF Step, Inv, TypeOK
<1>3. UNCHANGED <<stripe, rows, link>>
  BY DEF CheckoutRead, UpdatedRead, DeletedRead, Skip, Start, Step, tables
<1>4. Genuine(e)'
  BY <1>1, <1>3 DEF Genuine, Paid
<1>5. ASSUME Step(h, [pc |-> "mark", event |-> e]), disturbed' \in BOOLEAN PROVE Inv'
  <2>1. [pc |-> "mark", event |-> e] \in Handling
    BY <1>1 DEF Handling
  <2>2. HandlerSound(h)'
    BY <1>2, <1>4, <1>5 DEF HandlerSound
  <2>3. RowsStay /\ rows' \in [Rows -> Row \cup {None}]
    BY <1>3 DEF RowsStay, Inv, TypeOK
  <2>4. link' \in Rows \cup {None} /\ (link' # None => rows'[link'] # None)
    BY <1>3 DEF Inv, TypeOK, Sound
  <2> QED BY <1>5, <2>1, <2>2, <2>3, <2>4, HandlerStep
<1>6. CASE CheckoutRead(h, e)
  <2>1. CASE RowsOf(e.sub) # {}
    BY <1>5, <1>6, <2>1 DEF CheckoutRead, Start
  <2>2. CASE RowsOf(e.sub) = {}
    <3> DEFINE next == [pc |-> "create", event |-> e, current |-> link]
    <3>1. Start(h, next) /\ Step(h, next)
      BY <1>6, <2>2 DEF CheckoutRead, Start
    <3>2. next \in Handling
      BY <1>1 DEF Handling, Inv, TypeOK
    <3>3. link # None => rows'[link] # None
      BY <1>3 DEF Inv, Sound
    <3>4. handler'[h] = next
      BY <1>2, <3>1
    <3>5. HandlerSound(h)'
      BY <1>4, <3>3, <3>4 DEF HandlerSound
    <3> QED BY <3>1, <3>2, <3>5, StartKeeps
  <2> QED BY <2>1, <2>2
<1>7. ASSUME NEW r \in RowsOf(e.sub),
             Start(h, [pc |-> "fetch", event |-> e, id |-> r, plan |-> rows[r].plan])
      PROVE  Inv'
  <2> DEFINE next == [pc |-> "fetch", event |-> e, id |-> r, plan |-> rows[r].plan]
  <2>1. r \in Rows /\ rows[r] # None /\ rows[r] \in Row /\ rows[r].sub = e.sub /\ rows[r].plan \in Plans
    BY DEF RowsOf, Inv, TypeOK, Row
  <2>2. next \in Handling
    BY <1>1, <2>1 DEF Handling
  <2>3. handler'[h] = next
    BY <1>2, <1>7 DEF Start
  <2>4. RowIs(r, e.sub)'
    BY <1>3, <2>1 DEF RowIs
  <2>5. HandlerSound(h)'
    BY <1>4, <2>3, <2>4 DEF HandlerSound
  <2> QED BY <1>7, <2>2, <2>5, StartKeeps
<1>8. ASSUME NEW r \in RowsOf(e.sub), e.kind = "deleted",
             Start(h, [pc |-> "delete", event |-> e, id |-> r])
      PROVE  Inv'
  <2> DEFINE next == [pc |-> "delete", event |-> e, id |-> r]
  <2>1. r \in Rows /\ rows[r] # None /\ rows[r].sub = e.sub
    BY DEF RowsOf
  <2>2. next \in Handling
    BY <1>1, <2>1 DEF Handling
  <2>3. handler'[h] = next
    BY <1>2, <1>8 DEF Start
  <2>4. RowIs(r, e.sub)'
    BY <1>3, <2>1 DEF RowIs
  <2>5. HandlerSound(h)'
    BY <1>4, <1>8, <2>3, <2>4 DEF HandlerSound
  <2> QED BY <1>8, <2>2, <2>5, StartKeeps
<1>9. CASE Skip(h, e)
  BY <1>5, <1>9 DEF Skip
<1> QED BY <1>6, <1>7, <1>8, <1>9 DEF UpdatedRead, DeletedRead

\* The event of a handler that goes to "mark".
LEMMA ToMarkSound ==
    ASSUME Inv, NEW h \in Handlers, handler[h].pc # "idle", Step(h, ToMark(h))
    PROVE  ToMark(h) \in Handling /\ HandlerSound(h)'
<1>1. handler[h].event \in Event /\ Genuine(handler[h].event)
  BY HandlerShape DEF Inv, Sound, HandlerSound
<1>2. ToMark(h) \in Handling
  BY <1>1 DEF ToMark, Handling
<1>3. handler'[h] = ToMark(h) /\ stripe' = stripe
  BY DEF Step, Inv, TypeOK
<1>4. \A e : Genuine(e) => Genuine(e)'
  BY <1>3 DEF Genuine, Paid
<1>5. HandlerSound(h)'
  BY <1>1, <1>3, <1>4 DEF HandlerSound, ToMark
<1> QED BY <1>2, <1>5

LEMMA CheckoutCommitKeeps ==
    ASSUME Inv, NEW h \in Handlers, CheckoutCommit(h)
    PROVE  Inv' /\ (link' # None => rows'[link'].plan # 0)
<1> DEFINE current == handler[h].current
           new == [sub |-> Sub(h), status |-> "active", plan |-> stripe[Sub(h)].bought]
<1>1. /\ handler[h].pc = "create" /\ current \in Rows \cup {None}
      /\ current # None => rows[current] # None
      /\ Genuine(handler[h].event) /\ Sub(h) \in Subs
  BY HandlerShape DEF CheckoutCommit, Inv, Sound, HandlerSound, Sub, Event
<1>2. new \in Row /\ new.plan # 0
  BY <1>1 DEF Row, Status, Genuine, Paid, Sub, Inv, TypeOK, AtStripe
<1>3. \A r \in Rows : rows[r] # None => rows[r] \in Row /\ [rows[r] EXCEPT !.status = "canceled"] \in Row
  BY DEF Inv, TypeOK, Row, Status
<1>4. PICK n \in Rows :
        /\ rows[n] = None
        /\ rows' = [r \in Rows |-> IF r = n THEN new
                                   ELSE IF r = current THEN [rows[r] EXCEPT !.status = "canceled"]
                                   ELSE rows[r]]
        /\ link' = n
  BY DEF CheckoutCommit
<1>5. ASSUME NEW r \in Rows
      PROVE  /\ rows'[r] \in Row \cup {None}
             /\ rows[r] # None => rows'[r] # None /\ rows'[r].sub \in {rows[r].sub, None}
  <2>1. CASE r = n
    BY <1>2, <1>4, <2>1
  <2>2. CASE r # n /\ r = current
    <3>1. rows[r] # None
      BY <1>1, <2>2, ConstantsAssumption
    <3>2. rows'[r] = [rows[r] EXCEPT !.status = "canceled"]
      BY <1>4, <2>2
    <3>3. rows'[r] \in Row
      BY <1>3, <3>1, <3>2
    <3>4. rows[r] \in Row
      BY <1>3, <3>1
    <3>5. rows'[r].sub = rows[r].sub
      BY <3>2, <3>4 DEF Row
    <3> QED BY <3>3, <3>5, NoneAssumption
  <2>3. CASE r # n /\ r # current
    <3>1. rows'[r] = rows[r]
      BY <1>4, <2>3
    <3> QED BY <3>1 DEF Inv, TypeOK
  <2> QED BY <2>1, <2>2, <2>3
<1>6. rows' \in [Rows -> Row \cup {None}] /\ RowsStay
  BY <1>4, <1>5 DEF RowsStay
<1>7. rows'[link'] = new /\ new # None /\ link' \in Rows
  BY <1>2, <1>4, NoneAssumption
<1>8. Step(h, ToMark(h)) /\ disturbed' \in BOOLEAN
  BY DEF CheckoutCommit, Inv, TypeOK
<1>9. ToMark(h) \in Handling /\ HandlerSound(h)'
  BY <1>1, <1>8, ToMarkSound
<1>10. Inv'
  BY <1>6, <1>7, <1>8, <1>9, HandlerStep
<1> QED BY <1>2, <1>7, <1>10

LEMMA FetchKeeps ==
    ASSUME Inv, NEW h \in Handlers, UpdatedFetch(h)
    PROVE  Inv'
<1> DEFINE s == Sub(h)
           next == [pc |-> "update", event |-> handler[h].event, id |-> handler[h].id,
                    plan |-> handler[h].plan, fetched |-> stripe[s]]
<1>1. /\ handler[h].pc = "fetch" /\ handler[h].id \in Rows /\ handler[h].plan \in Plans
      /\ handler[h].event \in Event /\ Genuine(handler[h].event) /\ s \in Subs
      /\ RowIs(handler[h].id, s)
  BY HandlerShape DEF UpdatedFetch, Inv, Sound, HandlerSound, Sub, Event
<1>2. stripe[s] \in AtStripe /\ stripe[s].plan # 0 /\ stripe[s].status \in Status
  BY <1>1 DEF Genuine, Paid, Sub, Inv, TypeOK
<1>3. next \in Handling
  BY <1>1, <1>2 DEF Handling
<1>4. Step(h, next) /\ UNCHANGED <<rows, link, disturbed>>
  BY DEF UpdatedFetch, tables
<1>5. handler'[h] = next /\ stripe' = stripe
  BY <1>4 DEF Step, Inv, TypeOK
<1>6. (\A e : Genuine(e) => Genuine(e)') /\ (\A r, z : RowIs(r, z) => RowIs(r, z)')
  BY <1>4, <1>5 DEF Genuine, Paid, RowIs
<1>7. HandlerSound(h)'
  BY <1>1, <1>2, <1>5, <1>6 DEF HandlerSound, Sub
<1>8. RowsStay /\ rows' \in [Rows -> Row \cup {None}] /\ link' \in Rows \cup {None}
      /\ (link' # None => rows'[link'] # None) /\ disturbed' \in BOOLEAN
  BY <1>4 DEF RowsStay, Inv, TypeOK, Sound
<1> QED BY <1>3, <1>4, <1>7, <1>8, HandlerStep

\* A handler overwrites the row it has read.
LEMMA WriteKeeps ==
    ASSUME Inv, NEW h \in Handlers, handler[h].pc \in {"update", "delete"},
           NEW row \in Row, row.sub \in {rows[handler[h].id].sub, None},
           rows' = [rows EXCEPT ![handler[h].id] = row],
           Step(h, ToMark(h)), link' = link, disturbed' \in BOOLEAN
    PROVE  Inv'
<1>1. handler[h].id \in Rows
  BY HandlerShape DEF Inv
<1>2. rows' \in [Rows -> Row \cup {None}] /\ rows'[handler[h].id] = row
      /\ \A r \in Rows \ {handler[h].id} : rows'[r] = rows[r]
  BY <1>1 DEF Inv, TypeOK
<1>3. RowsStay
  BY <1>2, NoneAssumption DEF RowsStay
<1>4. link' \in Rows \cup {None} /\ (link' # None => rows'[link'] # None)
  BY <1>3 DEF RowsStay, Inv, TypeOK, Sound
<1>5. ToMark(h) \in Handling /\ HandlerSound(h)'
  BY ToMarkSound
<1> QED BY <1>2, <1>3, <1>4, <1>5, HandlerStep

LEMMA UpdatedCommitKeeps ==
    ASSUME Inv, NEW h \in Handlers, UpdatedCommit(h)
    PROVE  Inv' /\ (link # None /\ rows[link].plan # 0 => rows'[link].plan # 0)
<1> DEFINE id == handler[h].id
           fetched == handler[h].fetched
           row == [rows[id] EXCEPT !.status = fetched.status,
                     !.plan = IF fetched.plan # handler[h].plan THEN fetched.plan ELSE @]
<1>1. /\ handler[h].pc = "update" /\ id \in Rows /\ rows[id] # None
      /\ fetched \in AtStripe /\ fetched.plan # 0 /\ fetched.status \in Status
  BY HandlerShape DEF UpdatedCommit, Inv, Sound, HandlerSound, RowIs
<1>2. rows[id] \in Row
  BY <1>1 DEF Inv, TypeOK
<1>3. fetched.plan \in Plans
  BY <1>1 DEF AtStripe
<1>4. row \in Row /\ row.sub = rows[id].sub /\ (rows[id].plan # 0 => row.plan # 0)
  BY <1>1, <1>2, <1>3 DEF Row
<1>5. rows' = [rows EXCEPT ![id] = row] /\ link' = link /\ disturbed' \in BOOLEAN /\ Step(h, ToMark(h))
  <2>1. \A r \in Rows : rows'[r] = IF r = id THEN row ELSE rows[r]
    BY <1>1, <1>2 DEF UpdatedCommit, Inv, TypeOK, Row
  <2>2. rows' \in [Rows -> Row \cup {None}] /\ rows = [r \in Rows |-> rows[r]]
    BY <1>4, <2>1 DEF UpdatedCommit, Inv, TypeOK
  <2>3. rows' = [rows EXCEPT ![id] = row]
    BY <2>1, <2>2 DEF UpdatedCommit
  <2> QED BY <2>3 DEF UpdatedCommit, Inv, TypeOK
<1>6. Inv'
  BY <1>1, <1>4, <1>5, WriteKeeps
<1>7. link # None /\ rows[link].plan # 0 => rows'[link].plan # 0
  BY <1>1, <1>4, <1>5 DEF Inv, TypeOK
<1> QED BY <1>6, <1>7

LEMMA DeletedCommitKeeps ==
    ASSUME Inv, NEW h \in Handlers, DeletedCommit(h)
    PROVE  /\ Inv'
           /\ link # None /\ rows'[link] # rows[link] =>
                \A s \in Subs : rows[link].sub = s => stripe[s].status = "canceled"
<1> DEFINE id == handler[h].id
           row == [sub |-> None, status |-> "active", plan |-> 0]
<1>1. /\ handler[h].pc = "delete" /\ id \in Rows
      /\ rows[id].sub \in {Sub(h), None} /\ stripe[Sub(h)].status = "canceled"
  BY HandlerShape DEF DeletedCommit, Inv, Sound, HandlerSound, RowIs, Genuine, Sub
<1>2. row \in Row /\ row.sub = None
  BY ConstantsAssumption DEF Row, Plans, Status
<1>3. /\ rows' = [rows EXCEPT ![id] = row] /\ link' = link /\ Step(h, ToMark(h))
      /\ disturbed' \in BOOLEAN
  BY DEF DeletedCommit, Downgraded
<1>4. Inv'
  BY <1>1, <1>2, <1>3, WriteKeeps
<1>5. link # None /\ rows'[link] # rows[link] => link = id
  BY <1>3 DEF Inv, TypeOK
<1>6. \A s \in Subs : rows[id].sub = s => stripe[s].status = "canceled"
  BY <1>1, ConstantsAssumption
<1> QED BY <1>4, <1>5, <1>6

LEMMA EndRunKeeps ==
    ASSUME Inv, NEW h \in Handlers, Mark(h) \/ Fail(h)
    PROVE  Inv'
<1>1. UNCHANGED <<stripe, changes, rows, link, request, disturbed>>
      /\ pending' \subseteq pending /\ faults' \in Nat
  BY DEF Mark, Fail, tables, Inv, TypeOK
<1>2. /\ handler' \in [Handlers -> Handling] /\ handler'[h] = Idle
      /\ \A o \in Handlers \ {h} : handler'[o] = handler[o]
  BY DEF Mark, Fail, Handling, Inv, TypeOK
<1>3. TypeOK'
  BY <1>1, <1>2 DEF Inv, TypeOK
<1>4. StripeGoesOn /\ RowsStay
  BY <1>1 DEF StripeGoesOn, RowsStay, Paid
<1>5. HandlerSound(h)'
  BY <1>2 DEF HandlerSound, Idle
<1>6. \A o \in Handlers : HandlerSound(o)'
  BY <1>2, <1>4, <1>5, Kept
<1>7. \A q \in Requests : RequestSound(q)'
  BY <1>1, <1>4, Kept
<1>8. \A e \in pending' : Genuine(e)'
  BY <1>1, <1>4, Kept DEF Inv, Sound
<1>9. (\A s \in Subs : stripe'[s].status # "none" => Paid(s)') /\ (link' # None => rows'[link'] # None)
  BY <1>1 DEF Inv, Sound, Paid
<1> QED BY <1>3, <1>6, <1>7, <1>8, <1>9 DEF Inv, Sound

-----------------------------------------------------------------------------
(* The user's requests                                                     *)

\* A step of one request, with what it does to Stripe, the events and the rows.
LEMMA RequestStep ==
    ASSUME Inv, NEW q \in Requests, NEW next \in Request, request' = [request EXCEPT ![q] = next],
           UNCHANGED <<link, handler, faults>>,
           StripeGoesOn, RowsStay,
           stripe' \in [Subs -> AtStripe], rows' \in [Rows -> Row \cup {None}],
           changes' \in Nat, disturbed' \in BOOLEAN,
           \A s \in Subs : stripe'[s].status # "none" => Paid(s)',
           \A e \in pending' : e \in pending \/ Genuine(e)',
           request'[q] = next => RequestSound(q)'
    PROVE  Inv'
<1>1. /\ request' \in [Requests -> Request] /\ request'[q] = next
      /\ \A o \in Requests \ {q} : request'[o] = request[o]
  BY DEF Inv, TypeOK
<1>2. \A e \in pending' : Genuine(e)'
  BY Kept DEF Inv, Sound
<1>3. pending' \subseteq Event
  BY <1>2 DEF Genuine
<1>4. TypeOK'
  BY <1>1, <1>3 DEF Inv, TypeOK
<1>5. \A h \in Handlers : HandlerSound(h)'
  BY Kept
<1>6. \A o \in Requests : RequestSound(o)'
  BY <1>1, Kept
<1>7. link' # None => rows'[link'] # None
  BY DEF RowsStay, Inv, TypeOK, Sound
<1> QED BY <1>2, <1>4, <1>5, <1>6, <1>7 DEF Inv, Sound

\* What RequestStep asks for of a step that leaves Stripe and the rows alone.
LEMMA Untouched ==
    ASSUME Inv, UNCHANGED <<stripe, rows>>
    PROVE  /\ StripeGoesOn /\ RowsStay
           /\ stripe' \in [Subs -> AtStripe] /\ rows' \in [Rows -> Row \cup {None}]
           /\ \A s \in Subs : stripe'[s].status # "none" => Paid(s)'
BY DEF StripeGoesOn, RowsStay, Paid, Inv, TypeOK, Sound

LEMMA BeginKeeps ==
    ASSUME Inv, NEW q \in Requests, CancelRead(q) \/ \E plan \in Plans : UpgradeRead(q, plan)
    PROVE  Inv'
<1>1. link \in Rows /\ rows[link] # None /\ rows[link] \in Row
  BY DEF CancelRead, UpgradeRead, LinkedActive, Inv, TypeOK, Sound
<1>2. rows[link].sub \in Subs \cup {None} /\ rows[link].plan \in Plans
  BY <1>1 DEF Row
<1>3. UNCHANGED <<stripe, rows, link, changes, pending, handler, faults>> /\ disturbed' \in BOOLEAN
  BY DEF CancelRead, UpgradeRead, Begin, tables
<1>4. RowIs(link, rows[link].sub)'
  BY <1>1, <1>3 DEF RowIs
<1>5. ASSUME NEW next \in Request, Begin(q, next), request'[q] = next => RequestSound(q)'
      PROVE  Inv'
  <2>1. request' = [request EXCEPT ![q] = next] /\ changes' \in Nat
    BY <1>3, <1>5 DEF Begin, Inv, TypeOK
  <2>2. \A e \in pending' : e \in pending
    BY <1>3
  <2>3. UNCHANGED <<link, handler, faults>>
    BY <1>3
  <2> QED BY <1>3, <1>5, <2>1, <2>2, <2>3, Untouched, RequestStep
<1>6. CASE CancelRead(q)
  <2> DEFINE next == [pc |-> IF rows[link].sub = None THEN "downgrade" ELSE "cancel",
                      id |-> link, sub |-> rows[link].sub]
  <2>1. next \in Request /\ Begin(q, next)
    BY <1>1, <1>2, <1>6 DEF CancelRead, Request
  <2>2. request'[q] = next => RequestSound(q)'
    BY <1>3, <1>4 DEF RequestSound
  <2> QED BY <1>5, <2>1, <2>2
<1>7. ASSUME NEW plan \in Plans, UpgradeRead(q, plan) PROVE Inv'
  <2> DEFINE next == [pc |-> "upgrade", id |-> link, sub |-> rows[link].sub, plan |-> plan]
  <2>1. next \in Request /\ Begin(q, next)
    BY <1>1, <1>2, <1>7 DEF UpgradeRead, Request
  <2>2. plan # 0
    BY <1>2, <1>7 DEF UpgradeRead, Plans
  <2>3. request'[q] = next => RequestSound(q)'
    BY <1>3, <1>4, <2>2 DEF RequestSound
  <2> QED BY <1>5, <2>1, <2>3
<1> QED BY <1>6, <1>7

LEMMA CancelStripeKeeps ==
    ASSUME Inv, NEW q \in Requests, CancelStripe(q)
    PROVE  Inv'
<1> DEFINE s == request[q].sub
           next == [pc |-> "downgrade", id |-> request[q].id, sub |-> s]
<1>1. /\ request[q] \in [pc: {"cancel"}, id: Rows, sub: Subs \cup {None}]
      /\ s \in Subs /\ RowIs(request[q].id, s)
      /\ stripe[s] \in AtStripe /\ Paid(s) /\ stripe[s].status \in Status
  <2>1. /\ request[q] \in [pc: {"cancel"}, id: Rows, sub: Subs \cup {None}]
        /\ s \in Subs /\ RowIs(request[q].id, s)
    BY RequestShape DEF CancelStripe, Inv, Sound, RequestSound
  <2> QED BY <2>1 DEF CancelStripe, Alive, Status, Inv, TypeOK, Sound
<1>2. next \in Request /\ request' = [request EXCEPT ![q] = next]
  <2>1. request' = [request EXCEPT ![q] = [request[q] EXCEPT !.pc = "downgrade"]]
    BY DEF CancelStripe
  <2>2. [request[q] EXCEPT !.pc = "downgrade"] = next
    BY <1>1
  <2> QED BY <1>1, <2>1, <2>2 DEF Request
<1>3. /\ stripe' \in [Subs -> AtStripe] /\ stripe'[s].status = "canceled"
      /\ \A z \in Subs : /\ stripe'[z].plan = stripe[z].plan /\ stripe'[z].bought = stripe[z].bought
                         /\ z # s => stripe'[z] = stripe[z]
  BY <1>1 DEF CancelStripe, AtStripe, Status, Inv, TypeOK
<1>4. StripeGoesOn /\ \A z \in Subs : stripe'[z].status # "none" => Paid(z)'
  BY <1>1, <1>3 DEF StripeGoesOn, Paid, Status, Inv, Sound
<1>5. UNCHANGED <<rows, link, handler, faults, changes, disturbed>>
  BY DEF CancelStripe, tables
<1>6. RowsStay /\ rows' \in [Rows -> Row \cup {None}] /\ changes' \in Nat /\ disturbed' \in BOOLEAN
  BY <1>5 DEF RowsStay, Inv, TypeOK
<1>7. \A e \in pending' : e \in pending \/ Genuine(e)'
  <2>1. \A e \in pending' : e \in pending \/ e = Deleted(s)
    BY DEF CancelStripe
  <2>2. ASSUME NEW e, e = Deleted(s) PROVE Genuine(e)'
    <3>1. e \in Event /\ e.sub = s
      BY <1>1, <2>2 DEF Deleted, Event
    <3> QED BY <1>1, <1>3, <3>1 DEF Genuine, Paid, Status
  <2> QED BY <2>1, <2>2
<1>8. request'[q] = next => RequestSound(q)'
  BY <1>1, <1>3, <1>5 DEF RequestSound, RowIs
<1> QED BY <1>2, <1>3, <1>4, <1>5, <1>6, <1>7, <1>8, RequestStep

LEMMA CancelCommitKeeps ==
    ASSUME Inv, NEW q \in Requests, CancelCommit(q)
    PROVE  /\ Inv'
           /\ link # None /\ rows'[link] # rows[link] =>
                \A s \in Subs : rows[link].sub = s => stripe[s].status = "canceled"
<1> DEFINE id == request[q].id
           row == [sub |-> None, status |-> "active", plan |-> 0]
<1>1. /\ id \in Rows /\ rows[id].sub \in {request[q].sub, None}
      /\ request[q].sub # None => stripe[request[q].sub].status = "canceled"
  BY RequestShape DEF CancelCommit, Inv, Sound, RequestSound, RowIs
<1>2. row \in Row
  BY ConstantsAssumption DEF Row, Plans, Status
<1>3. rows' = [rows EXCEPT ![id] = row]
  BY DEF CancelCommit, Downgraded
<1>4. rows' \in [Rows -> Row \cup {None}] /\ RowsStay
  BY <1>2, <1>3, NoneAssumption DEF RowsStay, Inv, TypeOK
<1>5. UNCHANGED <<stripe, changes, pending, link, handler, faults>> /\ disturbed' \in BOOLEAN
  BY DEF CancelCommit
<1>6. Idle \in Request /\ request' = [request EXCEPT ![q] = Idle]
  BY DEF CancelCommit, Request
<1>7. request'[q] = Idle => RequestSound(q)'
  BY DEF RequestSound, Idle
<1>8. /\ StripeGoesOn /\ stripe' \in [Subs -> AtStripe] /\ changes' \in Nat
      /\ \A s \in Subs : stripe'[s].status # "none" => Paid(s)'
  BY <1>5 DEF StripeGoesOn, Paid, Inv, TypeOK, Sound
<1>9. Inv'
  BY <1>4, <1>5, <1>6, <1>7, <1>8, RequestStep
<1>10. link # None /\ rows'[link] # rows[link] => link = id
  BY <1>3 DEF Inv, TypeOK
<1>11. \A s \in Subs : rows[id].sub = s => stripe[s].status = "canceled"
  BY <1>1, ConstantsAssumption
<1> QED BY <1>9, <1>10, <1>11

LEMMA UpgradeStripeKeeps ==
    ASSUME Inv, NEW q \in Requests, UpgradeStripe(q)
    PROVE  Inv'
<1> DEFINE s == request[q].sub
           next == [pc |-> "write", id |-> request[q].id, sub |-> s, plan |-> request[q].plan]
<1>1. /\ request[q] \in [pc: {"upgrade", "write"}, id: Rows, sub: Subs, plan: Plans]
      /\ s \in Subs /\ request[q].plan \in Plans /\ request[q].plan # 0
      /\ RowIs(request[q].id, s)
  BY RequestShape DEF UpgradeStripe, Inv, Sound, RequestSound
<1>2. stripe[s] \in AtStripe /\ Paid(s) /\ stripe[s].status \in Status
  BY <1>1 DEF UpgradeStripe, Alive, Status, Inv, TypeOK, Sound
<1>3. next \in Request /\ request' = [request EXCEPT ![q] = next]
  <2>1. request' = [request EXCEPT ![q] = [request[q] EXCEPT !.pc = "write"]]
    BY DEF UpgradeStripe
  <2>2. [request[q] EXCEPT !.pc = "write"] = next
    BY <1>1
  <2> QED BY <1>1, <2>1, <2>2 DEF Request
<1>4. /\ stripe' \in [Subs -> AtStripe] /\ stripe'[s].plan # 0
      /\ \A z \in Subs : /\ stripe'[z].status = stripe[z].status /\ stripe'[z].bought = stripe[z].bought
                         /\ z # s => stripe'[z] = stripe[z]
  BY <1>1, <1>2 DEF UpgradeStripe, AtStripe, Inv, TypeOK
<1>5. StripeGoesOn /\ \A z \in Subs : stripe'[z].status # "none" => Paid(z)'
  BY <1>1, <1>2, <1>4 DEF StripeGoesOn, Paid, Inv, Sound
<1>6. UNCHANGED <<rows, link, handler, faults, disturbed>> /\ changes' = changes + 1
  BY DEF UpgradeStripe, tables
<1>7. RowsStay /\ rows' \in [Rows -> Row \cup {None}] /\ changes' \in Nat /\ disturbed' \in BOOLEAN
  BY <1>6 DEF RowsStay, Inv, TypeOK
<1>8. \A e \in pending' : e \in pending \/ Genuine(e)'
  <2>1. \A e \in pending' : e \in pending \/ e = Updated(s, changes')
    BY DEF UpgradeStripe
  <2>2. ASSUME NEW e, e = Updated(s, changes') PROVE Genuine(e)'
    <3>1. e \in Event /\ e.sub = s /\ e.kind = "updated"
      BY <1>1, <1>7, <2>2 DEF Updated, Event
    <3> QED BY <1>1, <1>2, <1>4, <3>1 DEF Genuine, Paid
  <2> QED BY <2>1, <2>2
<1>9. request'[q] = next => RequestSound(q)'
  BY <1>1, <1>6 DEF RequestSound, RowIs
<1> QED BY <1>3, <1>4, <1>5, <1>6, <1>7, <1>8, <1>9, RequestStep

LEMMA UpgradeCommitKeeps ==
    ASSUME Inv, NEW q \in Requests, UpgradeCommit(q)
    PROVE  Inv' /\ (link # None /\ rows[link].plan # 0 => rows'[link].plan # 0)
<1> DEFINE id == request[q].id
           row == [rows[id] EXCEPT !.plan = request[q].plan]
<1>1. /\ id \in Rows /\ rows[id] # None /\ request[q].plan \in Plans /\ request[q].plan # 0
  BY RequestShape DEF UpgradeCommit, Inv, Sound, RequestSound, RowIs
<1>2. rows[id] \in Row
  BY <1>1 DEF Inv, TypeOK
<1>3. row \in Row /\ row.sub = rows[id].sub /\ row.plan # 0
  BY <1>1, <1>2 DEF Row
<1>4. rows' = [rows EXCEPT ![id] = row]
  BY DEF UpgradeCommit
<1>5. rows' \in [Rows -> Row \cup {None}] /\ RowsStay
  BY <1>3, <1>4, NoneAssumption DEF RowsStay, Inv, TypeOK
<1>6. UNCHANGED <<stripe, changes, pending, link, handler, faults, disturbed>>
  BY DEF UpgradeCommit
<1>7. Idle \in Request /\ request' = [request EXCEPT ![q] = Idle]
  BY DEF UpgradeCommit, Request
<1>8. request'[q] = Idle => RequestSound(q)'
  BY DEF RequestSound, Idle
<1>9. /\ StripeGoesOn /\ stripe' \in [Subs -> AtStripe] /\ changes' \in Nat /\ disturbed' \in BOOLEAN
      /\ \A s \in Subs : stripe'[s].status # "none" => Paid(s)'
  BY <1>6 DEF StripeGoesOn, Paid, Inv, TypeOK, Sound
<1>10. Inv'
  BY <1>5, <1>6, <1>7, <1>8, <1>9, RequestStep
<1>11. link # None /\ rows[link].plan # 0 => rows'[link].plan # 0
  BY <1>1, <1>3, <1>4 DEF Inv, TypeOK
<1> QED BY <1>10, <1>11

LEMMA RequestFailsKeeps ==
    ASSUME Inv, NEW q \in Requests, RequestFails(q)
    PROVE  Inv'
<1>1. UNCHANGED <<stripe, changes, pending, rows, link, handler, faults, disturbed>>
  BY DEF RequestFails, tables
<1>2. Idle \in Request /\ request' = [request EXCEPT ![q] = Idle]
  BY DEF RequestFails, Request
<1>3. request'[q] = Idle => RequestSound(q)'
  BY DEF RequestSound, Idle
<1>4. changes' \in Nat /\ disturbed' \in BOOLEAN /\ \A e \in pending' : e \in pending
  BY <1>1 DEF Inv, TypeOK
<1> QED BY <1>1, <1>2, <1>3, <1>4, Untouched, RequestStep

-----------------------------------------------------------------------------
(* Stripe and its customer                                                 *)

\* A step outside the application.
LEMMA StripeStep ==
    ASSUME Inv, UNCHANGED <<rows, link, handler, request, faults, disturbed>>,
           StripeGoesOn, stripe' \in [Subs -> AtStripe], changes' \in Nat,
           \A s \in Subs : stripe'[s].status # "none" => Paid(s)',
           \A e \in pending' : e \in pending \/ Genuine(e)'
    PROVE  Inv'
<1>1. RowsStay
  BY DEF RowsStay
<1>2. \A e \in pending' : Genuine(e)'
  BY <1>1, Kept DEF Inv, Sound
<1>3. pending' \subseteq Event
  BY <1>2 DEF Genuine
<1>4. TypeOK'
  BY <1>3 DEF Inv, TypeOK
<1>5. (\A h \in Handlers : HandlerSound(h)') /\ (\A q \in Requests : RequestSound(q)')
  BY <1>1, Kept
<1> QED BY <1>2, <1>4, <1>5 DEF Inv, Sound

LEMMA CustomerKeeps ==
    ASSUME Inv, NEW s \in Subs,
           \/ \E plan \in Plans : CheckoutSession(s, plan)
           \/ Subscribe(s) \/ ChangePayment(s) \/ EndAtStripe(s)
    PROVE  Inv'
<1>1. stripe[s] \in AtStripe /\ stripe \in [Subs -> AtStripe] /\ changes \in Nat
  BY DEF Inv, TypeOK
<1>2. UNCHANGED <<rows, link, handler, request, faults, disturbed>> /\ changes' \in Nat
  BY <1>1 DEF CheckoutSession, Subscribe, ChangePayment, EndAtStripe, tables
<1>3. \A z \in Subs : z # s => stripe'[z] = stripe[z]
  BY <1>1 DEF CheckoutSession, Subscribe, ChangePayment, EndAtStripe
<1>4. ASSUME NEW plan \in Plans, CheckoutSession(s, plan) PROVE Inv'
  <2>1. /\ stripe' = [stripe EXCEPT ![s] = [status |-> "session", bought |-> plan, plan |-> plan]]
        /\ plan # 0 /\ stripe[s].status = "none" /\ pending' = pending
    BY <1>4 DEF CheckoutSession
  <2>2. stripe' \in [Subs -> AtStripe]
    BY <1>1, <2>1 DEF AtStripe
  <2>3. stripe'[s].status = "session" /\ Paid(s)'
    BY <1>1, <2>1 DEF Paid
  <2>4. StripeGoesOn
    BY <1>3, <2>1, <2>3 DEF StripeGoesOn, Paid, Status
  <2>5. \A z \in Subs : stripe'[z].status # "none" => Paid(z)'
    BY <1>3, <2>3 DEF Paid, Inv, Sound
  <2> QED BY <1>2, <2>1, <2>2, <2>4, <2>5, StripeStep
<1>5. CASE Subscribe(s) \/ ChangePayment(s) \/ EndAtStripe(s)
  <2>1. \E status \in Status :
          /\ stripe' = [stripe EXCEPT ![s].status = status]
          /\ stripe[s].status = "canceled" => status = "canceled"
    BY <1>5 DEF Subscribe, ChangePayment, EndAtStripe, Alive, Status
  <2>2. /\ stripe' \in [Subs -> AtStripe] /\ stripe'[s].status \in Status
        /\ stripe'[s].plan = stripe[s].plan /\ stripe'[s].bought = stripe[s].bought
        /\ stripe[s].status = "canceled" => stripe'[s].status = "canceled"
    BY <1>1, <2>1 DEF AtStripe, Status
  <2>3. Paid(s)
    BY <1>5 DEF Subscribe, ChangePayment, EndAtStripe, Alive, Inv, Sound
  <2>4. StripeGoesOn /\ \A z \in Subs : stripe'[z].status # "none" => Paid(z)'
    BY <1>3, <2>2, <2>3 DEF StripeGoesOn, Paid, Inv, Sound
  <2>5. \A e \in pending' :
          \/ e \in pending
          \/ e \in {Checkout(s), Updated(s, 0), Updated(s, changes')}
          \/ e = Deleted(s) /\ stripe'[s].status = "canceled"
    <3>1. EndAtStripe(s) => stripe'[s].status = "canceled"
      BY <1>1 DEF EndAtStripe, AtStripe
    <3> QED BY <1>5, <3>1 DEF Subscribe, ChangePayment, EndAtStripe
  <2>6. ASSUME NEW e, \/ e \in {Checkout(s), Updated(s, 0), Updated(s, changes')}
                      \/ e = Deleted(s) /\ stripe'[s].status = "canceled"
        PROVE  Genuine(e)'
    <3>1. e \in Event /\ e.sub = s /\ (e.kind = "deleted" => stripe'[s].status = "canceled")
      BY <1>2, <2>6 DEF Checkout, Updated, Deleted, Event
    <3> QED BY <2>2, <2>3, <3>1 DEF Genuine, Paid
  <2>7. \A e \in pending' : e \in pending \/ Genuine(e)'
    BY <2>5, <2>6
  <2> QED BY <1>2, <2>2, <2>4, <2>7, StripeStep
<1> QED BY <1>4, <1>5

-----------------------------------------------------------------------------
LEMMA InitSound == Init => Inv
<1> SUFFICES ASSUME Init PROVE Inv
  OBVIOUS
<1>1. stripe \in [Subs -> AtStripe] /\ \A s \in Subs : stripe[s].status = "none"
  BY ConstantsAssumption DEF Init, AtStripe, Plans
<1>2. /\ changes \in Nat /\ faults \in Nat /\ pending = {} /\ disturbed \in BOOLEAN
      /\ link \in Rows \cup {None}
  BY ConstantsAssumption DEF Init
<1>3. [sub |-> None, status |-> "active", plan |-> 0] \in Row
  BY ConstantsAssumption DEF Row, Plans, Status
<1>4. rows \in [Rows -> Row \cup {None}] /\ (link # None => rows[link] # None)
  BY <1>3, ConstantsAssumption, NoneAssumption DEF Init
<1>5. /\ handler \in [Handlers -> Handling] /\ request \in [Requests -> Request]
      /\ \A h \in Handlers : handler[h].pc = "idle"
      /\ \A q \in Requests : request[q].pc = "idle"
  BY DEF Init, Handling, Request, Idle
<1>6. TypeOK
  BY <1>1, <1>2, <1>4, <1>5 DEF TypeOK
<1>7. Sound
  BY <1>1, <1>2, <1>4, <1>5 DEF Sound, HandlerSound, RequestSound
<1> QED BY <1>6, <1>7 DEF Inv

LEMMA Stutter == Inv /\ UNCHANGED vars => Inv'
<1> SUFFICES ASSUME Inv, UNCHANGED vars PROVE Inv'
  OBVIOUS
<1>1. UNCHANGED <<stripe, changes, pending, rows, link, handler, request, faults, disturbed>>
  BY DEF vars, tables
<1>2. changes' \in Nat /\ \A e \in pending' : e \in pending
  BY <1>1 DEF Inv, TypeOK
<1> QED BY <1>1, <1>2, Untouched, StripeStep

LEMMA InvStep ==
    ASSUME Inv, [Next]_vars
    PROVE  Inv'
<1>1. ASSUME NEW h \in Handlers, Handle(h) PROVE Inv'
  BY <1>1, ReadKeeps, CheckoutCommitKeeps, FetchKeeps, UpdatedCommitKeeps, DeletedCommitKeeps,
     EndRunKeeps DEF Handle
<1>2. ASSUME NEW q \in Requests, Serve(q) PROVE Inv'
  BY <1>2, BeginKeeps, CancelStripeKeeps, CancelCommitKeeps, UpgradeStripeKeeps,
     UpgradeCommitKeeps, RequestFailsKeeps DEF Serve
<1> QED BY <1>1, <1>2, CustomerKeeps, Stutter DEF Next

LEMMA InvCorrect == Spec => []Inv
BY InitSound, InvStep, PTL DEF Spec

\* Every reachable state is well typed: in particular, no row is given the status of a
\* checkout that has not been paid for, and none is updated that is not there.
THEOREM TypeCorrect == Spec => []TypeOK
<1>1. Inv => TypeOK
  BY DEF Inv
<1> QED BY <1>1, InvCorrect, PTL

\* A user is on a paid plan until the subscription that paid for it has ended at Stripe,
\* however the handlers of its events and the user's requests overlap and fail.
THEOREM NoEarlyDowngradeCorrect == Spec => NoEarlyDowngrade
<1> DEFINE Fair == link # None /\ rows[link].plan # 0 /\ rows'[link'].plan = 0 =>
                     \A s \in Subs : rows[link].sub = s => stripe[s].status = "canceled"
<1>1. Inv /\ [Next]_vars => [Fair]_tables
  <2> SUFFICES ASSUME Inv, [Next]_vars PROVE UNCHANGED <<rows, link>> \/ Fair
    BY DEF tables
  <2>1. ASSUME NEW h \in Handlers, Handle(h) PROVE UNCHANGED <<rows, link>> \/ Fair
    <3>1. CASE \E e \in pending : CheckoutRead(h, e) \/ UpdatedRead(h, e) \/ DeletedRead(h, e) \/ Skip(h, e)
      BY <3>1 DEF CheckoutRead, UpdatedRead, DeletedRead, Skip, Start, tables
    <3>2. CASE CheckoutCommit(h)
      <4>1. link' \in Rows
        BY <3>2 DEF CheckoutCommit
      <4> QED BY <3>2, <4>1, CheckoutCommitKeeps, ConstantsAssumption
    <3>3. CASE UpdatedCommit(h)
      BY <3>3, UpdatedCommitKeeps DEF UpdatedCommit
    <3>4. CASE DeletedCommit(h)
      BY <3>4, DeletedCommitKeeps DEF DeletedCommit
    <3>5. CASE UpdatedFetch(h) \/ Mark(h) \/ Fail(h)
      BY <3>5 DEF UpdatedFetch, Mark, Fail, tables
    <3> QED BY <2>1, <3>1, <3>2, <3>3, <3>4, <3>5 DEF Handle
  <2>2. ASSUME NEW q \in Requests, Serve(q) PROVE UNCHANGED <<rows, link>> \/ Fair
    <3>1. CASE CancelCommit(q)
      BY <3>1, CancelCommitKeeps DEF CancelCommit
    <3>2. CASE UpgradeCommit(q)
      BY <3>2, UpgradeCommitKeeps DEF UpgradeCommit
    <3>3. CASE CancelRead(q) \/ \E plan \in Plans : UpgradeRead(q, plan)
      BY <3>3 DEF CancelRead, UpgradeRead, Begin, tables
    <3>4. CASE CancelStripe(q) \/ UpgradeStripe(q) \/ RequestFails(q)
      BY <3>4 DEF CancelStripe, UpgradeStripe, RequestFails, tables
    <3> QED BY <2>2, <3>1, <3>2, <3>3, <3>4 DEF Serve
  <2>3. CASE \E s \in Subs : \/ \E plan \in Plans : CheckoutSession(s, plan)
                            \/ Subscribe(s) \/ ChangePayment(s) \/ EndAtStripe(s)
    BY <2>3 DEF CheckoutSession, Subscribe, ChangePayment, EndAtStripe, tables
  <2>4. CASE UNCHANGED vars
    BY <2>4 DEF vars, tables
  <2> QED BY <2>1, <2>2, <2>3, <2>4 DEF Next
<1> QED BY <1>1, InvCorrect, PTL DEF Spec, NoEarlyDowngrade

-----------------------------------------------------------------------------
(* What holds besides, whatever overlaps                                   *)

\* Events are told apart by their numbers, ...
Named == \A e \in pending : e.no <= changes /\ (e.kind # "updated" => e.no = 0)

\* ... a subscription has one row, and only if it has been paid for, ...
OneRow ==
    /\ \A r, t \in Rows : rows[r] # None /\ rows[t] # None /\ rows[r].sub # None
                            /\ rows[r].sub = rows[t].sub => r = t
    /\ \A r \in Rows : rows[r] # None /\ rows[r].sub # None =>
         stripe[rows[r].sub].status \in Status

\* ... and a session is for the plan it was opened for.
SessionPlan == \A s \in Subs : stripe[s].status = "session" => stripe[s].plan = stripe[s].bought

History == Inv /\ Named /\ OneRow /\ SessionPlan

\* A step at Stripe, by the customer or a request: the subscription s becomes v.
StripeMove(s, v) ==
    /\ UNCHANGED <<rows, link, handler>>
    /\ stripe' = [stripe EXCEPT ![s] = v]
    /\ \/ /\ stripe[s].status = "none" /\ v.status = "session" /\ v.plan = v.bought
          /\ UNCHANGED <<changes, pending>>
       \/ /\ stripe[s].status = "session" /\ v.status = "active"
          /\ v.plan = stripe[s].plan /\ v.bought = stripe[s].bought
          /\ UNCHANGED changes /\ pending' = pending \cup {Checkout(s), Updated(s, 0)}
       \/ /\ Alive(s) /\ v.status \in {"active", "past_due"} /\ changes' = changes + 1
          /\ v.bought = stripe[s].bought
          /\ pending' = pending \cup {Updated(s, changes + 1)}
          /\ \/ v.plan = stripe[s].plan
             \/ \E q \in Requests : request[q].pc = "upgrade" /\ request[q].sub = s
       \/ /\ Alive(s) /\ v.status = "canceled" /\ UNCHANGED changes
          /\ pending' = pending \cup {Deleted(s)}

\* The actions that change something at Stripe.
AtStripeStep ==
    \/ \E s \in Subs : \/ \E plan \in Plans : CheckoutSession(s, plan)
                       \/ Subscribe(s) \/ ChangePayment(s) \/ EndAtStripe(s)
    \/ \E q \in Requests : CancelStripe(q) \/ UpgradeStripe(q)

LEMMA Moves ==
    ASSUME Inv, AtStripeStep
    PROVE  \E s \in Subs, v \in AtStripe : StripeMove(s, v)
<1>1. stripe \in [Subs -> AtStripe]
  BY DEF Inv, TypeOK
<1>2. ASSUME NEW s \in Subs, NEW plan \in Plans, CheckoutSession(s, plan)
      PROVE  \E v \in AtStripe : StripeMove(s, v)
  <2> DEFINE v == [status |-> "session", bought |-> plan, plan |-> plan]
  <2>1. v \in AtStripe
    BY DEF AtStripe
  <2>2. /\ UNCHANGED <<rows, link, handler, changes, pending>> /\ stripe' = [stripe EXCEPT ![s] = v]
        /\ stripe[s].status = "none"
    BY <1>2 DEF CheckoutSession, tables
  <2> QED BY <2>1, <2>2 DEF StripeMove
<1>3. ASSUME NEW s \in Subs, Subscribe(s)
      PROVE  \E v \in AtStripe : StripeMove(s, v)
  <2> DEFINE v == [status |-> "active", bought |-> stripe[s].bought, plan |-> stripe[s].plan]
  <2>1. v \in AtStripe /\ v = [stripe[s] EXCEPT !.status = "active"]
    BY <1>1 DEF AtStripe, Status
  <2>2. /\ UNCHANGED <<rows, link, handler, changes>> /\ stripe' = [stripe EXCEPT ![s] = v]
        /\ stripe[s].status = "session" /\ pending' = pending \cup {Checkout(s), Updated(s, 0)}
    BY <1>3, <2>1 DEF Subscribe, tables
  <2> QED BY <2>1, <2>2 DEF StripeMove
<1>4. ASSUME NEW s \in Subs, ChangePayment(s)
      PROVE  \E v \in AtStripe : StripeMove(s, v)
  <2> DEFINE status == IF stripe[s].status = "active" THEN "past_due" ELSE "active"
             v == [status |-> status, bought |-> stripe[s].bought, plan |-> stripe[s].plan]
  <2>1. v \in AtStripe /\ v = [stripe[s] EXCEPT !.status = status]
    BY <1>1 DEF AtStripe, Status
  <2>2. /\ UNCHANGED <<rows, link, handler>> /\ stripe' = [stripe EXCEPT ![s] = v]
        /\ Alive(s) /\ changes' = changes + 1 /\ pending' = pending \cup {Updated(s, changes + 1)}
    BY <1>4, <2>1 DEF ChangePayment, tables
  <2> QED BY <2>1, <2>2 DEF StripeMove
<1>5. ASSUME NEW s \in Subs, Alive(s), stripe' = [stripe EXCEPT ![s].status = "canceled"],
             UNCHANGED <<rows, link, handler, changes>>, pending' = pending \cup {Deleted(s)}
      PROVE  \E v \in AtStripe : StripeMove(s, v)
  <2> DEFINE v == [status |-> "canceled", bought |-> stripe[s].bought, plan |-> stripe[s].plan]
  <2>1. v \in AtStripe /\ v = [stripe[s] EXCEPT !.status = "canceled"]
    BY <1>1 DEF AtStripe, Status
  <2>2. stripe' = [stripe EXCEPT ![s] = v]
    BY <1>5, <2>1
  <2> QED BY <1>5, <2>1, <2>2 DEF StripeMove
<1>6. ASSUME NEW q \in Requests, UpgradeStripe(q)
      PROVE  \E s \in Subs, v \in AtStripe : StripeMove(s, v)
  <2> DEFINE s == request[q].sub
             v == [status |-> stripe[s].status, bought |-> stripe[s].bought,
                   plan |-> request[q].plan]
  <2>1. s \in Subs /\ request[q].plan \in Plans /\ request[q].pc = "upgrade"
    BY <1>6, RequestShape DEF UpgradeStripe, Inv
  <2>2. v \in AtStripe /\ v = [stripe[s] EXCEPT !.plan = request[q].plan]
    BY <1>1, <2>1 DEF AtStripe, Status
  <2>3. /\ UNCHANGED <<rows, link, handler>> /\ stripe' = [stripe EXCEPT ![s] = v]
        /\ Alive(s) /\ changes' = changes + 1 /\ pending' = pending \cup {Updated(s, changes + 1)}
    BY <1>6, <2>2 DEF UpgradeStripe, tables
  <2>4. v.status \in {"active", "past_due"} /\ v.bought = stripe[s].bought
    BY <2>3 DEF Alive
  <2>5. StripeMove(s, v)
    BY <2>1, <2>3, <2>4 DEF StripeMove
  <2> QED BY <2>1, <2>2, <2>3, <2>5
<1>7. ASSUME NEW s \in Subs, EndAtStripe(s)
      PROVE  \E v \in AtStripe : StripeMove(s, v)
  BY <1>5, <1>7 DEF EndAtStripe, tables
<1>8. ASSUME NEW q \in Requests, CancelStripe(q)
      PROVE  \E s \in Subs, v \in AtStripe : StripeMove(s, v)
  <2>1. request[q].sub \in Subs
    BY <1>8, RequestShape, ConstantsAssumption DEF CancelStripe, Inv, Sound, RequestSound
  <2>2. /\ Alive(request[q].sub) /\ UNCHANGED <<rows, link, handler, changes>>
        /\ stripe' = [stripe EXCEPT ![request[q].sub].status = "canceled"]
        /\ pending' = pending \cup {Deleted(request[q].sub)}
    BY <1>8 DEF CancelStripe, tables
  <2> QED BY <1>5, <2>1, <2>2
<1>9. ASSUME NEW s \in Subs,
             \/ \E plan \in Plans : CheckoutSession(s, plan)
             \/ Subscribe(s) \/ ChangePayment(s) \/ EndAtStripe(s)
      PROVE  \E v \in AtStripe : StripeMove(s, v)
  <2>1. CASE \E plan \in Plans : CheckoutSession(s, plan)
    BY <1>2, <2>1
  <2>2. CASE Subscribe(s)
    BY <1>3, <2>2
  <2>3. CASE ChangePayment(s)
    BY <1>4, <2>3
  <2>4. CASE EndAtStripe(s)
    BY <1>7, <2>4
  <2> QED BY <1>9, <2>1, <2>2, <2>3, <2>4
<1>10. ASSUME NEW q \in Requests, CancelStripe(q) \/ UpgradeStripe(q)
      PROVE  \E s \in Subs, v \in AtStripe : StripeMove(s, v)
  <2>1. CASE CancelStripe(q)
    BY <1>8, <2>1
  <2>2. CASE UpgradeStripe(q)
    BY <1>6, <2>2
  <2> QED BY <1>10, <2>1, <2>2
<1>11. CASE \E s \in Subs : \/ \E plan \in Plans : CheckoutSession(s, plan)
                            \/ Subscribe(s) \/ ChangePayment(s) \/ EndAtStripe(s)
  <2>1. PICK s \in Subs : \/ \E plan \in Plans : CheckoutSession(s, plan)
                          \/ Subscribe(s) \/ ChangePayment(s) \/ EndAtStripe(s)
    BY <1>11
  <2> QED BY <1>9, <2>1
<1>12. CASE \E q \in Requests : CancelStripe(q) \/ UpgradeStripe(q)
  <2>1. PICK q \in Requests : CancelStripe(q) \/ UpgradeStripe(q)
    BY <1>12
  <2> QED BY <1>10, <2>1
<1> QED BY <1>11, <1>12 DEF AtStripeStep

LEMMA StripeMoves ==
    ASSUME Inv, [Next]_vars
    PROVE  \/ UNCHANGED <<stripe, changes>> /\ pending' \subseteq pending
           \/ \E s \in Subs, v \in AtStripe : StripeMove(s, v)
<1>1. AtStripeStep \/ (UNCHANGED <<stripe, changes>> /\ pending' \subseteq pending)
  BY DEF AtStripeStep, Next, vars, Handle, Serve, Start, Step, CheckoutRead, CheckoutCommit, Skip,
         UpdatedRead, UpdatedFetch, UpdatedCommit, DeletedRead, DeletedCommit, Mark, Fail, Begin,
         CancelRead, CancelCommit, UpgradeRead, UpgradeCommit, RequestFails
<1> QED BY <1>1, Moves

\* What the commits write.
LEMMA CheckoutWrites ==
    ASSUME Inv, NEW h \in Handlers, CheckoutCommit(h)
    PROVE  /\ Sub(h) \in Subs /\ RowsOf(Sub(h)) = {} /\ handler[h].pc = "create"
           /\ \E n \in Rows :
                /\ rows[n] = None /\ link' = n
                /\ rows'[n] = [sub |-> Sub(h), status |-> "active", plan |-> stripe[Sub(h)].bought]
                /\ rows'[n] # None
                /\ \A r \in Rows \ {n} : /\ rows'[r] # None <=> rows[r] # None
                                         /\ rows[r] # None => rows'[r].sub = rows[r].sub
<1> DEFINE current == handler[h].current
           new == [sub |-> Sub(h), status |-> "active", plan |-> stripe[Sub(h)].bought]
<1>1. /\ handler[h].pc = "create" /\ RowsOf(Sub(h)) = {} /\ Sub(h) \in Subs
      /\ current # None => rows[current] # None
  BY HandlerShape DEF CheckoutCommit, Inv, Sound, HandlerSound, Genuine, Sub, Event
<1>2. PICK n \in Rows :
        /\ rows[n] = None
        /\ rows' = [r \in Rows |-> IF r = n THEN new
                                   ELSE IF r = current THEN [rows[r] EXCEPT !.status = "canceled"]
                                   ELSE rows[r]]
        /\ link' = n
  BY DEF CheckoutCommit
<1>3. new \in Row /\ rows'[n] = new
  BY <1>1, <1>2 DEF Row, Status, Inv, TypeOK, AtStripe
<1>4. ASSUME NEW r \in Rows \ {n}
      PROVE  (rows'[r] # None <=> rows[r] # None) /\ (rows[r] # None => rows'[r].sub = rows[r].sub)
  <2>1. CASE r = current
    <3>1. rows[r] \in Row
      BY <1>1, <2>1, ConstantsAssumption DEF Inv, TypeOK
    <3>2. rows'[r] = [rows[r] EXCEPT !.status = "canceled"]
      BY <1>2, <1>4, <2>1
    <3>3. rows'[r] \in Row /\ rows'[r].sub = rows[r].sub
      BY <3>1, <3>2 DEF Row, Status
    <3> QED BY <3>1, <3>3, NoneAssumption
  <2>2. CASE r # current
    BY <1>2, <1>4, <2>2
  <2> QED BY <2>1, <2>2
<1> QED BY <1>1, <1>2, <1>3, <1>4, NoneAssumption

LEMMA UpdatedWrites ==
    ASSUME Inv, NEW h \in Handlers, UpdatedCommit(h)
    PROVE  LET id == handler[h].id
               fetched == handler[h].fetched
           IN  /\ handler[h].pc = "update" /\ id \in Rows /\ rows[id] # None /\ link' = link
               /\ rows'[id] # None /\ rows'[id].sub = rows[id].sub
               /\ rows'[id].status = fetched.status
               /\ rows[id].plan = handler[h].plan => rows'[id].plan = fetched.plan
               /\ \A r \in Rows \ {id} : rows'[r] = rows[r]
<1> DEFINE id == handler[h].id
           fetched == handler[h].fetched
<1>1. /\ handler[h].pc = "update" /\ id \in Rows /\ rows[id] # None /\ fetched \in AtStripe
      /\ fetched.status \in Status
  BY HandlerShape DEF UpdatedCommit, Inv, Sound, HandlerSound, RowIs
<1>2. rows[id] \in Row
  BY <1>1 DEF Inv, TypeOK
<1>3. /\ rows'[id] \in Row /\ rows'[id].sub = rows[id].sub /\ rows'[id].status = fetched.status
      /\ rows[id].plan = handler[h].plan => rows'[id].plan = fetched.plan
      /\ \A r \in Rows \ {id} : rows'[r] = rows[r]
  <2>1. rows'[id] = [rows[id] EXCEPT !.status = fetched.status,
                       !.plan = IF fetched.plan # handler[h].plan THEN fetched.plan ELSE @]
    BY <1>1, <1>2 DEF UpdatedCommit, Inv, TypeOK, Row
  <2>2. \A r \in Rows \ {id} : rows'[r] = rows[r]
    BY <1>1 DEF UpdatedCommit, Inv, TypeOK
  <2> QED BY <1>1, <1>2, <2>1, <2>2 DEF Row, AtStripe
<1> QED BY <1>1, <1>3, NoneAssumption DEF UpdatedCommit

\* The deletion and the cancellation, of row id.
LEMMA DowngradeWrites ==
    ASSUME Inv, NEW id \in Rows, rows' = Downgraded(id)
    PROVE  /\ rows'[id] # None /\ rows'[id].sub = None
           /\ rows'[id].status = "active" /\ rows'[id].plan = 0
           /\ \A r \in Rows \ {id} : rows'[r] = rows[r]
<1> DEFINE row == [sub |-> None, status |-> "active", plan |-> 0]
<1>1. row \in Row
  BY ConstantsAssumption DEF Row, Plans, Status
<1>2. rows'[id] = row /\ \A r \in Rows \ {id} : rows'[r] = rows[r]
  BY DEF Downgraded, Inv, TypeOK
<1> QED BY <1>1, <1>2, NoneAssumption

LEMMA UpgradeWrites ==
    ASSUME Inv, NEW q \in Requests, UpgradeCommit(q)
    PROVE  LET id == request[q].id
           IN  /\ request[q].pc = "write" /\ id \in Rows /\ rows[id] # None /\ link' = link
               /\ rows'[id] # None /\ rows'[id].sub = rows[id].sub
               /\ \A r \in Rows \ {id} : rows'[r] = rows[r]
<1> DEFINE id == request[q].id
<1>1. request[q].pc = "write" /\ id \in Rows /\ rows[id] # None /\ request[q].plan \in Plans
  BY RequestShape DEF UpgradeCommit, Inv, Sound, RequestSound, RowIs
<1>2. rows[id] \in Row
  BY <1>1 DEF Inv, TypeOK
<1>3. /\ rows'[id] \in Row /\ rows'[id].sub = rows[id].sub
      /\ \A r \in Rows \ {id} : rows'[r] = rows[r]
  BY <1>1, <1>2 DEF UpgradeCommit, Inv, TypeOK, Row
<1> QED BY <1>1, <1>3, NoneAssumption DEF UpgradeCommit

\* Who writes the rows.
LEMMA Writers ==
    ASSUME [Next]_vars
    PROVE  \/ UNCHANGED <<rows, link>>
           \/ \E h \in Handlers : CheckoutCommit(h) \/ UpdatedCommit(h) \/ DeletedCommit(h)
           \/ \E q \in Requests : CancelCommit(q) \/ UpgradeCommit(q)
BY DEF Next, vars, tables, Handle, Serve, Start, Step, CheckoutRead, Skip, UpdatedRead,
       UpdatedFetch, DeletedRead, Mark, Fail, Begin, CancelRead, CancelStripe,
       UpgradeRead, UpgradeStripe, RequestFails, CheckoutSession, Subscribe, ChangePayment,
       EndAtStripe

\* Only a checkout gives a subscription a row.
LEMMA RowsFrom ==
    ASSUME Inv, [Next]_vars, ~\E h \in Handlers : CheckoutCommit(h)
    PROVE  /\ link' = link
           /\ \A r \in Rows : /\ rows'[r] # None <=> rows[r] # None
                              /\ rows'[r] # None /\ rows'[r].sub # None =>
                                   rows[r].sub = rows'[r].sub
<1>1. ASSUME NEW h \in Handlers, DeletedCommit(h)
      PROVE  handler[h].id \in Rows /\ rows[handler[h].id] # None /\ rows' = Downgraded(handler[h].id)
             /\ link' = link
  BY <1>1, HandlerShape DEF DeletedCommit, Inv, Sound, HandlerSound, RowIs
<1>2. ASSUME NEW q \in Requests, CancelCommit(q)
      PROVE  request[q].id \in Rows /\ rows[request[q].id] # None /\ rows' = Downgraded(request[q].id)
             /\ link' = link
  BY <1>2, RequestShape DEF CancelCommit, Inv, Sound, RequestSound, RowIs
<1>3. CASE \E h \in Handlers : UpdatedCommit(h)
  BY <1>3, UpdatedWrites
<1>4. CASE \E h \in Handlers : DeletedCommit(h)
  BY <1>1, <1>4, DowngradeWrites
<1>5. CASE \E q \in Requests : CancelCommit(q)
  BY <1>2, <1>5, DowngradeWrites
<1>6. CASE \E q \in Requests : UpgradeCommit(q)
  BY <1>6, UpgradeWrites
<1> QED BY <1>3, <1>4, <1>5, <1>6, Writers

LEMMA HistoryStep == History /\ [Next]_vars => History'
<1> SUFFICES ASSUME History, [Next]_vars PROVE History'
  OBVIOUS
<1>1. Inv /\ Inv' /\ Named /\ OneRow /\ SessionPlan /\ stripe \in [Subs -> AtStripe] /\ changes \in Nat
  BY InvStep DEF History, Inv, TypeOK
<1>2. Named'
  <2>1. changes <= changes' /\ 0 <= changes /\ changes + 1 <= changes + 1
    BY <1>1, StripeMoves DEF StripeMove
  <2>2. /\ \A s : Checkout(s).no = 0 /\ Deleted(s).no = 0
        /\ \A s, n : Updated(s, n).no = n /\ Updated(s, n).kind = "updated"
    BY DEF Checkout, Updated, Deleted
  <2>3. ASSUME NEW e \in pending' PROVE e.no <= changes' /\ (e.kind # "updated" => e.no = 0)
    <3>1. CASE e \in pending
      <4>1. e.no \in Nat /\ e.no <= changes /\ (e.kind # "updated" => e.no = 0)
        BY <1>1, <3>1 DEF Named, Inv, TypeOK, Event
      <4> QED BY <1>1, <2>1, <4>1, InvStep DEF Inv, TypeOK
    <3>2. CASE e \notin pending
      <4>1. changes' = changes \/ changes' = changes + 1
        BY <1>1, StripeMoves DEF StripeMove
      <4>2. \/ \E s : e = Checkout(s) \/ e = Deleted(s) \/ e = Updated(s, 0)
            \/ changes' = changes + 1 /\ \E s : e = Updated(s, changes + 1)
        BY <1>1, <2>3, <3>2, StripeMoves DEF StripeMove
      <4> QED BY <1>1, <2>1, <2>2, <4>1, <4>2
    <3> QED BY <3>1, <3>2
  <2> QED BY <2>3 DEF Named
<1>3. SessionPlan'
  BY <1>1, StripeMoves DEF SessionPlan, Alive, StripeMove
<1>4. \A s \in Subs : stripe[s].status \in Status => stripe'[s].status \in Status
  BY <1>1, StripeMoves DEF Status, Alive, StripeMove
<1>5. OneRow'
  <2>1. \A r \in Rows : rows[r] # None => rows[r].sub \in Subs \cup {None}
    BY <1>1 DEF Inv, TypeOK, Row
  <2>2. CASE ~\E h \in Handlers : CheckoutCommit(h)
    BY <1>1, <1>4, <2>1, <2>2, RowsFrom DEF OneRow
  <2>3. ASSUME NEW h \in Handlers, CheckoutCommit(h) PROVE OneRow'
    <3>1. UNCHANGED stripe /\ stripe[Sub(h)].status \in Status
      BY <1>1, <2>3, CheckoutWrites
      DEF CheckoutCommit, Step, Inv, Sound, HandlerSound, Genuine, Sub
    <3>2. \A r \in Rows : rows[r] # None => rows[r].sub # Sub(h)
      BY <1>1, <2>3, CheckoutWrites DEF RowsOf
    <3>3. PICK n \in Rows :
            /\ rows'[n] = [sub |-> Sub(h), status |-> "active", plan |-> stripe[Sub(h)].bought]
            /\ \A r \in Rows \ {n} : /\ rows'[r] # None <=> rows[r] # None
                                     /\ rows[r] # None => rows'[r].sub = rows[r].sub
      BY <1>1, <2>3, CheckoutWrites
    <3>4. rows'[n].sub = Sub(h)
      BY <3>3
    <3>5. \A r \in Rows \ {n} : rows'[r] # None => rows[r] # None /\ rows'[r].sub = rows[r].sub
      BY <3>3
    <3> QED BY <1>1, <3>1, <3>2, <3>4, <3>5 DEF OneRow
  <2> QED BY <2>2, <2>3
<1> QED BY <1>1, <1>2, <1>3, <1>5 DEF History

-----------------------------------------------------------------------------
(* While nothing overlaps and no event is ahead of its checkout            *)

\* One handler or request at a time.
Alone ==
    /\ \A g, h \in Handlers : handler[g].pc # "idle" /\ handler[h].pc # "idle" => g = h
    /\ \A p, q \in Requests : request[p].pc # "idle" /\ request[q].pc # "idle" => p = q
    /\ \A h \in Handlers, q \in Requests : handler[h].pc = "idle" \/ request[q].pc = "idle"

Holds(h, e) == handler[h].pc # "idle" /\ handler[h].event = e

\* An event is pending that tells of the state of s: no handler has it, or one that
\* has not gone past it and has fetched nothing else than what is at Stripe now.
Tells(e, s) ==
    /\ e.sub = s /\ e.kind # "checkout"
    /\ \A h \in Handlers : Holds(h, e) =>
         /\ handler[h].pc \in {"fetch", "update", "delete"}
         /\ handler[h].pc = "update" => handler[h].fetched = stripe[s]

Told(s) == \E e \in pending : Tells(e, s)

\* A handler's event is pending and its row the one of its subscription, as read.
HandlersMatch ==
    \A h \in Handlers :
        /\ handler[h].pc # "idle" => handler[h].event \in pending
        /\ handler[h].pc = "create" => handler[h].event.kind = "checkout"
        /\ handler[h].pc \in {"fetch", "update"} =>
             /\ handler[h].event.kind = "updated" /\ handler[h].plan = rows[handler[h].id].plan
        /\ handler[h].pc \in {"fetch", "update", "delete"} => rows[handler[h].id].sub = Sub(h)
        /\ handler[h].pc = "update" => handler[h].fetched = stripe[Sub(h)] \/ Told(Sub(h))

\* A request's row is the linked one, as read.
RequestsMatch ==
    \A q \in Requests : request[q].pc # "idle" =>
        /\ link = request[q].id /\ rows[link].sub = request[q].sub
        /\ request[q].pc = "write" => Told(request[q].sub)

\* The end of a subscription that has a row, or may get one, is still to be handled, ...
EndTold ==
    \A s \in Subs : stripe[s].status = "canceled" /\ (RowsOf(s) # {} \/ Checkout(s) \in pending) =>
        /\ Deleted(s) \in pending
        /\ \A h \in Handlers : Holds(h, Deleted(s)) => handler[h].pc = "delete"

\* ... as is the checkout of one that has none and goes on.
CheckoutTold ==
    \A s \in Subs : Alive(s) /\ RowsOf(s) = {} =>
        /\ stripe[s].plan = stripe[s].bought /\ Checkout(s) \in pending
        /\ \A h \in Handlers : Holds(h, Checkout(s)) => handler[h].pc = "create"

Shows(s, status, plan) ==
    Alive(s) /\ status = stripe[s].status /\ plan = stripe[s].plan

\* The row that is linked shows what is at Stripe, and so does the one that a checkout
\* is going to create, or an event will tell.
Reflecting ==
    /\ \A s \in Subs : stripe[s].status \in Status /\ RowsOf(s) = {} /\ Checkout(s) \in pending =>
         Shows(s, "active", stripe[s].bought) \/ Told(s)
    /\ link # None => LET row == rows[link]
                      IN  IF row.sub = None THEN row.status = "active" /\ row.plan = 0
                          ELSE Shows(row.sub, row.status, row.plan) \/ Told(row.sub)

Orderly == Alone /\ HandlersMatch /\ RequestsMatch /\ EndTold /\ CheckoutTold /\ Reflecting

Serial == ~disturbed => Orderly

LEMMA UndisturbedStep ==
    ASSUME [Next]_vars, ~disturbed'
    PROVE  ~disturbed
BY ZenonT(60)
DEF Next, vars, Handle, Serve, Start, Step, CheckoutRead, CheckoutCommit, Skip, UpdatedRead,
    UpdatedFetch, UpdatedCommit, DeletedRead, DeletedCommit, Mark, Fail, Begin, CancelRead,
    CancelStripe, CancelCommit, UpgradeRead, UpgradeStripe, UpgradeCommit, RequestFails,
    CheckoutSession, Subscribe, ChangePayment, EndAtStripe

\* A handler that does something is the only one that runs, before and after.
LEMMA HandlerAlone ==
    ASSUME Inv, Alone, ~disturbed', NEW h \in Handlers, Handle(h)
    PROVE  /\ UNCHANGED request /\ \A q \in Requests : request[q].pc = "idle"
           /\ \A g \in Handlers \ {h} : handler[g].pc = "idle" /\ handler'[g] = handler[g]
           /\ \E next : handler' = [handler EXCEPT ![h] = next]
<1>1. /\ handler \in [Handlers -> Handling] /\ request \in [Requests -> Request]
  BY DEF Inv, TypeOK
<1>2. UNCHANGED request /\ \E next : handler' = [handler EXCEPT ![h] = next]
  BY DEF Handle, Start, Step, CheckoutRead, CheckoutCommit, Skip, UpdatedRead,
         UpdatedFetch, UpdatedCommit, DeletedRead, DeletedCommit, Mark, Fail
<1>3. handler[h].pc # "idle" \/ ~Busy
  <2>1. CASE \E e \in pending : CheckoutRead(h, e) \/ UpdatedRead(h, e) \/ DeletedRead(h, e) \/ Skip(h, e)
    <3>1. PICK e \in pending : CheckoutRead(h, e) \/ UpdatedRead(h, e) \/ DeletedRead(h, e) \/ Skip(h, e)
      BY <2>1
    <3>2. disturbed' = (disturbed \/ Busy) \/ disturbed' = (disturbed \/ Busy \/ Checkout(e.sub) \in pending)
      BY <3>1, Zenon DEF CheckoutRead, UpdatedRead, DeletedRead, Skip, Start
    <3> QED BY <3>2, Zenon
  <2>2. CASE CheckoutCommit(h) \/ UpdatedFetch(h) \/ UpdatedCommit(h) \/ DeletedCommit(h)
             \/ Mark(h) \/ Fail(h)
    BY <1>1, <2>2, HandlerShape
    DEF Inv, CheckoutCommit, UpdatedFetch, UpdatedCommit, DeletedCommit, Mark, Fail
  <2> QED BY <2>1, <2>2 DEF Handle
<1>4. ASSUME ~Busy PROVE /\ \A g \in Handlers : handler[g].pc = "idle"
                         /\ \A q \in Requests : request[q].pc = "idle"
  BY <1>4 DEF Busy, Idle
<1> QED BY <1>1, <1>2, <1>3, <1>4 DEF Alone

\* Likewise a request.
LEMMA RequestAlone ==
    ASSUME Inv, Alone, ~disturbed', NEW q \in Requests, Serve(q)
    PROVE  /\ UNCHANGED handler /\ \A h \in Handlers : handler[h].pc = "idle"
           /\ \A p \in Requests \ {q} : request[p].pc = "idle" /\ request'[p] = request[p]
<1>1. /\ handler \in [Handlers -> Handling] /\ request \in [Requests -> Request]
  BY DEF Inv, TypeOK
<1>2. UNCHANGED handler /\ \A p \in Requests \ {q} : request'[p] = request[p]
  BY <1>1 DEF Serve, Begin, CancelRead, CancelStripe, CancelCommit, UpgradeRead, UpgradeStripe,
              UpgradeCommit, RequestFails
<1>3. request[q].pc # "idle" \/ ~Busy
  <2>1. CASE CancelRead(q) \/ \E plan \in Plans : UpgradeRead(q, plan)
    BY <2>1, ZenonT(30) DEF CancelRead, UpgradeRead, Begin
  <2>2. CASE CancelStripe(q) \/ CancelCommit(q) \/ UpgradeStripe(q) \/ UpgradeCommit(q)
             \/ RequestFails(q)
    <3>1. request[q].pc \in {"cancel", "downgrade", "upgrade", "write"} \/ request[q] # Idle
      BY <2>2 DEF CancelStripe, CancelCommit, UpgradeStripe, UpgradeCommit, RequestFails
    <3> QED BY <3>1, RequestShape DEF Inv
  <2> QED BY <2>1, <2>2 DEF Serve
<1>4. ASSUME ~Busy PROVE /\ \A g \in Handlers : handler[g].pc = "idle"
                         /\ \A p \in Requests : request[p].pc = "idle"
  BY <1>4 DEF Busy, Idle
<1> QED BY <1>1, <1>2, <1>3, <1>4 DEF Alone

LEMMA AloneStep ==
    ASSUME Inv, Alone, [Next]_vars, ~disturbed'
    PROVE  Alone'
<1>1. ASSUME NEW h \in Handlers, Handle(h) PROVE Alone'
  BY <1>1, HandlerAlone DEF Alone
<1>2. ASSUME NEW q \in Requests, Serve(q) PROVE Alone'
  BY <1>2, RequestAlone DEF Alone
<1>3. CASE UNCHANGED <<handler, request>>
  BY <1>3 DEF Alone
<1>4. \/ UNCHANGED <<handler, request>>
      \/ \E h \in Handlers : Handle(h)
      \/ \E q \in Requests : Serve(q)
  BY DEF Next, vars, CheckoutSession, Subscribe, ChangePayment, EndAtStripe
<1> QED BY <1>1, <1>2, <1>3, <1>4

\* A change at Stripe is told by its event.
LEMMA StripeTells ==
    ASSUME History, Orderly, NEW s \in Subs, NEW v \in AtStripe, StripeMove(s, v)
    PROVE  /\ stripe[s].status \in Status => Told(s)'
           /\ \A t \in Subs : Told(t) => Told(t)'
<1>1. /\ stripe \in [Subs -> AtStripe] /\ pending \subseteq pending' /\ UNCHANGED handler
      /\ stripe' = [stripe EXCEPT ![s] = v]
      /\ \A h \in Handlers : handler[h].pc # "idle" => handler[h].event \in pending
      /\ \A e \in pending : Genuine(e) /\ e.no <= changes /\ e.sub \in Subs
      /\ changes \in Nat
  BY DEF History, Orderly, HandlersMatch, Inv, TypeOK, Sound, Named, StripeMove, Event
<1>2. ASSUME NEW e, e \in pending', e \notin pending, e.sub = s, e.kind # "checkout"
      PROVE  Told(s)'
  <2>1. \A h \in Handlers : ~Holds(h, e)'
    BY <1>1, <1>2 DEF Holds
  <2> QED BY <1>2, <2>1 DEF Told, Tells
<1>3. ASSUME stripe[s].status \in Status PROVE Told(s)'
  <2>1. CASE Updated(s, changes + 1) \in pending'
    <3>1. /\ Updated(s, changes + 1).sub = s /\ Updated(s, changes + 1).kind # "checkout"
          /\ Updated(s, changes + 1).no = changes + 1 /\ ~(changes + 1 <= changes)
      BY <1>1 DEF Updated
    <3> QED BY <1>1, <1>2, <2>1, <3>1
  <2>2. CASE Deleted(s) \in pending' /\ Alive(s)
    <3>1. /\ Deleted(s).sub = s /\ Deleted(s).kind = "deleted"
      BY DEF Deleted
    <3>2. Deleted(s) \notin pending
      BY <1>1, <2>2, <3>1 DEF Genuine, Alive
    <3> QED BY <1>2, <2>2, <3>1, <3>2
  <2> QED BY <1>3, <2>1, <2>2 DEF StripeMove, Status
<1>4. ASSUME NEW t \in Subs, Told(t) PROVE Told(t)'
  <2>1. PICK e \in pending : Tells(e, t)
    BY <1>4 DEF Told
  <2>2. CASE t = s
    BY <1>1, <1>3, <2>1, <2>2 DEF Tells, Genuine
  <2>3. CASE t # s
    <3>1. stripe'[t] = stripe[t]
      BY <1>1, <2>3
    <3>2. Tells(e, t)'
      BY <1>1, <2>1, <3>1 DEF Tells, Holds
    <3> QED BY <1>1, <3>2 DEF Told
  <2> QED BY <2>2, <2>3
<1> QED BY <1>3, <1>4

LEMMA StripeKeeps ==
    ASSUME History, Orderly, NEW s \in Subs, NEW v \in AtStripe, StripeMove(s, v)
    PROVE  HandlersMatch' /\ EndTold' /\ CheckoutTold' /\ Reflecting'
<1>1. /\ stripe \in [Subs -> AtStripe] /\ pending \subseteq pending'
      /\ UNCHANGED <<handler, rows, link>>
      /\ stripe'[s] = v /\ \A t \in Subs : t # s => stripe'[t] = stripe[t]
      /\ \A h \in Handlers : handler[h].pc # "idle" => handler[h].event \in pending
      /\ \A e \in pending : Genuine(e) /\ e.sub \in Subs
  BY DEF History, Orderly, HandlersMatch, Inv, TypeOK, Sound, StripeMove, Event
<1>2. /\ stripe[s].status \in Status => Told(s)'
      /\ \A t \in Subs : Told(t) => Told(t)'
  BY StripeTells
<1>3. \A t \in Subs : RowsOf(t)' = RowsOf(t)
  BY <1>1 DEF RowsOf
\* A new event is held by no handler.
<1>4. \A e : e \notin pending => \A h \in Handlers : ~Holds(h, e)'
  BY <1>1 DEF Holds
<1>5. \A e : \A h \in Handlers : Holds(h, e)' <=> Holds(h, e)
  BY <1>1 DEF Holds
<1>6. HandlersMatch'
  <2>1. ASSUME NEW h \in Handlers, NEW t, t = handler'[h].event.sub, handler'[h].pc = "update"
        PROVE  handler'[h].fetched = stripe'[t] \/ Told(t)'
    <3>1. t = Sub(h) /\ handler[h].pc = "update"
      BY <1>1, <2>1 DEF Sub
    <3>2. t \in Subs /\ stripe[t].status \in Status
      BY <1>1, <3>1 DEF Sub, Genuine
    <3>3. handler[h].fetched = stripe[t] \/ Told(t)
      BY <3>1 DEF Orderly, HandlersMatch
    <3> QED BY <1>1, <1>2, <3>2, <3>3
  <2> QED BY <1>1, <2>1 DEF Orderly, HandlersMatch, Sub
<1>7. EndTold'
  <2> SUFFICES ASSUME NEW t \in Subs, stripe'[t].status = "canceled",
                      RowsOf(t) # {} \/ Checkout(t) \in pending'
               PROVE  /\ Deleted(t) \in pending'
                      /\ \A h \in Handlers : Holds(h, Deleted(t)) => handler[h].pc = "delete"
    BY <1>1, <1>3, <1>5 DEF EndTold
  <2>1. CASE t # s
    <3>1. Checkout(t) \in pending' => Checkout(t) \in pending
      <4>1. Checkout(t).sub = t /\ Checkout(s).sub = s /\ Updated(s, 0).sub = s
            /\ Updated(s, changes + 1).sub = s /\ Deleted(s).sub = s
        BY DEF Checkout, Updated, Deleted
      <4> QED BY <2>1, <4>1 DEF StripeMove
    <3> QED BY <1>1, <2>1, <3>1 DEF Orderly, EndTold
  <2>2. CASE t = s
    <3>1. Alive(s) /\ pending' = pending \cup {Deleted(s)}
      BY <1>1, <2>2 DEF StripeMove
    <3>2. Deleted(s) \notin pending
      BY <1>1, <3>1 DEF Genuine, Alive, Deleted
    <3> QED BY <1>4, <1>5, <2>2, <3>1, <3>2
  <2> QED BY <2>1, <2>2
<1>8. CheckoutTold'
  <2> SUFFICES ASSUME NEW t \in Subs, Alive(t)', RowsOf(t) = {}
               PROVE  /\ stripe'[t].plan = stripe'[t].bought /\ Checkout(t) \in pending'
                      /\ \A h \in Handlers : Holds(h, Checkout(t)) => handler[h].pc = "create"
    BY <1>1, <1>3, <1>5 DEF CheckoutTold
  <2>1. CASE t # s
    BY <1>1, <2>1 DEF Orderly, CheckoutTold, Alive
  <2>2. CASE t = s /\ stripe[s].status = "session"
    <3>1. Checkout(s) \in pending' /\ Checkout(s) \notin pending
      BY <1>1, <2>2 DEF StripeMove, Alive, Genuine, Checkout, Status
    <3> QED BY <1>1, <1>4, <1>5, <2>2, <3>1 DEF StripeMove, Alive, History, SessionPlan
  <2>3. CASE t = s /\ Alive(s)
    <3>1. ~\E q \in Requests : request[q].pc = "upgrade" /\ request[q].sub = s
      <4>1. ASSUME NEW q \in Requests, request[q].pc = "upgrade", request[q].sub = s PROVE FALSE
        <5>1. link = request[q].id /\ rows[link].sub = s /\ RowIs(link, s)
          BY <4>1 DEF Orderly, RequestsMatch, History, Inv, Sound, RequestSound
        <5> QED BY <2>3, <5>1 DEF RowsOf, RowIs
      <4> QED BY <4>1
    <3>2. v.plan = stripe[s].plan /\ v.bought = stripe[s].bought
      BY <1>1, <2>2, <2>3, <3>1 DEF StripeMove, Alive
    <3> QED BY <1>1, <2>3, <3>2 DEF Orderly, CheckoutTold
  <2> QED BY <1>1, <2>1, <2>2, <2>3 DEF StripeMove, Alive
<1>9. Reflecting'
  <2>1. ASSUME NEW t \in Subs, stripe'[t].status \in Status, RowsOf(t) = {}, Checkout(t) \in pending'
        PROVE  Shows(t, "active", stripe[t].bought)' \/ Told(t)'
    <3>1. CASE t # s
      <4>1. Checkout(t).sub = t /\ Checkout(s).sub = s /\ Updated(s, 0).sub = s
            /\ Updated(s, changes + 1).sub = s /\ Deleted(s).sub = s
        BY DEF Checkout, Updated, Deleted
      <4>2. Checkout(t) \in pending
        BY <2>1, <3>1, <4>1 DEF StripeMove
      <4> QED BY <1>1, <1>2, <2>1, <3>1, <4>2 DEF Orderly, Reflecting, Shows, Alive
    <3>2. CASE t = s /\ stripe[s].status = "session"
      BY <1>1, <3>2 DEF StripeMove, History, SessionPlan, Shows, Alive
    <3>3. CASE t = s /\ stripe[s].status # "session"
      BY <1>1, <1>2, <2>1, <3>3 DEF StripeMove, Status, Alive
    <3> QED BY <3>1, <3>2, <3>3
  <2>2. ASSUME link # None, rows[link].sub # None
        PROVE  Shows(rows[link].sub, rows[link].status, rows[link].plan)' \/ Told(rows[link].sub)'
    <3> DEFINE t == rows[link].sub
    <3>1. link \in Rows /\ rows[link] # None /\ t \in Subs /\ stripe[t].status \in Status
      BY <2>2 DEF History, Inv, TypeOK, Sound, Row, OneRow
    <3>2. Shows(t, rows[link].status, rows[link].plan) \/ Told(t)
      BY <2>2 DEF Orderly, Reflecting
    <3>3. ASSUME NEW u \in Subs, u = t PROVE Shows(u, rows[link].status, rows[link].plan)' \/ Told(u)'
      BY <1>1, <1>2, <3>1, <3>2, <3>3 DEF Shows, Alive
    <3> QED BY <1>1, <3>1, <3>3 DEF Shows, Told, Tells, Alive
  <2> QED BY <1>1, <1>3, <2>1, <2>2 DEF Orderly, Reflecting
<1> QED BY <1>6, <1>7, <1>8, <1>9

\* What every step of a handler leaves alone.
LEMMA HandlerFrame ==
    ASSUME History, Orderly, ~disturbed', NEW h \in Handlers, Handle(h)
    PROVE  /\ RequestsMatch' /\ UNCHANGED stripe
           /\ \A g \in Handlers \ {h} : handler[g].pc = "idle" /\ handler'[g].pc = "idle"
           /\ \A e \in pending : e \in Event
           /\ \A e \in pending : e.kind = "checkout" => e = Checkout(e.sub)
           /\ \A e \in pending : e.kind = "deleted" => e = Deleted(e.sub)
<1>1. UNCHANGED stripe
  BY DEF Handle, Start, Step, CheckoutRead, CheckoutCommit, Skip, UpdatedRead,
         UpdatedFetch, UpdatedCommit, DeletedRead, DeletedCommit, Mark, Fail
<1>2. RequestsMatch'
  BY HandlerAlone DEF Orderly, History, RequestsMatch
<1>3. \A e \in pending : e \in Event /\ (e.kind # "updated" => e.no = 0)
  BY DEF History, Named, Inv, TypeOK
<1>4. /\ \A e \in pending : e.kind = "checkout" => e = Checkout(e.sub)
      /\ \A e \in pending : e.kind = "deleted" => e = Deleted(e.sub)
  BY <1>3 DEF Event, Checkout, Deleted
<1> QED BY <1>1, <1>2, <1>3, <1>4, HandlerAlone DEF Orderly, History

\* A handler that has been given an event e and has read the rows.
LEMMA ReadStep ==
    ASSUME History, Orderly, NEW h \in Handlers, NEW e \in pending, NEW next,
           \A g \in Handlers : handler[g].pc = "idle",
           handler' = [handler EXCEPT ![h] = next],
           UNCHANGED <<stripe, pending, rows, link>>,
           e \in Event, e.kind = "checkout" => e = Checkout(e.sub),
           next.event = e, next.pc \in {"mark", "create", "fetch", "delete"},
           next.pc = "create" => e.kind = "checkout",
           next.pc = "fetch" => e.kind = "updated" /\ next.plan = rows[next.id].plan,
           next.pc \in {"fetch", "delete"} => rows[next.id].sub = e.sub,
           e.kind = "deleted" => next.pc \in {"delete", "mark"},
           e.kind = "checkout" => next.pc = "create" \/ RowsOf(e.sub) # {},
           e.kind # "checkout" /\ next.pc = "mark" =>
             RowsOf(e.sub) = {} /\ Checkout(e.sub) \notin pending
    PROVE  HandlersMatch' /\ EndTold' /\ CheckoutTold' /\ Reflecting'
<1>1. /\ handler'[h] = next /\ \A g \in Handlers \ {h} : handler'[g].pc = "idle"
  BY DEF History, Inv, TypeOK
<1>2. \A d : \A g \in Handlers : Holds(g, d)' <=> g = h /\ d = e
  BY <1>1 DEF Holds
<1>3. \A t : RowsOf(t)' = RowsOf(t)
  BY DEF RowsOf
<1>4. ASSUME NEW t, Told(t), t # e.sub \/ RowsOf(t) # {} \/ Checkout(t) \in pending PROVE Told(t)'
  <2>1. PICK d \in pending : Tells(d, t)
    BY <1>4 DEF Told
  <2>2. d = e => next.pc \in {"fetch", "delete"}
    BY <1>4, <2>1 DEF Tells, Event
  <2>3. Tells(d, t)'
    BY <1>1, <1>2, <2>1, <2>2 DEF Tells
  <2> QED BY <2>1, <2>3 DEF Told
<1>5. HandlersMatch'
  BY <1>1 DEF HandlersMatch, Sub
<1>6. \A s : /\ Checkout(s).sub = s /\ Checkout(s).kind = "checkout"
             /\ Deleted(s).sub = s /\ Deleted(s).kind = "deleted"
  BY DEF Checkout, Deleted
<1>7. EndTold'
  BY <1>1, <1>2, <1>3, <1>6 DEF Orderly, EndTold
<1>8. CheckoutTold'
  BY <1>1, <1>2, <1>3, <1>6 DEF Orderly, CheckoutTold, Alive
<1>9. \A t \in Subs : stripe'[t].status \in Status /\ RowsOf(t)' = {} /\ Checkout(t) \in pending' =>
        Shows(t, "active", stripe[t].bought)' \/ Told(t)'
  BY <1>3, <1>4 DEF Orderly, Reflecting, Shows, Alive
<1>10. ASSUME link # None, rows[link].sub # None
       PROVE  Shows(rows[link].sub, rows[link].status, rows[link].plan) \/ Told(rows[link].sub)'
  <2>1. link \in RowsOf(rows[link].sub)
    BY <1>10 DEF History, Inv, TypeOK, Sound, RowsOf
  <2>2. Shows(rows[link].sub, rows[link].status, rows[link].plan) \/ Told(rows[link].sub)
    BY <1>10 DEF Orderly, Reflecting
  <2>3. ASSUME NEW t, t = rows[link].sub, Told(t) PROVE Told(t)'
    BY <1>4, <2>1, <2>3
  <2>4. ASSUME Told(rows[link].sub) PROVE Told(rows[link].sub)'
    <3>1. \A t : t = rows[link].sub /\ Told(t) => Told(t)'
      BY <2>3
    <3> QED BY <2>4, <3>1 DEF Told, Tells
  <2> QED BY <2>2, <2>4
<1>11. link # None /\ rows[link].sub = None => rows[link].status = "active" /\ rows[link].plan = 0
  BY DEF Orderly, Reflecting
<1>12. Reflecting'
  BY <1>9, <1>10, <1>11 DEF Reflecting, Shows, Alive
<1> QED BY <1>5, <1>7, <1>8, <1>12

LEMMA ReadOrderly ==
    ASSUME History, Orderly, ~disturbed', NEW h \in Handlers, NEW e \in pending,
           CheckoutRead(h, e) \/ UpdatedRead(h, e) \/ DeletedRead(h, e) \/ Skip(h, e)
    PROVE  HandlersMatch' /\ EndTold' /\ CheckoutTold' /\ Reflecting'
<1>1. /\ handler[h] = Idle /\ ~Busy /\ UNCHANGED <<stripe, pending, rows, link>>
  <2>1. /\ handler[h] = Idle /\ UNCHANGED <<stripe, pending, rows, link>>
    BY DEF CheckoutRead, UpdatedRead, DeletedRead, Skip, Start, Step, tables
  <2>2. disturbed' = (disturbed \/ Busy) \/ disturbed' = (disturbed \/ Busy \/ Checkout(e.sub) \in pending)
    BY Zenon DEF CheckoutRead, UpdatedRead, DeletedRead, Skip, Start
  <2>3. ~Busy
    BY <2>2, Zenon
  <2> QED BY <2>1, <2>3
<1>2. \A g \in Handlers : handler[g].pc = "idle"
  BY <1>1 DEF Busy, Idle
<1>3. e \in Event /\ (e.kind = "checkout" => e = Checkout(e.sub))
  <2>1. Handle(h)
    BY DEF Handle
  <2> QED BY <2>1, HandlerFrame
<1>4. CASE CheckoutRead(h, e)
  <2> DEFINE next == IF RowsOf(e.sub) # {} THEN [pc |-> "mark", event |-> e]
                     ELSE [pc |-> "create", event |-> e, current |-> link]
  <2>1. e.kind = "checkout" /\ handler' = [handler EXCEPT ![h] = next]
    BY <1>4 DEF CheckoutRead, Start, Step
  <2>2. /\ next.event = e /\ next.pc \in {"mark", "create"}
        /\ next.pc = "create" \/ RowsOf(e.sub) # {}
    OBVIOUS
  <2> HIDE DEF next
  <2> QED BY <1>1, <1>2, <1>3, <2>1, <2>2, ReadStep
<1>5. CASE UpdatedRead(h, e)
  <2>1. PICK r \in RowsOf(e.sub) :
          handler' = [handler EXCEPT ![h] = [pc |-> "fetch", event |-> e, id |-> r, plan |-> rows[r].plan]]
    BY <1>5 DEF UpdatedRead, Start, Step
  <2> DEFINE next == [pc |-> "fetch", event |-> e, id |-> r, plan |-> rows[r].plan]
  <2>2. /\ next.event = e /\ next.pc = "fetch" /\ next.plan = rows[next.id].plan
        /\ rows[next.id].sub = e.sub /\ e.kind = "updated"
    BY <1>5 DEF RowsOf, UpdatedRead
  <2>3. handler' = [handler EXCEPT ![h] = next]
    BY <2>1
  <2> HIDE DEF next
  <2> QED BY <1>1, <1>2, <1>3, <2>2, <2>3, ReadStep
<1>6. CASE DeletedRead(h, e)
  <2>1. PICK r \in RowsOf(e.sub) :
          handler' = [handler EXCEPT ![h] = [pc |-> "delete", event |-> e, id |-> r]]
    BY <1>6 DEF DeletedRead, Start, Step
  <2> DEFINE next == [pc |-> "delete", event |-> e, id |-> r]
  <2>2. /\ next.event = e /\ next.pc = "delete" /\ rows[next.id].sub = e.sub /\ e.kind = "deleted"
    BY <1>6 DEF RowsOf, DeletedRead
  <2>3. handler' = [handler EXCEPT ![h] = next]
    BY <2>1
  <2> HIDE DEF next
  <2> QED BY <1>1, <1>2, <1>3, <2>2, <2>3, ReadStep
<1>7. CASE Skip(h, e)
  <2> DEFINE next == [pc |-> "mark", event |-> e]
  <2>1. /\ e.kind # "checkout" /\ RowsOf(e.sub) = {} /\ handler' = [handler EXCEPT ![h] = next]
    BY <1>7 DEF Skip, Step
  <2>2. Checkout(e.sub) \notin pending
    BY <1>7, Zenon DEF Skip
  <2>3. next.event = e /\ next.pc = "mark"
    OBVIOUS
  <2> HIDE DEF next
  <2> QED BY <1>1, <1>2, <1>3, <2>1, <2>2, <2>3, ReadStep
<1> QED BY <1>4, <1>5, <1>6, <1>7

\* Neither a fetch nor the end of a handler's run writes the rows.
LEMMA FetchOrderly ==
    ASSUME History, Orderly, ~disturbed', NEW h \in Handlers, UpdatedFetch(h)
    PROVE  HandlersMatch' /\ EndTold' /\ CheckoutTold' /\ Reflecting'
<1> DEFINE next == [pc |-> "update", event |-> handler[h].event, id |-> handler[h].id,
                    plan |-> handler[h].plan, fetched |-> stripe[Sub(h)]]
<1>1. /\ handler[h].pc = "fetch" /\ UNCHANGED <<stripe, pending, rows, link>>
      /\ handler' = [handler EXCEPT ![h] = next]
  BY DEF UpdatedFetch, Step, tables
<1>2. /\ handler'[h] = next /\ \A g \in Handlers \ {h} : handler'[g] = handler[g]
  BY <1>1 DEF History, Inv, TypeOK
<1>3. /\ next.pc = "update" /\ next.event = handler[h].event /\ next.id = handler[h].id
      /\ next.plan = handler[h].plan /\ next.fetched = stripe[Sub(h)]
  OBVIOUS
<1> HIDE DEF next
<1>4. \A d : \A g \in Handlers : Holds(g, d)' <=> Holds(g, d)
  BY <1>1, <1>2, <1>3 DEF Holds
<1>5. \A t : RowsOf(t)' = RowsOf(t)
  BY <1>1 DEF RowsOf
<1>6. ASSUME NEW t, NEW d \in pending, Tells(d, t) PROVE Tells(d, t)'
  <2>1. ASSUME NEW g \in Handlers, Holds(g, d)
        PROVE  /\ handler'[g].pc \in {"fetch", "update", "delete"}
               /\ handler'[g].pc = "update" => handler'[g].fetched = stripe[t]
    <3>1. CASE g = h
      BY <1>2, <1>3, <1>6, <2>1, <3>1 DEF Tells, Holds, Sub
    <3>2. CASE g # h
      BY <1>2, <1>6, <2>1, <3>2 DEF Tells
    <3> QED BY <3>1, <3>2
  <2> QED BY <1>1, <1>4, <1>6, <2>1 DEF Tells
<1>7. \A t : Told(t) => Told(t)'
  BY <1>1, <1>6 DEF Told
<1>8. HandlersMatch'
  <2>1. ASSUME NEW g \in Handlers, NEW t, t = handler'[g].event.sub, handler'[g].pc = "update"
        PROVE  handler'[g].fetched = stripe[t] \/ Told(t)'
    <3>1. CASE g = h
      BY <1>2, <1>3, <2>1, <3>1 DEF Sub
    <3>2. CASE g # h
      <4>1. handler[g].fetched = stripe[t] \/ Told(t)
        <5>1. t = Sub(g) /\ handler[g].pc = "update"
          BY <1>2, <2>1, <3>2 DEF Sub
        <5> QED BY <5>1 DEF Orderly, HandlersMatch
      <4> QED BY <1>2, <1>7, <3>2, <4>1
    <3> QED BY <3>1, <3>2
  <2> QED BY <1>1, <1>2, <1>3, <2>1 DEF Orderly, HandlersMatch, Sub
<1>9. EndTold'
  <2>1. \A s : Holds(h, Deleted(s)) => FALSE
    BY <1>1 DEF Holds, Orderly, HandlersMatch, Deleted
  <2> QED BY <1>1, <1>2, <1>4, <1>5, <2>1 DEF Orderly, EndTold
<1>10. CheckoutTold'
  <2>1. \A s : Holds(h, Checkout(s)) => FALSE
    BY <1>1 DEF Holds, Orderly, HandlersMatch, Checkout
  <2> QED BY <1>1, <1>2, <1>4, <1>5, <2>1 DEF Orderly, CheckoutTold, Alive
<1>11. Reflecting'
  BY <1>1, <1>5, <1>7 DEF Orderly, Reflecting, Shows, Alive
<1> QED BY <1>8, <1>9, <1>10, <1>11

LEMMA EndRunOrderly ==
    ASSUME History, Orderly, ~disturbed', NEW h \in Handlers, Mark(h) \/ Fail(h)
    PROVE  HandlersMatch' /\ EndTold' /\ CheckoutTold' /\ Reflecting'
<1>1. /\ UNCHANGED <<stripe, rows, link>> /\ handler' = [handler EXCEPT ![h] = Idle]
      /\ \/ handler[h].pc = "mark" /\ pending' = pending \ {handler[h].event}
         \/ pending' = pending
  BY DEF Mark, Fail, tables
<1>2. /\ \A g \in Handlers \ {h} : handler[g].pc = "idle"
      /\ \A e \in pending : e \in Event
      /\ \A e \in pending : e.kind = "deleted" => e = Deleted(e.sub)
      /\ \A e \in pending : e.kind = "checkout" => e = Checkout(e.sub)
  <2>1. Handle(h)
    BY DEF Handle
  <2> QED BY <2>1, HandlerFrame
<1>3. \A g \in Handlers : handler'[g].pc = "idle"
  BY <1>1, <1>2 DEF History, Inv, TypeOK, Idle
<1>4. \A d : \A g \in Handlers : ~Holds(g, d)'
  BY <1>3 DEF Holds
<1>5. \A t : RowsOf(t)' = RowsOf(t)
  BY <1>1 DEF RowsOf
<1>6. \A d \in pending : d \in pending' \/ (handler[h].pc = "mark" /\ Holds(h, d))
  BY <1>1 DEF Holds
<1>7. ASSUME NEW t, Told(t) PROVE Told(t)'
  <2>1. PICK d \in pending : Tells(d, t)
    BY <1>7 DEF Told
  <2>2. d \in pending' /\ Tells(d, t)'
    BY <1>4, <1>6, <2>1 DEF Tells
  <2> QED BY <2>2 DEF Told
<1>8. HandlersMatch'
  BY <1>3 DEF HandlersMatch
<1>9. EndTold'
  BY <1>1, <1>4, <1>5, <1>6 DEF Orderly, EndTold
<1>10. CheckoutTold'
  BY <1>1, <1>4, <1>5, <1>6 DEF Orderly, CheckoutTold, Alive
<1>11. Reflecting'
  BY <1>1, <1>5, <1>7 DEF Orderly, Reflecting, Shows, Alive
<1> QED BY <1>8, <1>9, <1>10, <1>11

\* A handler that has committed has its event still to mark; s is the subscription.
LEMMA CommitStep ==
    ASSUME History, Orderly, ~disturbed', NEW h \in Handlers, NEW s, s = Sub(h),
           CheckoutCommit(h) \/ UpdatedCommit(h) \/ DeletedCommit(h)
    PROVE  /\ s \in Subs /\ stripe[s].status \in Status
           /\ handler[h].event \in pending /\ UNCHANGED <<stripe, pending>>
           /\ HandlersMatch'
           /\ \A e : \A g \in Handlers : Holds(g, e)' => g = h /\ e = handler[h].event
           /\ \A e, t : Tells(e, t) /\ e # handler[h].event => Tells(e, t)'
           /\ \A t : t # s /\ Told(t) => Told(t)'
           /\ handler[h].pc = "create" => handler[h].event = Checkout(s)
           /\ handler[h].pc = "delete" => handler[h].event = Deleted(s)
           /\ handler[h].pc = "update" => handler[h].event.kind = "updated"
<1>1. Handle(h)
  BY DEF Handle
<1>2. /\ \A g \in Handlers \ {h} : handler'[g].pc = "idle"
      /\ \A e \in pending : e \in Event
      /\ \A e \in pending : e.kind = "checkout" => e = Checkout(e.sub)
      /\ \A e \in pending : e.kind = "deleted" => e = Deleted(e.sub)
  BY <1>1, HandlerFrame
<1>3. /\ handler[h].pc \in {"create", "update", "delete"} /\ UNCHANGED <<stripe, pending>>
      /\ handler' = [handler EXCEPT ![h] = ToMark(h)]
  BY DEF CheckoutCommit, UpdatedCommit, DeletedCommit, Step
<1>4. handler'[h] = [pc |-> "mark", event |-> handler[h].event]
  BY <1>3 DEF ToMark, History, Inv, TypeOK
<1>5. handler[h].event \in pending
  BY <1>3 DEF Orderly, HandlersMatch
<1>6. /\ handler[h].pc = "create" => handler[h].event.kind = "checkout"
      /\ handler[h].pc = "update" => handler[h].event.kind = "updated"
      /\ handler[h].pc = "delete" => handler[h].event.kind = "deleted"
  BY DEF Orderly, HandlersMatch, History, Inv, Sound, HandlerSound
<1>7. s \in Subs /\ stripe[s].status \in Status
  BY <1>2, <1>3, <1>5 DEF Sub, History, Inv, Sound, Genuine, Event
<1>8. \A e : \A g \in Handlers : Holds(g, e)' => g = h /\ e = handler[h].event
  BY <1>2, <1>4 DEF Holds
<1>9. \A e, t : Tells(e, t) /\ e # handler[h].event => Tells(e, t)'
  BY <1>8 DEF Tells
<1>10. ASSUME NEW t, t # s, Told(t) PROVE Told(t)'
  <2>1. PICK e \in pending : Tells(e, t)
    BY <1>10 DEF Told
  <2>2. e # handler[h].event
    BY <1>10, <2>1 DEF Tells, Sub
  <2> QED BY <1>3, <1>9, <2>1, <2>2 DEF Told
<1>11. HandlersMatch'
  BY <1>2, <1>3, <1>4, <1>5 DEF HandlersMatch
<1>12. /\ handler[h].pc = "create" => handler[h].event = Checkout(s)
       /\ handler[h].pc = "delete" => handler[h].event = Deleted(s)
  BY <1>2, <1>5, <1>6 DEF Sub
<1> QED BY <1>3, <1>5, <1>6, <1>7, <1>8, <1>9, <1>10, <1>11, <1>12

LEMMA CheckoutOrderly ==
    ASSUME History, Orderly, ~disturbed', NEW h \in Handlers, CheckoutCommit(h)
    PROVE  HandlersMatch' /\ EndTold' /\ CheckoutTold' /\ Reflecting'
<1>1. PICK s : s = Sub(h)
  OBVIOUS
<1>2. /\ s \in Subs /\ stripe[s].status \in Status /\ UNCHANGED <<stripe, pending>>
      /\ HandlersMatch'
      /\ Checkout(s) \in pending /\ Holds(h, Checkout(s))
      /\ \A e : \A g \in Handlers : Holds(g, e)' => e = Checkout(s)
      /\ \A t : t # s /\ Told(t) => Told(t)'
      /\ \A e : Tells(e, s) /\ e # Checkout(s) => Tells(e, s)'
  <2>1. handler[h].pc = "create"
    BY DEF CheckoutCommit
  <2>2. handler[h].event = Checkout(s)
    BY <1>1, <2>1, CommitStep
  <2> QED BY <1>1, <2>1, <2>2, CommitStep DEF Holds
<1>3. PICK n \in Rows :
        /\ link' = n
        /\ rows'[n] = [sub |-> s, status |-> "active", plan |-> stripe[s].bought]
        /\ rows[n] = None /\ rows'[n] # None
        /\ \A r \in Rows \ {n} : /\ rows'[r] # None <=> rows[r] # None
                                 /\ rows[r] # None => rows'[r].sub = rows[r].sub
  BY <1>1, CheckoutWrites DEF History
<1>4. RowsOf(s) = {}
  BY <1>1, CheckoutWrites DEF History
<1>5. /\ RowsOf(s)' # {} /\ \A t \in Subs : t # s => RowsOf(t)' = RowsOf(t)
  BY <1>3 DEF RowsOf
<1>6. \A t : Checkout(t).sub = t /\ Checkout(t).kind = "checkout" /\ Deleted(t).kind = "deleted"
  BY DEF Checkout, Deleted
<1>7. Told(s) => Told(s)'
  BY <1>2, <1>6 DEF Told, Tells
<1>8. EndTold'
  BY <1>2, <1>4, <1>5, <1>6 DEF Orderly, EndTold
<1>9. CheckoutTold'
  BY <1>2, <1>5, <1>6 DEF Orderly, CheckoutTold, Alive
<1>10. \A t \in Subs : stripe'[t].status \in Status /\ RowsOf(t)' = {} /\ Checkout(t) \in pending' =>
         Shows(t, "active", stripe[t].bought)' \/ Told(t)'
  BY <1>2, <1>5 DEF Orderly, Reflecting, Shows, Alive
<1>11. Shows(s, "active", stripe[s].bought) \/ Told(s)'
  BY <1>2, <1>4, <1>7 DEF Orderly, Reflecting
<1>12. /\ rows'[link'].sub = s /\ rows'[link'].status = "active"
       /\ rows'[link'].plan = stripe[s].bought /\ s # None
  BY <1>2, <1>3, ConstantsAssumption
<1>13. LET row == rows'[link']
       IN  row.sub # None /\ (Shows(row.sub, row.status, row.plan) \/ Told(s)')
  BY <1>11, <1>12
<1>14. Reflecting'
  BY <1>2, <1>10, <1>11, <1>12 DEF Reflecting, Shows, Alive, Told, Tells
<1> QED BY <1>2, <1>8, <1>9, <1>14

LEMMA UpdateOrderly ==
    ASSUME History, Orderly, ~disturbed', NEW h \in Handlers, UpdatedCommit(h)
    PROVE  HandlersMatch' /\ EndTold' /\ CheckoutTold' /\ Reflecting'
<1>1. PICK s : s = Sub(h)
  OBVIOUS
<1>2. PICK id : id = handler[h].id
  OBVIOUS
<1>3. PICK e : e = handler[h].event
  OBVIOUS
<1>4. handler[h].pc = "update"
  BY DEF UpdatedCommit
<1>5. /\ s \in Subs /\ stripe[s].status \in Status /\ UNCHANGED <<stripe, pending>>
      /\ HandlersMatch'
      /\ \A d : \A g \in Handlers : Holds(g, d)' => g = h /\ d = e
      /\ \A t : t # s /\ Told(t) => Told(t)'
      /\ \A d : Tells(d, s) /\ d # e => Tells(d, s)'
      /\ e.kind = "updated"
  BY <1>1, <1>3, <1>4, CommitStep
<1>6. /\ id \in Rows /\ rows[id] # None /\ link' = link
      /\ rows'[id] # None /\ rows'[id].sub = rows[id].sub
      /\ rows'[id].status = handler[h].fetched.status
      /\ rows[id].plan = handler[h].plan => rows'[id].plan = handler[h].fetched.plan
      /\ \A r \in Rows \ {id} : rows'[r] = rows[r]
  BY <1>2, UpdatedWrites DEF History
<1>7. rows[id].sub = s /\ rows[id].plan = handler[h].plan
      /\ (handler[h].fetched = stripe[s] \/ Told(s))
  BY <1>1, <1>2, <1>4 DEF Orderly, HandlersMatch
<1>8. \A t : RowsOf(t)' = RowsOf(t)
  BY <1>6 DEF RowsOf
<1>9. \A t : /\ Checkout(t).kind = "checkout" /\ Deleted(t).kind = "deleted"
             /\ Deleted(t).sub = t
  BY DEF Checkout, Deleted
\* What the handler's own event told of s is what it has fetched.
<1>10. handler[h].fetched = stripe[s] \/ Told(s)'
  <2>1. CASE Told(s)
    <3>1. PICK d \in pending : Tells(d, s)
      BY <2>1 DEF Told
    <3>2. CASE d = e
      BY <1>3, <1>4, <3>1, <3>2 DEF Tells, Holds
    <3>3. CASE d # e
      BY <1>5, <3>1, <3>3 DEF Told
    <3> QED BY <3>2, <3>3
  <2> QED BY <1>7, <2>1
<1>11. EndTold'
  BY <1>5, <1>8, <1>9 DEF Orderly, EndTold
<1>12. CheckoutTold'
  BY <1>5, <1>8, <1>9 DEF Orderly, CheckoutTold, Alive
<1>13. id \in RowsOf(s)
  BY <1>6, <1>7 DEF RowsOf
<1>14. Alive(s) \/ Told(s)'
  <2>1. CASE stripe[s].status = "canceled"
    <3>1. Deleted(s) \in pending /\ Deleted(s) # e
      BY <1>5, <1>9, <1>13, <2>1 DEF Orderly, EndTold
    <3>2. Tells(Deleted(s), s)'
      BY <1>5, <1>9, <3>1 DEF Tells
    <3> QED BY <1>5, <3>1, <3>2 DEF Told
  <2> QED BY <1>5, <2>1 DEF Status, Alive
<1>15. Shows(s, rows'[id].status, rows'[id].plan) \/ Told(s)'
  BY <1>6, <1>7, <1>10, <1>14 DEF Shows
<1>16. \A t \in Subs : stripe'[t].status \in Status /\ RowsOf(t)' = {} /\ Checkout(t) \in pending' =>
         Shows(t, "active", stripe[t].bought)' \/ Told(t)'
  BY <1>5, <1>8, <1>13 DEF Orderly, Reflecting, Shows, Alive
<1>17. ASSUME link # None
       PROVE  IF rows'[link].sub = None THEN rows'[link].status = "active" /\ rows'[link].plan = 0
              ELSE \E t : /\ t = rows'[link].sub
                          /\ Shows(t, rows'[link].status, rows'[link].plan) \/ Told(t)'
  <2>1. CASE link = id
    <3>1. s # None
      BY <1>5, ConstantsAssumption
    <3> QED BY <1>6, <1>7, <1>15, <2>1, <3>1
  <2>2. CASE link # id
    <3>1. link \in Rows /\ rows'[link] = rows[link] /\ rows[link] # None
      BY <1>6, <1>17, <2>2 DEF History, Inv, TypeOK, Sound
    <3>2. CASE rows[link].sub # None
      <4>1. PICK t : t = rows[link].sub
        OBVIOUS
      <4>2. t # s
        BY <1>6, <1>7, <2>2, <3>1, <3>2, <4>1 DEF History, OneRow
      <4>3. Shows(t, rows[link].status, rows[link].plan) \/ Told(t)
        BY <1>17, <3>2, <4>1 DEF Orderly, Reflecting
      <4> QED BY <1>5, <3>1, <3>2, <4>1, <4>2, <4>3
    <3>3. CASE rows[link].sub = None
      BY <1>17, <3>1, <3>3 DEF Orderly, Reflecting
    <3> QED BY <3>2, <3>3
  <2> QED BY <2>1, <2>2
<1>18. Reflecting'
  BY <1>5, <1>6, <1>16, <1>17 DEF Reflecting, Shows, Alive, Told, Tells
<1> QED BY <1>5, <1>11, <1>12, <1>18

LEMMA DeleteOrderly ==
    ASSUME History, Orderly, ~disturbed', NEW h \in Handlers, DeletedCommit(h)
    PROVE  HandlersMatch' /\ EndTold' /\ CheckoutTold' /\ Reflecting'
<1>1. PICK s : s = Sub(h)
  OBVIOUS
<1>2. PICK id : id = handler[h].id
  OBVIOUS
<1>3. handler[h].pc = "delete" /\ rows' = Downgraded(id) /\ link' = link
  BY <1>2 DEF DeletedCommit
<1>4. Checkout(s) \notin pending
  BY <1>1, Zenon DEF DeletedCommit
<1>5. /\ s \in Subs /\ stripe[s].status \in Status /\ UNCHANGED <<stripe, pending>>
      /\ HandlersMatch'
      /\ \A d : \A g \in Handlers : Holds(g, d)' => g = h /\ d = Deleted(s)
      /\ \A t : t # s /\ Told(t) => Told(t)'
      /\ handler[h].event = Deleted(s) /\ Deleted(s) \in pending
  <2>1. handler[h].event = Deleted(s)
    BY <1>1, <1>3, CommitStep
  <2> QED BY <1>1, <2>1, CommitStep
<1>6. /\ id \in Rows /\ rows[id] # None /\ rows[id].sub = s
  BY <1>1, <1>2, <1>3, HandlerShape DEF Orderly, HandlersMatch, History, Inv, Sound, HandlerSound, RowIs
<1>7. /\ rows'[id] # None /\ rows'[id].sub = None /\ rows'[id].status = "active" /\ rows'[id].plan = 0
      /\ \A r \in Rows \ {id} : rows'[r] = rows[r]
  BY <1>3, <1>6, DowngradeWrites DEF History
<1>8. s # None
  BY <1>5, ConstantsAssumption
<1>9. /\ RowsOf(s)' = {}
      /\ \A t \in Subs : t # s => RowsOf(t)' = RowsOf(t)
  <2>1. \A r \in Rows : rows[r] # None /\ rows[r].sub = s => r = id
    BY <1>6, <1>8 DEF History, OneRow
  <2> QED BY <1>6, <1>7, <1>8, <2>1, ConstantsAssumption DEF RowsOf
<1>10. stripe[s].status = "canceled"
  BY <1>1, <1>3, <1>5 DEF History, Inv, Sound, HandlerSound, Genuine, Deleted
<1>11. \A t : /\ Checkout(t).kind = "checkout" /\ Deleted(t).kind = "deleted"
              /\ Deleted(t).sub = t
  BY DEF Checkout, Deleted
<1>12. EndTold'
  BY <1>4, <1>5, <1>9, <1>11 DEF Orderly, EndTold
<1>13. CheckoutTold'
  BY <1>5, <1>9, <1>10, <1>11 DEF Orderly, CheckoutTold, Alive
<1>14. \A t \in Subs : stripe'[t].status \in Status /\ RowsOf(t)' = {} /\ Checkout(t) \in pending' =>
         Shows(t, "active", stripe[t].bought)' \/ Told(t)'
  BY <1>4, <1>5, <1>9 DEF Orderly, Reflecting, Shows, Alive
<1>15. ASSUME link # None, link # id, rows[link].sub # None
       PROVE  \E t : t = rows[link].sub /\ (Shows(t, rows[link].status, rows[link].plan) \/ Told(t)')
  <2>1. PICK t : t = rows[link].sub
    OBVIOUS
  <2>2. t # s
    BY <1>6, <1>15, <2>1 DEF History, OneRow, Inv, TypeOK, Sound
  <2>3. Shows(t, rows[link].status, rows[link].plan) \/ Told(t)
    BY <1>15, <2>1 DEF Orderly, Reflecting
  <2> QED BY <1>5, <2>1, <2>2, <2>3
<1>16. link # None /\ link # id => rows'[link] = rows[link]
  BY <1>7 DEF History, Inv, TypeOK
<1>17. link # None /\ rows[link].sub = None => rows[link].status = "active" /\ rows[link].plan = 0
  BY DEF Orderly, Reflecting
<1>18. ASSUME link # None
       PROVE  IF rows'[link].sub = None THEN rows'[link].status = "active" /\ rows'[link].plan = 0
              ELSE \E t : /\ t = rows'[link].sub
                          /\ Shows(t, rows'[link].status, rows'[link].plan) \/ Told(t)'
  BY <1>7, <1>15, <1>16, <1>17, <1>18
<1>19. Reflecting'
  BY <1>3, <1>5, <1>14, <1>18 DEF Reflecting, Shows, Alive, Told, Tells
<1> QED BY <1>5, <1>12, <1>13, <1>19

\* A request that begins, fails or has been told to Stripe writes no row.
LEMMA RequestOrderly ==
    ASSUME History, Orderly, ~disturbed', NEW q \in Requests,
           \/ CancelRead(q) \/ \E plan \in Plans : UpgradeRead(q, plan)
           \/ RequestFails(q)
    PROVE  HandlersMatch' /\ RequestsMatch' /\ EndTold' /\ CheckoutTold' /\ Reflecting'
<1>1. UNCHANGED <<stripe, pending, rows, link, handler>>
  BY DEF CancelRead, UpgradeRead, Begin, RequestFails, tables
<1>2. Serve(q)
  BY DEF Serve
<1>3. \A p \in Requests \ {q} : request'[p].pc = "idle"
  BY <1>2, RequestAlone DEF Orderly, History
<1>4. /\ request'[q].pc \in {"idle", "cancel", "downgrade", "upgrade"}
      /\ request'[q].pc # "idle" => link = request'[q].id /\ rows[link].sub = request'[q].sub
  <2>1. CASE CancelRead(q)
    <3>1. request' = [request EXCEPT ![q] = [pc |-> IF rows[link].sub = None THEN "downgrade" ELSE "cancel",
                                             id |-> link, sub |-> rows[link].sub]]
      BY <2>1 DEF CancelRead, Begin
    <3> QED BY <3>1 DEF History, Inv, TypeOK
  <2>2. ASSUME NEW plan \in Plans, UpgradeRead(q, plan)
        PROVE  /\ request'[q].pc = "upgrade" /\ request'[q].id = link
               /\ request'[q].sub = rows[link].sub
    BY <2>2 DEF UpgradeRead, Begin, History, Inv, TypeOK
  <2>3. CASE RequestFails(q)
    BY <2>3 DEF RequestFails, Idle, History, Inv, TypeOK
  <2> QED BY <2>1, <2>2, <2>3
<1>5. RequestsMatch'
  BY <1>1, <1>3, <1>4 DEF RequestsMatch
<1>6. \A d, t : Tells(d, t) => Tells(d, t)'
  BY <1>1 DEF Tells, Holds
<1>7. \A t : Told(t) => Told(t)'
  BY <1>1, <1>6 DEF Told
<1>8. \A t : RowsOf(t)' = RowsOf(t)
  BY <1>1 DEF RowsOf
<1>9. \A d : \A h \in Handlers : Holds(h, d)' <=> Holds(h, d)
  BY <1>1 DEF Holds
<1>10. \A h \in Handlers : handler[h].pc = "idle"
  BY <1>2, RequestAlone DEF Orderly, History
<1>11. HandlersMatch'
  BY <1>1, <1>10 DEF HandlersMatch
<1>12. EndTold' /\ CheckoutTold'
  BY <1>1, <1>8, <1>9 DEF Orderly, EndTold, CheckoutTold, Alive
<1>13. Reflecting'
  BY <1>1, <1>7, <1>8 DEF Orderly, Reflecting, Shows, Alive
<1> QED BY <1>5, <1>11, <1>12, <1>13

LEMMA UpgradeOrderly ==
    ASSUME History, Orderly, ~disturbed', NEW q \in Requests, UpgradeCommit(q)
    PROVE  HandlersMatch' /\ RequestsMatch' /\ EndTold' /\ CheckoutTold' /\ Reflecting'
<1>1. PICK id : id = request[q].id
  OBVIOUS
<1>2. Serve(q)
  BY DEF Serve
<1>3. /\ UNCHANGED <<stripe, pending, handler>> /\ request' = [request EXCEPT ![q] = Idle]
  BY DEF UpgradeCommit
<1>4. /\ \A p \in Requests : request'[p].pc = "idle"
      /\ \A h \in Handlers : handler[h].pc = "idle"
  BY <1>2, <1>3, RequestAlone DEF Orderly, History, Inv, TypeOK, Idle
<1>5. /\ request[q].pc = "write" /\ id \in Rows /\ rows[id] # None /\ link' = link
      /\ rows'[id] # None /\ rows'[id].sub = rows[id].sub
      /\ \A r \in Rows \ {id} : rows'[r] = rows[r]
  BY <1>1, UpgradeWrites DEF History
<1>6. PICK s : s = request[q].sub
  OBVIOUS
<1>7. link = id /\ rows[link].sub = s /\ Told(s) /\ s \in Subs
  BY <1>1, <1>5, <1>6, RequestShape DEF Orderly, RequestsMatch, History, Inv
<1>8. \A d, t : Tells(d, t) => Tells(d, t)'
  BY <1>3 DEF Tells, Holds
<1>9. \A t : Told(t) => Told(t)'
  BY <1>3, <1>8 DEF Told
<1>10. \A t : RowsOf(t)' = RowsOf(t)
  BY <1>5 DEF RowsOf
<1>11. \A d : \A h \in Handlers : Holds(h, d)' <=> Holds(h, d)
  BY <1>3 DEF Holds
<1>12. HandlersMatch' /\ RequestsMatch'
  BY <1>3, <1>4 DEF HandlersMatch, RequestsMatch
<1>13. EndTold' /\ CheckoutTold'
  BY <1>3, <1>10, <1>11 DEF Orderly, EndTold, CheckoutTold, Alive
<1>14. \A t \in Subs : stripe'[t].status \in Status /\ RowsOf(t)' = {} /\ Checkout(t) \in pending' =>
         Shows(t, "active", stripe[t].bought)' \/ Told(t)'
  BY <1>3, <1>9, <1>10 DEF Orderly, Reflecting, Shows, Alive
<1>15. rows'[link].sub = s /\ s # None /\ Told(s)'
  BY <1>5, <1>7, <1>9, ConstantsAssumption
<1>16. Reflecting'
  BY <1>5, <1>14, <1>15 DEF Reflecting, Shows, Alive, Told, Tells
<1> QED BY <1>12, <1>13, <1>16

LEMMA CancelOrderly ==
    ASSUME History, Orderly, ~disturbed', NEW q \in Requests, CancelCommit(q)
    PROVE  HandlersMatch' /\ RequestsMatch' /\ EndTold' /\ CheckoutTold' /\ Reflecting'
<1>1. PICK s : s = request[q].sub
  OBVIOUS
<1>2. Serve(q)
  BY DEF Serve
<1>3. /\ request[q].pc = "downgrade" /\ rows' = Downgraded(request[q].id)
      /\ UNCHANGED <<stripe, pending, link, handler>> /\ request' = [request EXCEPT ![q] = Idle]
  BY DEF CancelCommit
<1>4. /\ \A p \in Requests : request'[p].pc = "idle"
      /\ \A h \in Handlers : handler[h].pc = "idle"
  BY <1>2, <1>3, RequestAlone DEF Orderly, History, Inv, TypeOK, Idle
<1>5. s = None \/ Checkout(s) \notin pending
  BY <1>1, Zenon DEF CancelCommit
<1>6. /\ request[q].id = link /\ link \in Rows /\ rows[link] # None /\ rows[link].sub = s
      /\ s # None => stripe[s].status = "canceled"
  BY <1>1, <1>3, RequestShape DEF Orderly, RequestsMatch, History, Inv, Sound, RequestSound, RowIs
<1>7. /\ rows'[link] # None /\ rows'[link].sub = None
      /\ rows'[link].status = "active" /\ rows'[link].plan = 0
      /\ \A r \in Rows \ {link} : rows'[r] = rows[r]
  BY <1>3, <1>6, DowngradeWrites DEF History
<1>8. /\ s # None => RowsOf(s)' = {}
      /\ \A t \in Subs : t # s => RowsOf(t)' = RowsOf(t)
  <2>1. s # None => \A r \in Rows : rows[r] # None /\ rows[r].sub = s => r = link
    BY <1>6 DEF History, OneRow
  <2> QED BY <1>6, <1>7, <2>1, ConstantsAssumption DEF RowsOf
<1>9. \A d, t : Tells(d, t) => Tells(d, t)'
  BY <1>3 DEF Tells, Holds
<1>10. \A t : Told(t) => Told(t)'
  BY <1>3, <1>9 DEF Told
<1>11. \A d : \A h \in Handlers : Holds(h, d)' <=> Holds(h, d)
  BY <1>3 DEF Holds
<1>12. HandlersMatch' /\ RequestsMatch'
  BY <1>3, <1>4 DEF HandlersMatch, RequestsMatch
<1>13. \A t \in Subs : t = s => s # None
  BY ConstantsAssumption
<1>14. EndTold' /\ CheckoutTold'
  BY <1>3, <1>5, <1>6, <1>8, <1>11, <1>13 DEF Orderly, EndTold, CheckoutTold, Alive
<1>15. \A t \in Subs : stripe'[t].status \in Status /\ RowsOf(t)' = {} /\ Checkout(t) \in pending' =>
         Shows(t, "active", stripe[t].bought)' \/ Told(t)'
  BY <1>3, <1>5, <1>8, <1>10, <1>13 DEF Orderly, Reflecting, Shows, Alive
<1>16. Reflecting'
  BY <1>3, <1>7, <1>15 DEF Reflecting
<1> QED BY <1>12, <1>14, <1>16

LEMMA MoveOrderly ==
    ASSUME History, Orderly, ~disturbed', AtStripeStep
    PROVE  HandlersMatch' /\ RequestsMatch' /\ EndTold' /\ CheckoutTold' /\ Reflecting'
<1>1. PICK s \in Subs, v \in AtStripe : StripeMove(s, v)
  BY Moves DEF History
<1>2. HandlersMatch' /\ EndTold' /\ CheckoutTold' /\ Reflecting'
  BY <1>1, StripeKeeps
<1>3. UNCHANGED <<rows, link>> /\ \A t \in Subs : Told(t) => Told(t)'
  BY <1>1, StripeTells DEF StripeMove
<1>4. ASSUME NEW p \in Requests, request'[p] = request[p], request[p].pc # "idle"
      PROVE  /\ link' = request'[p].id /\ rows'[link'].sub = request'[p].sub
             /\ \A t : t = request[p].sub /\ request[p].pc = "write" => Told(t)'
  <2>1. /\ link = request[p].id /\ rows[link].sub = request[p].sub
        /\ request[p].pc = "write" => Told(request[p].sub) /\ request[p].sub \in Subs
    BY <1>4, RequestShape DEF Orderly, RequestsMatch, History, Inv
  <2>2. ASSUME NEW t, t = request[p].sub, request[p].pc = "write" PROVE Told(t)'
    <3>1. Told(t)
      BY <2>1, <2>2
    <3> QED BY <1>3, <2>1, <2>2, <3>1
  <2> QED BY <1>3, <1>4, <2>1, <2>2
<1>5. CASE UNCHANGED request
  <2>1. \A t : \A p \in Requests : t = request'[p].sub /\ request'[p].pc = "write" => Told(t)'
    BY <1>4, <1>5
  <2>2. ASSUME NEW p \in Requests, request'[p].pc = "write" PROVE Told(request[p].sub)'
    BY <2>1, <2>2 DEF Told, Tells
  <2> QED BY <1>2, <1>4, <1>5, <2>2 DEF RequestsMatch
<1>6. ASSUME NEW q \in Requests, CancelStripe(q) \/ UpgradeStripe(q)
      PROVE  RequestsMatch'
  <2>1. /\ \A h \in Handlers : handler'[h].pc = "idle"
        /\ \A p \in Requests \ {q} : request'[p].pc = "idle"
    <3>1. Serve(q)
      BY <1>6 DEF Serve
    <3> QED BY <3>1, RequestAlone DEF Orderly, History
  <2>2. PICK t : t = request[q].sub
    OBVIOUS
  <2>3. request[q].pc \in {"cancel", "upgrade"}
    BY <1>6 DEF CancelStripe, UpgradeStripe
  <2>4. link = request[q].id /\ rows[link].sub = t
    BY <2>2, <2>3 DEF Orderly, RequestsMatch
  <2>5. CASE CancelStripe(q)
    <3>1. request[q] \in [pc: {"cancel"}, id: Rows, sub: Subs \cup {None}]
      BY <2>5, RequestShape DEF CancelStripe, History, Inv
    <3>2. request'[q].pc = "downgrade" /\ request'[q].id = request[q].id /\ request'[q].sub = t
      BY <2>2, <2>5, <3>1 DEF CancelStripe, History, Inv, TypeOK
    <3> QED BY <1>3, <2>1, <2>4, <3>2 DEF RequestsMatch
  <2>6. CASE UpgradeStripe(q)
    <3>1. request[q] \in [pc: {"upgrade", "write"}, id: Rows, sub: Subs, plan: Plans]
      BY <2>6, RequestShape DEF UpgradeStripe, History, Inv
    <3>2. request'[q].pc = "write" /\ request'[q].id = request[q].id /\ request'[q].sub = t
      BY <2>2, <2>6, <3>1 DEF UpgradeStripe, History, Inv, TypeOK
    <3>3. Updated(t, changes') \in pending' /\ Updated(t, changes').sub = t
          /\ Updated(t, changes').kind # "checkout"
      BY <2>2, <2>6 DEF UpgradeStripe, Updated
    <3>4. Told(t)'
      BY <2>1, <3>3 DEF Told, Tells, Holds
    <3> QED BY <1>3, <2>1, <2>4, <3>2, <3>4 DEF RequestsMatch, Told, Tells
  <2> QED BY <1>6, <2>5, <2>6
<1>7. UNCHANGED request \/ \E q \in Requests : CancelStripe(q) \/ UpgradeStripe(q)
  BY DEF AtStripeStep, CheckoutSession, Subscribe, ChangePayment, EndAtStripe
<1> QED BY <1>2, <1>5, <1>6, <1>7

LEMMA SerialStep == History /\ Serial /\ [Next]_vars => Serial'
<1> SUFFICES ASSUME History, Serial, [Next]_vars, ~disturbed' PROVE Orderly'
  BY DEF Serial
<1>1. Orderly
  BY UndisturbedStep DEF Serial
<1>2. Alone'
  BY <1>1, AloneStep DEF History, Orderly
<1>3. CASE AtStripeStep
  BY <1>1, <1>2, <1>3, MoveOrderly DEF Orderly
<1>4. ASSUME NEW h \in Handlers, Handle(h) PROVE Orderly'
  <2>1. RequestsMatch'
    BY <1>1, <1>4, HandlerFrame
  <2>2. HandlersMatch' /\ EndTold' /\ CheckoutTold' /\ Reflecting'
    BY <1>1, <1>4, ReadOrderly, FetchOrderly, EndRunOrderly, CheckoutOrderly, UpdateOrderly,
       DeleteOrderly DEF Handle
  <2> QED BY <1>2, <2>1, <2>2 DEF Orderly
<1>5. ASSUME NEW q \in Requests, Serve(q) PROVE Orderly'
  <2>1. CASE CancelStripe(q) \/ UpgradeStripe(q)
    BY <1>3, <2>1 DEF AtStripeStep
  <2>2. CASE ~(CancelStripe(q) \/ UpgradeStripe(q))
    BY <1>1, <1>2, <1>5, <2>2, RequestOrderly, UpgradeOrderly, CancelOrderly DEF Serve, Orderly
  <2> QED BY <2>1, <2>2
<1>6. CASE UNCHANGED vars
  <2>1. UNCHANGED <<stripe, changes, pending, rows, link, handler, request>>
    BY <1>6 DEF vars, tables
  <2>2. /\ \A d, t : Tells(d, t) <=> Tells(d, t)'
        /\ \A d, h : Holds(h, d) <=> Holds(h, d)'
        /\ \A t : RowsOf(t) = RowsOf(t)'
    BY <2>1 DEF Tells, Holds, RowsOf
  <2> QED BY <1>1, <1>2, <2>1, <2>2
      DEF Orderly, HandlersMatch, RequestsMatch, EndTold, CheckoutTold, Reflecting, Shows, Alive,
          Told, Sub
<1> QED BY <1>3, <1>4, <1>5, <1>6 DEF Next, AtStripeStep

LEMMA InitSerial == Init => History /\ Serial
<1> SUFFICES ASSUME Init PROVE History /\ Serial
  OBVIOUS
<1>1. Inv
  BY InitSound
<1>2. /\ pending = {} /\ \A s \in Subs : stripe[s].status = "none"
      /\ \A h \in Handlers : handler[h].pc = "idle"
      /\ \A q \in Requests : request[q].pc = "idle"
  BY DEF Init, Idle
<1>3. /\ \A r \in Rows : rows[r] # None => rows[r].sub = None
      /\ link # None => /\ rows[link].sub = None /\ rows[link].status = "active"
                        /\ rows[link].plan = 0
  BY ConstantsAssumption DEF Init
<1>4. History
  BY <1>1, <1>2, <1>3 DEF History, Named, OneRow, SessionPlan
<1>5. Orderly
  BY <1>2, <1>3 DEF Orderly, Alone, HandlersMatch, RequestsMatch, EndTold, CheckoutTold, Reflecting,
                    Alive, Status
<1> QED BY <1>4, <1>5 DEF Serial

LEMMA SerialCorrect == Spec => [](History /\ Serial)
BY InitSerial, HistoryStep, SerialStep, PTL DEF Spec

\* When the events and the requests are handled one at a time and each event after its
\* checkout, and all are, the user is on the plan paid for at Stripe, with Stripe's
\* status, or on an active free plan, whatever has failed and been repeated on the way.
THEOREM PlanFollowsStripeCorrect == Spec => []PlanFollowsStripe
<1>1. History /\ Serial => PlanFollowsStripe
  <2> SUFFICES ASSUME History, Serial, Quiet, ~disturbed, link # None
               PROVE  LET row == rows[link]
                      IN  IF row.sub = None
                          THEN row.status = "active" /\ row.plan = 0
                          ELSE /\ Alive(row.sub)
                               /\ row.status = stripe[row.sub].status
                               /\ row.plan = stripe[row.sub].plan
    BY DEF PlanFollowsStripe
  <2>1. Reflecting
    BY DEF Serial, Orderly
  <2>2. pending = {}
    BY DEF Quiet
  <2> QED BY <2>1, <2>2 DEF Reflecting, Shows, Told
<1> QED BY <1>1, SerialCorrect, PTL
=============================================================================
