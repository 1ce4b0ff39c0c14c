----------------------- MODULE RequestAdmissionProofs -----------------------
(* Theorems about RequestAdmission, for every value of its constants.      *)
EXTENDS RequestAdmission, FiniteSetTheorems, TLAPS

StoreShape == [at: {"store"}, version: 0 .. MaxEdits, written: 0 .. 1]

\* The record a request is at each stage.
LEMMA RequestShape ==
    ASSUME TypeOK, NEW r \in Requests
    PROVE  /\ req[r] \in [at: Stages] \cup StoreShape
           /\ req[r].at = "store" => /\ req[r] \in StoreShape
                                     /\ req[r].version \in 0 .. MaxEdits
                                     /\ req[r].written \in 0 .. 1
           /\ req[r].at # "store" => req[r] \in [at: Stages]
<1>1. req[r] \in [at: Stages] \cup StoreShape
  BY DEF TypeOK, StoreShape
<1>2. CASE req[r] \in [at: Stages]
  BY <1>1, <1>2 DEF Stages
<1>3. CASE req[r] \in StoreShape
  BY <1>1, <1>3 DEF StoreShape
<1> QED BY <1>1, <1>2, <1>3

LEMMA GotoShape ==
    ASSUME TypeOK, NEW r \in Requests, NEW from, NEW to \in Stages, Goto(r, from, to)
    PROVE  /\ req' \in [Requests -> [at: Stages] \cup StoreShape]
           /\ req'[r].at = to
           /\ \A q \in Requests \ {r} : req'[q] = req[q]
<1>1. [at |-> to] \in [at: Stages]
  OBVIOUS
<1>2. req' = [req EXCEPT ![r] = [at |-> to]] /\ req \in [Requests -> [at: Stages] \cup StoreShape]
  BY DEF Goto, TypeOK, StoreShape
<1> QED BY <1>1, <1>2

\* CacheId once Redis has or has not stored the id, and has or has not answered.
CacheStored(r, stored, answered) ==
    /\ answered => stored
    /\ Goto(r, "id", IF answered THEN "expire" ELSE "rest")
    /\ entry' = [entry EXCEPT !.id = @ \/ stored]
    /\ fills' = IF Ended /\ stored THEN fills + 1 ELSE fills
    /\ unexpiring' = (unexpiring \/ (stored /\ ~answered /\ ~entry.expires))
    /\ UNCHANGED <<api_key, pricing, window>>

LEMMA CacheIdCases ==
    ASSUME NEW r \in Requests, CacheId(r)
    PROVE  \E stored \in BOOLEAN, answered \in BOOLEAN : CacheStored(r, stored, answered)
BY DEF CacheId, CacheStored

LEMMA TypeStep ==
    ASSUME TypeOK, [Next]_vars
    PROVE  TypeOK'
<1> USE DEF TypeOK
<1> DEFINE Reqs == [Requests -> [at: Stages] \cup StoreShape]
<1>0. ASSUME req' \in Reqs, UNCHANGED <<api_key, entry, rule, settings, edits, window, fills>>,
             unexpiring' \in BOOLEAN, spoiled' \in BOOLEAN
      PROVE  TypeOK'
  BY <1>0 DEF StoreShape
<1>1. ASSUME NEW r \in Requests, Resolve(r) PROVE TypeOK'
  <2>1. Goto(r, "idle", "lookup") \/ Goto(r, "idle", "config")
    BY <1>1 DEF Resolve
  <2>2. req' \in Reqs
    BY <2>1, GotoShape DEF Stages
  <2> QED BY <1>0, <1>1, <2>2 DEF Resolve, key, pricing
<1>2. ASSUME NEW r \in Requests, Lookup(r) PROVE TypeOK'
  <2>1. req' \in Reqs
    BY <1>2, GotoShape DEF Lookup, Stages
  <2> QED BY <1>0, <1>2, <2>1 DEF Lookup, key, pricing
<1>3. ASSUME NEW r \in Requests, CacheId(r) PROVE TypeOK'
  <2>1. PICK stored \in BOOLEAN, answered \in BOOLEAN : CacheStored(r, stored, answered)
    BY <1>3, CacheIdCases
  <2>2. req' \in Reqs
    BY <2>1, GotoShape DEF CacheStored, Stages
  <2>3. entry' \in Entry /\ fills' \in Nat /\ unexpiring' \in BOOLEAN
    BY <2>1 DEF CacheStored, Entry
  <2>4. UNCHANGED <<api_key, rule, settings, edits, spoiled, window>>
    BY <2>1 DEF CacheStored, pricing
  <2> QED BY <2>2, <2>3, <2>4 DEF StoreShape
<1>4. ASSUME NEW r \in Requests, CacheExpiry(r) \/ CacheRest(r) PROVE TypeOK'
  <2>1. req' \in Reqs
    BY <1>4, GotoShape DEF CacheExpiry, CacheRest, Stages
  <2>2. entry' \in Entry /\ unexpiring' \in BOOLEAN
    BY <1>4 DEF CacheExpiry, CacheRest, NoExpiry, Entry
  <2>3. UNCHANGED <<api_key, fills, rule, settings, edits, spoiled, window>>
    BY <1>4 DEF CacheExpiry, CacheRest, pricing
  <2> QED BY <2>1, <2>2, <2>3 DEF StoreShape
<1>5. CASE EntryExpires
  <2>1. entry' \in Entry
    BY <1>5 DEF EntryExpires, NoEntry, Entry
  <2> QED BY <1>5, <2>1 DEF EntryExpires, pricing
<1>16. CASE CreateApiKey \/ RevokeApiKey
  <2>1. api_key' \in KeyStates
    BY <1>16 DEF CreateApiKey, RevokeApiKey, KeyStates
  <2> QED BY <1>16, <2>1 DEF CreateApiKey, RevokeApiKey, pricing
<1>6. ASSUME NEW r \in Requests, ReadConfig(r) PROVE TypeOK'
  <2>1. req' \in Reqs
    BY <1>6, GotoShape DEF ReadConfig, Stages
  <2> QED BY <1>0, <1>6, <2>1 DEF ReadConfig, key
<1>7. ASSUME NEW r \in Requests, ReadRule(r) PROVE TypeOK'
  <2>1. [at |-> "store", version |-> rule, written |-> 0] \in StoreShape
    BY DEF StoreShape
  <2>2. req' \in Reqs
    BY <1>7, <2>1 DEF ReadRule, StoreShape
  <2> QED BY <1>0, <1>7, <2>2 DEF ReadRule, key, pricing
<1>8. ASSUME NEW r \in Requests, StoreSetting(r) PROVE TypeOK'
  <2>1. /\ req[r] \in StoreShape /\ req[r].version \in 0 .. MaxEdits
        /\ req[r].written \in 0 .. 1 /\ req[r].written + 1 \in Settings
    BY <1>8, RequestShape DEF StoreSetting, Settings
  <2>2. req' \in Reqs
    <3>1. CASE req[r].written = 1
      BY <1>8, <3>1, GotoShape DEF StoreSetting, Stages
    <3>2. CASE req[r].written = 0
      <4>1. [req[r] EXCEPT !.written = 1] \in StoreShape
        BY <2>1 DEF StoreShape
      <4>2. req' = [req EXCEPT ![r].written = 1]
        BY <1>8, <3>2 DEF StoreSetting
      <4> QED BY <4>1, <4>2 DEF StoreShape
    <3> QED BY <2>1, <3>1, <3>2
  <2>3. settings' \in [Settings -> 0 .. MaxEdits \cup {None}]
    BY <1>8, <2>1 DEF StoreSetting
  <2> QED BY <1>0, <1>8, <2>2, <2>3 DEF StoreSetting, key, StoreShape
<1>9. ASSUME NEW v \in Versions, BeginEdit(v) \/ CommitEdit(v) \/ RollbackEdit(v) PROVE TypeOK'
  <2>1. v \in 0 .. MaxEdits
    BY ConstantsAssumption DEF Versions
  <2>2. edits' \in [Versions -> [begun: BOOLEAN, open: BOOLEAN, written: 0 .. 2]]
    <3>1. CASE BeginEdit(v)
      <4>1. edits' = [edits EXCEPT ![v] = [begun |-> TRUE, open |-> TRUE, written |-> edits[v].written]]
        BY <3>1 DEF BeginEdit
      <4> QED BY <4>1
    <3>2. CASE CommitEdit(v) \/ RollbackEdit(v)
      <4>1. edits' = [edits EXCEPT ![v] = [begun |-> edits[v].begun, open |-> FALSE,
                                           written |-> edits[v].written]]
        BY <3>2 DEF CommitEdit, RollbackEdit
      <4> QED BY <4>1
    <3> QED BY <1>9, <3>1, <3>2
  <2>3. rule' \in 0 .. MaxEdits
    BY <1>9, <2>1 DEF BeginEdit, CommitEdit, RollbackEdit
  <2>4. spoiled' \in BOOLEAN
    BY <1>9 DEF BeginEdit, CommitEdit, RollbackEdit
  <2>5. UNCHANGED <<api_key, entry, fills, unexpiring, settings, window, req>>
    BY <1>9 DEF BeginEdit, CommitEdit, RollbackEdit, key
  <2> QED BY <2>2, <2>3, <2>4, <2>5
<1>10. ASSUME NEW v \in Versions, WriteSetting(v) PROVE TypeOK'
  <2>1. v \in 0 .. MaxEdits
    BY ConstantsAssumption DEF Versions
  <2>2. edits[v].written \in {0, 1} /\ edits[v].written + 1 \in {1, 2}
    BY <1>10 DEF WriteSetting
  <2>3. edits' \in [Versions -> [begun: BOOLEAN, open: BOOLEAN, written: 0 .. 2]]
    BY <1>10, <2>2 DEF WriteSetting
  <2>4. settings' \in [Settings -> 0 .. MaxEdits \cup {None}]
    BY <1>10, <2>1, <2>2 DEF WriteSetting, Settings
  <2>5. spoiled' \in BOOLEAN
    BY <1>10 DEF WriteSetting
  <2> QED BY <1>10, <2>3, <2>4, <2>5 DEF WriteSetting, key
<1>11. ASSUME NEW r \in Requests, CountRequest(r) PROVE TypeOK'
  <2>1. req' \in Reqs
    BY <1>11, GotoShape DEF CountRequest, Stages
  <2>2. Counted \in 0 .. Limit + 1
    BY ConstantsAssumption DEF Counted
  <2>3. window' \in [count: 0 .. Limit + 1, expires: BOOLEAN]
    <3>1. ASSUME NEW b \in BOOLEAN, window' = [count |-> Counted, expires |-> b]
          PROVE  window' \in [count: 0 .. Limit + 1, expires: BOOLEAN]
      BY <2>2, <3>1
    <3>2. CASE window' = [count |-> Counted, expires |-> window.expires \/ Counted = 1]
      <4>1. (window.expires \/ Counted = 1) \in BOOLEAN
        OBVIOUS
      <4> HIDE DEF TypeOK
      <4> QED BY <3>1, <3>2, <4>1
    <3>3. CASE UNCHANGED window
      BY <3>3
    <3> QED BY <1>11, <3>2, <3>3 DEF CountRequest
  <2> QED BY <1>11, <2>1, <2>3 DEF CountRequest, key, pricing, StoreShape
<1>12. CASE WindowEnds
  BY <1>12, ConstantsAssumption DEF WindowEnds, key, pricing
<1>13. ASSUME NEW r \in Requests, Abandon(r) PROVE TypeOK'
  <2>1. req' \in Reqs
    BY <1>13 DEF Abandon, Stages, StoreShape
  <2>2. entry' = entry /\ unexpiring' \in BOOLEAN
    BY <1>13 DEF Abandon, NoExpiry, Entry
  <2> QED BY <1>0, <1>13, <2>1, <2>2 DEF Abandon, pricing
<1>14. CASE UNCHANGED vars
  BY <1>14 DEF vars, key, pricing
<1>15. ASSUME NEW r \in Requests, Serve(r) PROVE TypeOK'
  BY <1>2, <1>3, <1>4, <1>6, <1>7, <1>8, <1>11, <1>15 DEF Serve
<1> QED BY <1>1, <1>5, <1>9, <1>10, <1>12, <1>13, <1>14, <1>15, <1>16 DEF Next

\* Every reachable state is well typed: a setting or key is never half a value.
THEOREM TypeCorrect == Spec => []TypeOK
<1>1. Init => TypeOK
  <2> SUFFICES ASSUME Init PROVE TypeOK
    OBVIOUS
  <2>1. settings \in [Settings -> 0 .. MaxEdits \cup {None}] /\ rule \in 0 .. MaxEdits
    BY ConstantsAssumption DEF Init
  <2>2. edits \in [Versions -> [begun: BOOLEAN, open: BOOLEAN, written: 0 .. 2]]
    BY DEF Init, NoEdit
  <2>3. window \in [count: 0 .. Limit + 1, expires: BOOLEAN]
    BY ConstantsAssumption DEF Init
  <2>4. req \in [Requests -> [at: Stages]
                             \cup [at: {"store"}, version: 0 .. MaxEdits, written: 0 .. 1]]
    BY DEF Init, Stages
  <2>5. api_key \in KeyStates /\ entry \in Entry
        /\ fills \in Nat
    BY DEF Init, NoEntry, Entry, KeyStates
  <2>6. unexpiring \in BOOLEAN /\ spoiled \in BOOLEAN
    BY DEF Init
  <2> QED BY <2>1, <2>2, <2>3, <2>4, <2>5, <2>6 DEF TypeOK
<1> QED BY <1>1, TypeStep, PTL DEF Spec

-----------------------------------------------------------------------------
(* A key that has ended                                                    *)

Waiting == {r \in Requests : req[r].at = "id"}

\* A fill is counted only once the key has ended: at that moment, at most every request
\* has looked it up and has yet to store it.
StaleInv == StaleFillsBounded /\ (~Ended => fills = 0)

LEMMA WaitingShrinks ==
    ASSUME TypeOK, StaleInv, Waiting' \subseteq Waiting, UNCHANGED <<api_key, fills>>
    PROVE  StaleInv'
<1>1. IsFiniteSet(Waiting)
  BY ConstantsAssumption, FS_Subset DEF Waiting
<1>2. Cardinality(Waiting') <= Cardinality(Waiting) /\ IsFiniteSet(Waiting')
  BY <1>1, FS_Subset
<1>3. Cardinality(Waiting) \in Nat /\ Cardinality(Waiting') \in Nat /\ Cardinality(Requests) \in Nat
  BY <1>1, <1>2, ConstantsAssumption, FS_CardinalityType
<1>4. Ended' = Ended /\ fills' = fills /\ fills \in Nat
  BY DEF Ended, TypeOK
<1>5. Ended => fills + Cardinality(Waiting) <= Cardinality(Requests)
  BY DEF StaleInv, StaleFillsBounded, Waiting
<1>6. Ended' => fills' + Cardinality(Waiting') <= Cardinality(Requests)
  BY <1>2, <1>3, <1>4, <1>5
<1>7. ~Ended' => fills' = 0
  BY <1>4 DEF StaleInv
<1> QED BY <1>6, <1>7 DEF StaleInv, StaleFillsBounded, Waiting

LEMMA StaleStep ==
    ASSUME TypeOK, StaleInv, [Next]_vars
    PROVE  StaleInv'
<1>1. ASSUME NEW r \in Requests, CacheId(r) PROVE StaleInv'
  <2>1. req \in [Requests -> [at: Stages] \cup StoreShape]
    BY DEF TypeOK, StoreShape
  <2>0. PICK stored \in BOOLEAN, answered \in BOOLEAN : CacheStored(r, stored, answered)
    BY <1>1, CacheIdCases
  <2>2. r \in Waiting /\ Waiting' = Waiting \ {r}
    BY <2>0, <2>1 DEF CacheStored, Goto, Waiting
  <2>3. IsFiniteSet(Waiting)
    BY ConstantsAssumption, FS_Subset DEF Waiting
  <2>4. Cardinality(Waiting') = Cardinality(Waiting) - 1
    BY <2>2, <2>3, FS_RemoveElement
  <2>5. Cardinality(Waiting) \in Nat /\ Cardinality(Requests) \in Nat
    BY <2>3, ConstantsAssumption, FS_CardinalityType
  <2>6. /\ api_key' = api_key /\ fills \in Nat
        /\ fills' = fills \/ (Ended /\ fills' = fills + 1)
    BY <2>0 DEF CacheStored, TypeOK
  <2>7. Ended => fills + Cardinality(Waiting) <= Cardinality(Requests)
    BY DEF StaleInv, StaleFillsBounded, Waiting
  <2>8. Ended' = Ended
    BY <2>6 DEF Ended
  <2>9. Ended' => fills' + Cardinality(Waiting') <= Cardinality(Requests)
    BY <2>4, <2>5, <2>6, <2>7, <2>8
  <2>10. ~Ended' => fills' = 0
    BY <2>6, <2>8 DEF StaleInv
  <2> QED BY <2>9, <2>10 DEF StaleInv, StaleFillsBounded, Waiting
<1>2. ASSUME NEW r \in Requests, Lookup(r) PROVE StaleInv'
  <2>1. req \in [Requests -> [at: Stages] \cup StoreShape]
    BY DEF TypeOK, StoreShape
  <2>2. UNCHANGED <<api_key, fills>>
    BY <1>2 DEF Lookup, key
  <2>3. CASE api_key = "active"
    BY <2>2, <2>3 DEF StaleInv, StaleFillsBounded, Ended
  <2>4. CASE api_key # "active"
    <3>1. Waiting' \subseteq Waiting
      BY <1>2, <2>1, <2>4 DEF Lookup, Goto, Waiting
    <3> QED BY <2>2, <3>1, WaitingShrinks
  <2> QED BY <2>3, <2>4
<1>3. ASSUME NEW r \in Requests,
             \/ Resolve(r) \/ CacheExpiry(r) \/ CacheRest(r) \/ ReadConfig(r)
             \/ ReadRule(r) \/ CountRequest(r) \/ Abandon(r)
      PROVE  StaleInv'
  <2>1. req \in [Requests -> [at: Stages] \cup StoreShape]
    BY DEF TypeOK, StoreShape
  <2>2. \E to : to.at # "id" /\ req' = [req EXCEPT ![r] = to]
    BY <1>3 DEF Resolve, CacheExpiry, CacheRest, ReadConfig, ReadRule, CountRequest, Abandon, Goto
  <2>3. Waiting' \subseteq Waiting
    BY <2>1, <2>2 DEF Waiting
  <2>4. UNCHANGED <<api_key, fills>>
    BY <1>3 DEF Resolve, CacheExpiry, CacheRest, ReadConfig, ReadRule, CountRequest, Abandon, key
  <2> QED BY <2>3, <2>4, WaitingShrinks
<1>4. ASSUME NEW r \in Requests, StoreSetting(r) PROVE StaleInv'
  <2>1. req \in [Requests -> [at: Stages] \cup StoreShape]
    BY DEF TypeOK, StoreShape
  <2>2. req[r] \in StoreShape
    BY <1>4, RequestShape DEF StoreSetting, Goto
  <2>3. req'[r].at # "id" /\ \A q \in Requests \ {r} : req'[q] = req[q]
    BY <1>4, <2>1, <2>2 DEF StoreSetting, Goto, StoreShape
  <2>4. Waiting' \subseteq Waiting
    BY <2>3 DEF Waiting
  <2> QED BY <1>4, <2>4, WaitingShrinks DEF StoreSetting, key
<1>5. CASE RevokeApiKey
  <2>1. fills' = 0 /\ Waiting' \subseteq Requests
    BY <1>5 DEF RevokeApiKey, StaleInv, Ended, Waiting
  <2>2. Cardinality(Waiting') <= Cardinality(Requests) /\ IsFiniteSet(Waiting')
    BY <2>1, ConstantsAssumption, FS_Subset
  <2>3. Cardinality(Waiting') \in Nat /\ Cardinality(Requests) \in Nat
    BY <2>2, ConstantsAssumption, FS_CardinalityType
  <2>4. fills' + Cardinality(Waiting') <= Cardinality(Requests)
    BY <2>1, <2>2, <2>3
  <2> QED BY <2>1, <2>4 DEF StaleInv, StaleFillsBounded, Waiting
<1>6. CASE CreateApiKey
  BY <1>6 DEF CreateApiKey, StaleInv, StaleFillsBounded, Ended
<1>7. CASE EntryExpires \/ WindowEnds
  <2>1. UNCHANGED <<api_key, fills, req>>
    BY <1>7 DEF EntryExpires, WindowEnds, key
  <2> QED BY <2>1, WaitingShrinks DEF Waiting
<1>8. ASSUME NEW v \in Versions,
             BeginEdit(v) \/ CommitEdit(v) \/ RollbackEdit(v) \/ WriteSetting(v)
      PROVE  StaleInv'
  <2>1. UNCHANGED <<api_key, fills, req>>
    BY <1>8 DEF BeginEdit, CommitEdit, RollbackEdit, WriteSetting, key
  <2> QED BY <2>1, WaitingShrinks DEF Waiting
<1>9. CASE UNCHANGED vars
  <2>1. UNCHANGED <<api_key, fills, req>>
    BY <1>9 DEF vars, key
  <2> QED BY <2>1, WaitingShrinks DEF Waiting
<1>10. ASSUME NEW r \in Requests, Serve(r) PROVE StaleInv'
  BY <1>1, <1>2, <1>3, <1>4, <1>10 DEF Serve
<1> QED BY <1>3, <1>5, <1>6, <1>7, <1>8, <1>9, <1>10 DEF Next

\* A revoked key is put into the cache at most once per request that had looked it up
\* before it was revoked.
THEOREM StaleFillsCorrect == Spec => []StaleFillsBounded
<1>1. Init => StaleInv
  BY DEF Init, StaleInv, StaleFillsBounded, Ended
<1>2. StaleInv => StaleFillsBounded
  BY DEF StaleInv
<1> QED BY <1>1, <1>2, StaleStep, TypeCorrect, PTL DEF Spec

-----------------------------------------------------------------------------
(* The cached settings                                                     *)

Unfinished(v) == edits[v].begun /\ (edits[v].open \/ edits[v].written # 2)

UnbegunUntouched == \A v \in Versions : ~edits[v].begun => ~edits[v].open /\ edits[v].written = 0

\* While an edit that met nothing is unfinished, it is the only writer, and what it
\* has written so far is its own.
OneWriter ==
    ~spoiled => \A v \in Versions : Unfinished(v) =>
        /\ NoFill
        /\ \A w \in Versions : Unfinished(w) => w = v
        /\ \A s \in Settings : s <= edits[v].written => settings[s] = v
        /\ ~edits[v].open => rule = v

\* Once it is finished, fills store what the rule says.
SettledCache ==
    ~spoiled /\ Quiet =>
        /\ \A s \in Settings : settings[s] \in {rule, None}
        /\ \A r \in Requests : req[r].at = "store" => req[r].version = rule

FollowInv == UnbegunUntouched /\ OneWriter /\ SettledCache

LEMMA QuietIsFinished == TypeOK => (Quiet <=> \A v \in Versions : ~Unfinished(v))
BY DEF Quiet, Unfinished, TypeOK

\* Steps that begin no fill and leave the pricing alone.
LEMMA NoNewFill ==
    ASSUME FollowInv, UNCHANGED pricing,
           \A r \in Requests : req'[r] = req[r] \/ req'[r].at \notin {"miss", "store"}
    PROVE  FollowInv'
<1>1. NoFill => NoFill'
  BY DEF NoFill
<1>2. OneWriter' /\ UnbegunUntouched'
  BY <1>1 DEF FollowInv, OneWriter, UnbegunUntouched, Unfinished, pricing
<1>3. SettledCache'
  BY DEF FollowInv, SettledCache, Quiet, pricing
<1> QED BY <1>2, <1>3 DEF FollowInv

LEMMA FollowServe ==
    ASSUME TypeOK, FollowInv, NEW r \in Requests, Resolve(r) \/ Serve(r) \/ Abandon(r)
    PROVE  FollowInv'
<1>1. req \in [Requests -> [at: Stages] \cup StoreShape]
  BY DEF TypeOK, StoreShape
<1>2. CASE \/ Resolve(r) \/ Lookup(r) \/ CacheId(r) \/ CacheExpiry(r) \/ CacheRest(r)
           \/ CountRequest(r) \/ Abandon(r)
  <2>1. \E to : to.at \notin {"miss", "store"} /\ req' = [req EXCEPT ![r] = to]
    BY <1>2 DEF Resolve, Lookup, CacheId, CacheExpiry, CacheRest, CountRequest, Abandon, Goto
  <2>2. \A q \in Requests : req'[q] = req[q] \/ req'[q].at \notin {"miss", "store"}
    BY <1>1, <2>1
  <2>3. UNCHANGED pricing
    BY <1>2 DEF Resolve, Lookup, CacheId, CacheExpiry, CacheRest, CountRequest, Abandon
  <2> QED BY <2>2, <2>3, NoNewFill
<1>3. CASE ReadConfig(r)
  <2>1. CASE spoiled'
    BY <1>3, <2>1 DEF ReadConfig, FollowInv, UnbegunUntouched, OneWriter, SettledCache
  <2>2. CASE ~spoiled'
    <3>1. UNCHANGED <<rule, settings, edits>>
      BY <1>3 DEF ReadConfig
    <3>2. \A q \in Requests : req'[q] = req[q] \/ req'[q].at # "store"
      BY <1>1, <1>3 DEF ReadConfig, Goto
    <3>3. CASE Goto(r, "config", "miss") /\ spoiled' = (spoiled \/ ~Quiet)
      <4>1. ~spoiled /\ Quiet
        BY <2>2, <3>3
      <4>2. \A v \in Versions : ~Unfinished(v)'
        BY <3>1, <4>1, QuietIsFinished DEF Unfinished
      <4> QED BY <3>1, <3>2, <4>1, <4>2
              DEF FollowInv, UnbegunUntouched, OneWriter, SettledCache
    <3>4. CASE Goto(r, "config", "limit") /\ UNCHANGED spoiled
      <4>1. req'[r].at = "limit" /\ \A q \in Requests \ {r} : req'[q] = req[q]
        BY <1>1, <3>4 DEF Goto
      <4>2. UNCHANGED pricing
        BY <3>1, <3>4 DEF pricing
      <4> QED BY <4>1, <4>2, NoNewFill
    <3> QED BY <1>3, <3>3, <3>4 DEF ReadConfig
  <2> QED BY <2>1, <2>2
<1>4. ASSUME ReadRule(r) \/ StoreSetting(r), ~spoiled
      PROVE  Quiet /\ \A v \in Versions : ~Unfinished(v)
  <2>1. ~NoFill
    BY <1>4 DEF ReadRule, StoreSetting, Goto, NoFill
  <2>2. \A v \in Versions : ~Unfinished(v)
    BY <1>4, <2>1 DEF FollowInv, OneWriter
  <2> QED BY <2>2, QuietIsFinished
<1>5. CASE ReadRule(r)
  <2>1. UNCHANGED <<rule, settings, edits, spoiled>>
    BY <1>5 DEF ReadRule, pricing
  <2>2. /\ req'[r].version = rule
        /\ \A q \in Requests \ {r} : req'[q] = req[q]
    BY <1>1, <1>5 DEF ReadRule
  <2>3. SettledCache'
    BY <2>1, <2>2 DEF FollowInv, SettledCache, Quiet
  <2>4. OneWriter'
    BY <1>4, <1>5, <2>1 DEF OneWriter, Unfinished
  <2> QED BY <2>1, <2>3, <2>4 DEF FollowInv, UnbegunUntouched
<1>6. CASE StoreSetting(r)
  <2>1. UNCHANGED <<rule, edits, spoiled>>
    BY <1>6 DEF StoreSetting
  <2>2. OneWriter'
    BY <1>4, <1>6, <2>1 DEF OneWriter, Unfinished
  <2>3. req[r].at = "store" /\ req[r] \in StoreShape
    BY <1>6, RequestShape DEF StoreSetting, Goto
  <2>4. \A q \in Requests : req'[q].at = "store" =>
                               req[q].at = "store" /\ req'[q].version = req[q].version
    BY <1>1, <1>6, <2>3 DEF StoreSetting, Goto, StoreShape
  <2>5. \A s \in Settings : settings'[s] = settings[s] \/ settings'[s] = req[r].version
    BY <1>6 DEF StoreSetting, TypeOK
  <2>6. SettledCache'
    BY <2>1, <2>3, <2>4, <2>5 DEF FollowInv, SettledCache, Quiet
  <2> QED BY <2>1, <2>2, <2>6 DEF FollowInv, UnbegunUntouched
<1> QED BY <1>2, <1>3, <1>5, <1>6 DEF Serve

LEMMA FollowBegin ==
    ASSUME TypeOK, FollowInv, NEW v \in Versions, BeginEdit(v)
    PROVE  FollowInv'
<1>1. ~edits[v].begun /\ edits[v].written = 0
  BY DEF BeginEdit, FollowInv, UnbegunUntouched, Versions
<1>2. /\ edits'[v].begun /\ edits'[v].open /\ edits'[v].written = 0
      /\ \A w \in Versions \ {v} : edits'[w] = edits[w]
      /\ UNCHANGED <<rule, settings, req>>
  BY <1>1 DEF BeginEdit, TypeOK
<1>3. UnbegunUntouched'
  BY <1>2 DEF FollowInv, UnbegunUntouched
<1>4. ~Quiet'
  BY <1>2 DEF Quiet
<1>5. ASSUME ~spoiled' PROVE OneWriter'
  <2>1. Quiet /\ NoFill
    BY <1>5 DEF BeginEdit
  <2>2. \A w \in Versions \ {v} : ~Unfinished(w)'
    BY <1>2, <2>1, QuietIsFinished DEF Unfinished
  <2>3. NoFill'
    BY <1>2, <2>1 DEF NoFill
  <2> QED BY <1>2, <2>2, <2>3 DEF OneWriter, Settings
<1>6. spoiled' => OneWriter'
  BY DEF OneWriter
<1> QED BY <1>3, <1>4, <1>5, <1>6 DEF FollowInv, SettledCache

LEMMA FollowCommit ==
    ASSUME TypeOK, FollowInv, NEW v \in Versions, CommitEdit(v)
    PROVE  FollowInv'
<1>1. /\ edits[v].open /\ edits[v].begun /\ Unfinished(v)
      /\ edits[v].written \in 0 .. 2
  BY DEF CommitEdit, FollowInv, UnbegunUntouched, Unfinished, TypeOK
<1>2. /\ edits'[v].begun = edits[v].begun /\ ~edits'[v].open
      /\ edits'[v].written = edits[v].written
      /\ \A w \in Versions \ {v} : edits'[w] = edits[w]
      /\ rule' = v /\ UNCHANGED <<settings, spoiled, req>>
  BY DEF CommitEdit, TypeOK
<1>3. UnbegunUntouched'
  BY <1>1, <1>2 DEF FollowInv, UnbegunUntouched
<1>4. ASSUME ~spoiled PROVE OneWriter' /\ SettledCache'
  <2>1. /\ NoFill /\ \A w \in Versions : Unfinished(w) => w = v
        /\ \A s \in Settings : s <= edits[v].written => settings[s] = v
    BY <1>1, <1>4 DEF FollowInv, OneWriter
  <2>2. NoFill' /\ \A w \in Versions : Unfinished(w)' => w = v
    BY <1>2, <2>1 DEF NoFill, Unfinished
  <2>3. OneWriter'
    BY <1>2, <2>1, <2>2 DEF OneWriter
  <2>4. ASSUME Quiet' PROVE \A s \in Settings : settings'[s] = rule'
    <3>1. edits'[v].written = 2
      BY <1>1, <1>2, <2>4 DEF Quiet
    <3> QED BY <1>2, <2>1, <3>1 DEF Settings
  <2>5. \A r \in Requests : req'[r].at # "store"
    BY <2>2 DEF NoFill
  <2> QED BY <2>3, <2>4, <2>5 DEF SettledCache
<1>5. spoiled => OneWriter' /\ SettledCache'
  BY <1>2 DEF OneWriter, SettledCache
<1> QED BY <1>3, <1>4, <1>5 DEF FollowInv

LEMMA FollowRollback ==
    ASSUME TypeOK, FollowInv, NEW v \in Versions, RollbackEdit(v)
    PROVE  FollowInv'
<1>1. UnbegunUntouched'
  BY DEF RollbackEdit, FollowInv, UnbegunUntouched, TypeOK
<1> QED BY <1>1 DEF RollbackEdit, FollowInv, OneWriter, SettledCache

LEMMA FollowWrite ==
    ASSUME TypeOK, FollowInv, NEW v \in Versions, WriteSetting(v)
    PROVE  FollowInv'
<1>1. edits[v].begun /\ edits[v].written \in {0, 1} /\ Unfinished(v)
  BY DEF WriteSetting, Unfinished, TypeOK
<1>2. /\ edits'[v].begun = edits[v].begun /\ edits'[v].open = edits[v].open
      /\ edits'[v].written = edits[v].written + 1
      /\ \A w \in Versions \ {v} : edits'[w] = edits[w]
      /\ UNCHANGED <<rule, req>>
  BY DEF WriteSetting, TypeOK
<1>3. UnbegunUntouched'
  BY <1>1, <1>2 DEF FollowInv, UnbegunUntouched
<1>4. ASSUME ~spoiled' PROVE OneWriter' /\ SettledCache'
  <2>0. ~spoiled /\ settings' = [settings EXCEPT ![edits[v].written + 1] = v]
    BY <1>4 DEF WriteSetting
  <2>1. /\ NoFill /\ \A w \in Versions : Unfinished(w) => w = v
        /\ \A s \in Settings : s <= edits[v].written => settings[s] = v
        /\ ~edits[v].open => rule = v
    BY <1>1, <2>0 DEF FollowInv, OneWriter
  <2>2. NoFill' /\ \A w \in Versions : Unfinished(w)' => w = v
    BY <1>2, <2>1 DEF NoFill, Unfinished
  <2>3. edits[v].written + 1 \in Settings
    BY <1>1 DEF Settings
  <2>4. \A s \in Settings : settings'[s] = IF s = edits[v].written + 1 THEN v ELSE settings[s]
    BY <2>0, <2>3 DEF TypeOK
  <2>5. \A s \in Settings : s <= edits[v].written + 1 => settings'[s] = v
    BY <1>1, <2>1, <2>4 DEF Settings
  <2>6. OneWriter'
    BY <1>2, <2>1, <2>2, <2>5 DEF OneWriter
  <2>7. ASSUME Quiet' PROVE \A s \in Settings : settings'[s] = rule'
    <3>1. edits'[v].written = 2 /\ ~edits'[v].open
      BY <1>1, <1>2, <2>7 DEF Quiet
    <3> QED BY <1>2, <2>1, <2>5, <3>1 DEF Settings
  <2>8. \A r \in Requests : req'[r].at # "store"
    BY <2>2 DEF NoFill
  <2> QED BY <2>6, <2>7, <2>8 DEF SettledCache
<1>5. spoiled' => OneWriter' /\ SettledCache'
  BY DEF OneWriter, SettledCache
<1> QED BY <1>3, <1>4, <1>5 DEF FollowInv

LEMMA FollowStep ==
    ASSUME TypeOK, FollowInv, [Next]_vars
    PROVE  FollowInv'
<1>1. CASE EntryExpires \/ CreateApiKey \/ RevokeApiKey \/ WindowEnds \/ UNCHANGED vars
  <2>1. UNCHANGED pricing /\ UNCHANGED req
    BY <1>1 DEF EntryExpires, CreateApiKey, RevokeApiKey, WindowEnds, vars
  <2> QED BY <2>1, NoNewFill
<1> QED BY <1>1, FollowServe, FollowBegin, FollowCommit, FollowRollback, FollowWrite DEF Next

\* When the last edit of a pricing rule has committed, met neither another edit nor a
\* fill, and none of its SETs failed, every setting that is cached is the rule's.
THEOREM SettingsFollowRuleCorrect == Spec => []SettingsFollowRule
<1>1. Init => FollowInv
  <2> SUFFICES ASSUME Init PROVE FollowInv
    OBVIOUS
  <2>1. \A v \in Versions : edits[v].begun = FALSE /\ edits[v].open = FALSE /\ edits[v].written = 0
    BY DEF Init, NoEdit
  <2>2. \A s \in Settings : settings[s] \in {rule, None}
    BY DEF Init
  <2>3. \A r \in Requests : req[r].at # "store"
    BY DEF Init
  <2> QED BY <2>1, <2>2, <2>3 DEF FollowInv, UnbegunUntouched, OneWriter, SettledCache, Unfinished
<1>2. FollowInv => SettingsFollowRule
  BY DEF FollowInv, SettledCache, SettingsFollowRule
<1> QED BY <1>1, <1>2, FollowStep, TypeCorrect, PTL DEF Spec

=============================================================================
