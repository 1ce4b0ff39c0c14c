-------------------------- MODULE RequestAdmission --------------------------
(***************************************************************************)
(* What a request for one live API key passes before its credits are       *)
(* counted (UsageQuota): the key, looked up through a Redis hash that is   *)
(* filled field by field; the pricing rule of its plan, looked up through  *)
(* Redis keys that an administrator's edits overwrite; and the counter of  *)
(* the workspace's rate limit.  A Redis command is atomic, a sequence of   *)
(* them is not, and none of them is part of a database transaction.  Each  *)
(* may fail, before or after it has had its effect: RedisService makes     *)
(* None or False of the exception, and nobody looks at a False.            *)
(***************************************************************************)
EXTENDS Naturals, FiniteSets

CONSTANTS
    Requests,       \* requests that may be under way at a time
    None,           \* nothing cached
    Limit,          \* requests a window of the rate limit admits
    MaxEdits        \* bound on edits of the pricing rule

ASSUME ConstantsAssumption ==
    /\ IsFiniteSet(Requests)
    /\ Limit \in Nat /\ MaxEdits \in Nat
    /\ None \notin Nat

VARIABLES
    api_key,    \* the row of api_keys
    entry,      \* the hash api_key:<hash> in Redis
    rule,       \* the version of plan_pricing_rules that is committed
    settings,   \* per setting, the version cached for it
    edits,      \* per version, what has become of its transaction and of its task
    window,     \* the rate limit's counter in Redis
    req,        \* the requests under way
    fills,      \* history: fills of the entry since the key has ended
    unexpiring, \* history: the entry was left with an id and without a time to live,
                \* by a command that failed or a process that died
    spoiled     \* history: the last edit rolled back, met another edit or a fill, or a SET
                \* of a task failed

pricing == <<rule, settings, edits, spoiled>>
key == <<api_key, entry, fills, unexpiring>>
vars == <<key, pricing, window, req>>

-----------------------------------------------------------------------------
\* Two of the four settings of a rule, in the order in which they are written.
Settings == {1, 2}

Versions == 1 .. MaxEdits

\* A key ends when it is revoked, or at its expires_at.
KeyStates == {"absent", "active", "ended"}
Ended == api_key = "ended"

\* rest: the fields beside the id are there; some of them are as good as none.
Entry == [id: BOOLEAN, rest: BOOLEAN, expires: BOOLEAN]

NoEntry == [id |-> FALSE, rest |-> FALSE, expires |-> FALSE]

\* open: the transaction has not ended; written: the settings the task has written.
NoEdit == [begun |-> FALSE, open |-> FALSE, written |-> 0]

Stages == {"idle", "lookup", "id", "expire", "rest", "config", "miss", "limit"}

TypeOK ==
    /\ api_key \in KeyStates
    /\ entry \in Entry
    /\ rule \in 0 .. MaxEdits
    /\ settings \in [Settings -> 0 .. MaxEdits \cup {None}]
    /\ edits \in [Versions -> [begun: BOOLEAN, open: BOOLEAN, written: 0 .. 2]]
    /\ window \in [count: 0 .. Limit + 1, expires: BOOLEAN]
    /\ req \in [Requests -> [at: Stages]
                            \cup [at: {"store"}, version: 0 .. MaxEdits, written: 0 .. 1]]
    /\ fills \in Nat
    /\ unexpiring \in BOOLEAN /\ spoiled \in BOOLEAN

\* The application has started: init has cached every rule, unless Redis has lost it
\* since.
Init ==
    /\ api_key = "absent" /\ entry = NoEntry
    /\ rule = 0
    /\ settings \in {[s \in Settings |-> 0], [s \in Settings |-> None]}
    /\ edits = [v \in Versions |-> NoEdit]
    /\ window = [count |-> 0, expires |-> FALSE]
    /\ req = [r \in Requests |-> [at |-> "idle"]]
    /\ fills = 0
    /\ unexpiring = FALSE /\ spoiled = FALSE

-----------------------------------------------------------------------------
(* The API key: _resolve_api_key and revoke_api_key                        *)

Goto(r, from, to) ==
    /\ req[r].at = from
    /\ req' = [req EXCEPT ![r] = [at |-> to]]

\* Mutant: a hit renews the entry.
Resolve_renewing(r) ==
    /\ \/ Goto(r, "idle", "lookup")
       \/ entry.id /\ entry.rest /\ Goto(r, "idle", "id")
    /\ UNCHANGED <<key, pricing, window>>

\* The hash has no id, or HGETALL fails; or it is a hit.  A hash with an id but not yet
\* the other fields fails the request.
Resolve(r) ==
    /\ \/ Goto(r, "idle", "lookup")
       \/ entry.id /\ entry.rest /\ Goto(r, "idle", "config")
    /\ UNCHANGED <<key, pricing, window>>

\* get_active_by_hash; another key is refused.
Lookup(r) ==
    /\ Goto(r, "lookup", IF api_key = "active" THEN "id" ELSE "idle")
    /\ UNCHANGED <<key, pricing, window>>

\* The first HSET of cache_api_key_info; a command on a hash that has expired in
\* between starts a new one.  Without an answer hset returns at once, and the EXPIRE is
\* not sent whether the id was stored or not.
CacheId(r) ==
    \E stored, answered \in BOOLEAN :
        /\ answered => stored
        /\ Goto(r, "id", IF answered THEN "expire" ELSE "rest")
        /\ entry' = [entry EXCEPT !.id = @ \/ stored]
        /\ fills' = IF Ended /\ stored THEN fills + 1 ELSE fills
        /\ unexpiring' = (unexpiring \/ (stored /\ ~answered /\ ~entry.expires))
        /\ UNCHANGED <<api_key, pricing, window>>

\* An EXPIRE that is not executed leaves the entry as it was, for good if nobody else
\* sends one.
NoExpiry ==
    /\ unexpiring' = (unexpiring \/ (entry.id /\ ~entry.expires))
    /\ UNCHANGED entry

\* Mutant: the time to live is not set again on a hash that is still there.
CacheExpiry_once(r) ==
    /\ Goto(r, "expire", "rest")
    /\ UNCHANGED <<key, pricing, window>>

\* The EXPIRE of the first hset; its failure goes unnoticed.
CacheExpiry(r) ==
    /\ Goto(r, "expire", "rest")
    /\ \/ /\ entry' = [entry EXCEPT !.expires = entry.id \/ entry.rest]
          /\ unexpiring' = FALSE
       \/ NoExpiry
    /\ UNCHANGED <<api_key, fills, pricing, window>>

\* The other fields, if they are all stored.
CacheRest(r) ==
    /\ Goto(r, "rest", "config")
    /\ \E stored \in BOOLEAN : entry' = [entry EXCEPT !.rest = @ \/ stored]
    /\ UNCHANGED <<api_key, fills, unexpiring, pricing, window>>

EntryExpires ==
    /\ entry.expires
    /\ entry' = NoEntry
    /\ UNCHANGED <<api_key, fills, unexpiring, pricing, window, req>>

\* create_api_key caches nothing.
CreateApiKey ==
    /\ api_key = "absent"
    /\ api_key' = "active"
    /\ UNCHANGED <<entry, fills, unexpiring, pricing, window, req>>

\* revoke_api_key: invalidate_api_key_cache is called by nothing.
RevokeApiKey ==
    /\ api_key = "active"
    /\ api_key' = "ended"
    /\ UNCHANGED <<entry, fills, unexpiring, pricing, window, req>>

-----------------------------------------------------------------------------
(* The pricing rule: get_plan_config, and the listeners of edits           *)

Quiet == \A v \in Versions : edits[v].begun => ~edits[v].open /\ edits[v].written = 2

NoFill == \A r \in Requests : req[r].at \notin {"miss", "store"}

\* A setting is missing or a GET fails, or all are found.
ReadConfig(r) ==
    /\ \/ /\ Goto(r, "config", "miss")
          /\ spoiled' = (spoiled \/ ~Quiet)
       \/ /\ \A s \in Settings : settings[s] # None
          /\ Goto(r, "config", "limit")
          /\ UNCHANGED spoiled
    /\ UNCHANGED <<key, rule, settings, edits, window>>

ReadRule(r) ==
    /\ req[r].at = "miss"
    /\ req' = [req EXCEPT ![r] = [at |-> "store", version |-> rule, written |-> 0]]
    /\ UNCHANGED <<key, pricing, window>>

\* One setting after the other; a SET that fails is passed over.
StoreSetting(r) ==
    /\ req[r].at = "store"
    /\ LET s == req[r].written + 1
       IN  /\ IF s = 2 THEN Goto(r, "store", "limit") ELSE req' = [req EXCEPT ![r].written = s]
           /\ settings' = [settings EXCEPT ![s] = req[r].version] \/ UNCHANGED settings
    /\ UNCHANGED <<key, rule, edits, spoiled, window>>

\* An administrator's UPDATE is flushed, and its listener starts a task.  The row is
\* locked to the end of the transaction.
BeginEdit(v) ==
    /\ \A w \in Versions : edits[w].begun <=> w < v
    /\ \A w \in Versions : ~edits[w].open
    /\ edits' = [edits EXCEPT ![v].begun = TRUE, ![v].open = TRUE]
    /\ spoiled' = ~(Quiet /\ NoFill)
    /\ UNCHANGED <<key, rule, settings, window, req>>

CommitEdit(v) ==
    /\ edits[v].open
    /\ edits' = [edits EXCEPT ![v].open = FALSE]
    /\ rule' = v
    /\ UNCHANGED <<key, settings, spoiled, window, req>>

RollbackEdit(v) ==
    /\ edits[v].open
    /\ edits' = [edits EXCEPT ![v].open = FALSE]
    /\ spoiled' = TRUE
    /\ UNCHANGED <<key, rule, settings, window, req>>

\* Mutant: the task writes the first setting alone.
WriteSetting_first(v) ==
    /\ edits[v].begun /\ edits[v].written < 2
    /\ edits' = [edits EXCEPT ![v].written = 2]
    /\ settings' = [settings EXCEPT ![1] = v]
    /\ UNCHANGED <<key, rule, spoiled, window, req>>

\* The task writes one setting after the other, before or after the transaction ends,
\* and goes on to the next when a SET fails.
WriteSetting(v) ==
    /\ edits[v].begun /\ edits[v].written < 2
    /\ edits' = [edits EXCEPT ![v].written = @ + 1]
    /\ \/ /\ settings' = [settings EXCEPT ![edits[v].written + 1] = v]
          /\ UNCHANGED spoiled
       \/ /\ spoiled' = TRUE
          /\ UNCHANGED settings
    /\ UNCHANGED <<key, rule, window, req>>

-----------------------------------------------------------------------------
(* The rate limit: _check_rate_limit                                       *)

\* Counts above the limit are alike.
Counted == IF window.count > Limit THEN window.count ELSE window.count + 1

\* Mutant: INCR and EXPIRE are two commands, and the process may die between them.
CountRequest_twoCommands(r) ==
    /\ Goto(r, "limit", "idle")
    /\ \E died \in BOOLEAN :
         window' = [count |-> Counted, expires |-> window.expires \/ (Counted = 1 /\ ~died)]
    /\ UNCHANGED <<key, pricing>>

\* rate_limit_incr, one script: increment, and let the first one start the window;
\* a count above the limit refuses the request, a script that fails admits it.
CountRequest(r) ==
    /\ Goto(r, "limit", "idle")
    /\ \/ window' = [count |-> Counted, expires |-> window.expires \/ Counted = 1]
       \/ UNCHANGED window
    /\ UNCHANGED <<key, pricing>>

WindowEnds ==
    /\ window.expires
    /\ window' = [count |-> 0, expires |-> FALSE]
    /\ UNCHANGED <<key, pricing, req>>

-----------------------------------------------------------------------------
\* The client disconnects, or the process dies.
Abandon(r) ==
    /\ req[r].at # "idle"
    /\ req' = [req EXCEPT ![r] = [at |-> "idle"]]
    /\ IF req[r].at = "expire" THEN NoExpiry ELSE UNCHANGED <<entry, unexpiring>>
    /\ UNCHANGED <<api_key, fills, pricing, window>>

Serve(r) ==
    \/ Lookup(r) \/ CacheId(r) \/ CacheExpiry(r) \/ CacheRest(r)
    \/ ReadConfig(r) \/ ReadRule(r) \/ StoreSetting(r)
    \/ CountRequest(r)

Next ==
    \/ \E r \in Requests : Resolve(r) \/ Serve(r) \/ Abandon(r)
    \/ EntryExpires \/ CreateApiKey \/ RevokeApiKey \/ WindowEnds
    \/ \E v \in Versions : BeginEdit(v) \/ CommitEdit(v) \/ RollbackEdit(v) \/ WriteSetting(v)

\* A request goes on, and Redis expires what has a time to live.
Fairness ==
    /\ \A r \in Requests : WF_vars(Serve(r))
    /\ WF_vars(EntryExpires) /\ WF_vars(WindowEnds)

Spec == Init /\ [][Next]_vars

FairSpec == Spec /\ Fairness

-----------------------------------------------------------------------------
(* Properties                                                              *)

\* A key ends in the database alone.  Each request that had looked it up before
\* may put it into the cache once more, and none that comes later.
StaleFillsBounded ==
    Ended => fills + Cardinality({r \in Requests : req[r].at = "id"}) <= Cardinality(Requests)

\* A key that has ended is refused in the end, and for good, however many requests keep
\* asking for it: unless a failed EXPIRE, or a process that died before it, has left the
\* entry without a time to live and no fill under way mends it.
RevokedIsRefused == <>[](Ended /\ entry.id => unexpiring)

\* A workspace that has reached its rate limit is admitted again, though its requests
\* keep coming, and die or are not answered by Redis at any point.
LimitLifts == []<>(window.count <= Limit)

\* The last edit repairs whatever the edits and fills before it have left in the cache:
\* if it committed, met neither another edit nor a fill, and no SET of its task failed,
\* each setting is cached as the rule says, or not at all, until the next edit, though
\* fills fail half way.
SettingsFollowRule ==
    Quiet /\ NoFill /\ ~spoiled => \A s \in Settings : settings[s] \in {rule, None}

=============================================================================
