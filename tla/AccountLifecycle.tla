-------------------------- MODULE AccountLifecycle --------------------------
(***************************************************************************)
(* The account of one e-mail address: the user row, its one-time codes,    *)
(* its refresh tokens, and the personal workspace and Career subscription  *)
(* set up once for it.  Every request is a READ COMMITTED transaction: it  *)
(* reads and checks, then writes.  An UPDATE of the user row locks it to   *)
(* the end of the transaction; nothing else is locked.                     *)
(***************************************************************************)
EXTENDS Naturals, FiniteSets

CONSTANTS
    Codes,         \* ids of OTP rows
    Tokens,        \* ids of refresh token rows
    Transactions,  \* transactions that may be open at a time
    None,          \* no row
    MaxPasswords,  \* bound on how often a password is set
    MaxWorkspaces  \* bound on personal workspaces, above what the code reaches

ASSUME ConstantsAssumption ==
    /\ IsFiniteSet(Transactions)
    /\ None \notin Codes
    /\ MaxPasswords \in Nat \ {0}
    /\ MaxWorkspaces \in Nat

VARIABLES
    user,       \* the row of users
    codes,      \* otp_tokens
    tokens,     \* refresh_tokens
    personal,   \* personal workspaces: their slugs, and whether they have a subscription
    career,     \* whether the user has a Career subscription
    seeded,     \* whether the free plans are in the database
    tx          \* open transactions

products == <<personal, career>>
vars == <<user, codes, tokens, products, seeded, tx>>

-----------------------------------------------------------------------------
Purposes == {"EMAIL_VERIFICATION", "PASSWORD_RESET"}

\* A password is known by its number, 0 for none; links are the rows of
\* oauth_accounts, which has no unique index.
User == [verified: BOOLEAN, deleted: BOOLEAN, password: 0 .. MaxPasswords, links: Nat]

\* A code is open until it is used or superseded.  Expiry only keeps it from being
\* used, and a code may stay unused in any case.
Code == [purpose: Purposes, open: BOOLEAN, uses: Nat]

\* password: the one current when the session began; late: the session began
\* beside a transaction that ended sessions.
Token == [password: 0 .. MaxPasswords, late: BOOLEAN]

Revoked == [revoked |-> TRUE]

ASSUME NoneAssumption == None \notin User \cup Code \cup Token \cup {Revoked}

Slugs == 0 .. MaxWorkspaces

\* What an OAuth provider has to add to the row.
Additions == {"nothing", "profile", "verified"}

Idle == [op |-> "idle"]

Request ==
    [op: {"verify"}, code: Codes]
    \cup [op: {"oauth"}, kind: {"new", "link", "known"}, adds: Additions]
    \cup [op: {"activate"}]

Transaction ==
    {Idle}
    \cup [op: {"signup"}]
    \cup [op: {"send"}, purpose: Purposes, seen: SUBSET Codes]
    \cup Request
    \cup [op: {"setup"}, request: Request, absent: BOOLEAN, subscribe: BOOLEAN, slug: Slugs \cup {None}]
    \cup [op: {"career"}]
    \cup [op: {"signin"}, password: 1 .. MaxPasswords]
    \cup [op: {"reset"}, code: Codes]
    \cup [op: {"change"}]
    \cup [op: {"end"}, write: {"password", "deletion", "none"}, code: Codes \cup {None},
          seen: SUBSET Tokens]

TypeOK ==
    /\ user \in User \cup {None}
    /\ codes \in [Codes -> Code \cup {None}]
    /\ tokens \in [Tokens -> Token \cup {Revoked, None}]
    /\ personal \subseteq [slug: Slugs, subscribed: BOOLEAN]
    /\ career \in BOOLEAN /\ seeded \in BOOLEAN
    /\ tx \in [Transactions -> Transaction]

Init ==
    /\ user = None
    /\ codes = [c \in Codes |-> None]
    /\ tokens = [k \in Tokens |-> None]
    /\ personal = {} /\ career = FALSE
    /\ seeded \in BOOLEAN
    /\ tx = [t \in Transactions |-> Idle]

-----------------------------------------------------------------------------
(* Rows                                                                    *)

Exists == user # None
Present == Exists /\ ~user.deleted     \* get_current_active_user

\* get_valid_token_by_hash.
Open(c, purpose) == codes[c] # None /\ codes[c].open /\ codes[c].purpose = purpose

Active == {k \in Tokens : tokens[k] \notin {Revoked, None}}

UpdatesUser(request) ==
    request.op = "verify" \/ (request.op = "oauth" /\ request.adds # "nothing")

LocksUser(t) ==
    \/ tx[t].op = "setup" /\ UpdatesUser(tx[t].request)
    \/ tx[t].op = "end" /\ tx[t].write # "none"

UserUnlocked == \A t \in Transactions : ~LocksUser(t)

Begin(t, request) ==
    /\ tx[t] = Idle
    /\ tx' = [tx EXCEPT ![t] = request]
    /\ UNCHANGED <<user, codes, tokens, products, seeded>>

Step(t, op, next) ==
    /\ tx[t].op = op
    /\ tx' = [tx EXCEPT ![t] = next]
    /\ UNCHANGED <<user, codes, tokens, products, seeded>>

End(t) == tx' = [tx EXCEPT ![t] = Idle]

-----------------------------------------------------------------------------
(* One-time codes                                                          *)

\* email_signup refuses an address that has a row, deleted or not.
Signup(t) == ~Exists /\ Begin(t, [op |-> "signup"])

\* Mutant: only the latest code is superseded.
Superseded_latest(purpose) ==
    LET open == {c \in Codes : Open(c, purpose)}
    IN  IF open = {} THEN {} ELSE {CHOOSE c \in open : TRUE}

\* What invalidate_previous_tokens finds.
Superseded(purpose) == {c \in Codes : Open(c, purpose)}

Send(t, purpose) == Begin(t, [op |-> "send", purpose |-> purpose, seen |-> Superseded(purpose)])

ResendVerification(t) == Exists /\ ~user.verified /\ Send(t, "EMAIL_VERIFICATION")

RequestPasswordReset(t) == Exists /\ user.password # 0 /\ Send(t, "PASSWORD_RESET")

\* A new code, with those it supersedes closed.
Insert(c, purpose, seen) ==
    /\ codes[c] = None
    /\ codes' = [d \in Codes |->
                   IF d = c THEN [purpose |-> purpose, open |-> TRUE, uses |-> 0]
                   ELSE IF d \in seen THEN [codes[d] EXCEPT !.open = FALSE]
                   ELSE codes[d]]

\* The user and its first code; a row created meanwhile fails the unique index.
CreateUser(t) ==
    /\ tx[t].op = "signup"
    /\ ~Exists
    /\ user' = [verified |-> FALSE, deleted |-> FALSE, password |-> 1, links |-> 0]
    /\ \E c \in Codes : Insert(c, "EMAIL_VERIFICATION", {})
    /\ End(t)
    /\ UNCHANGED <<tokens, products, seeded>>

CreateCode(t) ==
    /\ tx[t].op = "send"
    /\ \E c \in Codes : Insert(c, tx[t].purpose, tx[t].seen)
    /\ End(t)
    /\ UNCHANGED <<user, tokens, products, seeded>>

\* Mutant: the code is recorded as used and can be used again.
Used_again(c) == [codes EXCEPT ![c].uses = @ + 1]

\* mark_as_used, by id.
Used(c) == [codes EXCEPT ![c] = [@ EXCEPT !.open = FALSE, !.uses = codes[c].uses + 1]]

-----------------------------------------------------------------------------
(* Signing up and in: the products, and a token pair                       *)

VerifySignup(t, c) ==
    /\ Open(c, "EMAIL_VERIFICATION")
    /\ Begin(t, [op |-> "verify", code |-> c])

\* oauth_authenticate: a linked account, one with the same address, or a new one;
\* the row is updated if the provider has something to add.
OauthCallback(t, adds) ==
    /\ ~Exists => adds # "profile"
    /\ Exists /\ adds = "verified" => ~user.verified
    /\ Begin(t, [op |-> "oauth", adds |-> adds,
                 kind |-> IF ~Exists THEN "new" ELSE IF user.links = 0 THEN "link" ELSE "known"])

ActivatePersonalWorkspace(t) == Present /\ Begin(t, [op |-> "activate"])

\* Mutant: the hooks do not look for a personal workspace.
LookForProducts_blindly(t) ==
    /\ tx[t] \in Request
    /\ tx[t].op # "oauth" => Exists
    /\ Exists /\ UpdatesUser(tx[t]) => UserUnlocked
    /\ Step(t, tx[t].op,
            [op |-> "setup", request |-> tx[t], absent |-> TRUE,
             subscribe |-> tx[t].op # "activate" /\ ~career, slug |-> None])

\* The user is updated, then the hooks look for what there is.
LookForProducts(t) ==
    /\ tx[t] \in Request
    /\ tx[t].op # "oauth" => Exists
    /\ Exists /\ UpdatesUser(tx[t]) => UserUnlocked
    /\ Step(t, tx[t].op,
            [op |-> "setup", request |-> tx[t], absent |-> personal = {},
             subscribe |-> tx[t].op # "activate" /\ ~career, slug |-> None])

\* generate_unique_slug: the first suffix that no workspace has.
FreeSlug(s) ==
    /\ s \in Slugs
    /\ \A r \in 0 .. s : r \in {w.slug : w \in personal} <=> r < s

ChooseSlug(t) ==
    /\ tx[t].op = "setup" /\ tx[t].absent /\ tx[t].slug = None
    /\ \E s \in Slugs : FreeSlug(s) /\ Step(t, "setup", [tx[t] EXCEPT !.slug = s])

\* The rows the hooks add.  Without the free plan the first hook fails after it has
\* inserted the workspace, and the second before it inserts anything; both failures
\* are swallowed.  A row that is there by now fails the whole transaction.
Products(t) ==
    LET slug == tx[t].slug
    IN  /\ tx[t].absent => slug # None /\ slug \notin {w.slug : w \in personal}
        /\ tx[t].request.op = "activate" => seeded \/ ~tx[t].absent
        /\ tx[t].subscribe /\ seeded => ~career
        /\ personal' = IF tx[t].absent
                       THEN personal \cup {[slug |-> slug, subscribed |-> seeded]}
                       ELSE personal
        /\ career' = (career \/ (tx[t].subscribe /\ seeded))

\* The session began beside a transaction that has looked for the sessions to end.
BesideEnding == \E o \in Transactions : tx[o].op = "end"

CreateToken(password) ==
    \E k \in Tokens :
        /\ tokens[k] = None
        /\ tokens' = [tokens EXCEPT ![k] =
               [password |-> password, late |-> BesideEnding \/ password # user'.password]]

FinishVerify(t) ==
    /\ tx[t].op = "setup" /\ tx[t].request.op = "verify"
    /\ user' = [user EXCEPT !.verified = TRUE]
    /\ codes' = Used(tx[t].request.code)
    /\ Products(t)
    /\ CreateToken(user.password)
    /\ End(t)
    /\ UNCHANGED seeded

FinishOauth(t) ==
    /\ tx[t].op = "setup" /\ tx[t].request.op = "oauth"
    /\ LET request == tx[t].request
       IN  IF request.kind = "new"
           THEN /\ ~Exists
                /\ user' = [verified |-> request.adds = "verified", deleted |-> FALSE,
                            password |-> 0, links |-> 1]
           ELSE user' = [user EXCEPT !.verified = @ \/ request.adds = "verified",
                                     !.links = IF request.kind = "link" THEN @ + 1 ELSE @]
    /\ Products(t)
    /\ CreateToken(user'.password)
    /\ End(t)
    /\ UNCHANGED <<codes, seeded>>

\* A personal workspace without a subscription is refused.
FinishActivate(t) ==
    /\ tx[t].op = "setup" /\ tx[t].request.op = "activate"
    /\ Products(t)
    /\ End(t)
    /\ UNCHANGED <<user, codes, tokens, seeded>>

\* activate_career_subscription.
ActivateCareer(t) == Present /\ ~career /\ seeded /\ Begin(t, [op |-> "career"])

FinishCareer(t) ==
    /\ tx[t].op = "career"
    /\ ~career
    /\ career' = TRUE
    /\ End(t)
    /\ UNCHANGED <<user, codes, tokens, personal, seeded>>

\* Mutant: an account without a password is not refused.
Signin_anyAccount(t) == Exists /\ Begin(t, [op |-> "signin", password |-> user.password])

\* email_signin does not look at is_deleted.
Signin(t) == Exists /\ user.password # 0 /\ Begin(t, [op |-> "signin", password |-> user.password])

FinishSignin(t) ==
    /\ tx[t].op = "signin"
    /\ UNCHANGED user
    /\ CreateToken(tx[t].password)
    /\ End(t)
    /\ UNCHANGED <<codes, products, seeded>>

-----------------------------------------------------------------------------
(* Ending sessions                                                         *)

\* One UPDATE by the hash of the token.
Signout(k) ==
    /\ k \in Active
    /\ tokens' = [tokens EXCEPT ![k] = Revoked]
    /\ UNCHANGED <<user, codes, products, seeded, tx>>

ResetPassword(t, c) ==
    /\ Open(c, "PASSWORD_RESET")
    /\ Begin(t, [op |-> "reset", code |-> c])

\* The current password is checked against the row as an earlier transaction of the
\* request read it.  The request carries an access token, which names no session.
ChangePassword(t) ==
    /\ Present /\ user.password # 0
    /\ Begin(t, [op |-> "change"])

\* The row is updated, then the sessions are looked for and ended: every one, that of
\* the device which asked for it too.
RevokeAll(t, write, code) ==
    /\ write # "none" => UserUnlocked
    /\ tx' = [tx EXCEPT ![t] = [op |-> "end", write |-> write, code |-> code, seen |-> Active]]
    /\ UNCHANGED <<user, codes, tokens, products, seeded>>

SetPassword(t) ==
    /\ tx[t].op \in {"reset", "change"} /\ user.password < MaxPasswords
    /\ \/ tx[t].op = "reset" /\ RevokeAll(t, "password", tx[t].code)
       \/ tx[t].op = "change" /\ RevokeAll(t, "password", None)

SignoutAll(t) == tx[t] = Idle /\ Present /\ RevokeAll(t, "none", None)

DeleteAccount(t) == tx[t] = Idle /\ Present /\ RevokeAll(t, "deletion", None)

\* Mutant: a changed password ends no session.
FinishEnding_keepingSessions(t) ==
    /\ tx[t].op = "end"
    /\ user' = CASE tx[t].write = "password" -> [user EXCEPT !.password = @ + 1]
                 [] tx[t].write = "deletion" -> [user EXCEPT !.deleted = TRUE]
                 [] OTHER -> user
    /\ codes' = IF tx[t].code = None THEN codes ELSE Used(tx[t].code)
    /\ tokens' = [k \in Tokens |->
                    IF k \in tx[t].seen /\ (tx[t].write = "password" => tx[t].code # None)
                    THEN Revoked ELSE tokens[k]]
    /\ End(t)
    /\ UNCHANGED <<products, seeded>>

FinishEnding(t) ==
    /\ tx[t].op = "end"
    /\ user' = CASE tx[t].write = "password" -> [user EXCEPT !.password = @ + 1]
                 [] tx[t].write = "deletion" -> [user EXCEPT !.deleted = TRUE]
                 [] OTHER -> user
    /\ codes' = IF tx[t].code = None THEN codes ELSE Used(tx[t].code)
    /\ tokens' = [k \in Tokens |-> IF k \in tx[t].seen THEN Revoked ELSE tokens[k]]
    /\ End(t)
    /\ UNCHANGED <<products, seeded>>

-----------------------------------------------------------------------------
\* An error, a unique violation or a crash.
Rollback(t) ==
    /\ tx[t] # Idle
    /\ End(t)
    /\ UNCHANGED <<user, codes, tokens, products, seeded>>

\* cleanup_soft_deleted_users: everything the user had goes with the row.  No
\* transaction stays open for the thirty days before it.
Purge ==
    /\ Exists /\ user.deleted
    /\ \A t \in Transactions : tx[t] = Idle
    /\ user' = None
    /\ codes' = [c \in Codes |-> None]
    /\ tokens' = [k \in Tokens |-> None]
    /\ personal' = {} /\ career' = FALSE
    /\ UNCHANGED <<seeded, tx>>

\* The free plans are added to the database.
Seed ==
    /\ ~seeded
    /\ seeded' = TRUE
    /\ UNCHANGED <<user, codes, tokens, products, tx>>

Serve(t) ==
    \/ Signup(t) \/ CreateUser(t)
    \/ ResendVerification(t) \/ RequestPasswordReset(t) \/ CreateCode(t)
    \/ \E c \in Codes : VerifySignup(t, c) \/ ResetPassword(t, c)
    \/ \E adds \in Additions : OauthCallback(t, adds)
    \/ ActivatePersonalWorkspace(t) \/ LookForProducts(t) \/ ChooseSlug(t)
    \/ FinishVerify(t) \/ FinishOauth(t) \/ FinishActivate(t)
    \/ ActivateCareer(t) \/ FinishCareer(t)
    \/ Signin(t) \/ FinishSignin(t)
    \/ ChangePassword(t) \/ SetPassword(t) \/ SignoutAll(t) \/ DeleteAccount(t) \/ FinishEnding(t)
    \/ Rollback(t)

Next ==
    \/ \E t \in Transactions : Serve(t)
    \/ \E k \in Tokens : Signout(k)
    \/ Purge \/ Seed

Spec == Init /\ [][Next]_vars

-----------------------------------------------------------------------------
(* Properties                                                              *)

\* A code is checked in one statement and marked in another, so racing requests may
\* all use it; a request that comes later may not.
CodeUsesBounded ==
    \A c \in Codes :
        LET verifying == {t \in Transactions :
                            \/ tx[t].op \in {"verify", "reset", "end"} /\ tx[t].code = c
                            \/ /\ tx[t].op = "setup" /\ tx[t].request.op = "verify"
                               /\ tx[t].request.code = c}
        IN  codes[c] # None =>
                codes[c].uses + Cardinality(verifying) <= Cardinality(Transactions)

\* Sending a code closes the ones sent before, except those being sent at the same
\* time: an address has as many open codes as requests overlapped, and no more.
OpenCodesBounded ==
    \A p \in Purposes :
        LET sending == {t \in Transactions : tx[t].op = "send" /\ tx[t].purpose = p}
            kept == {c \in Codes : Open(c, p) /\ \A t \in sending : c \notin tx[t].seen}
        IN  Cardinality(kept) + Cardinality(sending) <= Cardinality(Transactions)

\* A new password leaves no session that began before, not even that of the device on
\* which it was set (the route of a change promises to keep that one, auth.py:1852):
\* only one that began beside the change can outlive it.
SessionsFollowPassword ==
    \A k \in Active : ~tokens[k].late => Exists /\ tokens[k].password = user.password

\* However sign-ups, sign-ins and activations interleave and fail, a verified user
\* has a personal workspace, and nobody has more of them, or more links to one OAuth
\* account, than requests that overlapped.
ProductsBounded ==
    /\ Exists /\ user.verified => personal # {}
    /\ Cardinality(personal) <= Cardinality(Transactions)
    /\ Exists => user.links <= Cardinality(Transactions)

=============================================================================
