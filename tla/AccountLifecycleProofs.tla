----------------------- MODULE AccountLifecycleProofs -----------------------
(* Theorems about AccountLifecycle, for every value of its constants.      *)
EXTENDS AccountLifecycle, FiniteSetTheorems, TLAPS

USE DEF Idle

RequestOps == {"verify", "oauth", "activate"}

\* The record a request is.
LEMMA RequestShape ==
    ASSUME NEW r \in Request
    PROVE  /\ r.op \in RequestOps
           /\ r.op = "verify" => r.code \in Codes
           /\ r.op = "oauth" => r.kind \in {"new", "link", "known"} /\ r.adds \in Additions
BY DEF Request, RequestOps

\* The record a transaction is at each point.
LEMMA TransactionShape ==
    ASSUME NEW r \in Transaction
    PROVE  /\ r.op \in {"idle", "signup", "send", "setup", "career", "signin", "reset", "change",
                        "end"} \cup RequestOps
           /\ r.op = "idle" => r = Idle
           /\ r.op \in RequestOps => r \in Request
           /\ r.op = "send" => r.purpose \in Purposes /\ r.seen \subseteq Codes
           /\ r.op = "setup" => /\ r \in [op: {"setup"}, request: Request, absent: BOOLEAN,
                                          subscribe: BOOLEAN, slug: Slugs \cup {None}]
                                /\ r.request \in Request /\ r.absent \in BOOLEAN
                                /\ r.subscribe \in BOOLEAN /\ r.slug \in Slugs \cup {None}
           /\ r.op = "signin" => r.password \in 1 .. MaxPasswords
           /\ r.op = "reset" => r.code \in Codes
           /\ r.op = "end" => /\ r.write \in {"password", "deletion", "none"}
                              /\ r.code \in Codes \cup {None} /\ r.seen \subseteq Tokens
<1>1. CASE r = Idle
  BY <1>1 DEF RequestOps
<1>2. CASE r \in [op: {"signup"}] \cup [op: {"career"}] \cup [op: {"change"}]
  BY <1>2 DEF RequestOps
<1>3. CASE r \in [op: {"send"}, purpose: Purposes, seen: SUBSET Codes]
  BY <1>3 DEF RequestOps
<1>4. CASE r \in Request
  BY <1>4, RequestShape DEF RequestOps
<1>5. CASE r \in [op: {"setup"}, request: Request, absent: BOOLEAN, subscribe: BOOLEAN,
                  slug: Slugs \cup {None}]
  BY <1>5 DEF RequestOps
<1>6. CASE r \in [op: {"signin"}, password: 1 .. MaxPasswords]
  BY <1>6 DEF RequestOps
<1>7. CASE r \in [op: {"reset"}, code: Codes]
  BY <1>7 DEF RequestOps
<1>8. CASE r \in [op: {"end"}, write: {"password", "deletion", "none"}, code: Codes \cup {None},
                  seen: SUBSET Tokens]
  BY <1>8 DEF RequestOps
<1> QED BY <1>1, <1>2, <1>3, <1>4, <1>5, <1>6, <1>7, <1>8 DEF Transaction

-----------------------------------------------------------------------------
(* The strengthened invariant                                              *)

\* What a transaction has read is still there: rows only go with the purge, which
\* waits for the transactions.  A password that is being set is not the last one.
Grounded(r) ==
    /\ r.op \in {"send", "signin", "reset", "change", "end"} => Exists
    /\ r.op = "send" => \A c \in r.seen : codes[c] # None
    /\ r.op \in {"verify", "reset"} => codes[r.code] # None
    /\ r.op = "oauth" /\ r.kind # "new" => Exists
    /\ r.op = "setup" => Exists \/ (r.request.op = "oauth" /\ r.request.kind = "new")
    /\ r.op = "setup" /\ r.request.op = "verify" => codes[r.request.code] # None
    /\ r.op = "end" /\ r.code # None => codes[r.code] # None
    /\ r.op = "end" /\ r.write = "password" => user.password < MaxPasswords

EndsLocked(t) == tx[t].op = "end" /\ tx[t].write # "none"

Owned ==
    /\ \A c \in Codes : codes[c] # None => Exists
    /\ \A k \in Tokens : tokens[k] # None => Exists

Inv ==
    /\ TypeOK
    /\ \A t \in Transactions : Grounded(tx[t])
    /\ \A t, u \in Transactions : EndsLocked(t) /\ EndsLocked(u) => t = u
    /\ Owned

-----------------------------------------------------------------------------
(* The shapes of steps                                                     *)

\* The requests that begin, with what they have checked.
Begun(t, r) ==
    /\ tx[t] = Idle
    /\ \/ r = [op |-> "signup"] /\ ~Exists
       \/ /\ Exists
          /\ \E p \in Purposes : r = [op |-> "send", purpose |-> p, seen |-> Superseded(p)]
       \/ \E c \in Codes : r = [op |-> "verify", code |-> c] /\ Open(c, "EMAIL_VERIFICATION")
       \/ \E c \in Codes : r = [op |-> "reset", code |-> c] /\ Open(c, "PASSWORD_RESET")
       \/ \E adds \in Additions :
            r = [op |-> "oauth", adds |-> adds,
                 kind |-> IF ~Exists THEN "new" ELSE IF user.links = 0 THEN "link" ELSE "known"]
       \/ Exists /\ r \in {[op |-> "activate"], [op |-> "career"], [op |-> "change"]}
       \/ Exists /\ user.password # 0 /\ r = [op |-> "signin", password |-> user.password]

Rows == <<user, codes, tokens, products, seeded>>

\* A transaction goes on to read more; nothing is written.
Continued(t, r) ==
    \/ /\ tx[t] \in Request
       /\ tx[t].op # "oauth" => Exists
       /\ r = [op |-> "setup", request |-> tx[t], absent |-> personal = {},
               subscribe |-> tx[t].op # "activate" /\ ~career, slug |-> None]
    \/ /\ tx[t].op = "setup"
       /\ \E s \in Slugs : r = [tx[t] EXCEPT !.slug = s]
    \/ r = Idle

\* It begins to end sessions.
Ending(t, r) ==
    \E write \in {"password", "deletion", "none"}, code \in Codes \cup {None} :
      /\ r = [op |-> "end", write |-> write, code |-> code, seen |-> Active]
      /\ write # "none" => UserUnlocked
      /\ \/ write = "password" /\ user.password < MaxPasswords
            /\ \/ tx[t].op = "reset" /\ code = tx[t].code
               \/ tx[t].op = "change" /\ code = None
         \/ write # "password" /\ tx[t] = Idle /\ Present /\ code = None

\* A step that writes no row but those of transactions.
LEMMA ReadingStep ==
    ASSUME NEW t \in Transactions, TypeOK,
           \/ Signup(t) \/ ResendVerification(t) \/ RequestPasswordReset(t)
           \/ \E c \in Codes : VerifySignup(t, c) \/ ResetPassword(t, c)
           \/ \E adds \in Additions : OauthCallback(t, adds)
           \/ ActivatePersonalWorkspace(t) \/ LookForProducts(t) \/ ChooseSlug(t)
           \/ ActivateCareer(t) \/ Signin(t) \/ ChangePassword(t)
           \/ SetPassword(t) \/ SignoutAll(t) \/ DeleteAccount(t) \/ Rollback(t)
    PROVE  /\ UNCHANGED Rows
           /\ \E r : /\ tx' = [tx EXCEPT ![t] = r]
                     /\ Begun(t, r) \/ Continued(t, r) \/ Ending(t, r)
<1> USE DEF Rows
<1>1. CASE Signup(t)
  BY <1>1 DEF Signup, Begin, Begun
<1>2. CASE ResendVerification(t)
  BY <1>2 DEF ResendVerification, Send, Begin, Begun, Purposes
<1>3. CASE RequestPasswordReset(t)
  BY <1>3 DEF RequestPasswordReset, Send, Begin, Begun, Purposes
<1>4. ASSUME NEW c \in Codes, VerifySignup(t, c) PROVE UNCHANGED Rows /\ \E r : tx' = [tx EXCEPT ![t] = r] /\ Begun(t, r)
  BY <1>4 DEF VerifySignup, Begin, Begun
<1>5. ASSUME NEW c \in Codes, ResetPassword(t, c) PROVE UNCHANGED Rows /\ \E r : tx' = [tx EXCEPT ![t] = r] /\ Begun(t, r)
  BY <1>5 DEF ResetPassword, Begin, Begun
<1>6. ASSUME NEW adds \in Additions, OauthCallback(t, adds) PROVE UNCHANGED Rows /\ \E r : tx' = [tx EXCEPT ![t] = r] /\ Begun(t, r)
  BY <1>6 DEF OauthCallback, Begin, Begun
<1>7. CASE ActivatePersonalWorkspace(t)
  BY <1>7 DEF ActivatePersonalWorkspace, Begin, Begun, Present
<1>8. CASE LookForProducts(t)
  BY <1>8 DEF LookForProducts, Step, Continued
<1>9. CASE ChooseSlug(t)
  BY <1>9 DEF ChooseSlug, FreeSlug, Step, Continued
<1>10. CASE ActivateCareer(t)
  BY <1>10 DEF ActivateCareer, Begin, Begun, Present
<1>11. CASE Signin(t)
  BY <1>11 DEF Signin, Begin, Begun
<1>12. CASE ChangePassword(t)
  BY <1>12 DEF ChangePassword, Begin, Begun, Present
<1>13. CASE SetPassword(t)
  <2>1. tx[t].op = "reset" => tx[t].code \in Codes
    BY TransactionShape DEF TypeOK
  <2>2. CASE tx[t].op = "reset" /\ RevokeAll(t, "password", tx[t].code)
    <3>1. tx' = [tx EXCEPT ![t] = [op |-> "end", write |-> "password", code |-> tx[t].code,
                                   seen |-> Active]]
      BY <2>2 DEF RevokeAll
    <3> QED BY <1>13, <2>1, <2>2, <3>1 DEF SetPassword, RevokeAll, Ending
  <2>3. CASE tx[t].op = "change" /\ RevokeAll(t, "password", None)
    BY <1>13, <2>3 DEF SetPassword, RevokeAll, Ending
  <2> QED BY <1>13, <2>2, <2>3 DEF SetPassword
<1>14. CASE SignoutAll(t)
  BY <1>14 DEF SignoutAll, RevokeAll, Ending
<1>15. CASE DeleteAccount(t)
  BY <1>15 DEF DeleteAccount, RevokeAll, Ending
<1>16. CASE Rollback(t)
  BY <1>16 DEF Rollback, End, Continued
<1> QED BY <1>1, <1>2, <1>3, <1>4, <1>5, <1>6, <1>7, <1>8, <1>9, <1>10, <1>11, <1>12, <1>13, <1>14, <1>15, <1>16

-----------------------------------------------------------------------------
(* The invariant is kept                                                   *)

LEMMA ReadingTyped ==
    ASSUME Inv, NEW t \in Transactions, NEW r, Begun(t, r) \/ Continued(t, r) \/ Ending(t, r)
    PROVE  r \in Transaction /\ Grounded(r)
<1> USE DEF Inv
<1>1. \A p \in Purposes : Superseded(p) \subseteq Codes /\ \A c \in Superseded(p) : codes[c] # None
  BY DEF Superseded, Open
<1>2. user # None => user.password \in 0 .. MaxPasswords
  BY DEF TypeOK, User
<1>3. CASE Begun(t, r)
  <2>1. CASE r = [op |-> "signup"]
    BY <2>1 DEF Transaction, Grounded
  <2>2. ASSUME NEW p \in Purposes, Exists, r = [op |-> "send", purpose |-> p, seen |-> Superseded(p)]
        PROVE  r \in Transaction /\ Grounded(r)
    <3>1. r \in [op: {"send"}, purpose: Purposes, seen: SUBSET Codes]
      BY <1>1, <2>2
    <3> QED BY <1>1, <2>2, <3>1 DEF Transaction, Grounded
  <2>3. ASSUME NEW c \in Codes, codes[c] # None,
               r = [op |-> "verify", code |-> c] \/ r = [op |-> "reset", code |-> c]
        PROVE  r \in Transaction /\ Grounded(r)
    BY <2>3 DEF Transaction, Request, Grounded, Owned
  <2>4. ASSUME NEW adds \in Additions,
               r = [op |-> "oauth", adds |-> adds,
                    kind |-> IF ~Exists THEN "new" ELSE IF user.links = 0 THEN "link" ELSE "known"]
        PROVE  r \in Transaction /\ Grounded(r)
    <3>1. r \in [op: {"oauth"}, kind: {"new", "link", "known"}, adds: Additions]
      BY <2>4
    <3> QED BY <2>4, <3>1 DEF Transaction, Request, Grounded
  <2>5. CASE Exists /\ r \in {[op |-> "activate"], [op |-> "career"], [op |-> "change"]}
    BY <2>5 DEF Transaction, Request, Grounded
  <2>6. CASE Exists /\ user.password # 0 /\ r = [op |-> "signin", password |-> user.password]
    <3>1. user.password \in 1 .. MaxPasswords
      BY <1>2, <2>6, ConstantsAssumption DEF Exists
    <3> QED BY <2>6, <3>1 DEF Transaction, Grounded
  <2> QED BY <1>3, <2>1, <2>2, <2>3, <2>4, <2>5, <2>6 DEF Begun, Open
<1>4. CASE Continued(t, r)
  <2>1. tx[t] \in Transaction /\ Grounded(tx[t])
    BY DEF TypeOK
  <2>2. CASE tx[t] \in Request /\ (tx[t].op # "oauth" => Exists)
              /\ r = [op |-> "setup", request |-> tx[t], absent |-> personal = {},
                      subscribe |-> tx[t].op # "activate" /\ ~career, slug |-> None]
    <3>1. (personal = {}) \in BOOLEAN /\ (tx[t].op # "activate" /\ ~career) \in BOOLEAN
      OBVIOUS
    <3>2. r \in [op: {"setup"}, request: Request, absent: BOOLEAN, subscribe: BOOLEAN,
                 slug: Slugs \cup {None}]
      BY <2>2, <3>1
    <3> QED BY <2>1, <2>2, <3>2, RequestShape DEF Transaction, Grounded, RequestOps
  <2>3. ASSUME NEW s \in Slugs, tx[t].op = "setup", r = [tx[t] EXCEPT !.slug = s]
        PROVE  r \in Transaction /\ Grounded(r)
    <3>1. r \in [op: {"setup"}, request: Request, absent: BOOLEAN, subscribe: BOOLEAN,
                 slug: Slugs \cup {None}]
      BY <2>1, <2>3, TransactionShape
    <3>2. r.op = "setup" /\ r.request = tx[t].request
      BY <2>1, <2>3, TransactionShape
    <3> QED BY <2>1, <2>3, <3>1, <3>2 DEF Transaction, Grounded
  <2>4. CASE r = Idle
    BY <2>4 DEF Transaction, Grounded
  <2> QED BY <1>4, <2>2, <2>3, <2>4 DEF Continued
<1>5. CASE Ending(t, r)
  <2>1. PICK write \in {"password", "deletion", "none"}, code \in Codes \cup {None} :
          /\ r = [op |-> "end", write |-> write, code |-> code, seen |-> Active]
          /\ \/ write = "password" /\ user.password < MaxPasswords
                /\ \/ tx[t].op = "reset" /\ code = tx[t].code
                   \/ tx[t].op = "change" /\ code = None
             \/ write # "password" /\ tx[t] = Idle /\ Present /\ code = None
    BY <1>5 DEF Ending
  <2>2. r \in [op: {"end"}, write: {"password", "deletion", "none"}, code: Codes \cup {None},
               seen: SUBSET Tokens]
    BY <2>1 DEF Active
  <2>3. r \in Transaction
    BY <2>2 DEF Transaction
  <2>4. Grounded(r)
    BY <2>1 DEF Grounded, Present
  <2> QED BY <2>3, <2>4
<1> QED BY <1>3, <1>4, <1>5

\* Only a transaction that has found the user's row unlocked sets out to write it.
LEMMA ReadingLocks ==
    ASSUME Inv, NEW t \in Transactions, NEW r, Begun(t, r) \/ Continued(t, r) \/ Ending(t, r),
           r.op = "end", r.write # "none"
    PROVE  \A u \in Transactions : ~EndsLocked(u)
<1>1. ~Begun(t, r)
  BY DEF Begun
<1>2. ~Continued(t, r)
  <2>1. tx[t] \in Transaction
    BY DEF Inv, TypeOK
  <2> QED BY <2>1, TransactionShape DEF Continued
<1>3. UserUnlocked
  BY <1>1, <1>2 DEF Ending
<1> QED BY <1>3 DEF UserUnlocked, LocksUser, EndsLocked

LEMMA ReadingInv ==
    ASSUME Inv, NEW t \in Transactions, NEW r, UNCHANGED Rows, tx' = [tx EXCEPT ![t] = r],
           Begun(t, r) \/ Continued(t, r) \/ Ending(t, r)
    PROVE  Inv'
<1> USE DEF Inv
<1>1. UNCHANGED <<user, codes, tokens, personal, career, seeded>>
  BY DEF Rows, products
<1>2. r \in Transaction /\ Grounded(r)
  BY ReadingTyped
<1>3. TypeOK'
  <2>1. tx' \in [Transactions -> Transaction]
    BY <1>2 DEF TypeOK
  <2> QED BY <1>1, <2>1 DEF TypeOK
<1>4. ASSUME NEW u \in Transactions PROVE Grounded(tx[u])'
  <2>1. CASE u = t
    BY <1>1, <1>2, <2>1 DEF Grounded, TypeOK, Exists
  <2>2. CASE u # t
    BY <1>1, <2>2 DEF Grounded, TypeOK, Exists
  <2> QED BY <2>1, <2>2
<1>5. ASSUME NEW u \in Transactions, NEW v \in Transactions, EndsLocked(u)', EndsLocked(v)'
      PROVE  u = v
  BY <1>5, ReadingLocks DEF EndsLocked, TypeOK
<1>6. Owned'
  BY <1>1 DEF Owned, Exists
<1> QED BY <1>3, <1>4, <1>5, <1>6

\* A transaction that ends by writing leaves the others what they have read.
LEMMA WritingInv ==
    ASSUME Inv, NEW t \in Transactions, tx' = [tx EXCEPT ![t] = Idle],
           user' \in User \cup {None}, codes' \in [Codes -> Code \cup {None}],
           tokens' \in [Tokens -> Token \cup {Revoked, None}],
           personal' \subseteq [slug: Slugs, subscribed: BOOLEAN],
           career' \in BOOLEAN, seeded' \in BOOLEAN,
           Exists => Exists', \A c \in Codes : codes[c] # None => codes'[c] # None,
           Exists => user'.password = user.password \/ EndsLocked(t),
           Owned'
    PROVE  Inv'
<1> USE DEF Inv
<1>1. TypeOK'
  BY DEF TypeOK, Transaction
<1>2. ASSUME NEW u \in Transactions PROVE Grounded(tx[u])'
  <2>1. CASE u = t
    BY <2>1 DEF Grounded, TypeOK
  <2>2. CASE u # t
    <3>1. tx'[u] = tx[u] /\ Grounded(tx[u]) /\ tx[u] \in Transaction
      BY <2>2 DEF TypeOK
    <3>2. tx[u].op = "end" /\ tx[u].write = "password" => user'.password < MaxPasswords
      <4> SUFFICES ASSUME tx[u].op = "end", tx[u].write = "password"
                   PROVE  user'.password < MaxPasswords
        OBVIOUS
      <4>1. ~EndsLocked(t)
        BY <2>2 DEF EndsLocked
      <4> QED BY <3>1, <4>1 DEF Grounded
    <3>3. tx[u].op = "send" => tx[u].seen \subseteq Codes
      BY <3>1, TransactionShape
    <3>4. tx[u].op \in {"verify", "reset"} => tx[u].code \in Codes
      BY <3>1, TransactionShape, RequestShape DEF RequestOps
    <3>5. tx[u].op = "setup" /\ tx[u].request.op = "verify" => tx[u].request.code \in Codes
      BY <3>1, TransactionShape, RequestShape
    <3>6. tx[u].op = "end" /\ tx[u].code # None => tx[u].code \in Codes
      BY <3>1, TransactionShape
    <3> QED BY <3>1, <3>2, <3>3, <3>4, <3>5, <3>6 DEF Grounded
  <2> QED BY <2>1, <2>2
<1>3. ASSUME NEW u \in Transactions, NEW v \in Transactions, EndsLocked(u)', EndsLocked(v)'
      PROVE  u = v
  BY <1>3 DEF EndsLocked, TypeOK
<1> QED BY <1>1, <1>2, <1>3

-----------------------------------------------------------------------------
(* The writes                                                              *)

LEMMA InsertShape ==
    ASSUME TypeOK, NEW c \in Codes, NEW p \in Purposes, NEW seen \in SUBSET Codes,
           \A d \in seen : codes[d] # None, Insert(c, p, seen)
    PROVE  /\ codes' \in [Codes -> Code \cup {None}]
           /\ \A d \in Codes : codes[d] # None => codes'[d] # None
           /\ codes[c] = None /\ c \notin seen
           /\ codes'[c] = [purpose |-> p, open |-> TRUE, uses |-> 0]
           /\ \A d \in Codes : d # c => /\ d \in seen => codes'[d] = [codes[d] EXCEPT !.open = FALSE]
                                        /\ d \notin seen => codes'[d] = codes[d]
<1>1. [purpose |-> p, open |-> TRUE, uses |-> 0] \in Code
  BY DEF Code
<1>2. ASSUME NEW d \in Codes, codes[d] # None PROVE [codes[d] EXCEPT !.open = FALSE] \in Code
  BY <1>2 DEF TypeOK, Code
<1>3. \A d \in Codes : codes'[d] = IF d = c THEN [purpose |-> p, open |-> TRUE, uses |-> 0]
                                  ELSE IF d \in seen THEN [codes[d] EXCEPT !.open = FALSE]
                                  ELSE codes[d]
  BY DEF Insert
<1>4. \A d \in Codes : codes'[d] \in Code \cup {None}
  BY <1>1, <1>2, <1>3 DEF TypeOK
<1>5. codes' = [d \in Codes |-> codes'[d]]
  BY <1>3 DEF Insert
<1>6. codes' \in [Codes -> Code \cup {None}]
  BY <1>4, <1>5
<1> QED BY <1>1, <1>2, <1>3, <1>6, NoneAssumption DEF Insert

LEMMA UsedShape ==
    ASSUME TypeOK, NEW c \in Codes, codes[c] # None, codes' = Used(c)
    PROVE  /\ codes' \in [Codes -> Code \cup {None}]
           /\ \A d \in Codes : codes[d] # None => codes'[d] # None
           /\ codes'[c].uses = codes[c].uses + 1 /\ ~codes'[c].open
           /\ codes'[c].purpose = codes[c].purpose
           /\ \A d \in Codes : d # c => codes'[d] = codes[d]
<1>1. codes[c] \in Code
  BY DEF TypeOK
<1>2. codes' = [codes EXCEPT ![c] = [codes[c] EXCEPT !.open = FALSE, !.uses = codes[c].uses + 1]]
  BY DEF Used, TypeOK
<1>3. [codes[c] EXCEPT !.open = FALSE, !.uses = codes[c].uses + 1] \in Code
  <2>1. \A old \in Code : \A n \in Nat : [old EXCEPT !.open = FALSE, !.uses = n] \in Code
    BY DEF Code
  <2>2. codes[c].uses + 1 \in Nat
    BY <1>1 DEF Code
  <2> QED BY <1>1, <2>1, <2>2
<1> QED BY <1>1, <1>2, <1>3, NoneAssumption DEF TypeOK, Code

LEMMA TokenShape ==
    ASSUME TypeOK, NEW password \in 0 .. MaxPasswords, CreateToken(password)
    PROVE  /\ tokens' \in [Tokens -> Token \cup {Revoked, None}]
           /\ \E k \in Tokens :
                /\ tokens[k] = None
                /\ \A j \in Tokens : j # k => tokens'[j] = tokens[j]
                /\ tokens'[k] = [password |-> password, late |-> BesideEnding \/ password # user'.password]
<1>1. PICK k \in Tokens :
         /\ tokens[k] = None
         /\ tokens' = [tokens EXCEPT ![k] =
                [password |-> password, late |-> BesideEnding \/ password # user'.password]]
  BY DEF CreateToken
<1>2. (BesideEnding \/ password # user'.password) \in BOOLEAN
  OBVIOUS
<1>3. [password |-> password, late |-> BesideEnding \/ password # user'.password] \in Token
  BY <1>2 DEF Token
<1> QED BY <1>1, <1>3 DEF TypeOK

LEMMA ProductsShape ==
    ASSUME TypeOK, NEW t \in Transactions, tx[t].op = "setup", Products(t)
    PROVE  /\ personal' \subseteq [slug: Slugs, subscribed: BOOLEAN] /\ career' \in BOOLEAN
           /\ tx[t].absent => personal' = personal \cup {[slug |-> tx[t].slug, subscribed |-> seeded]}
           /\ ~tx[t].absent => personal' = personal
           /\ tx[t].request.op = "activate" \/ tx[t].request.op \in {"verify", "oauth"}
<1>1. tx[t] \in Transaction
  BY DEF TypeOK
<1>2. tx[t].absent => tx[t].slug \in Slugs
  BY <1>1, TransactionShape DEF Products
<1>3. tx[t].absent => [slug |-> tx[t].slug, subscribed |-> seeded] \in [slug: Slugs, subscribed: BOOLEAN]
  BY <1>2 DEF TypeOK
<1>4. career' \in BOOLEAN
  BY DEF Products, TypeOK
<1> QED BY <1>1, <1>3, <1>4, TransactionShape, RequestShape DEF Products, TypeOK, RequestOps

LEMMA CreateUserInv == ASSUME Inv, NEW t \in Transactions, CreateUser(t) PROVE Inv'
<1>1. user' \in User /\ tx' = [tx EXCEPT ![t] = Idle] /\ ~Exists
  BY ConstantsAssumption DEF CreateUser, User, End
<1>2. PICK c \in Codes : Insert(c, "EMAIL_VERIFICATION", {})
  BY DEF CreateUser
<1>3. /\ codes' \in [Codes -> Code \cup {None}]
      /\ \A d \in Codes : codes[d] # None => codes'[d] # None
  BY <1>2, InsertShape DEF Inv, Purposes
<1>4. UNCHANGED <<tokens, personal, career, seeded>>
  BY DEF CreateUser, products
<1>5. Exists'
  BY <1>1, NoneAssumption DEF Exists
<1> QED BY <1>1, <1>3, <1>4, <1>5, WritingInv DEF Inv, TypeOK, Owned

LEMMA CreateCodeInv == ASSUME Inv, NEW t \in Transactions, CreateCode(t) PROVE Inv'
<1>1. UNCHANGED <<user, tokens, personal, career, seeded>> /\ tx' = [tx EXCEPT ![t] = Idle]
  BY DEF CreateCode, products, End
<1>2. tx[t] \in Transaction /\ tx[t].op = "send" /\ Grounded(tx[t])
  BY DEF CreateCode, Inv, TypeOK
<1>3. tx[t].purpose \in Purposes /\ tx[t].seen \in SUBSET Codes
  BY <1>2, TransactionShape
<1>4. PICK c \in Codes : Insert(c, tx[t].purpose, tx[t].seen)
  BY DEF CreateCode
<1>5. /\ codes' \in [Codes -> Code \cup {None}]
      /\ \A d \in Codes : codes[d] # None => codes'[d] # None
  BY <1>2, <1>3, <1>4, InsertShape DEF Inv, Grounded
<1>6. Exists /\ Exists'
  BY <1>1, <1>2 DEF Grounded, Exists
<1>7. Owned'
  BY <1>6 DEF Owned
<1>8. /\ user' \in User \cup {None} /\ tokens' \in [Tokens -> Token \cup {Revoked, None}]
      /\ personal' \subseteq [slug: Slugs, subscribed: BOOLEAN]
      /\ career' \in BOOLEAN /\ seeded' \in BOOLEAN
  BY <1>1 DEF Inv, TypeOK
<1> QED BY <1>1, <1>5, <1>6, <1>7, <1>8, WritingInv

LEMMA VerifyShape ==
    ASSUME Inv, NEW t \in Transactions, FinishVerify(t)
    PROVE  /\ Exists /\ Exists' /\ user' \in User /\ user'.password = user.password
           /\ user'.links = user.links /\ user'.verified
           /\ tx[t].request.code \in Codes /\ codes[tx[t].request.code] # None
<1>1. tx[t] \in Transaction /\ tx[t].op = "setup" /\ tx[t].request.op = "verify" /\ Grounded(tx[t])
  BY DEF FinishVerify, Inv, TypeOK
<1>2. Exists /\ codes[tx[t].request.code] # None /\ tx[t].request.code \in Codes
  BY <1>1, TransactionShape, RequestShape DEF Grounded
<1>3. user \in User /\ user' = [user EXCEPT !.verified = TRUE]
  BY <1>2 DEF FinishVerify, Inv, TypeOK, Exists
<1>4. user' \in User /\ user'.password = user.password /\ user'.links = user.links /\ user'.verified
  BY <1>3 DEF User
<1> QED BY <1>2, <1>4, NoneAssumption DEF Exists

LEMMA FinishVerifyInv == ASSUME Inv, NEW t \in Transactions, FinishVerify(t) PROVE Inv'
<1>1. /\ tx' = [tx EXCEPT ![t] = Idle] /\ codes' = Used(tx[t].request.code) /\ Products(t)
      /\ CreateToken(user.password) /\ seeded' = seeded /\ tx[t].op = "setup"
  BY DEF FinishVerify, End
<1>2. /\ codes' \in [Codes -> Code \cup {None}]
      /\ \A d \in Codes : codes[d] # None => codes'[d] # None
  BY <1>1, VerifyShape, UsedShape DEF Inv
<1>3. user.password \in 0 .. MaxPasswords
  BY VerifyShape DEF Inv, TypeOK, Exists, User
<1>4. tokens' \in [Tokens -> Token \cup {Revoked, None}]
  BY <1>1, <1>3, TokenShape DEF Inv
<1>5. personal' \subseteq [slug: Slugs, subscribed: BOOLEAN] /\ career' \in BOOLEAN
  BY <1>1, ProductsShape DEF Inv
<1>6. seeded' \in BOOLEAN
  BY <1>1 DEF Inv, TypeOK
<1>7. Owned'
  BY VerifyShape DEF Owned
<1> QED BY <1>1, <1>2, <1>4, <1>5, <1>6, <1>7, VerifyShape, WritingInv

LEMMA OauthShape ==
    ASSUME Inv, NEW t \in Transactions, FinishOauth(t)
    PROVE  /\ tx[t].request.op = "oauth" /\ tx[t].request.kind \in {"new", "link", "known"}
           /\ Exists' /\ user' \in User
           /\ tx[t].request.kind = "new" <=> ~Exists
           /\ Exists => user'.password = user.password
           /\ ~Exists => user'.links = 1
           /\ tx[t].request.kind = "link" => user'.links = user.links + 1
           /\ tx[t].request.kind = "known" => user'.links = user.links
<1>1. tx[t] \in Transaction /\ tx[t].op = "setup" /\ tx[t].request.op = "oauth" /\ Grounded(tx[t])
  BY DEF FinishOauth, Inv, TypeOK
<1>2. tx[t].request.kind \in {"new", "link", "known"} /\ tx[t].request.adds \in Additions
  BY <1>1, TransactionShape, RequestShape
<1>3. CASE tx[t].request.kind = "new"
  <2>1. ~Exists
    BY <1>3 DEF FinishOauth
  <2>2. user' = [verified |-> tx[t].request.adds = "verified", deleted |-> FALSE, password |-> 0,
                 links |-> 1]
    BY <1>3 DEF FinishOauth
  <2>3. (tx[t].request.adds = "verified") \in BOOLEAN
    OBVIOUS
  <2>4. user' \in User /\ user'.links = 1
    BY <2>2, <2>3, ConstantsAssumption DEF User
  <2> QED BY <1>1, <1>3, <2>1, <2>4, NoneAssumption DEF Exists
<1>4. CASE tx[t].request.kind # "new"
  <2>1. Exists /\ user \in User
    BY <1>1, <1>4 DEF Grounded, Inv, TypeOK, Exists
  <2>2. user' = [user EXCEPT !.verified = user.verified \/ tx[t].request.adds = "verified",
                             !.links = IF tx[t].request.kind = "link" THEN user.links + 1
                                       ELSE user.links]
    BY <1>4, <2>1 DEF FinishOauth, User
  <2>3. (user.verified \/ tx[t].request.adds = "verified") \in BOOLEAN
    OBVIOUS
  <2>4. user.links \in Nat /\ user.password \in 0 .. MaxPasswords
    BY <2>1 DEF User
  <2>5. /\ user' \in User /\ user'.password = user.password
        /\ user'.links = IF tx[t].request.kind = "link" THEN user.links + 1 ELSE user.links
    <3> DEFINE links == IF tx[t].request.kind = "link" THEN user.links + 1 ELSE user.links
               verified == user.verified \/ tx[t].request.adds = "verified"
    <3>1. links \in Nat /\ verified \in BOOLEAN /\ user.deleted \in BOOLEAN
      BY <2>1, <2>4 DEF User
    <3>2. user' = [user EXCEPT !.verified = verified, !.links = links]
      BY <2>2
    <3> HIDE DEF links, verified
    <3>3. user' = [verified |-> verified, deleted |-> user.deleted, password |-> user.password,
                   links |-> links]
      BY <2>1, <3>2 DEF User
    <3>4. user' \in User /\ user'.password = user.password /\ user'.links = links
      BY <2>4, <3>1, <3>3 DEF User
    <3> QED BY <3>4 DEF links
  <2> QED BY <1>1, <1>2, <1>4, <2>1, <2>5, NoneAssumption DEF Exists
<1> QED BY <1>3, <1>4

LEMMA FinishOauthInv == ASSUME Inv, NEW t \in Transactions, FinishOauth(t) PROVE Inv'
<1>1. /\ tx' = [tx EXCEPT ![t] = Idle] /\ codes' = codes /\ Products(t)
      /\ CreateToken(user'.password) /\ seeded' = seeded /\ tx[t].op = "setup"
  BY DEF FinishOauth, End
<1>2. user'.password \in 0 .. MaxPasswords
  BY OauthShape DEF User
<1>3. tokens' \in [Tokens -> Token \cup {Revoked, None}]
  BY <1>1, <1>2, TokenShape DEF Inv
<1>4. personal' \subseteq [slug: Slugs, subscribed: BOOLEAN] /\ career' \in BOOLEAN
  BY <1>1, ProductsShape DEF Inv
<1>5. seeded' \in BOOLEAN /\ codes' \in [Codes -> Code \cup {None}]
  BY <1>1 DEF Inv, TypeOK
<1>6. Owned'
  BY OauthShape DEF Owned
<1> QED BY <1>1, <1>3, <1>4, <1>5, <1>6, OauthShape, WritingInv

LEMMA FinishActivateInv == ASSUME Inv, NEW t \in Transactions, FinishActivate(t) PROVE Inv'
<1>1. /\ tx' = [tx EXCEPT ![t] = Idle] /\ Products(t) /\ tx[t].op = "setup"
      /\ UNCHANGED <<user, codes, tokens, seeded>>
  BY DEF FinishActivate, End
<1>2. personal' \subseteq [slug: Slugs, subscribed: BOOLEAN] /\ career' \in BOOLEAN
  BY <1>1, ProductsShape DEF Inv
<1>3. Owned' /\ Exists' = Exists
  BY <1>1 DEF Owned, Exists, Inv
<1>4. /\ user' \in User \cup {None} /\ codes' \in [Codes -> Code \cup {None}]
      /\ tokens' \in [Tokens -> Token \cup {Revoked, None}] /\ seeded' \in BOOLEAN
  BY <1>1 DEF Inv, TypeOK
<1> QED BY <1>1, <1>2, <1>3, <1>4, WritingInv

LEMMA FinishCareerInv == ASSUME Inv, NEW t \in Transactions, FinishCareer(t) PROVE Inv'
<1>1. /\ tx' = [tx EXCEPT ![t] = Idle] /\ career' = TRUE
      /\ UNCHANGED <<user, codes, tokens, personal, seeded>>
  BY DEF FinishCareer, End
<1>2. Owned' /\ Exists' = Exists
  BY <1>1 DEF Owned, Exists, Inv
<1>3. /\ user' \in User \cup {None} /\ codes' \in [Codes -> Code \cup {None}]
      /\ tokens' \in [Tokens -> Token \cup {Revoked, None}] /\ seeded' \in BOOLEAN
      /\ personal' \subseteq [slug: Slugs, subscribed: BOOLEAN]
  BY <1>1 DEF Inv, TypeOK
<1> QED BY <1>1, <1>2, <1>3, WritingInv

LEMMA FinishSigninInv == ASSUME Inv, NEW t \in Transactions, FinishSignin(t) PROVE Inv'
<1>1. /\ tx' = [tx EXCEPT ![t] = Idle] /\ CreateToken(tx[t].password) /\ tx[t].op = "signin"
      /\ UNCHANGED <<user, codes, personal, career, seeded>>
  BY DEF FinishSignin, End, products
<1>2. tx[t] \in Transaction /\ Grounded(tx[t])
  BY DEF Inv, TypeOK
<1>3. tx[t].password \in 0 .. MaxPasswords
  BY <1>1, <1>2, TransactionShape, ConstantsAssumption
<1>4. tokens' \in [Tokens -> Token \cup {Revoked, None}]
  BY <1>1, <1>3, TokenShape DEF Inv
<1>5. Exists /\ Exists'
  BY <1>1, <1>2 DEF Grounded, Exists
<1>6. Owned'
  BY <1>5 DEF Owned
<1>7. /\ user' \in User \cup {None} /\ codes' \in [Codes -> Code \cup {None}]
      /\ seeded' \in BOOLEAN /\ career' \in BOOLEAN
      /\ personal' \subseteq [slug: Slugs, subscribed: BOOLEAN]
  BY <1>1 DEF Inv, TypeOK
<1> QED BY <1>1, <1>4, <1>5, <1>6, <1>7, WritingInv

LEMMA EndingShape ==
    ASSUME Inv, NEW t \in Transactions, FinishEnding(t)
    PROVE  /\ tx' = [tx EXCEPT ![t] = Idle] /\ UNCHANGED <<personal, career, seeded>>
           /\ Exists /\ Exists' /\ user' \in User /\ user'.links = user.links
           /\ user'.verified = user.verified
           /\ tx[t].write # "password" => user'.password = user.password
           /\ tx[t].code # None => /\ tx[t].code \in Codes /\ codes[tx[t].code] # None
                                   /\ codes' = Used(tx[t].code)
           /\ tx[t].code = None => codes' = codes
           /\ \A k \in Tokens : tokens'[k] = IF k \in tx[t].seen THEN Revoked ELSE tokens[k]
<1>1. tx[t] \in Transaction /\ tx[t].op = "end" /\ Grounded(tx[t])
  BY DEF FinishEnding, Inv, TypeOK
<1>2. tx[t].write \in {"password", "deletion", "none"} /\ tx[t].code \in Codes \cup {None}
  BY <1>1, TransactionShape
<1>3. Exists /\ user \in User
  BY <1>1 DEF Grounded, Inv, TypeOK, Exists
<1>4. CASE tx[t].write = "password"
  <2>1. user' = [user EXCEPT !.password = user.password + 1]
    BY <1>3, <1>4 DEF FinishEnding, User
  <2>2. user.password + 1 \in 0 .. MaxPasswords
    BY <1>1, <1>3, <1>4, ConstantsAssumption DEF Grounded, User
  <2>3. user' \in User /\ user'.links = user.links /\ user'.verified = user.verified
    BY <1>3, <2>1, <2>2 DEF User
  <2> QED BY <1>1, <1>2, <1>3, <1>4, <2>3, NoneAssumption DEF FinishEnding, End, products, Exists, Grounded
<1>5. CASE tx[t].write = "deletion"
  <2>1. user' = [user EXCEPT !.deleted = TRUE]
    BY <1>5 DEF FinishEnding
  <2>2. /\ user' \in User /\ user'.links = user.links /\ user'.verified = user.verified
        /\ user'.password = user.password
    BY <1>3, <2>1 DEF User
  <2> QED BY <1>1, <1>2, <1>3, <1>5, <2>2, NoneAssumption DEF FinishEnding, End, products, Exists, Grounded
<1>6. CASE tx[t].write = "none"
  <2>1. user' = user
    BY <1>6 DEF FinishEnding
  <2> QED BY <1>1, <1>2, <1>3, <1>6, <2>1 DEF FinishEnding, End, products, Exists, Grounded
<1> QED BY <1>2, <1>4, <1>5, <1>6

LEMMA FinishEndingInv == ASSUME Inv, NEW t \in Transactions, FinishEnding(t) PROVE Inv'
<1>1. /\ codes' \in [Codes -> Code \cup {None}]
      /\ \A d \in Codes : codes[d] # None => codes'[d] # None
  <2>1. CASE tx[t].code = None
    BY <2>1, EndingShape DEF Inv, TypeOK
  <2>2. CASE tx[t].code # None
    BY <2>2, EndingShape, UsedShape DEF Inv
  <2> QED BY <2>1, <2>2
<1>2. tokens' \in [Tokens -> Token \cup {Revoked, None}]
  BY DEF FinishEnding, Inv, TypeOK
<1>3. /\ personal' \subseteq [slug: Slugs, subscribed: BOOLEAN]
      /\ career' \in BOOLEAN /\ seeded' \in BOOLEAN
  BY EndingShape DEF Inv, TypeOK
<1>4. Owned'
  BY EndingShape DEF Owned
<1>5. user'.password = user.password \/ EndsLocked(t)
  BY EndingShape DEF FinishEnding, EndsLocked
<1> QED BY <1>1, <1>2, <1>3, <1>4, <1>5, EndingShape, WritingInv

\* Steps of no open transaction.
LEMMA OutsideInv ==
    ASSUME Inv, (\E k \in Tokens : Signout(k)) \/ Purge \/ Seed
    PROVE  Inv'
<1>1. ASSUME NEW k \in Tokens, Signout(k) PROVE Inv'
  <2>1. /\ UNCHANGED <<user, codes, personal, career, seeded, tx>>
        /\ tokens' = [tokens EXCEPT ![k] = Revoked] /\ tokens[k] # None
    BY <1>1 DEF Signout, Active, products
  <2>2. TypeOK'
    BY <2>1 DEF Inv, TypeOK
  <2>3. Owned'
    BY <2>1 DEF Inv, Owned, Exists, TypeOK
  <2>4. \A u \in Transactions : Grounded(tx[u])'
    BY <2>1 DEF Inv, Grounded, Exists
  <2> QED BY <2>1, <2>2, <2>3, <2>4 DEF Inv, EndsLocked
<1>2. CASE Purge
  <2>1. TypeOK'
    BY <1>2 DEF Purge, Inv, TypeOK
  <2>2. Owned'
    BY <1>2 DEF Purge, Owned
  <2>3. \A u \in Transactions : tx'[u] = Idle
    BY <1>2 DEF Purge
  <2> QED BY <2>1, <2>2, <2>3 DEF Inv, Grounded, EndsLocked
<1>3. CASE Seed
  <2>1. UNCHANGED <<user, codes, tokens, personal, career, tx>> /\ seeded' = TRUE
    BY <1>3 DEF Seed, products
  <2>2. \A u \in Transactions : Grounded(tx[u])'
    BY <2>1 DEF Inv, Grounded, Exists
  <2> QED BY <2>1, <2>2 DEF Inv, TypeOK, EndsLocked, Owned, Exists
<1> QED BY <1>1, <1>2, <1>3

LEMMA InvCorrect == Spec => []Inv
<1>1. Init => Inv
  <2> SUFFICES ASSUME Init PROVE Inv
    OBVIOUS
  <2>1. tx \in [Transactions -> Transaction]
    BY DEF Init, Transaction
  <2>2. TypeOK
    BY <2>1 DEF Init, TypeOK
  <2>3. \A t \in Transactions : tx[t] = Idle
    BY DEF Init
  <2> QED BY <2>2, <2>3 DEF Init, Inv, Grounded, EndsLocked, Owned
<1>2. Inv /\ [Next]_vars => Inv'
  <2> SUFFICES ASSUME Inv, [Next]_vars PROVE Inv'
    OBVIOUS
  <2>1. ASSUME NEW t \in Transactions, Serve(t) PROVE Inv'
    <3>1. CASE CreateUser(t) \/ CreateCode(t) \/ FinishVerify(t) \/ FinishOauth(t)
                 \/ FinishActivate(t) \/ FinishCareer(t) \/ FinishSignin(t) \/ FinishEnding(t)
      BY <3>1, CreateUserInv, CreateCodeInv, FinishVerifyInv, FinishOauthInv, FinishActivateInv,
         FinishCareerInv, FinishSigninInv, FinishEndingInv
    <3>2. CASE ~(CreateUser(t) \/ CreateCode(t) \/ FinishVerify(t) \/ FinishOauth(t)
                 \/ FinishActivate(t) \/ FinishCareer(t) \/ FinishSignin(t) \/ FinishEnding(t))
      BY <2>1, <3>2, ReadingStep, ReadingInv DEF Serve, Inv
    <3> QED BY <3>1, <3>2
  <2>2. CASE UNCHANGED vars
    BY <2>2 DEF vars, products, Inv, TypeOK, Grounded, EndsLocked, Owned, Exists
  <2> QED BY <2>1, <2>2, OutsideInv DEF Next
<1> QED BY <1>1, <1>2, PTL DEF Spec

\* Every reachable state is well typed: no code is used and no password set for a user
\* whose row is gone, and no sign-in of an account without a password gets a session.
THEOREM TypeCorrect == Spec => []TypeOK
<1>1. Inv => TypeOK
  BY DEF Inv
<1> QED BY <1>1, InvCorrect, PTL

-----------------------------------------------------------------------------
(* Codes                                                                   *)

LEMMA Counting ==
    ASSUME NEW B \in SUBSET Transactions, NEW A \in SUBSET B
    PROVE  /\ Cardinality(A) \in Nat /\ Cardinality(B) \in Nat /\ Cardinality(Transactions) \in Nat
           /\ Cardinality(A) <= Cardinality(B) /\ Cardinality(B) <= Cardinality(Transactions)
<1>1. IsFiniteSet(Transactions) /\ IsFiniteSet(B) /\ Cardinality(B) <= Cardinality(Transactions)
  BY ConstantsAssumption, FS_Subset
<1>2. IsFiniteSet(A) /\ Cardinality(A) <= Cardinality(B)
  BY <1>1, FS_Subset
<1> QED BY <1>1, <1>2, FS_CardinalityType

\* One transaction less.
LEMMA Leaving ==
    ASSUME NEW B \in SUBSET Transactions, NEW t \in B, NEW A \in SUBSET (B \ {t})
    PROVE  Cardinality(A) + 1 <= Cardinality(B)
<1>1. IsFiniteSet(B)
  BY ConstantsAssumption, FS_Subset
<1>2. Cardinality(B \ {t}) = Cardinality(B) - 1
  BY <1>1, FS_RemoveElement
<1>3. IsFiniteSet(B \ {t})
  BY <1>1, FS_Subset
<1>4. Cardinality(A) <= Cardinality(B \ {t}) /\ IsFiniteSet(A)
  BY <1>3, FS_Subset
<1>5. Cardinality(A) \in Nat /\ Cardinality(B) \in Nat
  BY <1>1, <1>4, FS_CardinalityType
<1> QED BY <1>2, <1>4, <1>5

\* The transactions that have checked a code and have not used it.
Verifying(c) ==
    {t \in Transactions :
       \/ tx[t].op \in {"verify", "reset", "end"} /\ tx[t].code = c
       \/ tx[t].op = "setup" /\ tx[t].request.op = "verify" /\ tx[t].request.code = c}

Inserts(t, c, p, seen) ==
    /\ \A d \in seen : codes[d] # None
    /\ Insert(c, p, seen)
    /\ \/ tx[t].op = "send" /\ p = tx[t].purpose /\ seen = tx[t].seen
       \/ tx[t].op = "signup" /\ ~Exists /\ seen = {}

Writes(t) ==
    \/ CreateUser(t) \/ CreateCode(t) \/ FinishVerify(t) \/ FinishOauth(t)
    \/ FinishActivate(t) \/ FinishCareer(t) \/ FinishSignin(t) \/ FinishEnding(t)

\* What a transaction's end does to the codes.
LEMMA CodesWritten ==
    ASSUME Inv, NEW t \in Transactions, Writes(t)
    PROVE  /\ tx' = [tx EXCEPT ![t] = Idle]
           /\ \/ codes' = codes /\ tx[t].op # "send"
              \/ \E c \in Codes, p \in Purposes, seen \in SUBSET Codes : Inserts(t, c, p, seen)
              \/ \E c \in Codes : /\ codes[c] # None /\ codes' = Used(c) /\ t \in Verifying(c)
                                  /\ tx[t].op # "send"
<1>1. CASE CreateUser(t)
  <2>1. PICK c \in Codes : Insert(c, "EMAIL_VERIFICATION", {})
    BY <1>1 DEF CreateUser
  <2>2. Inserts(t, c, "EMAIL_VERIFICATION", {})
    BY <1>1, <2>1 DEF CreateUser, Inserts
  <2>3. "EMAIL_VERIFICATION" \in Purposes /\ {} \in SUBSET Codes
    BY DEF Purposes
  <2> QED BY <1>1, <2>2, <2>3 DEF CreateUser, End
<1>2. CASE CreateCode(t)
  <2>1. PICK c \in Codes : Insert(c, tx[t].purpose, tx[t].seen)
    BY <1>2 DEF CreateCode
  <2>2. tx[t] \in Transaction /\ tx[t].op = "send" /\ Grounded(tx[t])
    BY <1>2 DEF CreateCode, Inv, TypeOK
  <2>3. tx[t].purpose \in Purposes /\ tx[t].seen \in SUBSET Codes
    BY <2>2, TransactionShape
  <2>4. Inserts(t, c, tx[t].purpose, tx[t].seen)
    BY <2>1, <2>2 DEF Inserts, Grounded
  <2> QED BY <1>2, <2>3, <2>4 DEF CreateCode, End
<1>3. CASE FinishVerify(t)
  BY <1>3, VerifyShape DEF FinishVerify, Verifying, End
<1>4. CASE FinishOauth(t)
  BY <1>4 DEF FinishOauth, End
<1>5. CASE FinishActivate(t)
  BY <1>5 DEF FinishActivate, End
<1>6. CASE FinishCareer(t)
  BY <1>6 DEF FinishCareer, End
<1>7. CASE FinishSignin(t)
  BY <1>7 DEF FinishSignin, End
<1>8. CASE FinishEnding(t)
  <2>1. tx[t].op = "end"
    BY <1>8 DEF FinishEnding
  <2>2. tx[t].code # None => t \in Verifying(tx[t].code)
    BY <2>1 DEF Verifying
  <2> QED BY <1>8, <2>1, <2>2, EndingShape
<1> QED BY <1>1, <1>2, <1>3, <1>4, <1>5, <1>6, <1>7, <1>8 DEF Writes

\* Every step reads, writes, or is of no open transaction.
LEMMA StepKinds ==
    ASSUME Inv, [Next]_vars
    PROVE  \/ \E t \in Transactions : Writes(t)
           \/ \E t \in Transactions : \E r :
                /\ UNCHANGED Rows /\ tx' = [tx EXCEPT ![t] = r]
                /\ Begun(t, r) \/ Continued(t, r) \/ Ending(t, r)
           \/ \E k \in Tokens : Signout(k)
           \/ Purge
           \/ UNCHANGED <<user, codes, tokens, personal, career, tx>>
<1>1. ASSUME NEW t \in Transactions, Serve(t), ~Writes(t)
      PROVE  \E r : /\ UNCHANGED Rows /\ tx' = [tx EXCEPT ![t] = r]
                    /\ Begun(t, r) \/ Continued(t, r) \/ Ending(t, r)
  BY <1>1, ReadingStep DEF Serve, Writes, Inv
<1> QED BY <1>1 DEF Next, vars, products, Seed

UsesBounded ==
    \A c \in Codes : codes[c] # None =>
        /\ codes[c].open => codes[c].uses = 0
        /\ codes[c].uses + Cardinality(Verifying(c)) <= Cardinality(Transactions)

\* A reading transaction that joins those that have checked a code has found it open.
LEMMA Joining ==
    ASSUME Inv, NEW t \in Transactions, NEW r, tx' = [tx EXCEPT ![t] = r], UNCHANGED Rows,
           Begun(t, r) \/ Continued(t, r) \/ Ending(t, r), NEW c \in Codes
    PROVE  Verifying(c)' \subseteq Verifying(c) \/ (codes[c] # None /\ codes[c].open)
<1>1. tx[t] \in Transaction /\ r \in Transaction
  BY ReadingTyped DEF Inv, TypeOK
<1>2. \A u \in Transactions : tx'[u] = IF u = t THEN r ELSE tx[u]
  BY DEF Inv, TypeOK
<1>3. CASE Begun(t, r)
  <2>1. r.op \notin {"end", "setup"}
    BY <1>3 DEF Begun
  <2>2. r.op \in {"verify", "reset"} /\ r.code = c => codes[c] # None /\ codes[c].open
    BY <1>3 DEF Begun, Open
  <2> QED BY <1>2, <2>1, <2>2 DEF Verifying
<1>4. CASE Continued(t, r)
  <2>1. r.op = "setup" => \/ tx[t] \in Request /\ r.request = tx[t]
                          \/ tx[t].op = "setup" /\ r.request = tx[t].request
    BY <1>1, <1>4, TransactionShape DEF Continued
  <2>2. r.op \in {"setup", "idle"}
    BY <1>1, <1>4, TransactionShape DEF Continued
  <2> QED BY <1>2, <2>1, <2>2 DEF Verifying
<1>5. CASE Ending(t, r)
  <2>1. r.op = "end" /\ (r.code = c => tx[t].op = "reset" /\ tx[t].code = c)
    BY <1>5, ConstantsAssumption DEF Ending
  <2> QED BY <1>2, <2>1 DEF Verifying
<1> QED BY <1>3, <1>4, <1>5

LEMMA UsesStep == ASSUME Inv, UsesBounded, [Next]_vars PROVE UsesBounded'
<1> SUFFICES ASSUME NEW c \in Codes, codes'[c] # None
             PROVE  /\ codes'[c].open => codes'[c].uses = 0
                    /\ codes'[c].uses + Cardinality(Verifying(c)') <= Cardinality(Transactions)
  BY DEF UsesBounded
<1> DEFINE V == Verifying(c)
           W == Verifying(c)'
<1>1. V \in SUBSET Transactions /\ W \in SUBSET Transactions
  BY DEF Verifying
<1>2. /\ Cardinality(V) \in Nat /\ Cardinality(W) \in Nat /\ Cardinality(Transactions) \in Nat
      /\ Cardinality(W) <= Cardinality(Transactions)
  BY <1>1, Counting
<1>3. codes[c] # None => codes[c].uses \in Nat
  BY DEF Inv, TypeOK, Code
<1>4. ASSUME codes[c] # None, codes'[c].uses = codes[c].uses, codes'[c].open => codes[c].open,
             W \subseteq V
      PROVE  /\ codes'[c].open => codes'[c].uses = 0
             /\ codes'[c].uses + Cardinality(W) <= Cardinality(Transactions)
  <2>1. Cardinality(W) <= Cardinality(V)
    BY <1>1, <1>4, Counting
  <2> HIDE DEF V, W
  <2>2. codes[c].uses + Cardinality(V) <= Cardinality(Transactions) /\ (codes[c].open => codes[c].uses = 0)
    BY <1>4 DEF UsesBounded, V
  <2> QED BY <1>2, <1>3, <1>4, <2>1, <2>2
<1>5. ASSUME NEW t \in Transactions, Writes(t)
      PROVE  /\ codes'[c].open => codes'[c].uses = 0
             /\ codes'[c].uses + Cardinality(W) <= Cardinality(Transactions)
  <2>1. tx' = [tx EXCEPT ![t] = Idle]
    BY <1>5, CodesWritten
  <2>2. W \subseteq V \ {t}
    BY <2>1 DEF Verifying, Inv, TypeOK
  <2>3. CASE codes' = codes
    BY <1>4, <2>2, <2>3
  <2>4. ASSUME NEW d \in Codes, NEW p \in Purposes, NEW seen \in SUBSET Codes, Inserts(t, d, p, seen)
        PROVE  /\ codes'[c].open => codes'[c].uses = 0
               /\ codes'[c].uses + Cardinality(W) <= Cardinality(Transactions)
    <3>1. /\ codes[d] = None
          /\ codes'[d] = [purpose |-> p, open |-> TRUE, uses |-> 0]
          /\ \A e \in Codes : e # d => /\ e \in seen => codes'[e] = [codes[e] EXCEPT !.open = FALSE]
                                       /\ e \notin seen => codes'[e] = codes[e]
      BY <2>4, InsertShape DEF Inserts, Inv
    <3>2. CASE c = d
      <4>1. codes'[c].uses = 0
        BY <3>1, <3>2
      <4> HIDE DEF W
      <4> QED BY <1>2, <4>1
    <3>3. CASE c # d /\ c \notin seen
      BY <1>4, <2>2, <3>1, <3>3
    <3>4. CASE c # d /\ c \in seen
      <4>1. codes[c] # None /\ codes[c] \in Code
        BY <2>4, <3>4 DEF Inserts, Inv, TypeOK
      <4>2. codes'[c].uses = codes[c].uses /\ ~codes'[c].open
        BY <3>1, <3>4, <4>1 DEF Code
      <4> QED BY <1>4, <2>2, <4>1, <4>2
    <3> QED BY <3>2, <3>3, <3>4
  <2>5. ASSUME NEW d \in Codes, codes[d] # None, codes' = Used(d), t \in Verifying(d)
        PROVE  /\ codes'[c].open => codes'[c].uses = 0
               /\ codes'[c].uses + Cardinality(W) <= Cardinality(Transactions)
    <3>1. /\ codes'[d].uses = codes[d].uses + 1 /\ ~codes'[d].open
          /\ \A e \in Codes : e # d => codes'[e] = codes[e]
      BY <2>5, UsedShape DEF Inv
    <3>2. CASE c = d
      <4>1. Cardinality(W) + 1 <= Cardinality(V)
        BY <1>1, <2>2, <2>5, <3>2, Leaving
      <4> HIDE DEF V, W
      <4>2. codes[c].uses + Cardinality(V) <= Cardinality(Transactions)
        BY <2>5, <3>2 DEF UsesBounded, V
      <4> QED BY <1>2, <1>3, <2>5, <3>1, <3>2, <4>1, <4>2
    <3>3. CASE c # d
      BY <1>4, <2>2, <3>1, <3>3
    <3> QED BY <3>2, <3>3
  <2> QED BY <1>5, <2>3, <2>4, <2>5, CodesWritten
<1>6. ASSUME NEW t \in Transactions, NEW r, UNCHANGED Rows, tx' = [tx EXCEPT ![t] = r],
             Begun(t, r) \/ Continued(t, r) \/ Ending(t, r)
      PROVE  /\ codes'[c].open => codes'[c].uses = 0
             /\ codes'[c].uses + Cardinality(W) <= Cardinality(Transactions)
  <2>1. codes' = codes
    BY <1>6 DEF Rows
  <2>2. CASE W \subseteq V
    BY <1>4, <2>1, <2>2
  <2>3. CASE codes[c].open
    <3>1. codes'[c].uses = 0
      BY <2>1, <2>3 DEF UsesBounded
    <3> HIDE DEF W
    <3> QED BY <1>2, <3>1
  <2> QED BY <1>6, <2>2, <2>3, Joining
<1>7. CASE \E k \in Tokens : Signout(k)
  BY <1>4, <1>7 DEF Signout, Verifying
<1>8. CASE Purge
  BY <1>8 DEF Purge
<1>9. CASE UNCHANGED <<user, codes, tokens, personal, career, tx>>
  BY <1>4, <1>9 DEF Verifying
<1> QED BY <1>5, <1>6, <1>7, <1>8, <1>9, StepKinds

\* A one-time code is used no more often than requests overlapped that had found it
\* open.
THEOREM CodeUsesCorrect == Spec => []CodeUsesBounded
<1>1. Init => UsesBounded
  BY DEF Init, UsesBounded
<1>2. Inv /\ UsesBounded /\ [Next]_vars => UsesBounded'
  BY UsesStep
<1>3. UsesBounded => CodeUsesBounded
  BY DEF UsesBounded, CodeUsesBounded, Verifying
<1> QED BY <1>1, <1>2, <1>3, InvCorrect, PTL DEF Spec

-----------------------------------------------------------------------------
(* Open codes                                                              *)

OpenCodes(p) == {c \in Codes : Open(c, p)}

Sending(p) == {t \in Transactions : tx[t].op = "send" /\ tx[t].purpose = p}

\* The open codes that none of the transactions in A is to supersede.
Kept(p, A) == {c \in Codes : Open(c, p) /\ \A t \in A : c \notin tx[t].seen}

\* Whichever of the transactions that send a code are yet to end.
OpenBounded ==
    \A p \in Purposes :
        /\ IsFiniteSet(OpenCodes(p))
        /\ \A A \in SUBSET Sending(p) :
             Cardinality(Kept(p, A)) + Cardinality(A) <= Cardinality(Transactions)

LEMMA KeptFinite ==
    ASSUME OpenBounded, NEW p \in Purposes, NEW A \in SUBSET Sending(p)
    PROVE  /\ IsFiniteSet(Kept(p, A)) /\ Cardinality(Kept(p, A)) \in Nat
           /\ Cardinality(A) \in Nat /\ Cardinality(Transactions) \in Nat
           /\ Cardinality(A) <= Cardinality(Transactions)
<1>1. Kept(p, A) \subseteq OpenCodes(p) /\ IsFiniteSet(OpenCodes(p))
  BY DEF Kept, OpenCodes, OpenBounded
<1>2. IsFiniteSet(Kept(p, A))
  BY <1>1, FS_Subset
<1>3. Sending(p) \in SUBSET Transactions
  BY DEF Sending
<1> QED BY <1>2, <1>3, FS_CardinalityType, Counting

\* No code is opened, and no sender joins whose superseded codes are known.
LEMMA FewerOpen ==
    ASSUME OpenBounded, NEW p \in Purposes, OpenCodes(p)' \subseteq OpenCodes(p),
           NEW A \in SUBSET Sending(p), Kept(p, A)' \subseteq Kept(p, A)
    PROVE  /\ IsFiniteSet(OpenCodes(p)')
           /\ Cardinality(Kept(p, A)') + Cardinality(A) <= Cardinality(Transactions)
<1>1. IsFiniteSet(OpenCodes(p)')
  BY FS_Subset DEF OpenBounded
<1>2. IsFiniteSet(Kept(p, A)) /\ Cardinality(Kept(p, A)) \in Nat /\ Cardinality(A) \in Nat
  BY KeptFinite
<1>3. Cardinality(Kept(p, A)') <= Cardinality(Kept(p, A)) /\ IsFiniteSet(Kept(p, A)')
  BY <1>2, FS_Subset
<1>4. Cardinality(Kept(p, A)') \in Nat
  BY <1>3, FS_CardinalityType
<1>5. Cardinality(Transactions) \in Nat
  BY ConstantsAssumption, FS_CardinalityType
<1>6. Cardinality(Kept(p, A)) + Cardinality(A) <= Cardinality(Transactions)
  BY DEF OpenBounded
<1> QED BY <1>1, <1>2, <1>3, <1>4, <1>5, <1>6

\* The code that is inserted is one more, and its sender one less.
LEMMA InsertOpens ==
    ASSUME Inv, OpenBounded, NEW t \in Transactions, tx' = [tx EXCEPT ![t] = Idle],
           NEW c \in Codes, NEW q \in Purposes, NEW seen \in SUBSET Codes, Inserts(t, c, q, seen)
    PROVE  OpenBounded'
<1> SUFFICES ASSUME NEW p \in Purposes
             PROVE  /\ IsFiniteSet(OpenCodes(p)')
                    /\ \A A \in SUBSET Sending(p)' :
                         Cardinality(Kept(p, A)') + Cardinality(A) <= Cardinality(Transactions)
  BY DEF OpenBounded
<1>1. /\ codes[c] = None /\ c \notin seen
      /\ codes'[c] = [purpose |-> q, open |-> TRUE, uses |-> 0]
      /\ codes' \in [Codes -> Code \cup {None}]
      /\ \A d \in Codes : d # c => /\ d \in seen => codes'[d] = [codes[d] EXCEPT !.open = FALSE]
                                   /\ d \notin seen => codes'[d] = codes[d]
  BY InsertShape DEF Inserts, Inv
<1>2. \A d \in Codes : d # c /\ Open(d, p)' => Open(d, p) /\ d \notin seen
  <2> SUFFICES ASSUME NEW d \in Codes, d # c, Open(d, p)' PROVE Open(d, p) /\ d \notin seen
    OBVIOUS
  <2>1. CASE d \in seen
    <3>1. codes[d] \in Code
      BY <2>1 DEF Inserts, Inv, TypeOK
    <3>2. ~codes'[d].open
      BY <1>1, <2>1, <3>1 DEF Code
    <3> QED BY <3>2 DEF Open
  <2>2. CASE d \notin seen
    BY <1>1, <2>2 DEF Open
  <2> QED BY <2>1, <2>2
<1>3. /\ Open(c, p)' => p = q
      /\ ~Open(c, p)
  BY <1>1 DEF Open
<1>4. Sending(p)' = Sending(p) \ {t} /\ \A u \in Sending(p)' : tx'[u] = tx[u]
  BY DEF Sending, Inv, TypeOK
<1>5. OpenCodes(p)' \subseteq OpenCodes(p) \cup {c}
  BY <1>2 DEF OpenCodes
<1>6. IsFiniteSet(OpenCodes(p)')
  <2>1. IsFiniteSet(OpenCodes(p) \cup {c})
    BY FS_AddElement DEF OpenBounded
  <2> QED BY <1>5, <2>1, FS_Subset
<1>7. ASSUME NEW A \in SUBSET Sending(p)'
      PROVE  Cardinality(Kept(p, A)') + Cardinality(A) <= Cardinality(Transactions)
  <2>1. A \in SUBSET Sending(p) /\ t \notin A /\ \A u \in A : tx'[u] = tx[u]
    BY <1>4
  <2>2. CASE p # q
    <3>1. Kept(p, A)' \subseteq Kept(p, A) /\ OpenCodes(p)' \subseteq OpenCodes(p)
      BY <1>2, <1>3, <2>1, <2>2 DEF Kept, OpenCodes
    <3> QED BY <2>1, <3>1, FewerOpen
  <2>3. CASE p = q /\ tx[t].op = "send"
    <3> DEFINE B == A \cup {t}
    <3>1. B \in SUBSET Sending(p) /\ tx[t].seen = seen
      BY <2>1, <2>3 DEF Sending, Inserts
    <3>2. Kept(p, A)' \subseteq Kept(p, B) \cup {c}
      BY <1>2, <2>1, <3>1 DEF Kept
    <3>3. /\ IsFiniteSet(Kept(p, B)) /\ Cardinality(Kept(p, B)) \in Nat
          /\ Cardinality(B) \in Nat /\ Cardinality(Transactions) \in Nat
      BY <3>1, KeptFinite
    <3>4. c \notin Kept(p, B)
      BY <1>3 DEF Kept
    <3>5. /\ Cardinality(Kept(p, B) \cup {c}) = Cardinality(Kept(p, B)) + 1
          /\ IsFiniteSet(Kept(p, B) \cup {c})
      BY <3>3, <3>4, FS_AddElement
    <3>6. /\ Cardinality(Kept(p, A)') <= Cardinality(Kept(p, B) \cup {c})
          /\ IsFiniteSet(Kept(p, A)')
      BY <3>2, <3>5, FS_Subset
    <3>7. Cardinality(Kept(p, A)') \in Nat
      BY <3>6, FS_CardinalityType
    <3>8. IsFiniteSet(A) /\ Cardinality(A) \in Nat
      BY <2>1, KeptFinite, ConstantsAssumption, FS_Subset DEF Sending
    <3>9. Cardinality(B) = Cardinality(A) + 1
      BY <2>1, <3>8, FS_AddElement
    <3>10. Cardinality(Kept(p, B)) + Cardinality(B) <= Cardinality(Transactions)
      BY <3>1 DEF OpenBounded
    <3> HIDE DEF B
    <3> QED BY <3>3, <3>5, <3>6, <3>7, <3>8, <3>9, <3>10
  <2>4. CASE p = q /\ tx[t].op = "signup" /\ ~Exists
    <3>1. Sending(p) = {}
      BY <2>4 DEF Sending, Inv, Grounded
    <3>2. A = {} /\ Cardinality(A) = 0
      BY <2>1, <3>1, FS_EmptySet
    <3>3. Kept(p, A)' \subseteq {c}
      BY <1>2, <2>4 DEF Kept, Inv, Owned, Open
    <3>4. Cardinality({c}) = 1 /\ IsFiniteSet({c})
      BY FS_Singleton
    <3>5. Cardinality(Kept(p, A)') <= 1 /\ IsFiniteSet(Kept(p, A)')
      BY <3>3, <3>4, FS_Subset
    <3>6. Cardinality(Kept(p, A)') \in Nat
      BY <3>5, FS_CardinalityType
    <3>7. Cardinality({t}) = 1
      BY FS_Singleton
    <3>8. Cardinality({t}) <= Cardinality(Transactions) /\ Cardinality(Transactions) \in Nat
      BY ConstantsAssumption, FS_Subset, FS_CardinalityType
    <3> QED BY <3>2, <3>5, <3>6, <3>7, <3>8
  <2> QED BY <2>2, <2>3, <2>4 DEF Inserts
<1> QED BY <1>6, <1>7

LEMMA OpenStep == ASSUME Inv, OpenBounded, [Next]_vars PROVE OpenBounded'
<1>1. ASSUME NEW t \in Transactions, Writes(t) PROVE OpenBounded'
  <2>1. tx' = [tx EXCEPT ![t] = Idle]
    BY <1>1, CodesWritten
  <2>2. \A p \in Purposes : Sending(p)' \subseteq Sending(p) /\ \A u \in Sending(p)' : tx'[u] = tx[u]
    BY <2>1 DEF Sending, Inv, TypeOK
  <2>3. CASE codes' = codes
    <3> SUFFICES ASSUME NEW p \in Purposes
                 PROVE  /\ IsFiniteSet(OpenCodes(p)')
                        /\ \A A \in SUBSET Sending(p)' :
                             Cardinality(Kept(p, A)') + Cardinality(A) <= Cardinality(Transactions)
      BY DEF OpenBounded
    <3>1. OpenCodes(p)' \subseteq OpenCodes(p)
      BY <2>3 DEF OpenCodes, Open
    <3>2. \A A \in SUBSET Sending(p)' : A \in SUBSET Sending(p) /\ Kept(p, A)' \subseteq Kept(p, A)
      BY <2>2, <2>3 DEF Kept, Open
    <3>3. IsFiniteSet(OpenCodes(p)')
      BY <3>1, FS_Subset DEF OpenBounded
    <3> QED BY <3>1, <3>2, <3>3, FewerOpen
  <2>4. ASSUME NEW d \in Codes, codes[d] # None, codes' = Used(d) PROVE OpenBounded'
    <3> SUFFICES ASSUME NEW p \in Purposes
                 PROVE  /\ IsFiniteSet(OpenCodes(p)')
                        /\ \A A \in SUBSET Sending(p)' :
                             Cardinality(Kept(p, A)') + Cardinality(A) <= Cardinality(Transactions)
      BY DEF OpenBounded
    <3>1. \A c \in Codes : Open(c, p)' => Open(c, p)
      BY <2>4, UsedShape DEF Open, Inv
    <3>2. OpenCodes(p)' \subseteq OpenCodes(p)
      BY <3>1 DEF OpenCodes
    <3>3. \A A \in SUBSET Sending(p)' : A \in SUBSET Sending(p) /\ Kept(p, A)' \subseteq Kept(p, A)
      BY <2>2, <3>1 DEF Kept
    <3>4. IsFiniteSet(OpenCodes(p)')
      BY <3>2, FS_Subset DEF OpenBounded
    <3> QED BY <3>2, <3>3, <3>4, FewerOpen
  <2> QED BY <1>1, <2>1, <2>3, <2>4, CodesWritten, InsertOpens
<1>2. ASSUME NEW t \in Transactions, NEW r, UNCHANGED Rows, tx' = [tx EXCEPT ![t] = r],
             Begun(t, r) \/ Continued(t, r) \/ Ending(t, r)
      PROVE  OpenBounded'
  <2> SUFFICES ASSUME NEW p \in Purposes
               PROVE  /\ IsFiniteSet(OpenCodes(p)')
                      /\ \A A \in SUBSET Sending(p)' :
                           Cardinality(Kept(p, A)') + Cardinality(A) <= Cardinality(Transactions)
    BY DEF OpenBounded
  <2>1. codes' = codes /\ \A u \in Transactions : tx'[u] = IF u = t THEN r ELSE tx[u]
    BY <1>2 DEF Rows, Inv, TypeOK
  <2>2. OpenCodes(p)' = OpenCodes(p)
    BY <2>1 DEF OpenCodes, Open
  <2>3. r.op = "send" => \E b \in Purposes : r = [op |-> "send", purpose |-> b, seen |-> Superseded(b)]
    <3>1. tx[t] \in Transaction
      BY DEF Inv, TypeOK
    <3> QED BY <1>2, <3>1, TransactionShape DEF Begun, Continued, Ending
  <2>4. t \in Sending(p)' => r.seen = OpenCodes(p)
    BY <2>1, <2>3 DEF Sending, Superseded, OpenCodes
  <2>5. ASSUME NEW A \in SUBSET Sending(p)'
        PROVE  Cardinality(Kept(p, A)') + Cardinality(A) <= Cardinality(Transactions)
    <3>1. CASE t \in A
      <4>1. Kept(p, A)' = {}
        BY <2>1, <2>4, <3>1 DEF Kept, OpenCodes, Open
      <4>2. Sending(p)' \in SUBSET Transactions
        BY DEF Sending
      <4> QED BY <4>1, <4>2, FS_EmptySet, Counting
    <3>2. CASE t \notin A
      <4>1. A \in SUBSET Sending(p) /\ Kept(p, A)' \subseteq Kept(p, A)
        BY <2>1, <3>2 DEF Sending, Kept, Open
      <4> QED BY <2>2, <4>1, FewerOpen
    <3> QED BY <3>1, <3>2
  <2> QED BY <2>2, <2>5 DEF OpenBounded
<1>3. CASE Purge
  <2> SUFFICES ASSUME NEW p \in Purposes
               PROVE  /\ IsFiniteSet(OpenCodes(p)')
                      /\ \A A \in SUBSET Sending(p)' :
                           Cardinality(Kept(p, A)') + Cardinality(A) <= Cardinality(Transactions)
    BY DEF OpenBounded
  <2>1. \A c \in Codes : codes'[c] = None
    BY <1>3 DEF Purge
  <2>2. OpenCodes(p)' = {} /\ Sending(p)' \subseteq Transactions
    BY <2>1 DEF OpenCodes, Open, Sending
  <2>3. \A A \in SUBSET Sending(p)' : Kept(p, A)' = {}
    BY <2>1 DEF Kept, Open
  <2> QED BY <2>2, <2>3, FS_EmptySet, Counting
<1>4. CASE (\E k \in Tokens : Signout(k)) \/ UNCHANGED <<user, codes, tokens, personal, career, tx>>
  <2>1. UNCHANGED <<codes, tx>>
    BY <1>4 DEF Signout
  <2>2. \A p \in Purposes : UNCHANGED <<OpenCodes(p), Sending(p)>> /\ \A A : Kept(p, A)' = Kept(p, A)
    BY <2>1 DEF OpenCodes, Sending, Kept, Open
  <2> QED BY <2>2 DEF OpenBounded
<1> QED BY <1>1, <1>2, <1>3, <1>4, StepKinds

\* An address has no more open codes of a purpose than requests for one that
\* overlapped.
THEOREM OpenCodesCorrect == Spec => []OpenCodesBounded
<1>1. Init => OpenBounded
  <2> SUFFICES ASSUME Init, NEW p \in Purposes
               PROVE  /\ IsFiniteSet(OpenCodes(p))
                      /\ \A A \in SUBSET Sending(p) :
                           Cardinality(Kept(p, A)) + Cardinality(A) <= Cardinality(Transactions)
    BY DEF OpenBounded
  <2>1. \A c \in Codes : codes[c] = None
    BY DEF Init
  <2>2. OpenCodes(p) = {} /\ Sending(p) \subseteq Transactions
    BY <2>1 DEF OpenCodes, Open, Sending
  <2>3. \A A \in SUBSET Sending(p) : Kept(p, A) = {}
    BY <2>1 DEF Kept, Open
  <2> QED BY <2>2, <2>3, FS_EmptySet, Counting
<1>2. Inv /\ OpenBounded /\ [Next]_vars => OpenBounded'
  BY OpenStep
<1>3. OpenBounded => OpenCodesBounded
  <2> SUFFICES ASSUME OpenBounded, NEW p \in Purposes
               PROVE  Cardinality(Kept(p, Sending(p))) + Cardinality(Sending(p))
                        <= Cardinality(Transactions)
    BY DEF OpenCodesBounded, Kept, Sending
  <2> QED BY DEF OpenBounded
<1> QED BY <1>1, <1>2, <1>3, InvCorrect, PTL DEF Spec

-----------------------------------------------------------------------------
(* Sessions                                                                *)

\* A transaction that sets a password has seen every session, but the late ones.
SessionInv ==
    /\ SessionsFollowPassword
    /\ \A t \in Transactions : tx[t].op = "end" /\ tx[t].write = "password" =>
         \A k \in Active : ~tokens[k].late => k \in tx[t].seen

\* No session begins, and the password stays.
LEMMA SessionsKept ==
    ASSUME SessionInv, Exists => Exists' /\ user'.password = user.password,
           \A k \in Tokens : tokens'[k] = tokens[k] \/ tokens'[k] \in {Revoked, None},
           \A t \in Transactions :
             \/ tx'[t].op # "end"
             \/ tx'[t] = tx[t]
             \/ tx'[t].seen = Active
    PROVE  SessionInv'
<1>1. \A k \in Active' : k \in Active /\ tokens'[k] = tokens[k]
  BY DEF Active
<1> QED BY <1>1 DEF SessionInv, SessionsFollowPassword

\* A session that begins is late, or nobody sets a password and it has the present one.
LEMMA SessionBegins ==
    ASSUME Inv, SessionInv, NEW t \in Transactions, tx' = [tx EXCEPT ![t] = Idle],
           NEW password \in 0 .. MaxPasswords, CreateToken(password),
           Exists', Exists => user'.password = user.password
    PROVE  SessionInv'
<1>1. PICK k \in Tokens :
         /\ tokens[k] = None
         /\ \A j \in Tokens : j # k => tokens'[j] = tokens[j]
         /\ tokens'[k] = [password |-> password, late |-> BesideEnding \/ password # user'.password]
  BY TokenShape DEF Inv
<1>2. \A j \in Active' : j # k => j \in Active /\ tokens'[j] = tokens[j]
  BY <1>1 DEF Active
<1>3. Active # {} => Exists
  BY DEF Active, Inv, Owned
<1>4. \A u \in Transactions : tx'[u].op = "end" => tx'[u] = tx[u]
  BY DEF Inv, TypeOK
<1>5. ~tokens'[k].late => /\ \A u \in Transactions : tx[u].op # "end"
                          /\ tokens'[k].password = user'.password
  <2>1. tokens'[k].late = (BesideEnding \/ password # user'.password) /\ tokens'[k].password = password
    BY <1>1
  <2>2. ~tokens'[k].late => ~BesideEnding /\ password = user'.password
    BY <2>1
  <2> QED BY <2>1, <2>2 DEF BesideEnding
<1>6. SessionsFollowPassword'
  <2> SUFFICES ASSUME NEW j \in Active', ~tokens'[j].late
               PROVE  Exists' /\ tokens'[j].password = user'.password
    BY DEF SessionsFollowPassword
  <2>1. CASE j = k
    BY <1>5, <2>1
  <2>2. CASE j # k
    BY <1>2, <1>3, <2>2 DEF SessionInv, SessionsFollowPassword
  <2> QED BY <2>1, <2>2
<1>7. ASSUME NEW u \in Transactions, tx'[u].op = "end", tx'[u].write = "password",
             NEW j \in Active', ~tokens'[j].late
      PROVE  j \in tx'[u].seen
  <2>1. tx'[u] = tx[u]
    BY <1>4, <1>7
  <2>2. j # k
    BY <1>5, <1>7, <2>1
  <2> QED BY <1>2, <1>7, <2>1, <2>2 DEF SessionInv
<1> QED BY <1>6, <1>7 DEF SessionInv

LEMMA SessionStep == ASSUME Inv, SessionInv, [Next]_vars PROVE SessionInv'
<1>1. ASSUME NEW t \in Transactions, Writes(t) PROVE SessionInv'
  <2>1. tx' = [tx EXCEPT ![t] = Idle] /\ \A u \in Transactions : tx'[u].op # "end" \/ tx'[u] = tx[u]
    BY <1>1, CodesWritten DEF Inv, TypeOK
  <2>2. CASE CreateUser(t)
    <3>1. \A k \in Tokens : tokens'[k] = None
      BY <2>2 DEF CreateUser, Inv, Owned
    <3> QED BY <3>1 DEF SessionInv, SessionsFollowPassword, Active
  <2>3. CASE CreateCode(t) \/ FinishActivate(t) \/ FinishCareer(t)
    <3>1. UNCHANGED <<user, tokens>>
      BY <2>3 DEF CreateCode, FinishActivate, FinishCareer
    <3>2. Exists' = Exists
      BY <3>1 DEF Exists
    <3> QED BY <2>1, <3>1, <3>2, SessionsKept
  <2>4. CASE FinishVerify(t)
    <3>1. user.password \in 0 .. MaxPasswords
      BY <2>4, VerifyShape DEF Inv, TypeOK, Exists, User
    <3> QED BY <2>1, <2>4, <3>1, VerifyShape, SessionBegins DEF FinishVerify
  <2>5. CASE FinishOauth(t)
    <3>1. user'.password \in 0 .. MaxPasswords /\ CreateToken(user'.password)
      BY <2>5, OauthShape DEF User, FinishOauth
    <3>2. Exists' /\ (Exists => user'.password = user.password)
      BY <2>5, OauthShape
    <3> QED BY <2>1, <3>1, <3>2, SessionBegins
  <2>6. CASE FinishSignin(t)
    <3>1. tx[t] \in Transaction /\ Grounded(tx[t]) /\ tx[t].op = "signin"
      BY <2>6 DEF FinishSignin, Inv, TypeOK
    <3>2. tx[t].password \in 0 .. MaxPasswords /\ Exists
      BY <3>1, TransactionShape, ConstantsAssumption DEF Grounded
    <3>3. user' = user /\ Exists'
      BY <2>6, <3>2 DEF FinishSignin, Exists
    <3> QED BY <2>1, <2>6, <3>2, <3>3, SessionBegins DEF FinishSignin
  <2>7. CASE FinishEnding(t)
    <3>1. /\ \A k \in Tokens : tokens'[k] = IF k \in tx[t].seen THEN Revoked ELSE tokens[k]
          /\ Exists /\ Exists' /\ tx[t].op = "end"
          /\ tx[t].write # "password" => user'.password = user.password
      BY <2>7, EndingShape DEF FinishEnding
    <3>2. CASE tx[t].write = "password"
      <4>1. \A k \in Active' : k \in Active /\ tokens'[k] = tokens[k] /\ k \notin tx[t].seen
        BY <3>1 DEF Active
      <4>2. \A k \in Active' : tokens'[k].late
        BY <3>1, <3>2, <4>1 DEF SessionInv
      <4> QED BY <4>2 DEF SessionInv, SessionsFollowPassword
    <3>3. CASE tx[t].write # "password"
      BY <2>1, <3>1, <3>3, SessionsKept
    <3> QED BY <3>2, <3>3
  <2> QED BY <1>1, <2>2, <2>3, <2>4, <2>5, <2>6, <2>7 DEF Writes
<1>2. ASSUME NEW t \in Transactions, NEW r, UNCHANGED Rows, tx' = [tx EXCEPT ![t] = r],
             Begun(t, r) \/ Continued(t, r) \/ Ending(t, r)
      PROVE  SessionInv'
  <2>1. UNCHANGED <<user, tokens>> /\ \A u \in Transactions : tx'[u] = IF u = t THEN r ELSE tx[u]
    BY <1>2 DEF Rows, Inv, TypeOK
  <2>2. r.op = "end" => r.seen = Active
    <3>1. tx[t] \in Transaction
      BY DEF Inv, TypeOK
    <3> QED BY <1>2, <3>1, TransactionShape DEF Begun, Continued, Ending
  <2>3. Exists' = Exists
    BY <2>1 DEF Exists
  <2> QED BY <2>1, <2>2, <2>3, SessionsKept
<1>3. ASSUME NEW k \in Tokens, Signout(k) PROVE SessionInv'
  <2>1. UNCHANGED <<user, tx>> /\ tokens' = [tokens EXCEPT ![k] = Revoked]
    BY <1>3 DEF Signout
  <2>2. Exists' = Exists /\ \A j \in Tokens : tokens'[j] = tokens[j] \/ tokens'[j] = Revoked
    BY <2>1 DEF Exists, Inv, TypeOK
  <2> QED BY <2>1, <2>2, SessionsKept
<1>4. CASE Purge
  BY <1>4 DEF Purge, SessionInv, SessionsFollowPassword, Active
<1>5. CASE UNCHANGED <<user, codes, tokens, personal, career, tx>>
  <2>1. Exists' = Exists
    BY <1>5 DEF Exists
  <2> QED BY <1>5, <2>1, SessionsKept
<1> QED BY <1>1, <1>2, <1>3, <1>4, <1>5, StepKinds

\* A session outlives a change of password only if it began beside it.
THEOREM SessionsFollowPasswordCorrect == Spec => []SessionsFollowPassword
<1>1. Init => SessionInv
  BY DEF Init, SessionInv, SessionsFollowPassword, Active
<1>2. Inv /\ SessionInv /\ [Next]_vars => SessionInv'
  BY SessionStep
<1>3. SessionInv => SessionsFollowPassword
  BY DEF SessionInv
<1> QED BY <1>1, <1>2, <1>3, InvCorrect, PTL DEF Spec

-----------------------------------------------------------------------------
(* Products                                                                *)

\* The transactions that have found no personal workspace.
Absent == {t \in Transactions : tx[t].op = "setup" /\ tx[t].absent}

\* The transactions that have found the user without a link.
Linking ==
    {t \in Transactions :
       \/ tx[t].op = "oauth" /\ tx[t].kind = "link"
       \/ tx[t].op = "setup" /\ tx[t].request.op = "oauth" /\ tx[t].request.kind = "link"}

ProductInv ==
    /\ Exists /\ user.verified => personal # {}
    /\ \A t \in Transactions : tx[t].op = "setup" /\ ~tx[t].absent => personal # {}
    /\ IsFiniteSet(personal)
    /\ Cardinality(personal) + Cardinality(Absent) <= Cardinality(Transactions)
    /\ Exists => user.links + Cardinality(Linking) <= Cardinality(Transactions)

LEMMA ProductSets ==
    ASSUME Inv, ProductInv
    PROVE  /\ Cardinality(personal) \in Nat /\ Cardinality(Absent) \in Nat
           /\ Cardinality(Linking) \in Nat /\ Cardinality(Transactions) \in Nat
           /\ Absent \in SUBSET Transactions /\ Linking \in SUBSET Transactions
           /\ Exists => user.links \in Nat
<1>1. Absent \in SUBSET Transactions /\ Linking \in SUBSET Transactions
  BY DEF Absent, Linking
<1>2. Cardinality(personal) \in Nat
  BY FS_CardinalityType DEF ProductInv
<1>3. Exists => user.links \in Nat
  BY DEF Exists, Inv, TypeOK, User
<1> QED BY <1>1, <1>2, <1>3, Counting

\* Nothing is added, and no transaction joins.
LEMMA ProductsKept ==
    ASSUME Inv, ProductInv, personal' = personal, Absent' \subseteq Absent, Linking' \subseteq Linking,
           Exists' => Exists /\ user'.verified = user.verified /\ user'.links = user.links,
           \A t \in Transactions : tx'[t].op = "setup" /\ ~tx'[t].absent => personal # {}
    PROVE  ProductInv'
<1>1. Cardinality(Absent') <= Cardinality(Absent) /\ Cardinality(Absent') \in Nat
  BY ProductSets, Counting
<1>2. Cardinality(Linking') <= Cardinality(Linking) /\ Cardinality(Linking') \in Nat
  BY ProductSets, Counting
<1>3. Cardinality(personal') + Cardinality(Absent') <= Cardinality(Transactions)
  BY <1>1, ProductSets DEF ProductInv
<1>4. Exists' => user'.links + Cardinality(Linking') <= Cardinality(Transactions)
  <2> SUFFICES ASSUME Exists' PROVE user'.links + Cardinality(Linking') <= Cardinality(Transactions)
    OBVIOUS
  <2>1. user'.links = user.links /\ user.links \in Nat
    BY ProductSets
  <2>2. user.links + Cardinality(Linking) <= Cardinality(Transactions)
    BY DEF ProductInv
  <2> QED BY <1>2, <2>1, <2>2, ProductSets
<1> QED BY <1>3, <1>4 DEF ProductInv

\* The products a transaction adds are one more, and it is one less.
LEMMA ProductsAdded ==
    ASSUME Inv, ProductInv, NEW t \in Transactions, tx' = [tx EXCEPT ![t] = Idle],
           tx[t].op = "setup", Products(t)
    PROVE  /\ personal' # {} /\ IsFiniteSet(personal')
           /\ Cardinality(personal') + Cardinality(Absent') <= Cardinality(Transactions)
           /\ \A u \in Transactions : tx'[u].op = "setup" /\ ~tx'[u].absent => personal' # {}
<1>1. Absent' \subseteq Absent \ {t} /\ Absent' \subseteq Absent
  BY DEF Absent, Inv, TypeOK
<1>2. Cardinality(Absent') \in Nat /\ Cardinality(Absent') <= Cardinality(Absent)
  BY <1>1, ProductSets, Counting
<1>3. CASE tx[t].absent
  <2> DEFINE new == [slug |-> tx[t].slug, subscribed |-> seeded]
  <2>1. personal' = personal \cup {new}
    BY <1>3, ProductsShape DEF Inv
  <2>2. /\ IsFiniteSet(personal')
        /\ Cardinality(personal') = Cardinality(personal) \/ Cardinality(personal') = Cardinality(personal) + 1
    BY <2>1, FS_AddElement DEF ProductInv
  <2>3. t \in Absent
    BY <1>3 DEF Absent
  <2>4. Cardinality(Absent') + 1 <= Cardinality(Absent)
    BY <1>1, <2>3, ProductSets, Leaving
  <2>5. Cardinality(personal) + Cardinality(Absent) <= Cardinality(Transactions)
    BY DEF ProductInv
  <2>6. Cardinality(personal') + Cardinality(Absent') <= Cardinality(Transactions)
    BY <1>2, <2>2, <2>4, <2>5, ProductSets
  <2> QED BY <2>1, <2>2, <2>6
<1>4. CASE ~tx[t].absent
  <2>1. personal' = personal /\ personal # {}
    BY <1>4, ProductsShape DEF Inv, ProductInv
  <2>2. Cardinality(personal') + Cardinality(Absent') <= Cardinality(Transactions)
    BY <1>2, <2>1, ProductSets DEF ProductInv
  <2> QED BY <2>1, <2>2 DEF ProductInv
<1> QED BY <1>3, <1>4

LEMMA ProductStep == ASSUME Inv, ProductInv, [Next]_vars PROVE ProductInv'
<1>1. ASSUME NEW t \in Transactions, Writes(t) PROVE ProductInv'
  <2>1. tx' = [tx EXCEPT ![t] = Idle]
    BY <1>1, CodesWritten
  <2>2. /\ Absent' \subseteq Absent /\ Linking' \subseteq Linking /\ Linking' \subseteq Linking \ {t}
        /\ \A u \in Transactions : tx'[u].op = "setup" => tx'[u] = tx[u]
    BY <2>1 DEF Absent, Linking, Inv, TypeOK
  <2>3. Cardinality(Linking') \in Nat /\ Cardinality(Linking') <= Cardinality(Linking)
    BY <2>2, ProductSets, Counting
  <2>4. ~Exists => Linking = {}
    <3>1. \A u \in Transactions : Grounded(tx[u])
      BY DEF Inv
    <3> QED BY <3>1 DEF Linking, Grounded
  <2>5. ~Exists => Cardinality(Linking') = 0
    BY <2>2, <2>4, FS_EmptySet
  <2>6. 1 <= Cardinality(Transactions)
    <3>1. Cardinality({t}) = 1 /\ {t} \in SUBSET Transactions
      BY FS_Singleton
    <3> QED BY <3>1, Counting
  <2>7. CASE CreateUser(t)
    <3>1. ~Exists /\ ~user'.verified /\ user'.links = 0 /\ personal' = personal
      BY <2>7 DEF CreateUser, products
    <3>2. Cardinality(Absent') \in Nat /\ Cardinality(Absent') <= Cardinality(Absent)
      BY <2>2, ProductSets, Counting
    <3>3. Cardinality(personal') + Cardinality(Absent') <= Cardinality(Transactions)
      BY <3>1, <3>2, ProductSets DEF ProductInv
    <3>4. user'.links + Cardinality(Linking') <= Cardinality(Transactions)
      BY <2>5, <3>1, ProductSets
    <3> QED BY <2>2, <3>1, <3>3, <3>4 DEF ProductInv
  <2>8. CASE CreateCode(t) \/ FinishCareer(t) \/ FinishSignin(t)
    <3>1. UNCHANGED <<user, personal>>
      BY <2>8 DEF CreateCode, FinishCareer, FinishSignin, products
    <3>2. Exists' = Exists
      BY <3>1 DEF Exists
    <3>3. \A u \in Transactions : tx'[u].op = "setup" /\ ~tx'[u].absent => personal # {}
      BY <2>2 DEF ProductInv
    <3> QED BY <2>2, <3>1, <3>2, <3>3, ProductsKept
  <2>9. CASE FinishEnding(t)
    <3>1. \A u \in Transactions : tx'[u].op = "setup" /\ ~tx'[u].absent => personal # {}
      BY <2>2 DEF ProductInv
    <3> QED BY <2>2, <2>9, <3>1, EndingShape, ProductsKept
  <2>10. CASE FinishActivate(t)
    <3>1. user' = user /\ tx[t].op = "setup" /\ Products(t)
      BY <2>10 DEF FinishActivate
    <3>2. Exists' = Exists
      BY <3>1 DEF Exists
    <3>3. Exists => user.links + Cardinality(Linking') <= Cardinality(Transactions)
      BY <2>3, ProductSets DEF ProductInv
    <3> QED BY <2>1, <3>1, <3>2, <3>3, ProductsAdded DEF ProductInv
  <2>11. CASE FinishVerify(t)
    <3>1. tx[t].op = "setup" /\ Products(t) /\ Exists /\ user'.links = user.links
      BY <2>11, VerifyShape DEF FinishVerify
    <3>2. user.links + Cardinality(Linking') <= Cardinality(Transactions)
      BY <2>3, <3>1, ProductSets DEF ProductInv
    <3> QED BY <2>1, <3>1, <3>2, ProductsAdded DEF ProductInv
  <2>12. CASE FinishOauth(t)
    <3>1. tx[t].op = "setup" /\ Products(t)
      BY <2>12 DEF FinishOauth
    <3>2. user'.links + Cardinality(Linking') <= Cardinality(Transactions)
      <4>1. CASE tx[t].request.kind = "new"
        <5>1. user'.links = 1 /\ Cardinality(Linking') = 0
          BY <2>5, <2>12, <4>1, OauthShape
        <5> QED BY <2>6, <5>1, ProductSets
      <4>2. CASE tx[t].request.kind = "link"
        <5>1. t \in Linking /\ Exists /\ user'.links = user.links + 1
          BY <2>12, <3>1, <4>2, OauthShape DEF Linking
        <5>2. Cardinality(Linking') + 1 <= Cardinality(Linking)
          BY <2>2, <5>1, ProductSets, Leaving
        <5>3. user.links + Cardinality(Linking) <= Cardinality(Transactions)
          BY <5>1 DEF ProductInv
        <5> QED BY <2>3, <5>1, <5>2, <5>3, ProductSets
      <4>3. CASE tx[t].request.kind = "known"
        <5>1. Exists /\ user'.links = user.links
          BY <2>12, <4>3, OauthShape
        <5>2. user.links + Cardinality(Linking) <= Cardinality(Transactions)
          BY <5>1 DEF ProductInv
        <5> QED BY <2>3, <5>1, <5>2, ProductSets
      <4> QED BY <2>12, <4>1, <4>2, <4>3, OauthShape
    <3> QED BY <2>1, <3>1, <3>2, ProductsAdded DEF ProductInv
  <2> QED BY <1>1, <2>7, <2>8, <2>9, <2>10, <2>11, <2>12 DEF Writes
<1>2. ASSUME NEW t \in Transactions, NEW r, UNCHANGED Rows, tx' = [tx EXCEPT ![t] = r],
             Begun(t, r) \/ Continued(t, r) \/ Ending(t, r)
      PROVE  ProductInv'
  <2>1. /\ UNCHANGED <<user, personal>>
        /\ \A u \in Transactions : tx'[u] = IF u = t THEN r ELSE tx[u]
    BY <1>2 DEF Rows, products, Inv, TypeOK
  <2>2. Exists' = Exists
    BY <2>1 DEF Exists
  <2>3. tx[t] \in Transaction /\ r \in Transaction
    BY <1>2, ReadingTyped DEF Inv, TypeOK
  <2>4. Absent' \in SUBSET Transactions /\ Linking' \in SUBSET Transactions
    BY DEF Absent, Linking
  <2>5. r.op = "setup" => \/ r.absent = (personal = {})
                          \/ tx[t].op = "setup" /\ r.absent = tx[t].absent
    BY <1>2, <2>3, TransactionShape DEF Begun, Continued, Ending
  <2>6. \A u \in Transactions : tx'[u].op = "setup" /\ ~tx'[u].absent => personal # {}
    BY <2>1, <2>5 DEF ProductInv
  <2>7. Cardinality(personal) + Cardinality(Absent') <= Cardinality(Transactions)
    <3>1. CASE personal = {}
      <4>1. Cardinality(personal) = 0
        BY <3>1, FS_EmptySet
      <4> QED BY <2>4, <4>1, Counting
    <3>2. CASE personal # {}
      <4>1. Absent' \subseteq Absent
        BY <2>1, <2>5, <3>2 DEF Absent
      <4>2. Cardinality(Absent') <= Cardinality(Absent) /\ Cardinality(Absent') \in Nat
        BY <4>1, ProductSets, Counting
      <4> QED BY <4>2, ProductSets DEF ProductInv
    <3> QED BY <3>1, <3>2
  <2>8. Linking' \subseteq Linking \/ (Exists => user.links = 0)
    <3>1. CASE Begun(t, r)
      <4>1. r.op # "setup" /\ (r.op = "oauth" /\ r.kind = "link" => user.links = 0)
        BY <3>1 DEF Begun
      <4> QED BY <2>1, <4>1 DEF Linking
    <3>2. CASE Continued(t, r)
      <4>1. r.op \in {"setup", "idle"}
        BY <2>3, <3>2, TransactionShape DEF Continued
      <4>2. r.op = "setup" => \/ tx[t] \in Request /\ r.request = tx[t]
                              \/ tx[t].op = "setup" /\ r.request = tx[t].request
        BY <2>3, <3>2, TransactionShape DEF Continued
      <4> QED BY <2>1, <4>1, <4>2 DEF Linking
    <3>3. CASE Ending(t, r)
      <4>1. r.op = "end"
        BY <3>3 DEF Ending
      <4> QED BY <2>1, <4>1 DEF Linking
    <3> QED BY <1>2, <3>1, <3>2, <3>3
  <2>9. Exists => user.links + Cardinality(Linking') <= Cardinality(Transactions)
    <3> SUFFICES ASSUME Exists PROVE user.links + Cardinality(Linking') <= Cardinality(Transactions)
      OBVIOUS
    <3>1. CASE user.links = 0
      BY <2>4, <3>1, Counting
    <3>2. CASE Linking' \subseteq Linking
      <4>1. Cardinality(Linking') <= Cardinality(Linking) /\ Cardinality(Linking') \in Nat
        BY <3>2, ProductSets, Counting
      <4>2. user.links + Cardinality(Linking) <= Cardinality(Transactions)
        BY DEF ProductInv
      <4> QED BY <4>1, <4>2, ProductSets
    <3> QED BY <2>8, <3>1, <3>2
  <2> QED BY <2>1, <2>2, <2>6, <2>7, <2>9 DEF ProductInv
<1>3. CASE (\E k \in Tokens : Signout(k)) \/ UNCHANGED <<user, codes, tokens, personal, career, tx>>
  <2>1. UNCHANGED <<user, personal, tx>>
    BY <1>3 DEF Signout, products
  <2>2. Exists' = Exists /\ Absent' = Absent /\ Linking' = Linking
    BY <2>1 DEF Exists, Absent, Linking
  <2> QED BY <2>1, <2>2 DEF ProductInv
<1>4. CASE Purge
  <2>1. /\ ~Exists' /\ personal' = {}
        /\ \A u \in Transactions : tx'[u] = Idle
    BY <1>4 DEF Purge, Exists
  <2>2. Absent' = {}
    BY <2>1 DEF Absent
  <2>3. Cardinality(personal') = 0 /\ Cardinality(Absent') = 0 /\ IsFiniteSet(personal')
    BY <2>1, <2>2, FS_EmptySet
  <2> QED BY <2>1, <2>3, ProductSets DEF ProductInv
<1> QED BY <1>1, <1>2, <1>3, <1>4, StepKinds

\* A verified user has a personal workspace, and nobody more of them, or of links, than
\* requests that overlapped.
THEOREM ProductsCorrect == Spec => []ProductsBounded
<1>1. Init => ProductInv
  <2> SUFFICES ASSUME Init PROVE ProductInv
    OBVIOUS
  <2>1. Absent = {} /\ personal = {} /\ ~Exists
    BY DEF Init, Absent, Exists
  <2>2. Cardinality(personal) = 0 /\ Cardinality(Absent) = 0 /\ IsFiniteSet(personal)
    BY <2>1, FS_EmptySet
  <2>3. Cardinality(Transactions) \in Nat
    BY ConstantsAssumption, FS_CardinalityType
  <2> QED BY <2>1, <2>2, <2>3 DEF Init, ProductInv
<1>2. Inv /\ ProductInv /\ [Next]_vars => ProductInv'
  BY ProductStep
<1>3. Inv /\ ProductInv => ProductsBounded
  BY ProductSets DEF ProductInv, ProductsBounded
<1> QED BY <1>1, <1>2, <1>3, InvCorrect, PTL DEF Spec
=============================================================================
