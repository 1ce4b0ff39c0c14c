--------------------------- MODULE WorkspaceSeats ---------------------------
(***************************************************************************)
(* One API workspace: who is a member, who is invited, who owns it, and    *)
(* how many seats are paid for.  Every request is a READ COMMITTED         *)
(* transaction that reads and checks first and writes later; nothing it    *)
(* has read is locked, and UPDATE and DELETE are by the id of the row that *)
(* was read.  Stripe events that freeze the workspace, bring a             *)
(* subscription or copy Stripe's seat quantity take a transaction of their *)
(* own in between.                                                         *)
(***************************************************************************)
EXTENDS Naturals, FiniteSets

CONSTANTS
    Users,         \* users, each with an e-mail address
    Founder,       \* the user who created the workspace
    Transactions,  \* transactions that may be open at a time
    Invitations,   \* ids of invitation rows
    SeatCounts,    \* seat counts the paid plans allow (min_seats .. max_seats)
    None,          \* no row
    RacingTransfers \* whether a transfer may run beside another write to members

ASSUME ConstantsAssumption ==
    /\ Founder \in Users
    /\ IsFiniteSet(Users) /\ IsFiniteSet(Invitations)
    /\ IsFiniteSet(Transactions) /\ Transactions # {}
    /\ SeatCounts \subseteq Nat \ {0}
    /\ RacingTransfers \in BOOLEAN

VARIABLES
    owner_id,      \* workspaces.owner_id
    frozen,        \* workspaces.status = FROZEN
    members,       \* workspace_members, one row per user (unique index)
    invitations,   \* workspace_invitations
    plan,          \* the plan of the workspace's active subscription, or none
    seat_count,    \* subscriptions.seat_count
    stripe,        \* plan (by its prices) and quantity of seats at Stripe
    tx,            \* open transactions
    unguarded,     \* history: a member was enabled, or seats withdrawn, unchecked
    unrecorded     \* history: a request died between its upgrade at Stripe and its commit

subscription == <<plan, seat_count, stripe, unrecorded>>
workspace == <<owner_id, frozen>>
vars == <<workspace, members, invitations, subscription, tx, unguarded>>

-----------------------------------------------------------------------------
Roles == {"OWNER", "ADMIN", "MEMBER"}
Statuses == {"ENABLED", "DISABLED"}

\* The paid plans; professional has the higher rank.
PaidPlans == {"basic", "professional"}
Paid == plan \in PaidPlans

\* A membership is identified by the invitation it came from, the founder's by
\* None.
RowIds == Invitations \cup {None}
Member == [id: RowIds, role: Roles, status: Statuses]

\* Expiry only keeps an invitation from being accepted: nothing writes EXPIRED, and
\* lookups do not compare expires_at.  The role offered is chosen on acceptance.
Invitation == [email: Users, status: {"PENDING", "ACCEPTED", "REVOKED"}]

ASSUME NoneAssumption == None \notin Invitations \cup Member \cup Invitation

Idle == [op |-> "idle"]

Transaction ==
    {Idle}
    \cup [op: {"invite"}, email: Users]
    \cup [op: {"accept"}, user: Users, invitation: Invitations]
    \cup [op: {"revoke"}, invitation: Invitations]
    \cup [op: {"status"}, user: Users, id: RowIds, status: Statuses, checked: BOOLEAN]
    \cup [op: {"role"}, user: Users, id: RowIds, role: Roles \ {"OWNER"}]
    \cup [op: {"delete"}, user: Users, id: RowIds]
    \cup [op: {"transfer"}, from: Users, to: Users, rows: SUBSET (Users \X RowIds)]
    \cup [op: {"charge"}, count: SeatCounts, plan: PaidPlans]
    \cup [op: {"seats"}, count: SeatCounts]
    \cup [op: {"upgrade"}, count: SeatCounts \cup {1}]
    \cup [op: {"upgraded"}]
    \cup [op: {"reactivate"}, rows: SUBSET (Users \X RowIds)]

TypeOK ==
    /\ owner_id \in Users /\ frozen \in BOOLEAN
    /\ members \in [Users -> Member \cup {None}]
    /\ invitations \in [Invitations -> Invitation \cup {None}]
    /\ plan \in {"none", "free"} \cup PaidPlans
    /\ seat_count \in SeatCounts \cup {1}
    /\ stripe \in [plan: {"none"} \cup PaidPlans, seats: SeatCounts \cup {1}]
    /\ tx \in [Transactions -> Transaction]
    /\ unguarded \in BOOLEAN /\ unrecorded \in BOOLEAN

\* create_workspace, or create_personal_workspace, which comes with the free plan.
Init ==
    /\ owner_id = Founder /\ frozen = FALSE
    /\ members = [u \in Users |-> IF u = Founder
                                  THEN [id |-> None, role |-> "OWNER", status |-> "ENABLED"]
                                  ELSE None]
    /\ invitations = [i \in Invitations |-> None]
    /\ plan \in {"none", "free"} /\ seat_count = 1
    /\ stripe = [plan |-> "none", seats |-> 1]
    /\ tx = [t \in Transactions |-> Idle]
    /\ unguarded = FALSE /\ unrecorded = FALSE

-----------------------------------------------------------------------------
(* What the transactions read                                              *)

IsMember(u) == members[u] # None
IsAdmin(u) == IsMember(u) /\ members[u].role \in {"OWNER", "ADMIN"}
IsOwner(u) == IsMember(u) /\ members[u].role = "OWNER"

\* get_enabled_member_count.
EnabledIn(rows) == {u \in Users : rows[u] # None /\ rows[u].status = "ENABLED"}
Enabled == EnabledIn(members)

\* get_pending_invitation looks at the status and not at expires_at.
PendingFor(e) ==
    {i \in Invitations : /\ invitations[i] # None
                         /\ invitations[i].email = e
                         /\ invitations[i].status = "PENDING"}

SeatAvailable == Cardinality(Enabled) < seat_count

\* Mutant: available_seats < 0 instead of <= 0.
CanAddMember_offByOne ==
    /\ ~frozen
    /\ Paid
    /\ Cardinality(Enabled) <= seat_count

\* _check_can_add_member.
CanAddMember ==
    /\ ~frozen
    /\ Paid
    /\ SeatAvailable

\* What UPDATE or DELETE ... WHERE id = ... still finds.
Present(u, id) == IsMember(u) /\ members[u].id = id

-----------------------------------------------------------------------------
(* The transactions: the reads and checks                                  *)

MemberWrites == {"transfer", "status", "role", "delete"}

Races(request, other) ==
    {request.op, other.op} \subseteq MemberWrites /\ "transfer" \in {request.op, other.op}

\* A transaction that has passed its checks.
Begin(t, request) ==
    /\ tx[t] = Idle
    /\ RacingTransfers \/ \A o \in Transactions : ~Races(request, tx[o])
    /\ tx' = [tx EXCEPT ![t] = request]
    /\ UNCHANGED <<workspace, members, invitations, subscription, unguarded>>

\* Mutant: whether the address has a pending invitation is not looked up.
InviteMember_twice(t, admin, e) ==
    /\ IsAdmin(admin)
    /\ e # owner_id
    /\ ~IsMember(e)
    /\ CanAddMember
    /\ Begin(t, [op |-> "invite", email |-> e])

\* invite_member.
InviteMember(t, admin, e) ==
    /\ IsAdmin(admin)
    /\ e # owner_id
    /\ ~IsMember(e)
    /\ PendingFor(e) = {}
    /\ CanAddMember
    /\ Begin(t, [op |-> "invite", email |-> e])

\* accept_invitation: the token is known, neither expired nor used, and is the
\* user's.
AcceptInvitation(t, u, i) ==
    /\ invitations[i] # None
    /\ invitations[i].status = "PENDING"
    /\ invitations[i].email = u
    /\ ~IsMember(u)
    /\ CanAddMember
    /\ Begin(t, [op |-> "accept", user |-> u, invitation |-> i])

\* revoke_invitation.
RevokeInvitation(t, admin, i) ==
    /\ IsAdmin(admin)
    /\ invitations[i] # None
    /\ invitations[i].status = "PENDING"
    /\ Begin(t, [op |-> "revoke", invitation |-> i])

\* update_member_status: seats are counted only when a disabled member is enabled
\* under an active subscription.
UpdateMemberStatus(t, admin, u, status) ==
    /\ IsAdmin(admin) /\ IsMember(u)
    /\ ~(IsOwner(u) /\ status = "DISABLED")
    /\ LET counted == /\ status = "ENABLED" /\ members[u].status = "DISABLED"
                      /\ plan # "none"
       IN  /\ counted => SeatAvailable
           /\ Begin(t, [op |-> "status", user |-> u, id |-> members[u].id,
                        status |-> status, checked |-> counted])

\* update_member_role.
UpdateMemberRole(t, owner, u, role) ==
    /\ IsOwner(owner)
    /\ IsMember(u) /\ ~IsOwner(u)
    /\ Begin(t, [op |-> "role", user |-> u, id |-> members[u].id, role |-> role])

\* remove_member.
RemoveMember(t, admin, u) ==
    /\ IsAdmin(admin)
    /\ IsMember(u) /\ ~IsOwner(u)
    /\ Begin(t, [op |-> "delete", user |-> u, id |-> members[u].id])

\* leave_workspace.
LeaveWorkspace(t, u) ==
    /\ IsMember(u) /\ ~IsOwner(u)
    /\ Begin(t, [op |-> "delete", user |-> u, id |-> members[u].id])

\* transfer_ownership: any member may become the owner.
TransferOwnership(t, owner, u) ==
    /\ owner_id = owner
    /\ IsMember(u)
    /\ Begin(t, [op |-> "transfer", from |-> owner, to |-> u,
                 rows |-> {<<v, members[v].id>> : v \in {w \in {owner, u} : IsMember(w)}}])

\* update_seat_count.
UpdateSeatCount(t, admin, count) ==
    /\ IsAdmin(admin)
    /\ Paid
    /\ Cardinality(Enabled) <= count
    /\ Begin(t, [op |-> "charge", count |-> count, plan |-> plan])

\* upgrade_plan, and before it preview_subscription_change with the same checks.
UpgradePlan(t, admin) ==
    /\ IsAdmin(admin)
    /\ plan = "basic"
    /\ Begin(t, [op |-> "upgrade", count |-> seat_count])

\* reactivate_workspace: the chosen members and the owner must fit the seats; of
\* the owners the first one found is enabled if need be.
ReactivateWorkspace(t, owner, chosen) ==
    /\ IsOwner(owner)
    /\ plan # "none"
    /\ chosen # {} => Cardinality(chosen) + 1 <= seat_count
    /\ \E first \in Users :
         /\ IsOwner(first)
         /\ LET enable == {u \in chosen : IsMember(u) /\ ~IsOwner(u)}
                          \cup {u \in {first} : u \notin Enabled}
            IN  Begin(t, [op |-> "reactivate", rows |-> {<<u, members[u].id>> : u \in enable}])

-----------------------------------------------------------------------------
(* The transactions: the writes, visible with the commit                   *)

\* The transaction ends; the history notes members enabled without a count of the
\* seats, and seats withdrawn from enabled members.
End(t, counted) ==
    /\ tx' = [tx EXCEPT ![t] = Idle]
    /\ unguarded' = \/ unguarded
                    \/ (~counted /\ ~(EnabledIn(members') \subseteq Enabled))
                    \/ (seat_count' < seat_count /\ seat_count' < Cardinality(EnabledIn(members')))

CreateInvitation(t) ==
    /\ tx[t].op = "invite"
    /\ \E i \in Invitations :
         /\ invitations[i] = None
         /\ invitations' = [invitations EXCEPT ![i] =
                [email |-> tx[t].email, status |-> "PENDING"]]
    /\ UNCHANGED <<workspace, members, subscription>>
    /\ End(t, TRUE)

\* Mutant: the member row is committed on its own, and the process dies before the
\* invitation is marked.
CreateMember_unmarked(t) ==
    /\ tx[t].op = "accept"
    /\ LET u == tx[t].user
           i == tx[t].invitation
       IN  /\ ~IsMember(u)
           /\ \E role \in Roles \ {"OWNER"} :
                members' = [members EXCEPT ![u] =
                              [id |-> i, role |-> role, status |-> "ENABLED"]]
    /\ UNCHANGED <<workspace, invitations, subscription>>
    /\ End(t, TRUE)

\* The member row is inserted, unless the unique index finds the user a member, and
\* the invitation is marked whatever its status is by now.
CreateMember(t) ==
    /\ tx[t].op = "accept"
    /\ LET u == tx[t].user
           i == tx[t].invitation
       IN  /\ ~IsMember(u)
           /\ \E role \in Roles \ {"OWNER"} :
                members' = [members EXCEPT ![u] =
                              [id |-> i, role |-> role, status |-> "ENABLED"]]
           /\ invitations' = [invitations EXCEPT ![i].status = "ACCEPTED"]
    /\ UNCHANGED <<workspace, subscription>>
    /\ End(t, TRUE)

WriteRevoked(t) ==
    /\ tx[t].op = "revoke"
    /\ invitations' = [invitations EXCEPT ![tx[t].invitation].status = "REVOKED"]
    /\ UNCHANGED <<workspace, members, subscription>>
    /\ End(t, TRUE)

\* An UPDATE of a row that is gone changes nothing.
WriteStatus(t) ==
    /\ tx[t].op = "status"
    /\ members' = [u \in Users |->
                     IF u = tx[t].user /\ Present(u, tx[t].id)
                     THEN [members[u] EXCEPT !.status = tx[t].status]
                     ELSE members[u]]
    /\ UNCHANGED <<workspace, invitations, subscription>>
    /\ End(t, tx[t].checked)

WriteRole(t) ==
    /\ tx[t].op = "role"
    /\ members' = [u \in Users |->
                     IF u = tx[t].user /\ Present(u, tx[t].id)
                     THEN [members[u] EXCEPT !.role = tx[t].role]
                     ELSE members[u]]
    /\ UNCHANGED <<workspace, invitations, subscription>>
    /\ End(t, TRUE)

DeleteMember(t) ==
    /\ tx[t].op = "delete"
    /\ members' = [u \in Users |->
                     IF u = tx[t].user /\ Present(u, tx[t].id) THEN None ELSE members[u]]
    /\ UNCHANGED <<workspace, invitations, subscription>>
    /\ End(t, TRUE)

\* Mutant: the previous owner keeps the role.
WriteOwner_both(t) ==
    /\ tx[t].op = "transfer"
    /\ members' = [u \in Users |->
                     IF \E row \in tx[t].rows : row[1] = u /\ Present(u, row[2]) /\ u = tx[t].to
                     THEN [members[u] EXCEPT !.role = "OWNER", !.status = "ENABLED"]
                     ELSE members[u]]
    /\ owner_id' = tx[t].to
    /\ UNCHANGED <<frozen, invitations, subscription>>
    /\ End(t, FALSE)

\* The owner's row becomes ADMIN, then the new owner's OWNER and ENABLED, as far as
\* the rows still exist; owner_id changes in any case.
WriteOwner(t) ==
    /\ tx[t].op = "transfer"
    /\ LET found(u) == \E row \in tx[t].rows : row[1] = u /\ Present(u, row[2])
       IN  members' = [u \in Users |->
                         IF u = tx[t].to /\ found(u)
                         THEN [members[u] EXCEPT !.role = "OWNER", !.status = "ENABLED"]
                         ELSE IF u = tx[t].from /\ found(u)
                         THEN [members[u] EXCEPT !.role = "ADMIN"]
                         ELSE members[u]]
    /\ owner_id' = tx[t].to
    /\ UNCHANGED <<frozen, invitations, subscription>>
    /\ End(t, FALSE)

\* Stripe.update_subscription finds the seat item by the price of the plan that was
\* read.  The idempotency key is made of the workspace, the count and the period: when
\* the count was asked for before in the period, Stripe gives its first answer again.
ChargeSeats(t) ==
    /\ tx[t].op = "charge"
    /\ Paid /\ stripe.plan = tx[t].plan
    /\ \E repeated \in BOOLEAN :
         stripe' = IF repeated THEN stripe ELSE [stripe EXCEPT !.seats = tx[t].count]
    /\ tx' = [tx EXCEPT ![t] = [op |-> "seats", count |-> tx[t].count]]
    /\ UNCHANGED <<workspace, members, invitations, plan, seat_count, unguarded, unrecorded>>

\* The same for an upgrade, with the seats as read; once upgraded, the subscription has
\* no seat item of the old price, so that its key is never used again.
ChargeUpgrade(t) ==
    /\ tx[t].op = "upgrade"
    /\ Paid /\ stripe.plan = "basic"
    /\ stripe' = [plan |-> "professional", seats |-> tx[t].count]
    /\ tx' = [tx EXCEPT ![t] = [op |-> "upgraded"]]
    /\ UNCHANGED <<workspace, members, invitations, plan, seat_count, unguarded, unrecorded>>

WriteSeats(t) ==
    /\ tx[t].op = "seats"
    /\ seat_count' = tx[t].count
    /\ UNCHANGED <<workspace, members, invitations, plan, stripe, unrecorded>>
    /\ End(t, TRUE)

\* Mutant: the plan is left to Stripe's event.
WritePlan_byEvent(t) ==
    /\ tx[t].op = "upgraded"
    /\ UNCHANGED <<workspace, members, invitations, subscription>>
    /\ End(t, TRUE)

\* The plan of a subscription that has ended meanwhile is of no consequence.
WritePlan(t) ==
    /\ tx[t].op = "upgraded"
    /\ plan' = IF Paid THEN "professional" ELSE plan
    /\ UNCHANGED <<workspace, members, invitations, seat_count, stripe, unrecorded>>
    /\ End(t, TRUE)

WriteReactivated(t) ==
    /\ tx[t].op = "reactivate"
    /\ members' = [u \in Users |->
                     IF \E row \in tx[t].rows : row[1] = u /\ Present(u, row[2])
                     THEN [members[u] EXCEPT !.status = "ENABLED"]
                     ELSE members[u]]
    /\ frozen' = FALSE
    /\ UNCHANGED <<owner_id, invitations, subscription>>
    /\ End(t, FALSE)

\* An error, a refusal by Stripe, a unique violation or a crash.
Rollback(t) ==
    /\ tx[t] # Idle
    /\ tx' = [tx EXCEPT ![t] = Idle]
    /\ unrecorded' = (unrecorded \/ tx[t].op = "upgraded")
    /\ UNCHANGED <<workspace, members, invitations, plan, seat_count, stripe, unguarded>>

-----------------------------------------------------------------------------
(* Stripe and the clock                                                    *)

\* handle_checkout_completed.  Changes to an ended subscription that are still open
\* will write to its row and no longer to the one modelled.
SubscriptionBought(t, bought, count) ==
    /\ tx[t] = Idle
    /\ ~Paid
    /\ tx' = [o \in Transactions |->
                IF tx[o].op \in {"charge", "seats", "upgrade", "upgraded"} THEN Idle ELSE tx[o]]
    /\ plan' = bought /\ seat_count' = count /\ stripe' = [plan |-> bought, seats |-> count]
    /\ unrecorded' = FALSE
    /\ frozen' = FALSE
    /\ UNCHANGED <<owner_id, members, invitations, unguarded>>

\* handle_subscription_updated: of a subscription with a base and a seat item it takes
\* no plan, and the quantity only if the seat item has the price of the plan it knows.
SeatsSynced(t) ==
    /\ tx[t] = Idle
    /\ Paid
    /\ seat_count' = IF plan = stripe.plan THEN stripe.seats ELSE seat_count
    /\ UNCHANGED <<workspace, members, invitations, plan, stripe, unrecorded>>
    /\ End(t, TRUE)

\* cancel_subscription or handle_subscription_deleted: _freeze_workspace disables
\* every member but the owner.
SubscriptionEnded(t) ==
    /\ tx[t] = Idle
    /\ plan # "none"
    /\ plan' = "none" /\ frozen' = TRUE
    /\ members' = [u \in Users |->
                     IF IsMember(u) /\ ~IsOwner(u)
                     THEN [members[u] EXCEPT !.status = "DISABLED"]
                     ELSE members[u]]
    /\ UNCHANGED <<owner_id, invitations, seat_count, stripe, unrecorded>>
    /\ End(t, TRUE)

-----------------------------------------------------------------------------
Request(t) ==
    \/ \E u, v \in Users : \E role \in Roles \ {"OWNER"} :
         InviteMember(t, u, v) \/ UpdateMemberRole(t, u, v, role)
    \/ \E u \in Users : \E i \in Invitations : AcceptInvitation(t, u, i) \/ RevokeInvitation(t, u, i)
    \/ \E u, v \in Users : \E status \in Statuses : UpdateMemberStatus(t, u, v, status)
    \/ \E u, v \in Users : RemoveMember(t, u, v) \/ TransferOwnership(t, u, v)
    \/ \E u \in Users : LeaveWorkspace(t, u) \/ UpgradePlan(t, u)
    \/ \E u \in Users : \E count \in SeatCounts : UpdateSeatCount(t, u, count)
    \/ \E u \in Users : \E chosen \in SUBSET Users : ReactivateWorkspace(t, u, chosen)

Write(t) ==
    \/ CreateInvitation(t) \/ CreateMember(t) \/ WriteRevoked(t)
    \/ WriteStatus(t) \/ WriteRole(t) \/ DeleteMember(t) \/ WriteOwner(t)
    \/ ChargeSeats(t) \/ WriteSeats(t) \/ ChargeUpgrade(t) \/ WritePlan(t)
    \/ WriteReactivated(t) \/ Rollback(t)

Event(t) ==
    \/ \E bought \in PaidPlans, count \in SeatCounts : SubscriptionBought(t, bought, count)
    \/ SeatsSynced(t) \/ SubscriptionEnded(t)

Next == \E t \in Transactions : Request(t) \/ Write(t) \/ Event(t)

Spec == Init /\ [][Next]_vars

-----------------------------------------------------------------------------
(* Properties                                                              *)

\* Transactions that have counted the seats and not enabled their member yet.
Admitted ==
    {t \in Transactions : tx[t].op = "accept" \/ (tx[t].op = "status" /\ tx[t].checked)}

\* Seats are counted in one statement and taken in another, so members can exceed
\* them: by racing transactions, by at most one less than there are transactions,
\* and however many invitations there are.  (Transfers, reactivations and seats
\* withdrawn from enabled members do not count the seats: unguarded.)
SeatsOverrunBounded ==
    plan # "none" /\ ~unguarded =>
        Cardinality(Enabled) + Cardinality(Admitted) < seat_count + Cardinality(Transactions)

\* However roles, memberships and owners are changed, by whatever sequence of
\* requests and by any interleaving of them that keeps transfers away from other
\* writes to members, the one OWNER is the user of owner_id, and is enabled.
\* "Old owner -> ADMIN, Target member -> OWNER."
OwnershipAgrees ==
    /\ owner_id \in Enabled
    /\ {u \in Users : IsOwner(u)} = {owner_id}

\* An invitation that has brought a member in is never open again, neither by a
\* crash between the two writes nor by a revocation that races.
InvitationSpent ==
    \A u \in Users : \A i \in Invitations :
        IsMember(u) /\ members[u].id = i => invitations[i].status \in {"ACCEPTED", "REVOKED"}

\* One e-mail address has one open invitation, plus at most those of requests that
\* were open together: the table has no unique index, the lookup is all there is.
OpenInvitationsBounded ==
    \A e \in Users :
        LET inviting == {t \in Transactions : tx[t].op = "invite" /\ tx[t].email = e}
        IN  Cardinality(PendingFor(e)) + Cardinality(inviting) <= Cardinality(Transactions)

\* A workspace has the plan it pays for, or a request that is still to record the
\* upgrade: a request that died between Stripe and its commit is the one exception,
\* and it is never repaired, for Stripe's event does not bring the plan of an API
\* subscription, and another upgrade does not find the seat item.
PlanAsPaid ==
    Paid /\ ~unrecorded /\ (\A t \in Transactions : tx[t].op # "upgraded") =>
        plan = stripe.plan
=============================================================================
