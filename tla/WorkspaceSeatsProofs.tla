------------------------ MODULE WorkspaceSeatsProofs ------------------------
(* Theorems about WorkspaceSeats, for every value of its constants.        *)
EXTENDS WorkspaceSeats, FiniteSetTheorems, TLAPS

USE DEF Idle

\* What a request has found when it begins to write.
Checked(r) ==
    /\ r.op \notin {"idle", "seats", "upgraded"}
    /\ r.op = "invite" => PendingFor(r.email) = {}
    /\ r.op \in {"accept", "revoke"} => invitations[r.invitation] # None
    /\ r.op = "accept" \/ (r.op = "status" /\ r.checked) => plan # "none" /\ SeatAvailable
    /\ r.op = "charge" => Paid
    /\ r.op \in {"role", "delete"} => ~IsOwner(r.user)
    /\ r.op = "status" /\ r.status = "DISABLED" => ~IsOwner(r.user)
    /\ r.op = "transfer" =>
         /\ r.from = owner_id /\ IsMember(r.to)
         /\ \A v \in {r.from, r.to} : IsMember(v) => <<v, members[v].id>> \in r.rows

\* Whatever is asked for, a request only begins: it has checked, and writes later.
LEMMA RequestBegins ==
    ASSUME TypeOK, NEW t \in Transactions, Request(t)
    PROVE  \E r \in Transaction : Checked(r) /\ Begin(t, r)
<1> DEFINE Begun == \E r \in Transaction : Checked(r) /\ Begin(t, r)
<1>0. \A u \in Users : IsMember(u) => members[u] \in Member /\ members[u].id \in RowIds
  BY DEF TypeOK, IsMember, Member
<1>1. ASSUME NEW u \in Users, NEW e \in Users, InviteMember(t, u, e) PROVE Begun
  <2>1. [op |-> "invite", email |-> e] \in Transaction
    BY DEF Transaction
  <2> QED BY <1>1, <2>1 DEF InviteMember, Checked
<1>2. ASSUME NEW u \in Users, NEW i \in Invitations, AcceptInvitation(t, u, i) PROVE Begun
  <2>1. [op |-> "accept", user |-> u, invitation |-> i] \in Transaction
    BY DEF Transaction
  <2> QED BY <1>2, <2>1 DEF AcceptInvitation, CanAddMember, Paid, PaidPlans, Checked
<1>3. ASSUME NEW u \in Users, NEW i \in Invitations, RevokeInvitation(t, u, i) PROVE Begun
  <2>1. [op |-> "revoke", invitation |-> i] \in Transaction
    BY DEF Transaction
  <2> QED BY <1>3, <2>1 DEF RevokeInvitation, Checked
<1>4. ASSUME NEW a \in Users, NEW u \in Users, NEW status \in Statuses,
             UpdateMemberStatus(t, a, u, status) PROVE Begun
  <2> DEFINE counted == status = "ENABLED" /\ members[u].status = "DISABLED" /\ plan # "none"
             r == [op |-> "status", user |-> u, id |-> members[u].id,
                   status |-> status, checked |-> counted]
  <2>1. r \in Transaction
    BY <1>0, <1>4 DEF Transaction, UpdateMemberStatus
  <2>2. Checked(r)
    BY <1>4 DEF UpdateMemberStatus, Checked
  <2>3. Begin(t, r)
    BY <1>4 DEF UpdateMemberStatus
  <2> QED BY <2>1, <2>2, <2>3
<1>5. ASSUME NEW a \in Users, NEW u \in Users, NEW role \in Roles \ {"OWNER"},
             UpdateMemberRole(t, a, u, role) PROVE Begun
  <2>1. [op |-> "role", user |-> u, id |-> members[u].id, role |-> role] \in Transaction
    BY <1>0, <1>5 DEF Transaction, UpdateMemberRole
  <2> QED BY <1>5, <2>1 DEF UpdateMemberRole, Checked
<1>6. ASSUME NEW a \in Users, NEW u \in Users,
             RemoveMember(t, a, u) \/ LeaveWorkspace(t, u) PROVE Begun
  <2>1. [op |-> "delete", user |-> u, id |-> members[u].id] \in Transaction
    BY <1>0, <1>6 DEF Transaction, RemoveMember, LeaveWorkspace
  <2> QED BY <1>6, <2>1 DEF RemoveMember, LeaveWorkspace, Checked
<1>7. ASSUME NEW a \in Users, NEW u \in Users, TransferOwnership(t, a, u) PROVE Begun
  <2> DEFINE rows == {<<v, members[v].id>> : v \in {w \in {a, u} : IsMember(w)}}
             r == [op |-> "transfer", from |-> a, to |-> u, rows |-> rows]
  <2>1. rows \in SUBSET (Users \X RowIds)
    BY <1>0
  <2>2. r \in Transaction
    BY <2>1 DEF Transaction
  <2>3. Checked(r)
    BY <1>7 DEF TransferOwnership, Checked
  <2>4. Begin(t, r)
    BY <1>7 DEF TransferOwnership
  <2> QED BY <2>2, <2>3, <2>4
<1>8. ASSUME NEW a \in Users, NEW count \in SeatCounts, UpdateSeatCount(t, a, count) PROVE Begun
  <2>1. [op |-> "charge", count |-> count, plan |-> plan] \in Transaction
    BY <1>8 DEF Transaction, UpdateSeatCount, Paid
  <2> QED BY <1>8, <2>1 DEF UpdateSeatCount, Checked
<1>9. ASSUME NEW a \in Users, UpgradePlan(t, a) PROVE Begun
  <2>1. [op |-> "upgrade", count |-> seat_count] \in Transaction
    BY <1>9 DEF Transaction, UpgradePlan, TypeOK
  <2> QED BY <1>9, <2>1 DEF UpgradePlan, Checked
<1>10. ASSUME NEW a \in Users, NEW chosen \in SUBSET Users,
              ReactivateWorkspace(t, a, chosen) PROVE Begun
  <2>1. PICK first \in Users :
          LET enable == {u \in chosen : IsMember(u) /\ ~IsOwner(u)}
                        \cup {u \in {first} : u \notin Enabled}
          IN  /\ IsOwner(first)
              /\ Begin(t, [op |-> "reactivate", rows |-> {<<u, members[u].id>> : u \in enable}])
    BY <1>10 DEF ReactivateWorkspace
  <2> DEFINE enable == {u \in chosen : IsMember(u) /\ ~IsOwner(u)}
                       \cup {u \in {first} : u \notin Enabled}
             rows == {<<u, members[u].id>> : u \in enable}
             r == [op |-> "reactivate", rows |-> rows]
  <2>2. rows \in SUBSET (Users \X RowIds)
    BY <1>0, <2>1 DEF IsOwner
  <2>3. r \in Transaction
    BY <2>2 DEF Transaction
  <2> QED BY <2>1, <2>3 DEF Checked
<1> QED
  BY <1>1, <1>2, <1>3, <1>4, <1>5, <1>6, <1>7, <1>8, <1>9, <1>10 DEF Request

-----------------------------------------------------------------------------
(* Types                                                                   *)

\* The record a transaction is for each operation.
LEMMA TransactionShape ==
    ASSUME NEW r \in Transaction
    PROVE  /\ r.op = "invite" => r.email \in Users
           /\ r.op = "accept" => r.user \in Users /\ r.invitation \in Invitations
           /\ r.op = "revoke" => r.invitation \in Invitations
           /\ r.op = "status" => /\ r.user \in Users /\ r.id \in RowIds
                                 /\ r.status \in Statuses /\ r.checked \in BOOLEAN
           /\ r.op = "role" => /\ r.user \in Users /\ r.id \in RowIds
                               /\ r.role \in Roles \ {"OWNER"}
           /\ r.op = "delete" => r.user \in Users /\ r.id \in RowIds
           /\ r.op = "transfer" => r.from \in Users /\ r.to \in Users
           /\ r.op = "charge" => r.count \in SeatCounts /\ r.plan \in PaidPlans
           /\ r.op = "seats" => r.count \in SeatCounts
           /\ r.op = "upgrade" => r.count \in SeatCounts \cup {1}
  BY DEF Transaction

\* An invitation that is to be accepted or revoked is there.
InvitationsSeen ==
    \A t \in Transactions :
        tx[t].op \in {"accept", "revoke"} => invitations[tx[t].invitation] # None

\* Each write ends its transaction, or turns it into the next one.
LEMMA WriteEnds ==
    ASSUME TypeOK, NEW t \in Transactions, Write(t)
    PROVE  \E r \in Transaction :
             /\ tx' = [tx EXCEPT ![t] = r]
             /\ r.op \in {"idle", "seats", "upgraded"}
             /\ r.op = "seats" => tx[t].op = "charge"
             /\ r.op = "upgraded" => tx[t].op = "upgrade"
<1> DEFINE Ended == \E r \in Transaction :
             /\ tx' = [tx EXCEPT ![t] = r]
             /\ r.op \in {"idle", "seats", "upgraded"}
             /\ r.op = "seats" => tx[t].op = "charge"
             /\ r.op = "upgraded" => tx[t].op = "upgrade"
<1>1. ASSUME tx' = [tx EXCEPT ![t] = Idle] PROVE Ended
  <2>1. Idle \in Transaction
    BY DEF Transaction
  <2> QED BY <1>1, <2>1
<1>2. CASE ChargeSeats(t)
  <2>1. tx[t].count \in SeatCounts /\ tx[t].op = "charge"
    BY <1>2, TransactionShape DEF ChargeSeats, TypeOK
  <2>2. [op |-> "seats", count |-> tx[t].count] \in Transaction
    BY <2>1 DEF Transaction
  <2> QED BY <1>2, <2>1, <2>2 DEF ChargeSeats
<1>3. CASE ChargeUpgrade(t)
  <2>1. [op |-> "upgraded"] \in Transaction
    BY DEF Transaction
  <2> QED BY <1>3, <2>1 DEF ChargeUpgrade
<1> QED
  BY <1>1, <1>2, <1>3 DEF Write, CreateInvitation, CreateMember, WriteRevoked, WriteStatus,
     WriteRole, DeleteMember, WriteOwner, WriteSeats, WritePlan, WriteReactivated, Rollback, End

LEMMA TypeStep ==
    ASSUME TypeOK, InvitationsSeen, [Next]_vars
    PROVE  TypeOK' /\ InvitationsSeen'
<1> USE NoneAssumption
<1>0. \A u \in Users : IsMember(u) => members[u] \in Member
  BY DEF TypeOK, IsMember
<1>1. ASSUME NEW t \in Transactions, Request(t) PROVE TypeOK' /\ InvitationsSeen'
  <2>1. PICK r \in Transaction : Checked(r) /\ Begin(t, r)
    BY <1>1, RequestBegins
  <2>2. /\ tx' = [tx EXCEPT ![t] = r]
        /\ UNCHANGED <<workspace, members, invitations, subscription, unguarded>>
        /\ r.op \in {"accept", "revoke"} => invitations[r.invitation] # None
    BY <2>1 DEF Begin, Checked
  <2> QED BY <2>2 DEF TypeOK, InvitationsSeen, workspace, subscription
<1>2. ASSUME NEW t \in Transactions, Write(t) PROVE TypeOK' /\ InvitationsSeen'
  <2> DEFINE r == tx[t]
  <2>0. r \in Transaction
    BY DEF TypeOK
  <2>1. tx' \in [Transactions -> Transaction]
    BY <1>2, WriteEnds DEF TypeOK
  <2>2. /\ invitations' \in [Invitations -> Invitation \cup {None}]
        /\ \A i \in Invitations : invitations[i] # None => invitations'[i] # None
    <3>1. CASE CreateInvitation(t)
      <4>1. r.email \in Users
        BY <2>0, <3>1, TransactionShape DEF CreateInvitation
      <4> QED BY <3>1, <4>1 DEF CreateInvitation, TypeOK, Invitation
    <3>2. CASE CreateMember(t)
      <4>1. r.invitation \in Invitations /\ invitations[r.invitation] \in Invitation
        BY <2>0, <3>2, TransactionShape DEF CreateMember, InvitationsSeen, TypeOK
      <4> QED BY <3>2, <4>1 DEF CreateMember, TypeOK, Invitation
    <3>3. CASE WriteRevoked(t)
      <4>1. r.invitation \in Invitations /\ invitations[r.invitation] \in Invitation
        BY <2>0, <3>3, TransactionShape DEF WriteRevoked, InvitationsSeen, TypeOK
      <4> QED BY <3>3, <4>1 DEF WriteRevoked, TypeOK, Invitation
    <3>4. CASE UNCHANGED invitations
      BY <3>4 DEF TypeOK
    <3> QED
      BY <1>2, <3>1, <3>2, <3>3, <3>4 DEF Write, WriteStatus, WriteRole, DeleteMember, WriteOwner,
         ChargeSeats, WriteSeats, ChargeUpgrade, WritePlan, WriteReactivated, Rollback
  <2>3. members' \in [Users -> Member \cup {None}]
    <3>1. CASE CreateMember(t)
      <4>1. r.user \in Users /\ r.invitation \in Invitations
        BY <2>0, <3>1, TransactionShape DEF CreateMember
      <4>2. \A role \in Roles : [id |-> r.invitation, role |-> role, status |-> "ENABLED"] \in Member
        BY <4>1 DEF Member, RowIds, Statuses
      <4> QED BY <3>1, <4>1, <4>2 DEF CreateMember, TypeOK
    <3>2. CASE WriteStatus(t)
      <4>1. r.status \in Statuses
        BY <2>0, <3>2, TransactionShape DEF WriteStatus
      <4> QED BY <1>0, <3>2, <4>1 DEF WriteStatus, Present, TypeOK, Member
    <3>3. CASE WriteRole(t)
      <4>1. r.role \in Roles
        BY <2>0, <3>3, TransactionShape DEF WriteRole
      <4> QED BY <1>0, <3>3, <4>1 DEF WriteRole, Present, TypeOK, Member
    <3>4. CASE DeleteMember(t)
      BY <3>4 DEF DeleteMember, TypeOK
    <3>5. CASE WriteOwner(t)
      BY <1>0, <3>5 DEF WriteOwner, Present, TypeOK, Member, Roles, Statuses
    <3>6. CASE WriteReactivated(t)
      BY <1>0, <3>6 DEF WriteReactivated, Present, TypeOK, Member, Statuses
    <3>7. CASE UNCHANGED members
      BY <3>7 DEF TypeOK
    <3> QED
      BY <1>2, <3>1, <3>2, <3>3, <3>4, <3>5, <3>6, <3>7 DEF Write, CreateInvitation,
         WriteRevoked, ChargeSeats, WriteSeats, ChargeUpgrade, WritePlan, Rollback
  <2>4. owner_id' \in Users /\ frozen' \in BOOLEAN /\ unguarded' \in BOOLEAN
    BY <1>2, <2>0, TransactionShape DEF Write, CreateInvitation, CreateMember, WriteRevoked,
       WriteStatus, WriteRole, DeleteMember, WriteOwner, ChargeSeats, WriteSeats, ChargeUpgrade,
       WritePlan, WriteReactivated, Rollback, End, TypeOK, workspace
  <2>5. /\ plan' \in {"none", "free"} \cup PaidPlans
        /\ seat_count' \in SeatCounts \cup {1}
        /\ stripe' \in [plan: {"none"} \cup PaidPlans, seats: SeatCounts \cup {1}]
        /\ unrecorded' \in BOOLEAN
    <3>1. CASE ChargeSeats(t)
      BY <2>0, <3>1, TransactionShape DEF ChargeSeats, TypeOK
    <3>2. CASE ChargeUpgrade(t)
      BY <2>0, <3>2, TransactionShape DEF ChargeUpgrade, TypeOK, PaidPlans
    <3>3. CASE WriteSeats(t)
      BY <2>0, <3>3, TransactionShape DEF WriteSeats, TypeOK
    <3>4. CASE WritePlan(t) \/ Rollback(t)
      BY <3>4 DEF WritePlan, Rollback, TypeOK, PaidPlans
    <3>5. CASE UNCHANGED subscription
      BY <3>5 DEF TypeOK, subscription
    <3> QED
      BY <1>2, <3>1, <3>2, <3>3, <3>4, <3>5 DEF Write, CreateInvitation, CreateMember,
         WriteRevoked, WriteStatus, WriteRole, DeleteMember, WriteOwner, WriteReactivated
  <2>6. InvitationsSeen'
    <3>1. PICK e \in Transaction : tx' = [tx EXCEPT ![t] = e]
                                   /\ e.op \in {"idle", "seats", "upgraded"}
      BY <1>2, WriteEnds
    <3>2. \A o \in Transactions : tx[o].op \in {"accept", "revoke"} => tx[o].invitation \in Invitations
      BY TransactionShape DEF TypeOK
    <3> QED BY <2>2, <3>1, <3>2 DEF InvitationsSeen, TypeOK
  <2> QED BY <2>1, <2>2, <2>3, <2>4, <2>5, <2>6 DEF TypeOK
<1>3. ASSUME NEW t \in Transactions, NEW bought \in PaidPlans, NEW count \in SeatCounts,
             SubscriptionBought(t, bought, count) PROVE TypeOK' /\ InvitationsSeen'
  <2>1. Idle \in Transaction
    BY DEF Transaction
  <2> QED BY <1>3, <2>1 DEF SubscriptionBought, TypeOK, InvitationsSeen
<1>4. ASSUME NEW t \in Transactions, SeatsSynced(t) PROVE TypeOK' /\ InvitationsSeen'
  BY <1>4 DEF SeatsSynced, End, TypeOK, InvitationsSeen, workspace, Transaction
<1>5. ASSUME NEW t \in Transactions, SubscriptionEnded(t) PROVE TypeOK' /\ InvitationsSeen'
  <2>1. members' \in [Users -> Member \cup {None}]
    BY <1>0, <1>5 DEF SubscriptionEnded, TypeOK, Member, Statuses
  <2> QED BY <1>5, <2>1 DEF SubscriptionEnded, End, TypeOK, InvitationsSeen, workspace, Transaction
<1>6. CASE UNCHANGED vars
  BY <1>6 DEF vars, workspace, subscription, TypeOK, InvitationsSeen
<1>7. ASSUME NEW t \in Transactions, Event(t) PROVE TypeOK' /\ InvitationsSeen'
  BY <1>3, <1>4, <1>5, <1>7 DEF Event
<1> QED BY <1>1, <1>2, <1>6, <1>7 DEF Next

\* Every reachable state is well typed: an invitation is marked when it is there.
THEOREM TypeCorrect == Spec => [](TypeOK /\ InvitationsSeen)
<1>1. Init => TypeOK /\ InvitationsSeen
  <2> SUFFICES ASSUME Init PROVE TypeOK /\ InvitationsSeen
    OBVIOUS
  <2>1. [id |-> None, role |-> "OWNER", status |-> "ENABLED"] \in Member
    BY DEF Member, RowIds, Roles, Statuses
  <2>2. members \in [Users -> Member \cup {None}]
    BY <2>1 DEF Init
  <2>3. tx \in [Transactions -> Transaction] /\ InvitationsSeen
    BY DEF Init, Transaction, InvitationsSeen
  <2>4. stripe \in [plan: {"none"} \cup PaidPlans, seats: SeatCounts \cup {1}]
    BY DEF Init
  <2> QED BY <2>2, <2>3, <2>4, ConstantsAssumption DEF Init, TypeOK
<1> QED BY <1>1, TypeStep, PTL DEF Spec

-----------------------------------------------------------------------------
(* The rows of members                                                     *)

\* A membership begins with an acceptance, ends with a removal, and keeps its id.
LEMMA RowsKept ==
    ASSUME TypeOK, [Next]_vars, NEW u \in Users
    PROVE  \/ \E t \in Transactions : CreateMember(t) /\ tx[t].user = u /\ ~IsMember(u)
           \/ \E t \in Transactions : DeleteMember(t) /\ tx[t].user = u /\ ~IsMember(u)'
           \/ /\ IsMember(u)' <=> IsMember(u)
              /\ IsMember(u) => members'[u].id = members[u].id
<1> DEFINE Kept == /\ IsMember(u)' <=> IsMember(u)
                   /\ IsMember(u) => members'[u].id = members[u].id
<1> USE NoneAssumption
<1>0. IsMember(u) => members[u] \in Member
  BY DEF TypeOK, IsMember
<1>1. ASSUME NEW t \in Transactions, Request(t) PROVE Kept
  BY <1>1, RequestBegins DEF Begin, IsMember
<1>2. ASSUME NEW t \in Transactions, CreateMember(t), tx[t].user # u PROVE Kept
  BY <1>2 DEF CreateMember, IsMember, TypeOK
<1>3. ASSUME NEW t \in Transactions, CreateMember(t), tx[t].user = u PROVE ~IsMember(u)
  BY <1>3 DEF CreateMember
<1>4. ASSUME NEW t \in Transactions, DeleteMember(t), ~Kept
      PROVE  tx[t].user = u /\ ~IsMember(u)'
  BY <1>4 DEF DeleteMember, IsMember
<1>5. ASSUME NEW t \in Transactions, WriteStatus(t) PROVE Kept
  <2>1. tx[t].status \in Statuses
    BY <1>5, TransactionShape DEF WriteStatus, TypeOK
  <2>2. IsMember(u) => [members[u] EXCEPT !.status = tx[t].status] \in Member
    BY <1>0, <2>1 DEF Member
  <2> QED BY <1>0, <1>5, <2>2 DEF WriteStatus, IsMember, Present, Member
<1>6. ASSUME NEW t \in Transactions, WriteRole(t) PROVE Kept
  <2>1. tx[t].role \in Roles
    BY <1>6, TransactionShape DEF WriteRole, TypeOK
  <2>2. IsMember(u) => [members[u] EXCEPT !.role = tx[t].role] \in Member
    BY <1>0, <2>1 DEF Member
  <2> QED BY <1>0, <1>6, <2>2 DEF WriteRole, IsMember, Present, Member
<1>7. ASSUME NEW t \in Transactions, WriteOwner(t) PROVE Kept
  <2>1. IsMember(u) => /\ [members[u] EXCEPT !.role = "OWNER", !.status = "ENABLED"] \in Member
                       /\ [members[u] EXCEPT !.role = "ADMIN"] \in Member
    BY <1>0 DEF Member, Roles, Statuses
  <2> QED BY <1>0, <1>7, <2>1 DEF WriteOwner, IsMember, Present, Member
<1>8. IsMember(u) => /\ [members[u] EXCEPT !.status = "ENABLED"] \in Member
                     /\ [members[u] EXCEPT !.status = "DISABLED"] \in Member
  BY <1>0 DEF Member, Statuses
<1>9. ASSUME NEW t \in Transactions, WriteReactivated(t) PROVE Kept
  BY <1>0, <1>8, <1>9 DEF WriteReactivated, IsMember, Present, Member
<1>10. ASSUME NEW t \in Transactions, SubscriptionEnded(t) PROVE Kept
  BY <1>0, <1>8, <1>10 DEF SubscriptionEnded, IsMember, Member
<1>11. ASSUME UNCHANGED members PROVE Kept
  BY <1>11 DEF IsMember
<1>12. ASSUME NEW t \in Transactions, Write(t)
       PROVE  \/ CreateMember(t) \/ DeleteMember(t) \/ WriteStatus(t) \/ WriteRole(t)
              \/ WriteOwner(t) \/ WriteReactivated(t) \/ UNCHANGED members
  BY <1>12 DEF Write, CreateInvitation, WriteRevoked, ChargeSeats, WriteSeats, ChargeUpgrade,
     WritePlan, Rollback
<1>13. ASSUME NEW t \in Transactions, Event(t)
       PROVE  SubscriptionEnded(t) \/ UNCHANGED members
  BY <1>13 DEF Event, SubscriptionBought, SeatsSynced
<1>14. UNCHANGED vars => UNCHANGED members
  BY DEF vars
<1> QED
  BY <1>1, <1>2, <1>3, <1>4, <1>5, <1>6, <1>7, <1>9, <1>10, <1>11, <1>12, <1>13, <1>14 DEF Next

-----------------------------------------------------------------------------
(* Invitations                                                             *)

\* The invitation a member came from is there, and is spent.
Spent ==
    \A u \in Users : \A i \in Invitations :
        IsMember(u) /\ members[u].id = i =>
            invitations[i] # None /\ invitations[i].status \in {"ACCEPTED", "REVOKED"}

\* An invitation is written when it is made, accepted or revoked.
LEMMA InvitationWrites ==
    ASSUME TypeOK, [Next]_vars
    PROVE  \/ UNCHANGED invitations
           \/ \E t \in Transactions : CreateInvitation(t) \/ CreateMember(t) \/ WriteRevoked(t)
<1>1. ASSUME NEW t \in Transactions, Request(t) PROVE UNCHANGED invitations
  BY <1>1, RequestBegins DEF Begin
<1>2. ASSUME NEW t \in Transactions, Write(t)
      PROVE UNCHANGED invitations \/ CreateInvitation(t) \/ CreateMember(t) \/ WriteRevoked(t)
  BY <1>2 DEF Write, WriteStatus, WriteRole, DeleteMember, WriteOwner, ChargeSeats, WriteSeats,
     ChargeUpgrade, WritePlan, WriteReactivated, Rollback
<1>3. ASSUME NEW t \in Transactions, Event(t) PROVE UNCHANGED invitations
  BY <1>3 DEF Event, SubscriptionBought, SeatsSynced, SubscriptionEnded
<1>4. UNCHANGED vars => UNCHANGED invitations
  BY DEF vars
<1> QED BY <1>1, <1>2, <1>3, <1>4 DEF Next

LEMMA SpentStep ==
    ASSUME TypeOK, InvitationsSeen, Spent, [Next]_vars
    PROVE  Spent'
<1> SUFFICES ASSUME NEW u \in Users, NEW i \in Invitations,
                    IsMember(u)', members'[u].id = i
             PROVE  invitations'[i] # None /\ invitations'[i].status \in {"ACCEPTED", "REVOKED"}
  BY DEF Spent
<1> USE NoneAssumption
<1>0. \A t \in Transactions :
        tx[t].op \in {"accept", "revoke"} =>
            /\ tx[t].invitation \in Invitations
            /\ invitations[tx[t].invitation] \in Invitation
            /\ tx[t].op = "accept" => tx[t].user \in Users
  BY TransactionShape DEF TypeOK, InvitationsSeen
<1>1. ASSUME NEW t \in Transactions, CreateMember(t), tx[t].invitation = i
      PROVE  invitations'[i] # None /\ invitations'[i].status \in {"ACCEPTED", "REVOKED"}
  <2>1. invitations'[i] = [invitations[i] EXCEPT !.status = "ACCEPTED"]
    BY <1>1 DEF CreateMember, TypeOK
  <2>2. invitations[i] \in Invitation
    BY <1>0, <1>1 DEF CreateMember
  <2>3. invitations'[i] \in Invitation /\ invitations'[i].status = "ACCEPTED"
    BY <2>1, <2>2 DEF Invitation
  <2> QED BY <2>3
<1>2. ASSUME NEW t \in Transactions, CreateMember(t), tx[t].user = u
      PROVE  tx[t].invitation = i
  <2>1. members'[u].id = tx[t].invitation
    BY <1>2 DEF CreateMember, TypeOK
  <2> QED BY <2>1
<1>3. CASE ~\E t \in Transactions : CreateMember(t) /\ tx[t].user = u
  <2>1. IsMember(u) /\ members[u].id = i
    BY <1>3, RowsKept
  <2>2. invitations[i] # None /\ invitations[i].status \in {"ACCEPTED", "REVOKED"}
    BY <2>1 DEF Spent
  <2>3. ASSUME NEW t \in Transactions, CreateInvitation(t) PROVE invitations'[i] = invitations[i]
    BY <2>2, <2>3 DEF CreateInvitation, TypeOK
  <2>4. ASSUME NEW t \in Transactions, CreateMember(t), tx[t].invitation # i
        PROVE  invitations'[i] = invitations[i]
    BY <2>4 DEF CreateMember, TypeOK
  <2>5. ASSUME NEW t \in Transactions, WriteRevoked(t), tx[t].invitation = i
        PROVE  invitations'[i] # None /\ invitations'[i].status \in {"ACCEPTED", "REVOKED"}
    <3>1. invitations'[i] = [invitations[i] EXCEPT !.status = "REVOKED"]
      BY <2>5 DEF WriteRevoked, TypeOK
    <3>2. invitations[i] \in Invitation
      BY <1>0, <2>5 DEF WriteRevoked
    <3>3. invitations'[i] \in Invitation /\ invitations'[i].status = "REVOKED"
      BY <3>1, <3>2 DEF Invitation
    <3> QED BY <3>3
  <2>6. ASSUME NEW t \in Transactions, WriteRevoked(t), tx[t].invitation # i
        PROVE  invitations'[i] = invitations[i]
    BY <2>6 DEF WriteRevoked, TypeOK
  <2> QED BY <1>1, <2>2, <2>3, <2>4, <2>5, <2>6, InvitationWrites
<1> QED BY <1>1, <1>2, <1>3

\* An invitation that has brought a member in is never open again.
THEOREM InvitationSpentCorrect == Spec => []InvitationSpent
<1>1. Init => Spent
  BY NoneAssumption DEF Init, Spent, IsMember
<1>2. TypeOK /\ InvitationsSeen /\ Spent /\ [Next]_vars => Spent'
  BY SpentStep
<1>3. Spent => InvitationSpent
  BY DEF Spent, InvitationSpent
<1> QED BY <1>1, <1>2, <1>3, TypeCorrect, PTL DEF Spec

\* Requests that have found no invitation of e and are to write one.
Inviting(e) == {t \in Transactions : tx[t].op = "invite" /\ tx[t].email = e}

OpenBounded ==
    \A e \in Users :
        Cardinality(PendingFor(e)) + Cardinality(Inviting(e)) <= Cardinality(Transactions)

\* Removing from both sets keeps the bound.
LEMMA FewerOpen ==
    ASSUME OpenBounded, NEW e \in Users,
           PendingFor(e)' \subseteq PendingFor(e), Inviting(e)' \subseteq Inviting(e)
    PROVE  Cardinality(PendingFor(e)') + Cardinality(Inviting(e)') <= Cardinality(Transactions)
<1>1. /\ IsFiniteSet(PendingFor(e)) /\ IsFiniteSet(Inviting(e))
      /\ IsFiniteSet(PendingFor(e)') /\ IsFiniteSet(Inviting(e)')
      /\ IsFiniteSet(Transactions)
  BY FS_Subset, ConstantsAssumption DEF PendingFor, Inviting
<1>2. /\ Cardinality(PendingFor(e)') <= Cardinality(PendingFor(e))
      /\ Cardinality(Inviting(e)') <= Cardinality(Inviting(e))
  BY <1>1, FS_Subset
<1>3. /\ Cardinality(PendingFor(e)) \in Nat /\ Cardinality(Inviting(e)) \in Nat
      /\ Cardinality(PendingFor(e)') \in Nat /\ Cardinality(Inviting(e)') \in Nat
      /\ Cardinality(Transactions) \in Nat
  BY <1>1, FS_CardinalityType
<1> QED BY <1>2, <1>3 DEF OpenBounded

LEMMA OpenStep ==
    ASSUME TypeOK, InvitationsSeen, OpenBounded, [Next]_vars
    PROVE  OpenBounded'
<1> SUFFICES ASSUME NEW e \in Users
             PROVE  Cardinality(PendingFor(e)') + Cardinality(Inviting(e)') <= Cardinality(Transactions)
  BY DEF OpenBounded
<1> DEFINE Bounded ==
             Cardinality(PendingFor(e)') + Cardinality(Inviting(e)') <= Cardinality(Transactions)
<1> USE NoneAssumption
<1>1. ASSUME NEW t \in Transactions, Request(t) PROVE Bounded
  <2>1. PICK r \in Transaction : Checked(r) /\ Begin(t, r)
    BY <1>1, RequestBegins
  <2>2. UNCHANGED invitations /\ tx' = [tx EXCEPT ![t] = r]
    BY <2>1 DEF Begin
  <2>3. PendingFor(e)' = PendingFor(e)
    BY <2>2 DEF PendingFor
  <2>4. CASE r.op = "invite" /\ r.email = e
    <3>1. PendingFor(e)' = {}
      BY <2>1, <2>3, <2>4 DEF Checked
    <3>2. /\ Cardinality(PendingFor(e)') = 0
          /\ Cardinality(Inviting(e)') <= Cardinality(Transactions)
          /\ Cardinality(Inviting(e)') \in Nat /\ Cardinality(Transactions) \in Nat
      <4>1. Inviting(e)' \in SUBSET Transactions
        BY DEF Inviting
      <4> QED BY <3>1, <4>1, FS_EmptySet, FS_Subset, FS_CardinalityType, ConstantsAssumption
    <3> QED BY <3>2
  <2>5. CASE ~(r.op = "invite" /\ r.email = e)
    <3>1. Inviting(e)' \subseteq Inviting(e)
      BY <2>2, <2>5 DEF Inviting, TypeOK
    <3> QED BY <2>3, <3>1, FewerOpen
  <2> QED BY <2>4, <2>5
<1>2. ASSUME NEW t \in Transactions, Write(t) PROVE Inviting(e)' \subseteq Inviting(e) \ {t}
  <2>1. PICK r \in Transaction :
          /\ tx' = [tx EXCEPT ![t] = r]
          /\ r.op \in {"idle", "seats", "upgraded"}
    BY <1>2, WriteEnds
  <2> QED BY <2>1 DEF Inviting, TypeOK
<1>3. ASSUME NEW t \in Transactions, Write(t), ~CreateInvitation(t) PROVE Bounded
  <2>1. PendingFor(e)' \subseteq PendingFor(e)
    <3>1. CASE UNCHANGED invitations
      BY <3>1 DEF PendingFor
    <3>2. CASE CreateMember(t)
      <4>1. tx[t].invitation \in Invitations /\ invitations[tx[t].invitation] \in Invitation
        BY <3>2, TransactionShape DEF CreateMember, TypeOK, InvitationsSeen
      <4>2. invitations' = [invitations EXCEPT ![tx[t].invitation].status = "ACCEPTED"]
        BY <3>2 DEF CreateMember
      <4> QED BY <4>1, <4>2 DEF PendingFor, TypeOK, Invitation
    <3>3. CASE WriteRevoked(t)
      <4>1. tx[t].invitation \in Invitations /\ invitations[tx[t].invitation] \in Invitation
        BY <3>3, TransactionShape DEF WriteRevoked, TypeOK, InvitationsSeen
      <4>2. invitations' = [invitations EXCEPT ![tx[t].invitation].status = "REVOKED"]
        BY <3>3 DEF WriteRevoked
      <4> QED BY <4>1, <4>2 DEF PendingFor, TypeOK, Invitation
    <3> QED
      BY <1>3, <3>1, <3>2, <3>3 DEF Write, WriteStatus, WriteRole, DeleteMember, WriteOwner,
         ChargeSeats, WriteSeats, ChargeUpgrade, WritePlan, WriteReactivated, Rollback
  <2> QED BY <1>2, <1>3, <2>1, FewerOpen
<1>4. ASSUME NEW t \in Transactions, CreateInvitation(t) PROVE Bounded
  <2>1. PICK i \in Invitations :
          /\ invitations[i] = None
          /\ invitations' = [invitations EXCEPT ![i] = [email |-> tx[t].email, status |-> "PENDING"]]
    BY <1>4 DEF CreateInvitation
  <2>2. Inviting(e)' \subseteq Inviting(e) \ {t}
    BY <1>2, <1>4 DEF Write
  <2>3. CASE tx[t].email # e
    <3>1. PendingFor(e)' \subseteq PendingFor(e)
      BY <2>1, <2>3 DEF PendingFor, TypeOK
    <3> QED BY <2>2, <3>1, FewerOpen
  <2>4. CASE tx[t].email = e
    <3>1. PendingFor(e)' \subseteq PendingFor(e) \cup {i} /\ t \in Inviting(e)
      BY <1>4, <2>1, <2>4 DEF PendingFor, TypeOK, Inviting, CreateInvitation
    <3>2. /\ IsFiniteSet(PendingFor(e)) /\ IsFiniteSet(Inviting(e)) /\ IsFiniteSet(Transactions)
      BY FS_Subset, ConstantsAssumption DEF PendingFor, Inviting
    <3>3. /\ IsFiniteSet(PendingFor(e) \cup {i})
          /\ Cardinality(PendingFor(e) \cup {i}) <= Cardinality(PendingFor(e)) + 1
          /\ Cardinality(PendingFor(e)) \in Nat
      <4>1. Cardinality(PendingFor(e)) \in Nat
        BY <3>2, FS_CardinalityType
      <4>2. /\ IsFiniteSet(PendingFor(e) \cup {i})
            /\ Cardinality(PendingFor(e) \cup {i}) =
                 IF i \in PendingFor(e) THEN Cardinality(PendingFor(e))
                                        ELSE Cardinality(PendingFor(e)) + 1
        BY <3>2, FS_AddElement
      <4> QED BY <4>1, <4>2
    <3>4. /\ IsFiniteSet(Inviting(e) \ {t})
          /\ Cardinality(Inviting(e) \ {t}) = Cardinality(Inviting(e)) - 1
      BY <3>1, <3>2, FS_RemoveElement
    <3>5. /\ Cardinality(PendingFor(e)') <= Cardinality(PendingFor(e) \cup {i})
          /\ Cardinality(PendingFor(e)') \in Nat
      BY <3>1, <3>3, FS_Subset, FS_CardinalityType
    <3>6. /\ Cardinality(Inviting(e)') <= Cardinality(Inviting(e) \ {t})
          /\ Cardinality(Inviting(e)') \in Nat
      BY <2>2, <3>4, FS_Subset, FS_CardinalityType
    <3>7. /\ Cardinality(Inviting(e)) \in Nat /\ Cardinality(Transactions) \in Nat
          /\ Cardinality(PendingFor(e) \cup {i}) \in Nat /\ Cardinality(Inviting(e) \ {t}) \in Nat
      BY <3>2, <3>3, <3>4, FS_CardinalityType
    <3> QED BY <3>3, <3>4, <3>5, <3>6, <3>7 DEF OpenBounded
  <2> QED BY <2>3, <2>4
<1>5. ASSUME NEW t \in Transactions, Event(t) PROVE Bounded
  <2>1. PendingFor(e)' = PendingFor(e)
    BY <1>5 DEF Event, SubscriptionBought, SeatsSynced, SubscriptionEnded, PendingFor
  <2>2. Inviting(e)' \subseteq Inviting(e)
    <3>1. ASSUME NEW bought \in PaidPlans, NEW count \in SeatCounts,
                 SubscriptionBought(t, bought, count)
          PROVE  Inviting(e)' \subseteq Inviting(e)
      BY <3>1 DEF SubscriptionBought, Inviting
    <3>2. CASE SeatsSynced(t)
      BY <3>2 DEF SeatsSynced, End, Inviting, TypeOK
    <3>3. CASE SubscriptionEnded(t)
      BY <3>3 DEF SubscriptionEnded, End, Inviting, TypeOK
    <3> QED BY <1>5, <3>1, <3>2, <3>3 DEF Event
  <2> QED BY <2>1, <2>2, FewerOpen
<1>6. CASE UNCHANGED vars
  <2>1. PendingFor(e)' = PendingFor(e) /\ Inviting(e)' = Inviting(e)
    BY <1>6 DEF vars, PendingFor, Inviting
  <2> QED BY <2>1, FewerOpen
<1> QED BY <1>1, <1>3, <1>4, <1>5, <1>6 DEF Next

\* One address has no more open invitations than requests that raced.
THEOREM OpenInvitationsCorrect == Spec => []OpenInvitationsBounded
<1>1. Init => OpenBounded
  <2> SUFFICES ASSUME Init, NEW e \in Users
               PROVE  Cardinality(PendingFor(e)) + Cardinality(Inviting(e)) <= Cardinality(Transactions)
    BY DEF OpenBounded
  <2>1. PendingFor(e) = {} /\ Inviting(e) = {}
    BY DEF Init, PendingFor, Inviting
  <2>2. Cardinality(PendingFor(e)) = 0 /\ Cardinality(Inviting(e)) = 0
        /\ Cardinality(Transactions) \in Nat
    BY <2>1, FS_EmptySet, FS_CardinalityType, ConstantsAssumption
  <2> QED BY <2>2
<1>2. TypeOK /\ InvitationsSeen /\ OpenBounded /\ [Next]_vars => OpenBounded'
  BY OpenStep
<1>3. OpenBounded => OpenInvitationsBounded
  BY DEF OpenBounded, OpenInvitationsBounded, Inviting
<1> QED BY <1>1, <1>2, <1>3, TypeCorrect, PTL DEF Spec

-----------------------------------------------------------------------------
(* Upgrades                                                                *)

\* An upgrade that is to be recorded has reached Stripe.
UpgradesPaid == \A t \in Transactions : tx[t].op = "upgraded" => stripe.plan = "professional"

LEMMA PlanStep ==
    ASSUME TypeOK, UpgradesPaid, PlanAsPaid, [Next]_vars
    PROVE  UpgradesPaid' /\ PlanAsPaid'
<1> DEFINE Goal == (UpgradesPaid /\ PlanAsPaid)'
<1>1. ASSUME NEW t \in Transactions, Request(t) PROVE Goal
  <2>1. PICK r \in Transaction : Checked(r) /\ Begin(t, r)
    BY <1>1, RequestBegins
  <2>2. /\ tx' = [tx EXCEPT ![t] = r] /\ tx[t].op = "idle" /\ r.op # "upgraded"
        /\ UNCHANGED <<plan, stripe, unrecorded>>
    BY <2>1 DEF Begin, Checked, subscription
  <2> QED BY <2>2 DEF UpgradesPaid, PlanAsPaid, Paid, TypeOK
<1>2. ASSUME NEW t \in Transactions, ChargeSeats(t) PROVE Goal
  <2>1. stripe'.plan = stripe.plan
    BY <1>2 DEF ChargeSeats, TypeOK
  <2> QED BY <1>2, <2>1 DEF ChargeSeats, UpgradesPaid, PlanAsPaid, Paid, TypeOK
<1>3. ASSUME NEW t \in Transactions, ChargeUpgrade(t) PROVE Goal
  BY <1>3 DEF ChargeUpgrade, UpgradesPaid, PlanAsPaid, TypeOK
<1>4. ASSUME NEW t \in Transactions, WritePlan(t) PROVE Goal
  BY <1>4 DEF WritePlan, End, UpgradesPaid, PlanAsPaid, Paid, TypeOK, PaidPlans
<1>5. ASSUME NEW t \in Transactions, Rollback(t) PROVE Goal
  BY <1>5 DEF Rollback, UpgradesPaid, PlanAsPaid, Paid, TypeOK
<1>6. ASSUME NEW t \in Transactions, Write(t), UNCHANGED <<plan, stripe, unrecorded>>,
             tx' = [tx EXCEPT ![t] = Idle], tx[t].op # "upgraded"
      PROVE  Goal
  BY <1>6 DEF UpgradesPaid, PlanAsPaid, Paid, TypeOK
<1>7. ASSUME NEW t \in Transactions, Write(t) PROVE Goal
  BY <1>2, <1>3, <1>4, <1>5, <1>6, <1>7 DEF Write, CreateInvitation, CreateMember, WriteRevoked,
     WriteStatus, WriteRole, DeleteMember, WriteOwner, WriteSeats, WriteReactivated, End, subscription
<1>8. ASSUME NEW t \in Transactions, Event(t) PROVE Goal
  <2>1. ASSUME NEW bought \in PaidPlans, NEW count \in SeatCounts,
               SubscriptionBought(t, bought, count)
        PROVE  Goal
    BY <2>1 DEF SubscriptionBought, UpgradesPaid, PlanAsPaid
  <2>2. CASE SeatsSynced(t)
    BY <2>2 DEF SeatsSynced, End, UpgradesPaid, PlanAsPaid, Paid, TypeOK
  <2>3. CASE SubscriptionEnded(t)
    BY <2>3 DEF SubscriptionEnded, End, UpgradesPaid, PlanAsPaid, Paid, PaidPlans, TypeOK
  <2> QED BY <1>8, <2>1, <2>2, <2>3 DEF Event
<1>9. CASE UNCHANGED vars
  BY <1>9 DEF vars, subscription, UpgradesPaid, PlanAsPaid, Paid
<1> QED BY <1>1, <1>7, <1>8, <1>9 DEF Next

\* Unless a request has died between Stripe and its commit, the workspace has the
\* plan it pays for.
THEOREM PlanAsPaidCorrect == Spec => []PlanAsPaid
<1>1. Init => UpgradesPaid /\ PlanAsPaid
  BY DEF Init, UpgradesPaid, PlanAsPaid, Paid, PaidPlans
<1>2. TypeOK /\ UpgradesPaid /\ PlanAsPaid /\ [Next]_vars => UpgradesPaid' /\ PlanAsPaid'
  BY PlanStep
<1> QED BY <1>1, <1>2, TypeCorrect, PTL DEF Spec

-----------------------------------------------------------------------------
(* Ownership                                                               *)

\* What an open transaction has read of the owner, and writes upon, still holds:
\* no other writes to members run beside a transfer.
OwnerKnown ==
    /\ \A t \in Transactions :
         /\ tx[t].op \in {"role", "delete"} => tx[t].user # owner_id
         /\ tx[t].op = "status" /\ tx[t].status = "DISABLED" => tx[t].user # owner_id
         /\ tx[t].op = "transfer" =>
              /\ tx[t].from = owner_id /\ IsMember(tx[t].to)
              /\ \A v \in {tx[t].from, tx[t].to} : <<v, members[v].id>> \in tx[t].rows
    /\ \A t, o \in Transactions : t # o => ~Races(tx[t], tx[o])

\* A write that leaves owner_id alone, the roles of owner and others, and the owner
\* enabled, keeps what open transactions know.
LEMMA OwnerKept ==
    ASSUME TypeOK, OwnershipAgrees, OwnerKnown, [Next]_vars, UNCHANGED owner_id,
           NEW t \in Transactions, NEW r,
           tx' = [tx EXCEPT ![t] = r], r.op \notin MemberWrites
    PROVE  OwnerKnown'
<1>1. /\ tx'[t] = r
      /\ \A o \in Transactions \ {t} : tx'[o] = tx[o]
  BY DEF TypeOK
<1>2. \A o \in Transactions : tx'[o].op \in MemberWrites => o # t /\ tx'[o] = tx[o]
  BY <1>1
<1>3. ASSUME NEW o \in Transactions, o # t, tx[o].op = "transfer", NEW v \in {tx[o].from, tx[o].to}
      PROVE  IsMember(v)' /\ members'[v].id = members[v].id
  <2>1. v \in Users /\ IsMember(v)
    <3>1. tx[o].from = owner_id /\ IsMember(tx[o].to) /\ tx[o].to \in Users
      BY <1>3, TransactionShape DEF OwnerKnown, TypeOK
    <3>2. owner_id \in Users /\ IsMember(owner_id)
      BY DEF OwnershipAgrees, EnabledIn, Enabled, IsMember
    <3> QED BY <1>3, <3>1, <3>2
  <2>2. ~\E d \in Transactions : DeleteMember(d) /\ tx[d].user = v /\ ~IsMember(v)'
    BY <1>3, <2>1 DEF DeleteMember, OwnerKnown, Races, MemberWrites
  <2> QED BY <2>1, <2>2, RowsKept
<1>4. ASSUME NEW o \in Transactions, NEW p \in Transactions, o # p PROVE ~Races(tx'[o], tx'[p])
  BY <1>2, <1>4 DEF OwnerKnown, Races
<1>5. ASSUME NEW o \in Transactions PROVE
         /\ tx'[o].op \in {"role", "delete"} => tx'[o].user # owner_id
         /\ tx'[o].op = "status" /\ tx'[o].status = "DISABLED" => tx'[o].user # owner_id
         /\ tx'[o].op = "transfer" =>
              /\ tx'[o].from = owner_id /\ members'[tx'[o].to] # None
              /\ \A v \in {tx'[o].from, tx'[o].to} : <<v, members'[v].id>> \in tx'[o].rows
  <2>1. CASE tx'[o].op \notin MemberWrites
    BY <2>1 DEF MemberWrites
  <2>2. CASE tx'[o].op \in MemberWrites
    <3>1. o # t /\ tx'[o] = tx[o]
      BY <1>2, <2>2
    <3>2. /\ tx[o].op \in {"role", "delete"} => tx[o].user # owner_id
          /\ tx[o].op = "status" /\ tx[o].status = "DISABLED" => tx[o].user # owner_id
      BY DEF OwnerKnown
    <3>3. ASSUME tx[o].op = "transfer"
          PROVE  /\ tx[o].from = owner_id /\ members'[tx[o].to] # None
                 /\ \A v \in {tx[o].from, tx[o].to} : <<v, members'[v].id>> \in tx[o].rows
      <4>1. /\ tx[o].from = owner_id
            /\ \A v \in {tx[o].from, tx[o].to} : <<v, members[v].id>> \in tx[o].rows
        BY <3>3 DEF OwnerKnown
      <4>2. \A v \in {tx[o].from, tx[o].to} : members'[v] # None /\ members'[v].id = members[v].id
        BY <1>3, <3>1, <3>3 DEF IsMember
      <4> QED BY <4>1, <4>2
    <3> QED BY <3>1, <3>2, <3>3
  <2> QED BY <2>1, <2>2
<1> QED BY <1>4, <1>5 DEF OwnerKnown, IsMember, Races

\* The roles as OwnershipAgrees speaks of them.
Owned(rows, owner) ==
    /\ rows[owner] # None /\ rows[owner].status = "ENABLED"
    /\ \A u \in Users : rows[u] # None /\ rows[u].role = "OWNER" <=> u = owner

LEMMA OwnershipRows ==
    ASSUME TypeOK
    PROVE  /\ OwnershipAgrees <=> Owned(members, owner_id)
           /\ owner_id' \in Users => (OwnershipAgrees' <=> Owned(members', owner_id'))
  BY DEF OwnershipAgrees, Owned, Enabled, EnabledIn, IsOwner, IsMember, TypeOK

LEMMA OwnershipStep ==
    ASSUME ~RacingTransfers, TypeOK, TypeOK', OwnershipAgrees, OwnerKnown, [Next]_vars
    PROVE  OwnershipAgrees' /\ OwnerKnown'
<1> USE NoneAssumption
<1>0. /\ Owned(members, owner_id)
      /\ owner_id \in Users
      /\ Owned(members', owner_id') => OwnershipAgrees'
      /\ \A u \in Users : members[u] # None => members[u] \in Member
  BY OwnershipRows DEF TypeOK
<1>1. ASSUME NEW t \in Transactions, Request(t) PROVE OwnershipAgrees' /\ OwnerKnown'
  <2>1. PICK r \in Transaction : Checked(r) /\ Begin(t, r)
    BY <1>1, RequestBegins
  <2>2. /\ tx[t] = Idle /\ tx' = [tx EXCEPT ![t] = r]
        /\ UNCHANGED <<owner_id, members>>
        /\ \A o \in Transactions : ~Races(r, tx[o])
    BY <2>1 DEF Begin, workspace
  <2>3. /\ tx'[t] = r
        /\ \A o \in Transactions \ {t} : tx'[o] = tx[o]
    BY <2>2 DEF TypeOK
  <2>4. OwnershipAgrees'
    BY <1>0, <2>2
  <2>5. IsOwner(owner_id) /\ IsMember(owner_id)
    BY <1>0 DEF Owned, IsOwner, IsMember
  <2>6. /\ r.op \in {"role", "delete"} => r.user # owner_id
        /\ r.op = "status" /\ r.status = "DISABLED" => r.user # owner_id
        /\ r.op = "transfer" =>
             /\ r.from = owner_id /\ IsMember(r.to)
             /\ \A v \in {r.from, r.to} : <<v, members[v].id>> \in r.rows
    BY <2>1, <2>5 DEF Checked
  <2>7. ASSUME NEW o \in Transactions, NEW p \in Transactions, o # p PROVE ~Races(tx'[o], tx'[p])
    BY <2>2, <2>3, <2>7 DEF OwnerKnown, Races
  <2>8. ASSUME NEW o \in Transactions PROVE
         /\ tx'[o].op \in {"role", "delete"} => tx'[o].user # owner_id
         /\ tx'[o].op = "status" /\ tx'[o].status = "DISABLED" => tx'[o].user # owner_id
         /\ tx'[o].op = "transfer" =>
              /\ tx'[o].from = owner_id /\ IsMember(tx'[o].to)
              /\ \A v \in {tx'[o].from, tx'[o].to} : <<v, members[v].id>> \in tx'[o].rows
    BY <2>3, <2>6 DEF OwnerKnown
  <2> QED BY <2>2, <2>4, <2>7, <2>8 DEF OwnerKnown, IsMember
<1>2. ASSUME NEW t \in Transactions, Write(t), ~WriteOwner(t) PROVE OwnershipAgrees' /\ OwnerKnown'
  <2>1. owner_id' = owner_id
    BY <1>2 DEF Write, CreateInvitation, CreateMember, WriteRevoked, WriteStatus, WriteRole,
       DeleteMember, ChargeSeats, WriteSeats, ChargeUpgrade, WritePlan, WriteReactivated,
       Rollback, workspace
  <2>2. PICK r \in Transaction :
          tx' = [tx EXCEPT ![t] = r] /\ r.op \in {"idle", "seats", "upgraded"}
    BY <1>2, WriteEnds
  <2>3. OwnerKnown'
    BY <2>1, <2>2, OwnerKept DEF MemberWrites
  <2>4. Owned(members', owner_id)
    <3>1. CASE CreateMember(t)
      <4>1. PICK role \in Roles \ {"OWNER"} :
              members' = [members EXCEPT ![tx[t].user] =
                            [id |-> tx[t].invitation, role |-> role, status |-> "ENABLED"]]
        BY <3>1 DEF CreateMember
      <4>2. ~IsMember(tx[t].user) /\ tx[t].user \in Users
        BY <3>1, TransactionShape DEF CreateMember, TypeOK
      <4> QED BY <1>0, <4>1, <4>2 DEF Owned, IsMember, TypeOK
    <3>2. CASE WriteStatus(t)
      <4>1. \A u \in Users : members[u] # None =>
              /\ [members[u] EXCEPT !.status = tx[t].status].role = members[u].role
              /\ [members[u] EXCEPT !.status = tx[t].status].status = tx[t].status
              /\ [members[u] EXCEPT !.status = tx[t].status] \in Member
        BY <1>0, <3>2, TransactionShape DEF Member, WriteStatus, TypeOK
      <4>2. tx[t].user = owner_id => tx[t].status = "ENABLED"
        BY <3>2, TransactionShape DEF OwnerKnown, WriteStatus, TypeOK, Statuses
      <4> QED BY <1>0, <3>2, <4>1, <4>2 DEF WriteStatus, Owned, IsMember, Present
    <3>3. CASE WriteRole(t)
      <4>1. tx[t].user # owner_id /\ tx[t].role \in Roles \ {"OWNER"}
        BY <3>3, TransactionShape DEF OwnerKnown, WriteRole, TypeOK
      <4>2. \A u \in Users : members[u] # None =>
              [members[u] EXCEPT !.role = tx[t].role].role = tx[t].role
        BY <1>0 DEF Member
      <4> QED BY <1>0, <3>3, <4>1, <4>2 DEF WriteRole, Owned, IsMember, Present
    <3>4. CASE DeleteMember(t)
      <4>1. tx[t].user # owner_id
        BY <3>4 DEF OwnerKnown, DeleteMember
      <4> QED BY <1>0, <3>4, <4>1 DEF DeleteMember, Owned
    <3>5. CASE WriteReactivated(t)
      <4>1. \A u \in Users : members[u] # None =>
              /\ [members[u] EXCEPT !.status = "ENABLED"].role = members[u].role
              /\ [members[u] EXCEPT !.status = "ENABLED"].status = "ENABLED"
              /\ [members[u] EXCEPT !.status = "ENABLED"] \in Member
        BY <1>0 DEF Member, Statuses
      <4> QED BY <1>0, <3>5, <4>1 DEF WriteReactivated, Owned, IsMember, Present
    <3>6. CASE UNCHANGED members
      BY <1>0, <3>6 DEF Owned
    <3> QED
      BY <1>2, <3>1, <3>2, <3>3, <3>4, <3>5, <3>6 DEF Write, CreateInvitation, WriteRevoked,
         ChargeSeats, WriteSeats, ChargeUpgrade, WritePlan, Rollback
  <2> QED BY <1>0, <2>1, <2>3, <2>4
<1>3. ASSUME NEW t \in Transactions, WriteOwner(t) PROVE OwnershipAgrees' /\ OwnerKnown'
  <2> DEFINE from == tx[t].from
             to == tx[t].to
             found(u) == \E row \in tx[t].rows : row[1] = u /\ Present(u, row[2])
  <2>1. /\ from = owner_id /\ IsMember(from) /\ IsMember(to) /\ to \in Users
        /\ <<from, members[from].id>> \in tx[t].rows /\ <<to, members[to].id>> \in tx[t].rows
    BY <1>0, <1>3, TransactionShape DEF WriteOwner, OwnerKnown, TypeOK, Owned, IsMember
  <2>2. found(from) /\ found(to)
    BY <2>1 DEF Present
  <2>3. /\ owner_id' = to
        /\ members' = [u \in Users |->
                         IF u = to /\ found(u)
                         THEN [members[u] EXCEPT !.role = "OWNER", !.status = "ENABLED"]
                         ELSE IF u = from /\ found(u)
                         THEN [members[u] EXCEPT !.role = "ADMIN"]
                         ELSE members[u]]
        /\ tx' = [tx EXCEPT ![t] = Idle]
    BY <1>3 DEF WriteOwner, End
  <2>4. Owned(members', to)
    <3>1. /\ [members[to] EXCEPT !.role = "OWNER", !.status = "ENABLED"] \in Member
          /\ [members[to] EXCEPT !.role = "OWNER", !.status = "ENABLED"].role = "OWNER"
          /\ [members[to] EXCEPT !.role = "OWNER", !.status = "ENABLED"].status = "ENABLED"
          /\ [members[from] EXCEPT !.role = "ADMIN"].role = "ADMIN"
      BY <1>0, <2>1 DEF Member, Roles, Statuses, IsMember
    <3>2. \A u \in Users \ {from} : ~(members[u] # None /\ members[u].role = "OWNER")
      BY <1>0, <2>1 DEF Owned
    <3>3. members'[to] = [members[to] EXCEPT !.role = "OWNER", !.status = "ENABLED"]
      BY <2>1, <2>2, <2>3
    <3>4. from # to => members'[from] = [members[from] EXCEPT !.role = "ADMIN"]
      BY <1>0, <2>1, <2>2, <2>3
    <3>5. \A u \in Users \ {from, to} : members'[u] = members[u]
      BY <2>3
    <3> QED BY <2>1, <3>1, <3>2, <3>3, <3>4, <3>5 DEF Owned
  <2>5. /\ tx'[t].op = "idle"
        /\ \A o \in Transactions \ {t} : tx'[o] = tx[o] /\ tx[o].op \notin MemberWrites
    <3>1. tx[t].op = "transfer" /\ tx'[t] = Idle /\ \A o \in Transactions \ {t} : tx'[o] = tx[o]
      BY <1>3, <2>3 DEF TypeOK, WriteOwner
    <3>2. \A o \in Transactions \ {t} : ~Races(tx[t], tx[o])
      BY DEF OwnerKnown
    <3> QED BY <3>1, <3>2 DEF Races, MemberWrites
  <2>6. OwnerKnown'
    BY <2>5 DEF OwnerKnown, MemberWrites, Races
  <2> QED BY <1>0, <2>3, <2>4, <2>6
<1>4. ASSUME NEW t \in Transactions, NEW bought \in PaidPlans, NEW count \in SeatCounts,
             SubscriptionBought(t, bought, count)
      PROVE  OwnershipAgrees' /\ OwnerKnown'
  <2>1. /\ UNCHANGED <<owner_id, members>>
        /\ \A o \in Transactions : tx'[o] = tx[o] \/ tx'[o] = Idle
    BY <1>4 DEF SubscriptionBought
  <2>2. OwnershipAgrees'
    BY <1>0, <2>1
  <2> QED BY <2>1, <2>2 DEF OwnerKnown, Races, MemberWrites, IsMember
<1>5. ASSUME NEW t \in Transactions, SeatsSynced(t) \/ SubscriptionEnded(t)
      PROVE  OwnershipAgrees' /\ OwnerKnown'
  <2>1. /\ owner_id' = owner_id /\ tx[t] = Idle /\ tx' = [tx EXCEPT ![t] = Idle]
    BY <1>5 DEF SeatsSynced, SubscriptionEnded, End, workspace
  <2>2. OwnerKnown'
    BY <2>1, OwnerKept DEF MemberWrites
  <2>3. Owned(members', owner_id)
    <3>1. CASE SeatsSynced(t)
      BY <1>0, <3>1 DEF SeatsSynced
    <3>2. CASE SubscriptionEnded(t)
      <4>1. \A u \in Users : members[u] # None =>
              [members[u] EXCEPT !.status = "DISABLED"].role = members[u].role
        BY <1>0 DEF Member
      <4> QED BY <1>0, <3>2, <4>1 DEF SubscriptionEnded, Owned, IsOwner, IsMember
    <3> QED BY <1>5, <3>1, <3>2
  <2> QED BY <1>0, <2>1, <2>2, <2>3
<1>6. CASE UNCHANGED vars
  <2>1. UNCHANGED <<owner_id, members, tx>>
    BY <1>6 DEF vars, workspace
  <2> QED BY <1>0, <2>1 DEF OwnerKnown, IsMember
<1>7. ASSUME NEW t \in Transactions, Event(t) PROVE OwnershipAgrees' /\ OwnerKnown'
  BY <1>4, <1>5, <1>7 DEF Event
<1> QED BY <1>1, <1>2, <1>3, <1>6, <1>7 DEF Next

\* While no transfer races another write to members, the one OWNER is the user of
\* owner_id, and enabled.
THEOREM OwnershipCorrect ==
    ASSUME ~RacingTransfers
    PROVE  Spec => []OwnershipAgrees
<1>1. Init => OwnershipAgrees /\ OwnerKnown
  <2> SUFFICES ASSUME Init PROVE OwnershipAgrees /\ OwnerKnown
    OBVIOUS
  <2>1. members[Founder] = [id |-> None, role |-> "OWNER", status |-> "ENABLED"]
    BY ConstantsAssumption DEF Init
  <2>2. members[Founder] # None
    BY <2>1, NoneAssumption DEF Member, RowIds, Roles, Statuses
  <2>3. OwnershipAgrees
    BY <2>1, <2>2, ConstantsAssumption DEF Init, OwnershipAgrees, Enabled, EnabledIn, IsOwner, IsMember
  <2>4. OwnerKnown
    BY DEF Init, OwnerKnown, Races, MemberWrites
  <2> QED BY <2>3, <2>4
<1>2. TypeOK /\ TypeOK' /\ OwnershipAgrees /\ OwnerKnown /\ [Next]_vars
        => OwnershipAgrees' /\ OwnerKnown'
  BY OwnershipStep
<1> QED BY <1>1, <1>2, TypeCorrect, PTL DEF Spec

-----------------------------------------------------------------------------
(* Seats                                                                   *)

\* A workspace whose subscription has ended has a seat for its owner.
Seats == IF plan = "none" THEN 1 ELSE seat_count

Overrun ==
    ~unguarded => Cardinality(Enabled) + Cardinality(Admitted) < Seats + Cardinality(Transactions)

\* The free plan has one seat, which no request changes.
FreeSeat ==
    plan = "free" => seat_count = 1 /\ \A t \in Transactions : tx[t].op \notin {"charge", "seats"}

LEMMA FreeSeatStep ==
    ASSUME TypeOK, FreeSeat, [Next]_vars
    PROVE  FreeSeat'
<1>1. ASSUME NEW t \in Transactions, Request(t) PROVE FreeSeat'
  <2>1. PICK r \in Transaction : Checked(r) /\ Begin(t, r)
    BY <1>1, RequestBegins
  <2>2. /\ tx' = [tx EXCEPT ![t] = r] /\ r.op # "seats" /\ (r.op = "charge" => plan # "free")
        /\ UNCHANGED <<plan, seat_count>>
    BY <2>1 DEF Begin, Checked, subscription, Paid, PaidPlans
  <2> QED BY <2>2 DEF FreeSeat, TypeOK
<1>2. ASSUME NEW t \in Transactions, Write(t) PROVE FreeSeat'
  <2>1. PICK r \in Transaction :
          /\ tx' = [tx EXCEPT ![t] = r]
          /\ r.op \in {"idle", "seats", "upgraded"}
          /\ r.op = "seats" => tx[t].op = "charge"
    BY <1>2, WriteEnds
  <2>2. plan' = "free" => plan = "free"
    BY <1>2 DEF Write, CreateInvitation, CreateMember, WriteRevoked, WriteStatus, WriteRole,
       DeleteMember, WriteOwner, ChargeSeats, WriteSeats, ChargeUpgrade, WritePlan,
       WriteReactivated, Rollback, subscription
  <2>3. plan = "free" => seat_count' = seat_count
    BY <1>2 DEF Write, CreateInvitation, CreateMember, WriteRevoked, WriteStatus, WriteRole,
       DeleteMember, WriteOwner, ChargeSeats, WriteSeats, ChargeUpgrade, WritePlan,
       WriteReactivated, Rollback, subscription, FreeSeat
  <2> QED BY <2>1, <2>2, <2>3 DEF FreeSeat, TypeOK
<1>3. ASSUME NEW t \in Transactions, Event(t) PROVE FreeSeat'
  BY <1>3 DEF Event, SubscriptionBought, SeatsSynced, SubscriptionEnded, End, FreeSeat, Paid,
     PaidPlans, TypeOK
<1>4. CASE UNCHANGED vars
  BY <1>4 DEF vars, subscription, FreeSeat
<1> QED BY <1>1, <1>2, <1>3, <1>4 DEF Next

\* The sets whose sizes are compared are finite, now and after a step.
LEMMA SeatSets ==
    ASSUME TypeOK, TypeOK'
    PROVE  /\ Cardinality(Enabled) \in Nat /\ Cardinality(Admitted) \in Nat
           /\ Cardinality(Enabled') \in Nat /\ Cardinality(Admitted') \in Nat
           /\ IsFiniteSet(Enabled) /\ IsFiniteSet(Admitted)
           /\ IsFiniteSet(Enabled') /\ IsFiniteSet(Admitted')
           /\ IsFiniteSet(Transactions) /\ Cardinality(Transactions) \in Nat
           /\ Seats \in Nat /\ Seats' \in Nat
<1>1. /\ IsFiniteSet(Enabled) /\ IsFiniteSet(Admitted)
      /\ IsFiniteSet(Enabled') /\ IsFiniteSet(Admitted')
      /\ IsFiniteSet(Transactions)
  <2>1. Enabled \in SUBSET Users /\ Enabled' \in SUBSET Users
    BY DEF Enabled, EnabledIn
  <2>2. Admitted \in SUBSET Transactions /\ Admitted' \in SUBSET Transactions
    BY DEF Admitted
  <2> QED BY <2>1, <2>2, FS_Subset, ConstantsAssumption
<1>2. Seats \in Nat /\ Seats' \in Nat
  BY ConstantsAssumption DEF Seats, TypeOK
<1> QED BY <1>1, <1>2, FS_CardinalityType

\* A transaction that is not admitted leaves room for itself.
LEMMA OneLess ==
    ASSUME NEW t \in Transactions, NEW A \in SUBSET Transactions, t \notin A
    PROVE  Cardinality(A) < Cardinality(Transactions)
<1>1. IsFiniteSet(Transactions) /\ IsFiniteSet(A) /\ Cardinality(A) <= Cardinality(Transactions)
  BY FS_Subset, ConstantsAssumption
<1>2. Cardinality(A) # Cardinality(Transactions)
  BY FS_Subset, ConstantsAssumption
<1> QED BY <1>1, <1>2, FS_CardinalityType

LEMMA FewerSeated ==
    ASSUME TypeOK, TypeOK', Overrun, unguarded => unguarded',
           Enabled' \subseteq Enabled, Admitted' \subseteq Admitted, Seats <= Seats'
    PROVE  Overrun'
<1>1. /\ Cardinality(Enabled') <= Cardinality(Enabled)
      /\ Cardinality(Admitted') <= Cardinality(Admitted)
  BY SeatSets, FS_Subset
<1> QED BY <1>1, SeatSets DEF Overrun

\* One that is admitted takes the seat it has counted.
LEMMA AdmittedSeated ==
    ASSUME TypeOK, TypeOK', Overrun, unguarded => unguarded',
           NEW t \in Admitted, NEW u,
           Enabled' \subseteq Enabled \cup {u}, Admitted' \subseteq Admitted \ {t}, Seats <= Seats'
    PROVE  Overrun'
<1>1. /\ IsFiniteSet(Enabled \cup {u})
      /\ Cardinality(Enabled \cup {u}) \in Nat
      /\ Cardinality(Enabled \cup {u}) <= Cardinality(Enabled) + 1
  <2>1. /\ IsFiniteSet(Enabled \cup {u})
        /\ Cardinality(Enabled \cup {u}) =
             IF u \in Enabled THEN Cardinality(Enabled) ELSE Cardinality(Enabled) + 1
    BY SeatSets, FS_AddElement
  <2> QED BY <2>1, SeatSets
<1>2. /\ IsFiniteSet(Admitted \ {t})
      /\ Cardinality(Admitted \ {t}) = Cardinality(Admitted) - 1
  BY SeatSets, FS_RemoveElement
<1>3. /\ Cardinality(Enabled') <= Cardinality(Enabled \cup {u})
      /\ Cardinality(Admitted') <= Cardinality(Admitted \ {t})
  BY <1>1, <1>2, FS_Subset
<1> QED BY <1>1, <1>2, <1>3, SeatSets DEF Overrun

\* Seats withdrawn from enabled members are noted; others leave room for them all.
LEMMA SeatsWithdrawn ==
    ASSUME TypeOK, TypeOK', Overrun, NEW t \in Transactions, t \notin Admitted',
           Enabled' = Enabled, Admitted' \subseteq Admitted, plan' = plan, plan # "none",
           unguarded' <=> unguarded \/ (seat_count' < seat_count
                                        /\ seat_count' < Cardinality(Enabled'))
    PROVE  Overrun'
<1>1. CASE seat_count <= seat_count'
  BY <1>1, FewerSeated DEF Seats
<1>2. CASE seat_count' < seat_count /\ Cardinality(Enabled') <= seat_count'
  <2>1. Cardinality(Admitted') < Cardinality(Transactions)
    BY OneLess DEF Admitted
  <2> QED BY <1>2, <2>1, SeatSets DEF Overrun, Seats
<1>3. seat_count \in Nat /\ seat_count' \in Nat
  BY ConstantsAssumption DEF TypeOK
<1> QED BY <1>1, <1>2, <1>3, SeatSets DEF Overrun

LEMMA OverrunStep ==
    ASSUME TypeOK, TypeOK', OwnershipAgrees, FreeSeat, Overrun, [Next]_vars
    PROVE  Overrun'
<1> USE NoneAssumption
<1>0. \A u \in Users : members[u] # None => members[u] \in Member
  BY DEF TypeOK
<1>1. ASSUME NEW t \in Transactions, Request(t) PROVE Overrun'
  <2>1. PICK r \in Transaction : Checked(r) /\ Begin(t, r)
    BY <1>1, RequestBegins
  <2>2. /\ tx' = [tx EXCEPT ![t] = r]
        /\ UNCHANGED <<members, plan, seat_count, unguarded>>
    BY <2>1 DEF Begin, subscription
  <2>3. Enabled' = Enabled /\ Seats' = Seats
    BY <2>2 DEF Enabled, EnabledIn, Seats
  <2>4. CASE r.op = "accept" \/ (r.op = "status" /\ r.checked)
    <3>1. Cardinality(Enabled) < Seats
      BY <2>1, <2>4 DEF Checked, SeatAvailable, Seats
    <3>2. Admitted' \in SUBSET Transactions
      BY DEF Admitted
    <3>3. Cardinality(Admitted') <= Cardinality(Transactions)
      BY <3>2, FS_Subset, ConstantsAssumption
    <3> QED BY <2>2, <2>3, <3>1, <3>3, SeatSets DEF Overrun
  <2>5. CASE ~(r.op = "accept" \/ (r.op = "status" /\ r.checked))
    <3>1. Admitted' \subseteq Admitted
      BY <2>2, <2>5 DEF Admitted, TypeOK
    <3> QED BY <2>2, <2>3, <3>1, SeatSets, FewerSeated
  <2> QED BY <2>4, <2>5
<1>2. ASSUME NEW t \in Transactions, Write(t) PROVE Admitted' \subseteq Admitted \ {t}
  <2>1. PICK r \in Transaction :
          tx' = [tx EXCEPT ![t] = r] /\ r.op \in {"idle", "seats", "upgraded"}
    BY <1>2, WriteEnds
  <2> QED BY <2>1 DEF Admitted, TypeOK
<1>3. ASSUME NEW t \in Transactions, Write(t), ~WriteSeats(t)
      PROVE  Seats <= Seats' /\ (unguarded => unguarded')
  <2>1. unguarded => unguarded'
    BY <1>3 DEF Write, CreateInvitation, CreateMember, WriteRevoked, WriteStatus, WriteRole,
       DeleteMember, WriteOwner, ChargeSeats, ChargeUpgrade, WritePlan, WriteReactivated,
       Rollback, End
  <2>2. CASE WritePlan(t)
    <3>1. Seats' = Seats
      BY <2>2 DEF WritePlan, Seats, Paid, PaidPlans
    <3> QED BY <2>1, <3>1, SeatSets
  <2>3. CASE ~WritePlan(t)
    <3>1. UNCHANGED <<plan, seat_count>>
      BY <1>3, <2>3 DEF Write, CreateInvitation, CreateMember, WriteRevoked, WriteStatus, WriteRole,
         DeleteMember, WriteOwner, ChargeSeats, ChargeUpgrade, WriteReactivated, Rollback, subscription
    <3>2. Seats' = Seats
      BY <3>1 DEF Seats
    <3> QED BY <2>1, <3>2, SeatSets
  <2> QED BY <2>2, <2>3
<1>4. ASSUME NEW t \in Transactions, Write(t), ~WriteSeats(t), Enabled' \subseteq Enabled
      PROVE  Overrun'
  BY <1>2, <1>3, <1>4, FewerSeated
<1>5. ASSUME NEW t \in Transactions, CreateMember(t) PROVE Overrun'
  <2>1. Write(t) /\ ~WriteSeats(t) /\ t \in Admitted
    BY <1>5 DEF Write, CreateMember, WriteSeats, Admitted
  <2>2. Enabled' \subseteq Enabled \cup {tx[t].user}
    BY <1>5 DEF CreateMember, Enabled, EnabledIn, TypeOK
  <2> QED BY <1>2, <1>3, <2>1, <2>2, AdmittedSeated
<1>6. ASSUME NEW t \in Transactions, WriteStatus(t) PROVE Overrun'
  <2>1. Write(t) /\ ~WriteSeats(t)
    BY <1>6 DEF Write, WriteStatus, WriteSeats
  <2>2. CASE tx[t].checked
    <3>1. t \in Admitted
      BY <1>6, <2>2 DEF WriteStatus, Admitted
    <3>2. Enabled' \subseteq Enabled \cup {tx[t].user}
      BY <1>6 DEF WriteStatus, Enabled, EnabledIn
    <3> QED BY <1>2, <1>3, <2>1, <3>1, <3>2, AdmittedSeated
  <2>3. CASE ~tx[t].checked
    <3>1. CASE Enabled' \subseteq Enabled
      BY <1>4, <2>1, <3>1
    <3>2. CASE ~(Enabled' \subseteq Enabled)
      BY <1>6, <2>3, <3>2 DEF WriteStatus, End, Enabled, EnabledIn, Overrun
    <3> QED BY <3>1, <3>2
  <2> QED BY <2>2, <2>3
<1>7. ASSUME NEW t \in Transactions, WriteOwner(t) \/ WriteReactivated(t) PROVE Overrun'
  <2>1. Write(t) /\ ~WriteSeats(t)
    BY <1>7 DEF Write, WriteOwner, WriteReactivated, WriteSeats
  <2>2. CASE Enabled' \subseteq Enabled
    BY <1>4, <2>1, <2>2
  <2>3. CASE ~(Enabled' \subseteq Enabled)
    BY <1>7, <2>3 DEF WriteOwner, WriteReactivated, End, Enabled, EnabledIn, Overrun
  <2> QED BY <2>2, <2>3
<1>8. ASSUME NEW t \in Transactions, WriteRole(t) PROVE Enabled' \subseteq Enabled
  <2>1. \A u \in Users : members[u] # None =>
          [members[u] EXCEPT !.role = tx[t].role].status = members[u].status
    BY <1>0 DEF Member
  <2> QED BY <1>8, <2>1 DEF WriteRole, Enabled, EnabledIn, Present, IsMember
<1>9. ASSUME NEW t \in Transactions, DeleteMember(t) PROVE Enabled' \subseteq Enabled
  BY <1>9 DEF DeleteMember, Enabled, EnabledIn
<1>10. ASSUME UNCHANGED members PROVE Enabled' = Enabled
  BY <1>10 DEF Enabled, EnabledIn
<1>11. ASSUME NEW t \in Transactions, WriteSeats(t) PROVE Overrun'
  <2>1. /\ Write(t) /\ Enabled' = Enabled /\ plan' = plan
        /\ unguarded' <=> unguarded \/ (seat_count' < seat_count
                                         /\ seat_count' < Cardinality(Enabled'))
    BY <1>10, <1>11 DEF Write, WriteSeats, End, Enabled, EnabledIn
  <2>2. Admitted' \subseteq Admitted /\ t \notin Admitted'
    BY <1>2, <2>1
  <2>3. CASE plan = "none"
    BY <2>1, <2>2, <2>3, SeatSets, FewerSeated DEF Seats
  <2> QED BY <2>1, <2>2, <2>3, SeatsWithdrawn
<1>12. ASSUME NEW t \in Transactions, Write(t) PROVE Overrun'
  <2>1. \/ CreateMember(t) \/ WriteStatus(t) \/ WriteOwner(t) \/ WriteReactivated(t)
        \/ WriteSeats(t) \/ WriteRole(t) \/ DeleteMember(t) \/ UNCHANGED members
    BY <1>12 DEF Write, CreateInvitation, WriteRevoked, ChargeSeats, ChargeUpgrade, WritePlan, Rollback
  <2> QED BY <1>4, <1>5, <1>6, <1>7, <1>8, <1>9, <1>10, <1>11, <1>12, <2>1
<1>13. ASSUME NEW t \in Transactions, NEW bought \in PaidPlans, NEW count \in SeatCounts,
              SubscriptionBought(t, bought, count)
       PROVE  Overrun'
  <2>1. /\ UNCHANGED <<members, unguarded>> /\ plan' = bought /\ seat_count' = count
        /\ plan \in {"none", "free"} /\ bought # "none" /\ count \in Nat \ {0}
    BY <1>13, ConstantsAssumption DEF SubscriptionBought, Paid, PaidPlans, TypeOK
  <2>2. Seats <= Seats'
    BY <2>1 DEF Seats, FreeSeat
  <2>3. Admitted' \subseteq Admitted
    BY <1>13 DEF SubscriptionBought, Admitted
  <2> QED BY <1>10, <2>1, <2>2, <2>3, FewerSeated
<1>14. ASSUME NEW t \in Transactions, SeatsSynced(t) PROVE Overrun'
  <2>1. /\ Enabled' = Enabled /\ plan' = plan /\ plan # "none"
        /\ unguarded' <=> unguarded \/ (seat_count' < seat_count
                                         /\ seat_count' < Cardinality(Enabled'))
    BY <1>10, <1>14 DEF SeatsSynced, End, Enabled, EnabledIn, Paid, PaidPlans
  <2>2. Admitted' \subseteq Admitted /\ t \notin Admitted'
    BY <1>14 DEF SeatsSynced, End, Admitted, TypeOK
  <2> QED BY <2>1, <2>2, SeatsWithdrawn
<1>15. ASSUME NEW t \in Transactions, SubscriptionEnded(t) PROVE Overrun'
  <2>1. Enabled' \subseteq {owner_id}
    <3>1. \A u \in Users : members[u] # None /\ ~IsOwner(u) =>
            [members[u] EXCEPT !.status = "DISABLED"].status = "DISABLED"
      BY <1>0 DEF Member
    <3>2. \A u \in Users : IsOwner(u) => u = owner_id
      BY DEF OwnershipAgrees
    <3> QED BY <1>15, <3>1, <3>2 DEF SubscriptionEnded, Enabled, EnabledIn, IsMember, IsOwner
  <2>2. Cardinality(Enabled') <= 1
    <3>1. IsFiniteSet({owner_id}) /\ Cardinality({owner_id}) = 1
      BY FS_Singleton
    <3> QED BY <2>1, <3>1, FS_Subset
  <2>3. Cardinality(Admitted') < Cardinality(Transactions)
    <3>1. t \notin Admitted'
      BY <1>15 DEF SubscriptionEnded, End, Admitted, TypeOK
    <3> QED BY <3>1, OneLess DEF Admitted
  <2>4. Seats' = 1
    BY <1>15 DEF SubscriptionEnded, Seats
  <2> QED BY <2>2, <2>3, <2>4, SeatSets DEF Overrun
<1>16. CASE UNCHANGED vars
  <2>1. UNCHANGED <<members, tx, plan, seat_count, unguarded>>
    BY <1>16 DEF vars, subscription
  <2>2. Admitted' = Admitted /\ Seats' = Seats
    BY <2>1 DEF Admitted, Seats
  <2> QED BY <1>10, <2>1, <2>2 DEF Overrun
<1> QED BY <1>1, <1>12, <1>13, <1>14, <1>15, <1>16 DEF Next, Event

\* Members exceed the seats by less than the number of transactions that race.
THEOREM SeatsOverrunCorrect ==
    ASSUME ~RacingTransfers
    PROVE  Spec => []SeatsOverrunBounded
<1>1. Init => FreeSeat /\ Overrun
  <2> SUFFICES ASSUME Init PROVE FreeSeat /\ Overrun
    OBVIOUS
  <2>1. Enabled \subseteq {Founder} /\ Admitted = {} /\ Seats = 1
    BY DEF Init, Enabled, EnabledIn, Admitted, Seats
  <2>2. Cardinality(Enabled) <= 1 /\ Cardinality(Enabled) \in Nat
    <3>1. IsFiniteSet({Founder}) /\ Cardinality({Founder}) = 1
      BY FS_Singleton
    <3> QED BY <2>1, <3>1, FS_Subset, FS_CardinalityType
  <2>3. Cardinality(Transactions) \in Nat /\ Cardinality(Transactions) # 0
    BY ConstantsAssumption, FS_CardinalityType, FS_EmptySet
  <2> QED BY <2>1, <2>2, <2>3, FS_EmptySet DEF Init, FreeSeat, Overrun
<1>2. TypeOK /\ FreeSeat /\ [Next]_vars => FreeSeat'
  BY FreeSeatStep
<1>3. TypeOK /\ TypeOK' /\ OwnershipAgrees /\ FreeSeat /\ Overrun /\ [Next]_vars => Overrun'
  BY OverrunStep
<1>4. FreeSeat /\ Overrun => SeatsOverrunBounded
  BY DEF Overrun, SeatsOverrunBounded, Seats
<1> QED BY <1>1, <1>2, <1>3, <1>4, TypeCorrect, OwnershipCorrect, PTL DEF Spec
=============================================================================
