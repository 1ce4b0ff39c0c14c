\* Two racing transactions, an owner and two users to invite.
SPECIFICATION Spec
CONSTANTS
    Users = {u0, u1, u2}
    Founder = u0
    Transactions = {t1, t2}
    Invitations = {i1, i2}
    SeatCounts = {2}
    None = none
    RacingTransfers = FALSE
INVARIANTS
    SeatsOverrunBounded
    OwnershipAgrees
    InvitationSpent
    OpenInvitationsBounded
    PlanAsPaid
SYMMETRY Symmetry
CHECK_DEADLOCK FALSE
