SPECIFICATION Spec
CONSTANTS
    owner = owner
    guest = guest
    i1 = i1
    i2 = i2
    r1 = r1
    r2 = r2
    mine = mine
    theirs = theirs
    Users = {owner, guest}
    Emails = {mine, theirs}
    EmailOf <- Addresses
    Invites = {i1, i2}
    InvitedTo <- OneTeam
    InvitedEmail <- OneAddress
    InvitedAs <- Administrators
    Replies = {r1, r2}
    MailAttempts = 1
    MaxStalled = 0
    None = None
SYMMETRY Alike
CHECK_DEADLOCK FALSE
INVARIANTS
    DuplicateNeedsOverlap
    ActiveIsInvitee
    UnmailedNeedsLoss
PROPERTIES
    GoneStaysGone
