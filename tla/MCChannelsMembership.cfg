\* Three addresses, two names, operator status and invites.
SPECIFICATION Spec
SYMMETRY Symmetry
CONSTANTS
    u1 = u1
    u2 = u2
    u3 = u3
    Users = {u1, u2, u3}
    Chans = {c1, c2}
    Keys = {}
    NoKey = NoKey
    Limits = {}
    Masks = {}
    Letters = {"o"}
    MaxChans = 2
    IdentCheck = FALSE
    ChannelCreation = TRUE
INVARIANTS TypeOK MembershipSymmetric MembersIntroduced InvitesOutside
PROPERTY ImplementsMembership
