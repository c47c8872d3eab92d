\* Every mode letter that joins or privileges depend on, two addresses, one
\* channel that only IRC operators may create, and the reactor's fairness.
SPECIFICATION FairSpec
CONSTANTS
    u1 = u1
    u2 = u2
    u3 = u3
    Users = {u1, u2}
    Chans = {c1}
    Keys = {k1}
    NoKey = NoKey
    Limits = {1}
    Masks <- MCMasks
    Letters = {"o", "h", "v", "i", "k", "l", "b"}
    MaxChans = 1
    IdentCheck = FALSE
    ChannelCreation = FALSE
PROPERTIES OnlyPrivilegedChange ClosedUsersVanish
