\* A user introduced by the ident socket's handler while its deletion waits.
SPECIFICATION Spec
INVARIANT MembersIntroduced
CONSTANTS
    u1 = u1
    u2 = u2
    u3 = u3
    Users = {u1, u2}
    Chans = {c1}
    Keys = {}
    NoKey = NoKey
    Limits = {}
    Masks = {}
    Letters = {}
    MaxChans = 2
    IdentCheck = TRUE
    ChannelCreation = TRUE
