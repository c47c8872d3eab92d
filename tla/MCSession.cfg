\* Two addresses, one nickname and the empty one, ident lookups.  No slow resolver and no second
\* report of one connection: MCSessionLookup.cfg has those.
SPECIFICATION Spec
SYMMETRY Symmetry
CONSTANTS
    Users = {u1, u2}
    Nicks = {n1}
    NoNick = NoNick
    IdentCheck = TRUE
    Mishaps = {"reverse_fails", "gone_early", "timer_race"}
    MaxReports = 1
INVARIANTS NickMapExact DeadIsReported
PROPERTY OnlyEndedDestroyed
CONSTRAINT OneBusy
