\* Two users, one channel, eleven mode lines.
SPECIFICATION Spec
CONSTRAINT Bounds
INVARIANTS KnowsWhetherHeard MembersKnown EchoExact KnowsWhoSees
CONSTANTS
    n1 = n1
    n2 = n2
    m1 = m1
    e0 = e0
    wb = wb
    Width = 12
    Users = {n1, n2}
    Chans = {c1}
    Masks = {m1, e0, wb}
    OnWire <- MCOnWire
    Matches <- MCMatches
    Topics = {t1}
    NoTopic = NoTopic
    Lines <- MCLines
    EnableHalfOp = TRUE
