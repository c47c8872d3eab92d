\* Two sockets, two slots, three connections in all, four mode lines.
SPECIFICATION Spec
SYMMETRY Symmetry
INVARIANTS OwnModesKnown UsersCounted ConnectionsCounted
CHECK_DEADLOCK FALSE
CONSTANTS
    Sockets = {s1, s2}
    Lines <- MCLines
    MaxConnections = 2
    MaxAccepts = 3
    MaxReports = 2
