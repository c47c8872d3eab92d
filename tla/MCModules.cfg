\* Five names of four libraries, two nicknames, a history of three.
SPECIFICATION Spec
INVARIANTS NoStaleCode CommandsExact RecordedOnce
CHECK_DEADLOCK FALSE
CONSTANTS
    Files <- MCFiles
    Library <- MCLibrary
    Boot <- MCBoot
    Nicks = {n1, n2}
    HistoryLimit = 3
