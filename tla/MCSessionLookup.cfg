\* One address used again and again, the client and the timer faster than the
\* resolver, and writes failing beside the read: a deletion is deferred up to
\* three times, and copies of the pointer outlive it.
SPECIFICATION FairSpec
CONSTANTS
    Users = {u1}
    Nicks = {n1}
    NoNick = NoNick
    IdentCheck = FALSE
    Mishaps = {"slow_dns", "double_report", "timer_race"}
    MaxReports = 3
INVARIANTS AwaitedIsOutstanding DeferredHasCallback
PROPERTIES NoLingering DeadIsDeleted
