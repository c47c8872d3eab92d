\* Units of ten seconds: two minutes are twelve, the listener's frequency is
\* from half a minute to three minutes.
SPECIFICATION TimerSpec
CONSTANTS
    Freqs = {3, 6, 9, 11, 12, 18}
    Patience = 12
    AuthTimeout = 2
    Lag = 4
    Late = 1
    MaxQuiet = 40
INVARIANT SilentGoes
PROPERTY AnsweringStays
CHECK_DEADLOCK FALSE
