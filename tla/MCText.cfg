\* Every mask of up to five characters on every text of up to four; lines of
\* together up to six characters, also those that end the server; values of up
\* to three in every text of up to six, and of seven behind a quote, as the
\* entry of a short name and of a longer one.  The loops end.
SPECIFICATION Spec
CONSTANTS
    Masks <- MCMasks
    Subjects <- MCSubjects
    Chars <- MCChars
    MaxText = 6
    Letters = {"a"}
    Inputs <- MCInputs
    Values <- MCValues
    Names = {1, 3}
INVARIANTS MatchIsWildcard ReadsInside LinesInOrder  ValuesReadAsWritten
PROPERTY Advances
CHECK_DEADLOCK FALSE
