SPECIFICATION Spec
CONSTANTS
    Main = "main"
    MaxIncludes = 4
    Files <- MCFiles
    Disks <- MCDisks
    Edits <- MCEdits
    Numerics <- MCNumerics
    Passwords <- MCPasswords
    Hashes <- MCHashes
    Digests <- MCDigests
    Endpoint <- MCEndpoint
    Clashes <- MCClashes
    Refusals <- MCRefusals
INVARIANTS
    IdentityAsWritten
    EntriesAsWritten
    ListenersAsWritten
    OperatorsAsWritten
    ModulesAsWritten
