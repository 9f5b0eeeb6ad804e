\* Pushes without --since.
SPECIFICATION LibrarySpec
CONSTANTS
    Keys <- MCKeys
    Hashes <- MCHashes
    FieldOrder <- MCFieldOrder
    Suffix <- MCSuffix
    redacted <- redact
    Answers <- MCAnswers
    Profiles <- PushingOnly
    Limit = 2
    Secrets <- MCSecrets
    BatchSize = 1
    SortsBefore <- MCSortsBefore
    Overrides = {}
INVARIANTS
    HistoryPopulated
CHECK_DEADLOCK FALSE
