\* Pages, moments, reports and pushes over a history that grows.
SPECIFICATION LibrarySpec
CONSTANTS
    Keys <- MCKeys
    Hashes <- MCHashes
    FieldOrder <- MCFieldOrder
    Suffix <- MCSuffix
    redacted <- redact
    Answers <- MCAnswers
    Profiles <- MCProfiles
    Limit = 2
    Secrets <- MCSecrets
    BatchSize = 1
    SortsBefore <- MCSortsBefore
    Overrides = {0}
INVARIANTS
    PagesTellAll
    HistoryReplays
    ReportsAgree
    SecretsShowAsRotations
    PushDelivers
    ChangesSentOnce
CHECK_DEADLOCK FALSE
