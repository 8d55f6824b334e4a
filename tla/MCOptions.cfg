SPECIFICATION Spec
CONSTANTS
    MaxDuration = 7
    DefaultBackoffBase = 2
    DefaultBackoffMax = 6
    DefaultConcurrency = 10
    DefaultMaxRetries = 3
    MaxAttempt = 6
    Now = 5
INVARIANTS
    TypeOK
    BackoffIsCappedDoubling
    ConsumeSettingsAgree
PROPERTIES
    RunAtWins
