SPECIFICATION Spec
CONSTANTS
    FailureThreshold = 2
    CooldownChecks = 2
    BootChecks = 3
    RetryChecks = 2
    MaxFaults = 4
INVARIANTS
    TypeOK
    RestartsAreEarned
PROPERTIES
    Settles
