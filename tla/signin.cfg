\* One account and two threads: guesses against sign-ins, sign-ins against revocations,
\* and the life of a second factor.
SPECIFICATION FairSpec
CONSTANTS
    w1 = w1  w2 = w2  b1 = b1  b2 = b2
    Worker = {w1, w2}
    Threshold = 3
    BackupCode = {b1, b2}
    Policies = {"off", "optional", "required"}
    Traffic <- Mixes
    MaxVersion = 3
    MaxIssue = 1
INVARIANTS Lockout OneTime Revocation TwoFactors
PROPERTIES OwnerGetsIn
CHECK_DEADLOCK FALSE
