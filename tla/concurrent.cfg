\* Two threads at once, failed logins of two users and a login that succeeds, in any
\* order of time; one rule counts distinct users, one other events than it looks at.
SPECIFICATION FairSpec
CONSTANTS
    w1 = w1  w2 = w2  u1 = u1  u2 = u2  ip = ip  alice = alice  bob = bob
    Workers = {w1, w2}
    Analysts = {}
    Feed <- FewLogins
    RuleSeq <- ThreeRules
    Trigger <- Looks
    Counted <- Sums
    Distinct = {"credential_stuffing"}
    Threshold <- Mixed
    Window <- One
    Severe = {"brute_force"}
    Verdicts = {"resolved"}
    SoarExecute = TRUE
    Cutoffs = {}
    MaxLogs = 3
    MaxTriage = 0
    MaxAdmin = 0
    MaxFaults = 0
INVARIANTS OpenBounded NothingMissed ThresholdRespected
PROPERTIES EveryAlertDecided
