\* Deletions and purges while events are ingested and alerts triaged, with
\* failing commits and orders that pin their alerts; one rule counts to two, so
\* that a deletion can take away what it needs.
SPECIFICATION Spec
CONSTANTS
    w1 = w1  w2 = w2  u1 = u1  u2 = u2  ip = ip  alice = alice  bob = bob
    Workers = {w1}
    Analysts = {u1, u2}
    Feed <- OneUser
    RuleSeq <- Logins
    Trigger <- Looks
    Counted <- Sums
    Distinct = {}
    Threshold <- Mixed
    Window <- One
    Severe = {"brute_force"}
    Verdicts = {"investigating", "resolved"}
    SoarExecute = TRUE
    Cutoffs = {2}
    MaxLogs = 2
    MaxTriage = 2
    MaxAdmin = 1
    MaxFaults = 1
INVARIANTS TypeOK NothingMissed TrailEndsAtStatus
