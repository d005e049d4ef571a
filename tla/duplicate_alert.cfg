\* Two threads raise an alert each for events of one attacker.
SPECIFICATION Spec
CONSTANTS
    w1 = w1  w2 = w2  u1 = u1  u2 = u2  ip = ip  alice = alice  bob = bob
    Workers = {w1, w2}
    Analysts = {}
    Feed <- OneUser
    RuleSeq <- Brute
    Trigger <- Looks
    Counted <- Sums
    Distinct = {}
    Threshold <- One
    Window <- One
    Severe = {"brute_force"}
    Verdicts = {"resolved"}
    SoarExecute = TRUE
    Cutoffs = {}
    MaxLogs = 2
    MaxTriage = 0
    MaxAdmin = 0
    MaxFaults = 0
INVARIANTS OneOpen
