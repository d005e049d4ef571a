\* Two processes start at once over each kind of database, are killed and started again;
\* over one that is up to date they limit a caller, with buckets of their own or in Redis.
SPECIFICATION FairSpec
CONSTANTS
    p1 = p1  p2 = p2  shared = shared  c1 = c1  c2 = c2  brute = brute  files = files
    Proc = {p1, p2}
    Rule = {brute, files}
    Tuned = {files}
    Corrected = {brute}
    Databases <- Started
    Settings <- Choices
    MaxCrash = 1
    MaxAlert = 2
    Reached = {p1}
    Call = {c1, c2}
    Shared = shared
    Unit = 3
    Gain = 2
    Burst = 2
    Ttl = 3
    MaxClock = 3
    Redis = {TRUE, FALSE}
INVARIANTS Ready EditsKept LimitHolds RetryHonest
PROPERTIES EventuallyServing
CHECK_DEADLOCK FALSE
