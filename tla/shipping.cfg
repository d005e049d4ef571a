\* A log of four lines, one of them in pieces, rotated once and truncated once under
\* either reader, with two failures between reader and SIEM.
SPECIFICATION FairSpec
CONSTANTS
    Programs = {"shipper", "forwarder"}
    Logs <- MCLogs
    MaxLines = 4
    MaxTorn = 1
    MaxFiles = 2
    MaxCuts = 1
    MaxTrouble = 2
INVARIANTS OnceInOrder NothingElseLost
PROPERTIES Shipped
CHECK_DEADLOCK FALSE
