\* A condition is written token by token; or lines are logged, judged live and
\* analysed in a file, whose report is deleted, fails or is abandoned.
SPECIFICATION Spec
CONSTANTS
    None = None  ip = ip  bob = bob  eve = eve  system = system
    passwd = passwd  sudoedit = sudoedit  sqlmap = sqlmap
    ServiceAccounts = {system}
    Unroutable = {"-"}
    Names = {"sel1", "sel2", "filter"}
    OneOf <- One
    AllOf <- All
    Relates <- Occurs
    Rules <- Rows
    Critical = {passwd}
    Suspicious = {sudoedit}
    WebPatterns <- Patterns
    Encoded <- Decodes
    ToolAgents <- Agents
    MaxLines = 4
    HResults <- Codes
    Signatures <- Catalogue
    Cut <- Small
    Lines <- Logged
    Settings = {"elastic", "clickhouse"}
    Detection <- Finds
    Shipped <- Finished
    MaxFile = 5
    MaxTokens = 5
    MaxReports = 1
    MaxTrouble = 1
    ReportLines = 3
INVARIANTS CaughtOffline StoresAgree CompromiseNamed ConditionMeaning ReportTruth
CHECK_DEADLOCK FALSE
