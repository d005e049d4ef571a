\* The promise under every kind of fault, one endpoint.  One decision has no
\* agent verb and one is against a protected account.
SPECIFICATION Spec
CONSTANTS
    e1 = e1  e2 = e2  ip = ip  user = user  root = root
    d1 = d1  d2 = d2  d3 = d3  d4 = d4
    NoHost = NoHost  NoAction = NoAction
    Hosts = {e1}
    Endpoints = {e1}
    Addresses = {ip}
    Accounts = {user, root}
    Actions = {d1, d3, d4}
    ActTarget <- EveryKind
    ActHost <- AllOnE1
    Advisory = {d3}
    Refused = {root}
    SoarExecute = TRUE
    Platform <- Linux
    BatchMax = 2
    MaxOrders = 2
    MaxStray = 0
    MaxFaults = 2
    MaxAdmin = 0
    Faults = {"lost", "db", "exec", "restart", "siem"}
INVARIANTS NoLateOrder LedgerTruth ExecutedTruth
PROPERTIES InOrder KeepsPromise
