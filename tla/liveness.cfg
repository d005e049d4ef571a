\* One Windows endpoint: blocks are lifted, and orders end where nothing fails,
\* although messages are lost, polls overlap, commits fail and the SIEM crashes.
SPECIFICATION FairSpec
CONSTANTS
    e1 = e1  e2 = e2  ip = ip  user = user  root = root
    d1 = d1  d2 = d2  d3 = d3  d4 = d4
    NoHost = NoHost  NoAction = NoAction
    Hosts = {e1}
    Endpoints = {e1}
    Addresses = {ip}
    Accounts = {}
    Actions = {d1}
    ActTarget <- SameAddress
    ActHost <- AllOnE1
    Advisory = {}
    Refused = {}
    SoarExecute = TRUE
    Platform <- Windows
    BatchMax = 1
    MaxOrders = 2
    MaxStray = 1
    MaxFaults = 1
    MaxAdmin = 1
    Faults = {"lost", "db", "siem", "slow"}
INVARIANTS BlockCovered AtMostOnce
PROPERTIES OrdersComplete BlockLifted
