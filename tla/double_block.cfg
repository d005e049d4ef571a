\* Two orders against one address on Linux.
SPECIFICATION Spec
CONSTANTS
    e1 = e1  e2 = e2  ip = ip  user = user  root = root
    d1 = d1  d2 = d2  d3 = d3  d4 = d4
    NoHost = NoHost  NoAction = NoAction
    Hosts = {e1}
    Endpoints = {e1}
    Addresses = {ip}
    Accounts = {}
    Actions = {d1, d2}
    ActTarget <- SameAddress
    ActHost <- AllOnE1
    Advisory = {}
    Refused = {}
    SoarExecute = TRUE
    Platform <- Linux
    BatchMax = 2
    MaxOrders = 2
    MaxStray = 0
    MaxFaults = 0
    MaxAdmin = 0
    Faults = {}
INVARIANTS BlockCovered
