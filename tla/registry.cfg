\* Two macOS endpoints that are disabled, deleted, enrolled again and given
\* their new secret in any order: whose agent an order goes to, and that
\* queues drain.  The agents have no account actions.
SPECIFICATION FairSpec
CONSTANTS
    e1 = e1  e2 = e2  ip = ip  user = user  root = root
    d1 = d1  d2 = d2  d3 = d3  d4 = d4
    NoHost = NoHost  NoAction = NoAction
    Hosts = {e1, e2}
    Endpoints = {e1, e2}
    Addresses = {ip}
    Accounts = {user}
    Actions = {d1, d2}
    ActTarget <- AddressAndAccount
    ActHost <- OwnHosts
    Advisory = {}
    Refused = {}
    SoarExecute = TRUE
    Platform <- Darwin
    BatchMax = 2
    MaxOrders = 1
    MaxStray = 0
    MaxFaults = 0
    MaxAdmin = 3
    Faults = {}
PROPERTIES QueueDrains
