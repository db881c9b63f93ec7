SPECIFICATION AppSpec
CONSTANTS
    w1 = w1
    w2 = w2
    w3 = w3
    w4 = w4
    h1 = h1
    h2 = h2
    twin = twin
    token = token
    worker_name = worker_name
    off = off
    bad = bad
    Unset = Unset
    Root = Root
    Hatchet = Hatchet
    On = On
    Workflows <- MCWorkflows
    Hosts <- MCHosts
    NameOf <- MCNameOf
    Apps <- MCApps
    InitialServers <- MCInitialServers
    PageSize = 2
    MaxPages = 3
    MaxChanges = 2
    Providers <- MCProviders
    Variables <- MCVariables
    RefusedAsAWhole <- MCRefusedAsAWhole
    Values = {On, off, bad}
    Environments <- MCEnvironments
    WorkerVariable = worker_name
    MaxSets = 0
INVARIANT FetchesAllWorkflows
CHECK_DEADLOCK FALSE
