SPECIFICATION CLSpec
CONSTANTS
    c1 = c1
    c2 = c2
    c3 = c3
    Clients <- MCClients
    Limit = 8
    Counts <- MCCounts
    MaxRequests = 2
CHECK_DEADLOCK FALSE
INVARIANTS
    ValueAccountsForEveryCount
PROPERTIES
    HeldWithinLimit
    EveryWaiterIsServed
