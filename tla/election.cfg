SPECIFICATION FairSpec
CHECK_DEADLOCK FALSE
CONSTANTS
    Clients = {c1, c2}
    Servers = {p1, p2, p3}
    NoServer = NoServer
    MaxAlive = 2
    Hosts <- MCHosts
INVARIANTS
    TypeOK
    ServingIsPublished
    OrphansWereKilled
    BindElects
PROPERTIES
    RefusalNeedsDisturbance
    Settles
    ElectedServes
