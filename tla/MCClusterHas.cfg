\* The monitor loop: writers act between predicate calls, never during one.
CONSTANTS
    db1 = db1
    db2 = db2
    px1 = px1
    DbServers <- MCDbServers
    ProxyList <- MCProxyList
    ServersNil = FALSE
    HostsEmpty = FALSE
    Concurrent = FALSE
SPECIFICATION Spec
INVARIANTS
    TypeOK
    ClusterPredicatesCorrect
    ProvisionedCorrect
