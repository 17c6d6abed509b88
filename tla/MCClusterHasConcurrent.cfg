\* The HTTP API and the monitor goroutines write while a predicate loop runs.
CONSTANTS
    db1 = db1
    db2 = db2
    px1 = px1
    DbServers <- MCDbServers
    ProxyList <- MCProxyList
    ServersNil = FALSE
    HostsEmpty = FALSE
    Concurrent = TRUE
SPECIFICATION Spec
INVARIANT ClusterPredicatesCorrect
