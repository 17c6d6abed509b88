\* An empty but non-nil cluster.Servers slice (no db-servers-hosts configured).
CONSTANTS
    db1 = db1
    db2 = db2
    px1 = px1
    DbServers <- MCNoServers
    ProxyList <- MCProxyList
    ServersNil = FALSE
    HostsEmpty = TRUE
    Concurrent = FALSE
SPECIFICATION Spec
INVARIANT ClusterPredicatesCorrect
