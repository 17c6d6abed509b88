\* A cluster whose server list was never built (cluster.Servers == nil) and
\* whose db-servers-hosts is empty; the proxies are still monitored.
CONSTANTS
    db1 = db1
    db2 = db2
    px1 = px1
    DbServers <- MCNoServers
    ProxyList <- MCProxyList
    ServersNil = TRUE
    HostsEmpty = TRUE
    Concurrent = FALSE
SPECIFICATION Spec
INVARIANTS
    ClusterPredicatesCorrect
