\* spec.md section 8: sibling resolution is symmetric; one record per server suffices
\* to show that GetSibling, the first candidate in server order, is not.
CONSTANTS
    s1 = s1
    s2 = s2
    s3 = s3
    Null = Null
    Nil = Nil
    NoStatus = NoStatus
    Servers <- MCServers
    ServerID <- MCServerID
    SourceName <- MCSourceName
    Channels = {"", "ch2"}
    MasterIds = {1, 2}
    Delays = {}
    MasterHosts = {"db0"}
    MasterPorts = {"3307"}
    Heartbeats = {30}
    GtidModes = {"Slave_Pos"}
    IsMariaDB <- MCIsMariaDB
    HaveMySQLGTID <- MCHaveMySQLGTID
    GtidStrictMode <- MCGtidStrictMode
    MaxChannels = 1
SPECIFICATION Spec
INVARIANT SiblingSymmetric
