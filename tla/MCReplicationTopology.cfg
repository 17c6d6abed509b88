\* GetSibling over every record list a poll can report, up to two records.
CONSTANTS
    s1 = s1
    s2 = s2
    s3 = s3
    Null = Null
    Nil = Nil
    NoStatus = NoStatus
    Servers <- MCServers
    ServerID <- MCServerID
    SourceName <- MCSourceName
    Channels = {"", "ch2"}
    MasterIds = {1, 2}
    Delays = {}
    MasterHosts = {"db0"}
    MasterPorts = {"3307"}
    Heartbeats = {30}
    GtidModes = {"Slave_Pos"}
    IsMariaDB <- MCIsMariaDB
    HaveMySQLGTID <- MCHaveMySQLGTID
    GtidStrictMode <- MCGtidStrictMode
    MaxChannels = 2
SPECIFICATION Spec
INVARIANTS
    SiblingSound
