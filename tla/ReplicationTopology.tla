------------------------- MODULE ReplicationTopology -------------------------
(***************************************************************************)
(* The replication topology resolver of replication-manager               *)
(* (src/cluster/srv_get.go): the per-server accessors that look up the     *)
(* slave status record of the server's replication channel, and GetSibling *)
(* which scans cluster.Servers for another server replicating from the     *)
(* same upstream server id.                                                *)
(*                                                                         *)
(* A slave status record is abstracted to the fields these functions read: *)
(* the channel (ConnectionName), the upstream id (MasterServerID) and      *)
(* Seconds_Behind_Master, which may be NULL.  The monitor replaces a       *)
(* server's whole record list on every poll (Poll).                        *)
(***************************************************************************)
EXTENDS Naturals, Sequences

CONSTANTS
    Servers,      \* cluster.Servers: a sequence of distinct servers
    ServerID,     \* ServerMonitor.ServerID, a function of the server
    SourceName,   \* ServerMonitor.ReplicationSourceName, a function of the server
    Channels,     \* the channel names a server may report
    MasterIds,    \* the upstream server ids a record may carry
    Delays,       \* the measured delays a record may carry
    MasterHosts,  \* the Master_Host values a record may carry
    MasterPorts,  \* the Master_Port values a record may carry
    Heartbeats,   \* the Slave_Heartbeat_Period values a record may carry
    GtidModes,    \* the Using_Gtid values a record may carry (MariaDB)
    IsMariaDB,    \* ServerMonitor.IsMariaDB() of each server
    HaveMySQLGTID,  \* ServerMonitor.HaveMySQLGTID of each server
    GtidStrictMode, \* ServerMonitor.Variables["GTID_STRICT_MODE"] of each server
    MaxChannels,  \* the most records one poll returns
    Null,         \* Seconds_Behind_Master IS NULL (SecondsBehindMaster.Valid == false)
    Nil,          \* Replications == nil, or a nil *ServerMonitor
    NoStatus      \* GetSlaveStatus returned an error

Nodes == {Servers[i] : i \in 1..Len(Servers)}

ASSUME TopologyAssumption ==
    /\ Servers \in Seq(Nodes)
    /\ \A i, j \in 1..Len(Servers) : Servers[i] = Servers[j] => i = j
    \* server_id is configured per server; nothing in this code makes it unique
    /\ ServerID \in [Nodes -> Nat]
    /\ SourceName \in [Nodes -> Channels]
    /\ MasterIds \subseteq Nat /\ Delays \subseteq Nat /\ Heartbeats \subseteq Nat
    /\ IsMariaDB \in [Nodes -> BOOLEAN] /\ HaveMySQLGTID \in [Nodes -> BOOLEAN]
    /\ GtidStrictMode \in [Nodes -> {"ON", "OFF"}]
    /\ MaxChannels \in Nat
    /\ Null \notin Nat /\ Nil \notin Nodes

\* One record of SHOW ALL SLAVES STATUS, as dbhelper.SlaveStatus.
SlaveStatus == [conn : Channels, masterId : MasterIds, delay : Delays \cup {Null},
                host : MasterHosts, port : MasterPorts, heartbeat : Heartbeats,
                usingGtid : GtidModes]

\* What one poll can report for a server: no list at all, or up to
\* MaxChannels records.
StatusLists == {Nil} \cup UNION {[1..n -> SlaveStatus] : n \in 0..MaxChannels}

VARIABLE replications  \* ServerMonitor.Replications of each server

\* The monitor has polled each server at least once.
Init == replications \in [Nodes -> StatusLists]

\* The monitor's refresh of one server swaps in the list it just read.
Poll(n) ==
    \E l \in StatusLists :
        /\ l # replications[n]
        /\ replications' = [replications EXCEPT ![n] = l]

Next == \E n \in Nodes : Poll(n)

Spec == Init /\ [][Next]_replications

-----------------------------------------------------------------------------
(***************************************************************************)
(* The accessors.                                                          *)
(***************************************************************************)

\* for _, ss := range l { if ss.ConnectionName.String == name { return &ss } }
FirstOfChannel(l, name) ==
    LET match == {i \in DOMAIN l : l[i].conn = name} IN
    IF match = {} THEN NoStatus
    ELSE l[CHOOSE i \in match : \A j \in match : i <= j]

\* GetSlaveStatus(name): the first record of the channel, or an error when
\* the list is nil or holds no record of that channel.
GetSlaveStatus(n, name) ==
    IF replications[n] = Nil THEN NoStatus
    ELSE FirstOfChannel(replications[n], name)

\* GetSlaveStatusLastSeen(name), given LastSeenReplications (written by the
\* monitor outside this code): once a last-seen list exists the lookup is
\* made in it only, and a channel missing from it is an error even when the
\* live list has it; before that, in the live list.
GetSlaveStatusLastSeen(n, lastSeen, name) ==
    IF lastSeen # Nil THEN FirstOfChannel(lastSeen, name)
    ELSE GetSlaveStatus(n, name)

\* The record of the server's own channel (ReplicationSourceName).
SourceStatus(n) == GetSlaveStatus(n, SourceName[n])

\* GetReplicationServerID: the upstream id, 0 on error.
GetReplicationServerID(n) ==
    IF SourceStatus(n) = NoStatus THEN 0 ELSE SourceStatus(n).masterId

\* GetReplicationDelay: Seconds_Behind_Master, 0 on error or when NULL.
GetReplicationDelay(n) ==
    IF SourceStatus(n) = NoStatus \/ SourceStatus(n).delay = Null THEN 0
    ELSE SourceStatus(n).delay

\* GetReplicationHearbeatPeriod: Slave_Heartbeat_Period, 0 on error.
GetReplicationHearbeatPeriod(n) ==
    IF SourceStatus(n) = NoStatus THEN 0 ELSE SourceStatus(n).heartbeat

\* GetReplicationUsingGtid: MariaDB reports the channel's Using_Gtid ("No"
\* on error); MySQL answers from the server's GTID capability.
GetReplicationUsingGtid(n) ==
    IF IsMariaDB[n]
    THEN IF SourceStatus(n) = NoStatus THEN "No" ELSE SourceStatus(n).usingGtid
    ELSE IF HaveMySQLGTID[n] THEN "Yes" ELSE "No"

\* IsReplicationUsingGtidStrict: gtid_strict_mode on MariaDB, always on MySQL.
IsReplicationUsingGtidStrict(n) == ~IsMariaDB[n] \/ GtidStrictMode[n] = "ON"

\* GetReplicationMasterHost: Master_Host, "" on error.
GetReplicationMasterHost(n) ==
    IF SourceStatus(n) = NoStatus THEN "" ELSE SourceStatus(n).host

\* GetReplicationMasterPort: Master_Port, "3306" on error.
GetReplicationMasterPort(n) ==
    IF SourceStatus(n) = NoStatus THEN "3306" ELSE SourceStatus(n).port

\* GetSibling: the first server in cluster.Servers order that has a record
\* of its own channel naming the same upstream id as n's, and a ServerID
\* other than n's; Nil when n has no record or no server qualifies.
\* Mutant: the candidate's ServerID is not compared with n's.
SiblingCandidateNoSelfCheck(n, i) ==
    LET sl == Servers[i] IN
    /\ SourceStatus(sl) # NoStatus
    /\ SourceStatus(sl).masterId = SourceStatus(n).masterId

SiblingCandidate(n, i) ==
    LET sl == Servers[i] IN
    /\ SourceStatus(sl) # NoStatus
    /\ SourceStatus(sl).masterId = SourceStatus(n).masterId
    /\ ServerID[sl] # ServerID[n]

GetSibling(n) ==
    LET cand == {i \in 1..Len(Servers) : SiblingCandidate(n, i)} IN
    IF SourceStatus(n) = NoStatus \/ cand = {} THEN Nil
    ELSE Servers[CHOOSE i \in cand : \A j \in cand : i <= j]

-----------------------------------------------------------------------------
(***************************************************************************)
(* Properties.                                                             *)
(***************************************************************************)

\* spec.md section 4.3: the other servers that report, on their own channel,
\* the upstream id that n reports on its channel.
SpecSiblings(n) ==
    IF SourceStatus(n) = NoStatus THEN {}
    ELSE {b \in Nodes \ {n} :
            /\ SourceStatus(b) # NoStatus
            /\ SourceStatus(b).masterId = SourceStatus(n).masterId}

\* GetSibling finds a sibling exactly when one exists, and what it returns is
\* one: the scan skips servers whose channel lookup fails, never returns the
\* server itself, and stops at a server sharing the upstream id.
SiblingSound ==
    \A n \in Nodes :
        /\ GetSibling(n) = Nil <=> SpecSiblings(n) = {}
        /\ GetSibling(n) # Nil => GetSibling(n) \in SpecSiblings(n)

\* spec.md section 8: "Sibling resolution is symmetric: if node B is resolved
\* as A's sibling, then A must be resolved as B's sibling".
SiblingSymmetric ==
    \A a, b \in Nodes : GetSibling(a) = b => GetSibling(b) = a

=============================================================================
