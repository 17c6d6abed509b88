------------------------ MODULE MCReplicationTopology ------------------------
(***************************************************************************)
(* Three servers, two channels (the default one and a named one) and two   *)
(* upstream ids: enough for a server with no record of its channel, for    *)
(* two records of one channel, and for three replicas of one master.       *)
(***************************************************************************)
EXTENDS ReplicationTopology, TLC

CONSTANTS s1, s2, s3

MCServers == <<s1, s2, s3>>
MCServerID == (s1 :> 11) @@ (s2 :> 12) @@ (s3 :> 13)
MCSourceName == (s1 :> "") @@ (s2 :> "") @@ (s3 :> "ch2")
\* Two MariaDB servers, one in gtid strict mode, and a MySQL server with GTID.
MCIsMariaDB == (s1 :> TRUE) @@ (s2 :> TRUE) @@ (s3 :> FALSE)
MCHaveMySQLGTID == (s1 :> FALSE) @@ (s2 :> FALSE) @@ (s3 :> TRUE)
MCGtidStrictMode == (s1 :> "ON") @@ (s2 :> "OFF") @@ (s3 :> "OFF")

=============================================================================
