----------------------------- MODULE ConnManager -----------------------------
(***************************************************************************)
(* The resilient connection manager of replication-manager:               *)
(* ServerMonitor.GetNewDBConn (src/cluster/srv_get.go).                    *)
(*                                                                         *)
(* A connection is opened with server.DSN.  When that fails and the        *)
(* cluster has TLS certificates, the code switches server.TLSConfigUsed to *)
(* the old certificate, rebuilds the DSN (SetDSN) and retries, then to no  *)
(* client certificate, and finally resets TLSConfigUsed to the current     *)
(* configuration and rebuilds the DSN again.  TLSConfigUsed and DSN are     *)
(* fields of the shared ServerMonitor, so every statement that reads or     *)
(* writes them is a step of its own, and so are SetDSN's read of           *)
(* TLSConfigUsed and its later write of DSN, with no lock between them:    *)
(* callers of GetNewDBConn on the same server (the monitor's ping and the  *)
(* API's on-demand connections) may interleave.  The database server     *)
(* accepts, at any time, some set of client configurations; certificate   *)
(* rotation changes that set.                                              *)
(***************************************************************************)
EXTENDS Naturals, FiniteSets

CONSTANTS
    Callers,      \* goroutines that may call GetNewDBConn on one server
    HaveTLS,      \* cluster.HaveDBTLSCert
    Err           \* sqlx.Connect returned an error

\* ConstTLSCurrentConfig, ConstTLSOldConfig, ConstTLSNoConfig.
Tiers == {"Current", "Old", "None"}

ASSUME ConnAssumption ==
    /\ Callers # {} /\ IsFiniteSet(Callers)
    /\ HaveTLS \in BOOLEAN
    /\ Err \notin Tiers

\* The statements of GetNewDBConn that touch the server, in code order.
\* A "dsn..." label is SetDSN's read of TLSConfigUsed, the "build..." label
\* after it SetDSN's assignment of server.DSN.
Labels == {"idle", "pg", "connect", "setOld", "dsnOld", "buildOld",
           "connectOld", "setNone", "dsnNone", "buildNone", "connectNone",
           "resetNone", "dsnResetNone", "buildResetNone",
           "resetOld", "dsnResetOld", "buildResetOld"}

VARIABLES
    pg,       \* Conf.MasterSlavePgStream || Conf.MasterSlavePgLogical, fixed
    tlsUsed,  \* server.TLSConfigUsed
    dsn,      \* server.DSN, as the TLS configuration it was built from
    accepts,  \* the client configurations the database server accepts now
    pc,       \* each caller's position in GetNewDBConn
    read,     \* each caller's SetDSN: the TLSConfigUsed it read
    conn,     \* each caller's local conn/err: the tier it connected with, or Err
    alert,    \* each caller raised ERR00080 (connected with the old certificate)
    stable    \* ghost: the configurations accepted throughout each caller's call

vars == <<pg, tlsUsed, dsn, accepts, pc, read, conn, alert, stable>>

TypeOK ==
    /\ pg \in BOOLEAN
    /\ tlsUsed \in Tiers
    /\ dsn \in Tiers
    /\ accepts \in SUBSET Tiers
    /\ pc \in [Callers -> Labels]
    /\ read \in [Callers -> Tiers]
    /\ conn \in [Callers -> Tiers \cup {Err}]
    /\ alert \in [Callers -> BOOLEAN]
    /\ stable \in [Callers -> SUBSET Tiers]

\* The monitor starts with the current configuration and its DSN.
Init ==
    /\ pg \in BOOLEAN
    /\ tlsUsed = "Current"
    /\ dsn = "Current"
    /\ accepts \in SUBSET Tiers
    /\ pc = [g \in Callers |-> "idle"]
    /\ read = [g \in Callers |-> "Current"]
    /\ conn = [g \in Callers |-> Err]
    /\ alert = [g \in Callers |-> FALSE]
    /\ stable = [g \in Callers |-> {}]

\* sqlx.Connect with the DSN as it is now.
Dial == IF dsn \in accepts THEN dsn ELSE Err

Goto(g, l) == pc' = [pc EXCEPT ![g] = l]

\* The call is made.
Call(g) ==
    /\ pc[g] = "idle"
    /\ Goto(g, IF pg THEN "pg" ELSE "connect")
    /\ alert' = [alert EXCEPT ![g] = FALSE]
    /\ stable' = [stable EXCEPT ![g] = accepts]
    /\ UNCHANGED <<pg, tlsUsed, dsn, accepts, read, conn>>

\* return sqlx.Connect("postgres", server.DSN)
PgConnect(g) ==
    /\ pc[g] = "pg"
    /\ conn' = [conn EXCEPT ![g] = Dial]
    /\ Goto(g, "idle")
    /\ UNCHANGED <<pg, tlsUsed, dsn, accepts, read, alert, stable>>

\* conn, err := sqlx.Connect("mysql", server.DSN); without an error or
\* without TLS certificates this is the result.
Connect(g) ==
    /\ pc[g] = "connect"
    /\ conn' = [conn EXCEPT ![g] = Dial]
    /\ Goto(g, IF Dial = Err /\ HaveTLS THEN "setOld" ELSE "idle")
    /\ UNCHANGED <<pg, tlsUsed, dsn, accepts, read, alert, stable>>

\* server.TLSConfigUsed = t
SetTLS(g, from, t, to) ==
    /\ pc[g] = from
    /\ tlsUsed' = t
    /\ Goto(g, to)
    /\ UNCHANGED <<pg, dsn, accepts, read, conn, alert, stable>>

\* server.SetDSN(), first half: the DSN is built from server.TLSConfigUsed
\* as it is read now.
SetDSNRead(g, from, mid) ==
    /\ pc[g] = from
    /\ read' = [read EXCEPT ![g] = tlsUsed]
    /\ Goto(g, mid)
    /\ UNCHANGED <<pg, tlsUsed, dsn, accepts, conn, alert, stable>>

\* server.SetDSN(), second half: server.DSN is assigned what was built,
\* whatever TLSConfigUsed has become meanwhile.
SetDSNWrite(g, mid, to) ==
    /\ pc[g] = mid
    /\ dsn' = read[g]
    /\ Goto(g, to)
    /\ UNCHANGED <<pg, tlsUsed, accepts, read, conn, alert, stable>>

\* server.SetDSN(), from the position of the call to the one after it.
SetDSN(g, from, mid, to) == SetDSNRead(g, from, mid) \/ SetDSNWrite(g, mid, to)

\* Mutant: the ladder gives up after the old certificate.
ConnectOldGivesUp(g) ==
    /\ pc[g] = "connectOld"
    /\ conn' = [conn EXCEPT ![g] = Dial]
    /\ IF Dial = Err
         THEN Goto(g, "resetNone") /\ alert' = alert
         ELSE Goto(g, "resetOld") /\ alert' = [alert EXCEPT ![g] = TRUE]
    /\ UNCHANGED <<pg, tlsUsed, dsn, accepts, read, stable>>

\* Mutant: ERR00080 is raised before the result of the retry is checked.
ConnectOldAlertFirst(g) ==
    /\ pc[g] = "connectOld"
    /\ conn' = [conn EXCEPT ![g] = Dial]
    /\ alert' = [alert EXCEPT ![g] = TRUE]
    /\ Goto(g, IF Dial = Err THEN "setNone" ELSE "resetOld")
    /\ UNCHANGED <<pg, tlsUsed, dsn, accepts, read, stable>>

\* The retry with the old certificate; on success SetState("ERR00080").
ConnectOld(g) ==
    /\ pc[g] = "connectOld"
    /\ conn' = [conn EXCEPT ![g] = Dial]
    /\ IF Dial = Err
         THEN Goto(g, "setNone") /\ alert' = alert
         ELSE Goto(g, "resetOld") /\ alert' = [alert EXCEPT ![g] = TRUE]
    /\ UNCHANGED <<pg, tlsUsed, dsn, accepts, read, stable>>

\* The retry with no client certificate; its result is returned.
ConnectNone(g) ==
    /\ pc[g] = "connectNone"
    /\ conn' = [conn EXCEPT ![g] = Dial]
    /\ Goto(g, "resetNone")
    /\ UNCHANGED <<pg, tlsUsed, dsn, accepts, read, alert, stable>>

\* Mutant: the no-certificate branch returns without the reset.
StepNoResetNone(g) ==
    \/ PgConnect(g) \/ Connect(g) \/ ConnectOld(g) \/ ConnectNone(g)
    \/ SetTLS(g, "setOld", "Old", "dsnOld")
    \/ SetDSN(g, "dsnOld", "buildOld", "connectOld")
    \/ SetTLS(g, "setNone", "None", "dsnNone")
    \/ SetDSN(g, "dsnNone", "buildNone", "connectNone")
    \/ SetTLS(g, "resetNone", tlsUsed, "idle")
    \/ SetTLS(g, "resetOld", "Current", "dsnResetOld")
    \/ SetDSN(g, "dsnResetOld", "buildResetOld", "idle")

Step(g) ==
    \/ PgConnect(g) \/ Connect(g) \/ ConnectOld(g) \/ ConnectNone(g)
    \/ SetTLS(g, "setOld", "Old", "dsnOld")
    \/ SetDSN(g, "dsnOld", "buildOld", "connectOld")
    \/ SetTLS(g, "setNone", "None", "dsnNone")
    \/ SetDSN(g, "dsnNone", "buildNone", "connectNone")
    \/ SetTLS(g, "resetNone", "Current", "dsnResetNone")
    \/ SetDSN(g, "dsnResetNone", "buildResetNone", "idle")
    \/ SetTLS(g, "resetOld", "Current", "dsnResetOld")
    \/ SetDSN(g, "dsnResetOld", "buildResetOld", "idle")

\* Certificate rotation, a server restart or a change of
\* require_secure_transport changes what the server accepts.
Rotate ==
    /\ \E a \in SUBSET Tiers :
         /\ a # accepts
         /\ accepts' = a
         /\ stable' = [g \in Callers |->
                         IF pc[g] = "idle" THEN stable[g] ELSE stable[g] \cap a]
    /\ UNCHANGED <<pg, tlsUsed, dsn, pc, read, conn, alert>>

Next == Rotate \/ \E g \in Callers : Call(g) \/ Step(g)

Spec == Init /\ [][Next]_vars

-----------------------------------------------------------------------------
(***************************************************************************)
(* Properties.                                                             *)
(***************************************************************************)

Idle == \A g \in Callers : pc[g] = "idle"

\* The code's comment "reset DNS in case the server is restarted": whenever no
\* call of GetNewDBConn is in progress, TLSConfigUsed and the DSN built from
\* it are back at the current configuration, however the calls interleaved.
DsnResetOnReturn == Idle => tlsUsed = "Current" /\ dsn = "Current"

\* The configurations the ladder tries: all three with TLS certificates, the
\* current one only without.
Tried == IF HaveTLS THEN Tiers ELSE {"Current"}

\* spec.md section 4.4: the ladder falls back through every tier before it
\* gives up, so a MySQL call that returns an error found no tier it tries
\* accepted throughout the call.
LadderComplete ==
    \A g \in Callers :
        pc[g] = "idle" /\ conn[g] = Err /\ ~pg => stable[g] \cap Tried = {}

\* spec.md section 4.4 step 2: the warning ERR00080 ("certificate likely
\* mid-rotation") is raised by a call whose connection uses the old
\* certificate.
AlertMeansOldCert ==
    \A g \in Callers :
        alert[g] /\ pc[g] \in {"resetOld", "dsnResetOld", "buildResetOld", "idle"} => conn[g] = "Old"

=============================================================================
