------------------------ MODULE ConnManagerSequential ------------------------
(***************************************************************************)
(* Proofs about the fallback ladder of GetNewDBConn when one goroutine at  *)
(* a time calls it on a server (the monitor loop alone).  With two callers *)
(* all three properties fail (runs conn_race and conn_concurrent): the     *)
(* shared TLSConfigUsed and DSN are what a caller's retries are built from. *)
(***************************************************************************)
EXTENDS ConnManagerProofs

\* Positions after the dial with the current configuration failed.
PastCurrent == {"setOld", "dsnOld", "buildOld", "connectOld", "setNone",
                "dsnNone", "buildNone", "connectNone", "resetNone",
                "dsnResetNone", "buildResetNone"}

\* Positions after the dial with the old certificate failed too.
PastOld == {"setNone", "dsnNone", "buildNone", "connectNone", "resetNone",
            "dsnResetNone", "buildResetNone"}

\* The positions after the reset of TLSConfigUsed, before server.DSN is
\* assigned again.
DsnResetters == {"dsnResetNone", "buildResetNone", "dsnResetOld",
                 "buildResetOld"}

\* The positions after the ERR00080 alert.
AfterAlert == {"resetOld", "dsnResetOld", "buildResetOld"}

\* The positions after the no-certificate retry.
AfterNone == {"resetNone", "dsnResetNone", "buildResetNone"}

\* What a caller g knows at each position of the ladder: the tiers found
\* refused (not in stable[g], which never outgrows what the server accepts
\* during a call), whether ERR00080 was raised, and pg fixed by the branch.
CallInv(g) ==
    /\ pc[g] # "idle" => stable[g] \subseteq accepts
    /\ pc[g] = "pg" => pg
    /\ pc[g] \notin {"idle", "pg"} => ~pg
    /\ pc[g] \notin {"idle"} \cup AfterAlert => ~alert[g]
    /\ pc[g] \in AfterAlert => alert[g] /\ conn[g] = "Old"
    /\ pc[g] \in PastCurrent => HaveTLS /\ "Current" \notin stable[g]
    /\ pc[g] \in PastOld => "Old" \notin stable[g]
    /\ pc[g] \in AfterNone /\ conn[g] = Err
         => "None" \notin stable[g]
    /\ pc[g] = "idle" =>
         /\ alert[g] => conn[g] = "Old"
         /\ conn[g] = Err /\ ~pg => stable[g] \cap Tried = {}

\* The shared TLSConfigUsed and DSN, and what SetDSN read, at each position
\* of the only caller g: each dial uses the DSN of the tier its branch set.
SharedInv(g) ==
    /\ pc[g] \in {"idle", "pg", "connect"} =>
         tlsUsed = "Current" /\ dsn = "Current"
    /\ pc[g] = "dsnOld" => tlsUsed = "Old"
    /\ pc[g] = "buildOld" => read[g] = "Old"
    /\ pc[g] = "connectOld" => dsn = "Old"
    /\ pc[g] = "dsnNone" => tlsUsed = "None"
    /\ pc[g] = "buildNone" => read[g] = "None"
    /\ pc[g] = "connectNone" => dsn = "None"
    /\ pc[g] \in DsnResetters => tlsUsed = "Current"
    /\ pc[g] \in {"buildResetNone", "buildResetOld"} => read[g] = "Current"

SeqInv == TypeOK /\ \A g \in Callers : CallInv(g) /\ SharedInv(g)

\* Every step of the only caller, and every change of what the server
\* accepts, keeps CallInv and SharedInv.
LEMMA SeqStep ==
    ASSUME NEW c, Callers = {c}, TypeOK, TypeOK', CallInv(c), SharedInv(c),
           [Next]_vars
    PROVE  CallInv(c)' /\ SharedInv(c)'
<1>. USE ConnAssumption DEF TypeOK, Labels, PastCurrent, PastOld, DsnResetters,
         AfterAlert, AfterNone, Tried, Tiers
<1>1. CASE Rotate
  BY <1>1 DEF Rotate, CallInv, SharedInv
<1>2. CASE Call(c)
  BY <1>2 DEF Call, Goto, CallInv, SharedInv
<1>3. CASE PgConnect(c)
  BY <1>3 DEF PgConnect, Goto, CallInv, SharedInv
<1>4. CASE Connect(c)
  BY <1>4 DEF Connect, Goto, Dial, CallInv, SharedInv
<1>5. CASE ConnectOld(c)
  <2>1. CASE Dial = Err
    BY <1>5, <2>1 DEF ConnectOld, Goto, Dial, CallInv, SharedInv
  <2>2. CASE Dial # Err
    BY <1>5, <2>2 DEF ConnectOld, Goto, Dial, CallInv, SharedInv
  <2>3. QED
    BY <2>1, <2>2
<1>6. CASE ConnectNone(c)
  BY <1>6 DEF ConnectNone, Goto, Dial, CallInv, SharedInv
<1>7. ASSUME NEW from, NEW t, NEW to, SetTLS(c, from, t, to),
             \/ from = "setOld" /\ t = "Old" /\ to = "dsnOld"
             \/ from = "setNone" /\ t = "None" /\ to = "dsnNone"
             \/ from = "resetNone" /\ t = "Current" /\ to = "dsnResetNone"
             \/ from = "resetOld" /\ t = "Current" /\ to = "dsnResetOld"
      PROVE  CallInv(c)' /\ SharedInv(c)'
  BY <1>7 DEF SetTLS, Goto, CallInv, SharedInv
<1>8. ASSUME NEW from, NEW mid, SetDSNRead(c, from, mid),
             \/ from = "dsnOld" /\ mid = "buildOld"
             \/ from = "dsnNone" /\ mid = "buildNone"
             \/ from = "dsnResetNone" /\ mid = "buildResetNone"
             \/ from = "dsnResetOld" /\ mid = "buildResetOld"
      PROVE  CallInv(c)' /\ SharedInv(c)'
  BY <1>8 DEF SetDSNRead, Goto, CallInv, SharedInv
<1>11. ASSUME NEW mid, NEW to, SetDSNWrite(c, mid, to),
             \/ mid = "buildOld" /\ to = "connectOld"
             \/ mid = "buildNone" /\ to = "connectNone"
             \/ mid = "buildResetNone" /\ to = "idle"
             \/ mid = "buildResetOld" /\ to = "idle"
      PROVE  CallInv(c)' /\ SharedInv(c)'
  BY <1>11 DEF SetDSNWrite, Goto, CallInv, SharedInv
<1>9. CASE UNCHANGED vars
  BY <1>9 DEF vars, CallInv, SharedInv
<1>10. QED
  BY <1>1, <1>2, <1>3, <1>4, <1>5, <1>6, <1>7, <1>8, <1>9, <1>11
     DEF Next, Step, SetDSN

\* The ladder of a lone caller: SeqInv is inductive.
LEMMA SeqInvariant ==
    ASSUME NEW c, Callers = {c}
    PROVE  Spec => []SeqInv
<1>1. Init => SeqInv
  BY DEF Init, SeqInv, TypeOK, Labels, Tiers, CallInv, SharedInv, PastCurrent,
         PastOld, DsnResetters, AfterAlert, AfterNone
<1>2. SeqInv /\ [Next]_vars => SeqInv'
  BY TypeStep, SeqStep DEF SeqInv
<1>3. QED
  BY <1>1, <1>2, PTL DEF Spec

(***************************************************************************)
(* spec.md 4.4, for one caller at a time and any server behaviour: a MySQL *)
(* call of GetNewDBConn that returns an error found none of the tiers it   *)
(* tries (the current configuration, then with TLS certificates the old    *)
(* certificate and no certificate) accepted throughout the call.           *)
(***************************************************************************)
THEOREM LadderCompleteness ==
    ASSUME NEW c, Callers = {c}
    PROVE  Spec => []LadderComplete
<1>1. SeqInv => LadderComplete
  BY DEF SeqInv, CallInv, LadderComplete
<1>2. QED
  BY <1>1, SeqInvariant, PTL

(***************************************************************************)
(* spec.md 4.4 step 2, for one caller at a time: ERR00080 is raised only   *)
(* by a call whose connection was made with the old certificate.          *)
(***************************************************************************)
THEOREM AlertSound ==
    ASSUME NEW c, Callers = {c}
    PROVE  Spec => []AlertMeansOldCert
<1>1. SeqInv => AlertMeansOldCert
  BY DEF SeqInv, CallInv, AlertMeansOldCert
<1>2. QED
  BY <1>1, SeqInvariant, PTL

(***************************************************************************)
(* The code's "reset DNS in case the server is restarted", for one caller  *)
(* at a time: whenever the call of GetNewDBConn has returned, on each of   *)
(* its return paths, TLSConfigUsed and the DSN are the current             *)
(* configuration.  With two callers this fails (run conn_concurrent).      *)
(***************************************************************************)
THEOREM DsnResetSequential ==
    ASSUME NEW c, Callers = {c}
    PROVE  Spec => []DsnResetOnReturn
<1>1. SeqInv => DsnResetOnReturn
  BY DEF SeqInv, SharedInv, DsnResetOnReturn, Idle
<1>2. QED
  BY <1>1, SeqInvariant, PTL

=============================================================================
