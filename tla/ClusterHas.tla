----------------------------- MODULE ClusterHas -----------------------------
(***************************************************************************)
(* The cluster aggregate predicate layer of replication-manager           *)
(* (src/unnamed/part_000, package cluster, the Cluster.Has* / Is* methods). *)
(*                                                                         *)
(* Each predicate is a Go loop over cluster.Servers or cluster.Proxies     *)
(* that reads one server's health state or cookie per iteration and may    *)
(* return early.  The model runs one loop iteration per step, so the       *)
(* monitor goroutines, the HTTP API and the orchestrator (the environment) *)
(* may change node state and cookies between two iterations when the       *)
(* constant Concurrent is TRUE; when it is FALSE they only act while no    *)
(* evaluation is in progress (the monitor loop evaluates after its pings   *)
(* have joined).                                                           *)
(*                                                                         *)
(* The ghost variable seen collects the value that spec.md section 4.2     *)
(* gives the predicate under evaluation in every state the evaluation      *)
(* passes through; a returned value is correct when it is one of them.     *)
(***************************************************************************)
EXTENDS ClusterFacts

CONSTANTS
    ServersNil,  \* cluster.Servers == nil (as opposed to an empty slice)
    Concurrent   \* writers may act while a predicate loop is running

ASSUME ConstantsAssumption ==
    /\ DbServers \in Seq(DbSet) /\ DistinctURLs(DbServers)
    /\ ProxyList \in Seq(ProxySet) /\ DistinctURLs(ProxyList)
    /\ DbSet \cap ProxySet = {}
    /\ {ServersNil, HostsEmpty, Concurrent} \subseteq BOOLEAN
    /\ ServersNil => DbServers = << >>

VARIABLES
    pc,       \* "idle", or the predicate whose loop is running
    idx,      \* the loop's position in the list it ranges over
    ret,      \* the last value a predicate returned, as [p, v]
    seen      \* ghost: the spec's values of pc's predicate since it started

vars == <<state, prov, restart, reprov, onPremise, pc, idx, ret, seen>>

(***************************************************************************)
(* The code's loops, as a table.  LoopList is the slice ranged over,       *)
(* NilGuarded the predicates that start with "if cluster.Servers == nil",  *)
(* Hit the condition that makes the loop return early and ExitValue what   *)
(* it then returns; a loop that runs to its end returns ~ExitValue(p).     *)
(***************************************************************************)
LoopList(p) ==
    IF p \in {"HasRequestProxiesRestart", "HasRequestProxiesReprov"}
    THEN ProxyList ELSE DbServers

\* Mutant: the "cluster.Servers == nil" guard dropped.
NilGuardedDropped(p) == FALSE

NilGuarded(p) ==
    p \in {"HasAllDbUp", "HasRequestDBRestart",
           "HasRequestDBRollingRestart", "HasRequestDBRollingReprov"}

\* Mutant: HasAllDbUp counts a Suspect server as up (the state test without
\* "|| s.State == stateSuspect").
HitSuspectUp(p, h) ==
    CASE p = "HasAllDbUp"                 -> state[h] = "Failed"
      [] p = "HasRequestDBRestart"        -> restart[h]
      [] p = "HasRequestDBRollingRestart" -> ~restart[h]
      [] p = "HasRequestDBRollingReprov"  -> ~reprov[h]
      [] p = "HasRequestDBReprov"         -> reprov[h]
      [] p = "HasRequestProxiesRestart"   -> restart[h]
      [] p = "HasRequestProxiesReprov"    -> reprov[h]

Hit(p, h) ==
    CASE p = "HasAllDbUp"                 -> state[h] \in {"Failed", "Suspect"}
      [] p = "HasRequestDBRestart"        -> restart[h]
      [] p = "HasRequestDBRollingRestart" -> ~restart[h]
      [] p = "HasRequestDBRollingReprov"  -> ~reprov[h]
      [] p = "HasRequestDBReprov"         -> reprov[h]
      [] p = "HasRequestProxiesRestart"   -> restart[h]
      [] p = "HasRequestProxiesReprov"    -> reprov[h]

ExitValue(p) ==
    p \in {"HasRequestDBRestart", "HasRequestDBReprov",
           "HasRequestProxiesRestart", "HasRequestProxiesReprov"}

\* IsProvisioned ranges over the servers and then over the proxies with
\* the same loop body.
ProvList == DbServers \o ProxyList

TypeOK ==
    /\ state \in [Hosts -> States]
    /\ prov \in [Hosts -> BOOLEAN]
    /\ restart \in [Hosts -> BOOLEAN]
    /\ reprov \in [Hosts -> BOOLEAN]
    /\ onPremise \in BOOLEAN
    /\ pc \in {"idle"} \cup Preds
    /\ idx \in 1..(Len(ProvList) + 1)
    /\ pc \in LoopPreds => idx \in 1..(Len(LoopList(pc)) + 1)
    /\ ret \in [p : Preds \cup {"none"}, v : BOOLEAN]
    /\ seen \in SUBSET BOOLEAN

\* The monitor starts with whatever the fleet and the cookie files say.
Init ==
    /\ state \in [Hosts -> States]
    /\ prov \in [Hosts -> BOOLEAN]
    /\ restart \in [Hosts -> BOOLEAN]
    /\ reprov \in [Hosts -> BOOLEAN]
    /\ onPremise \in BOOLEAN
    /\ pc = "idle"
    /\ idx = 1
    /\ ret = NoRet
    /\ seen = {}

\* A call returns v to its caller: the loop is left.
Return(p, v) ==
    /\ pc' = "idle"
    /\ ret' = [p |-> p, v |-> v]

(***************************************************************************)
(* The loop predicates HasAllDbUp .. HasRequestProxiesReprov.              *)
(***************************************************************************)
\* The call is made; "if cluster.Servers == nil { return false }".
\* Mutant: the loop position of the previous call is reused.
LoopStartStaleIndex(p) ==
    /\ pc = "idle"
    /\ seen' = {SpecValue(p)}
    /\ IF NilGuarded(p) /\ ServersNil
         THEN Return(p, FALSE) /\ idx' = idx
         ELSE /\ pc' = p
              /\ idx' = idx
              /\ ret' = NoRet
    /\ UNCHANGED <<state, prov, restart, reprov, onPremise>>

LoopStart(p) ==
    /\ pc = "idle"
    /\ seen' = {SpecValue(p)}
    /\ IF NilGuarded(p) /\ ServersNil
         THEN Return(p, FALSE) /\ idx' = idx
         ELSE /\ pc' = p
              /\ idx' = 1
              /\ ret' = NoRet
    /\ UNCHANGED <<state, prov, restart, reprov, onPremise>>

\* One iteration whose condition holds: the loop returns early.
LoopHit(p) ==
    /\ pc = p
    /\ idx <= Len(LoopList(p))
    /\ Hit(p, LoopList(p)[idx])
    /\ Return(p, ExitValue(p))
    /\ UNCHANGED <<state, prov, restart, reprov, onPremise, idx, seen>>

\* One iteration whose condition does not hold: on to the next element.
LoopAdvance(p) ==
    /\ pc = p
    /\ idx <= Len(LoopList(p))
    /\ ~Hit(p, LoopList(p)[idx])
    /\ idx' = idx + 1
    /\ UNCHANGED <<state, prov, restart, reprov, onPremise, pc, ret, seen>>

\* The range loop is exhausted.
LoopExhausted(p) ==
    /\ pc = p
    /\ idx = Len(LoopList(p)) + 1
    /\ Return(p, ~ExitValue(p))
    /\ UNCHANGED <<state, prov, restart, reprov, onPremise, idx, seen>>

(***************************************************************************)
(* IsProvisioned: the two configuration shortcuts, then one loop over the  *)
(* servers and the proxies that sets a missing cookie on a running host    *)
(* and fails fast on the first host that has none and is not running.      *)
(***************************************************************************)
ProvOnPremise ==
    /\ pc = "idle"
    /\ onPremise
    /\ seen' = {SpecValue("IsProvisioned")}
    /\ Return("IsProvisioned", TRUE)
    /\ UNCHANGED <<state, prov, restart, reprov, onPremise, idx>>

ProvNoHosts ==
    /\ pc = "idle"
    /\ ~onPremise /\ HostsEmpty
    /\ seen' = {SpecValue("IsProvisioned")}
    /\ Return("IsProvisioned", FALSE)
    /\ UNCHANGED <<state, prov, restart, reprov, onPremise, idx>>

ProvStart ==
    /\ pc = "idle"
    /\ ~onPremise /\ ~HostsEmpty
    /\ seen' = {SpecValue("IsProvisioned")}
    /\ pc' = "IsProvisioned"
    /\ idx' = 1
    /\ ret' = NoRet
    /\ UNCHANGED <<state, prov, restart, reprov, onPremise>>

\* Mutant: any host that is not Failed counts as reachable (Suspect too).
ProvVisitNotFailed ==
    /\ pc = "IsProvisioned"
    /\ idx <= Len(ProvList)
    /\ LET h == ProvList[idx] IN
         /\ prov[h] \/ state[h] # "Failed"
         /\ prov' = [prov EXCEPT ![h] = TRUE]
    /\ idx' = idx + 1
    /\ UNCHANGED <<state, restart, reprov, onPremise, pc, ret, seen>>

\* The host has its cookie, or is running and gets it now (SetProvisionCookie).
ProvVisit ==
    /\ pc = "IsProvisioned"
    /\ idx <= Len(ProvList)
    /\ LET h == ProvList[idx] IN
         /\ prov[h] \/ IsRunning(h)
         /\ prov' = [prov EXCEPT ![h] = TRUE]
    /\ idx' = idx + 1
    /\ UNCHANGED <<state, restart, reprov, onPremise, pc, ret, seen>>

ProvUnreachable ==
    /\ pc = "IsProvisioned"
    /\ idx <= Len(ProvList)
    /\ ~prov[ProvList[idx]] /\ ~IsRunning(ProvList[idx])
    /\ Return("IsProvisioned", FALSE)
    /\ UNCHANGED <<state, prov, restart, reprov, onPremise, idx, seen>>

ProvAllDone ==
    /\ pc = "IsProvisioned"
    /\ idx = Len(ProvList) + 1
    /\ Return("IsProvisioned", TRUE)
    /\ UNCHANGED <<state, prov, restart, reprov, onPremise, idx, seen>>

(***************************************************************************)
(* The environment (EnvWrite).  A write during a loop is recorded in       *)
(* seen; one between calls ends the ghost record of the last call, whose  *)
(* correctness was checked in the state it returned in.                   *)
(***************************************************************************)
Environment ==
    /\ Concurrent \/ pc = "idle"
    /\ EnvWrite
    /\ UNCHANGED <<pc, idx>>
    /\ IF pc = "idle"
         THEN seen' = {} /\ ret' = NoRet
         ELSE seen' = seen \cup {SpecValue(pc)'} /\ ret' = ret

\* The steps of a call in progress: its goroutine keeps being scheduled.
Evaluate ==
    \/ \E p \in LoopPreds : LoopHit(p) \/ LoopAdvance(p) \/ LoopExhausted(p)
    \/ ProvVisit \/ ProvUnreachable \/ ProvAllDone

Call ==
    \/ \E p \in LoopPreds : LoopStart(p)
    \/ ProvOnPremise \/ ProvNoHosts \/ ProvStart

Next == Call \/ Evaluate \/ Environment

Spec == Init /\ [][Next]_vars

-----------------------------------------------------------------------------
(***************************************************************************)
(* Properties.                                                             *)
(***************************************************************************)

\* Correct(p): the value the last call of p returned is a value spec.md
\* section 4.2 gives p in some state between the call and its return.
Correct(p) == ret.p = p => ret.v \in seen

\* The seven loop predicates of cluster_has (HasAllDbUp, the restart and
\* reprovision requests, single and rolling) return what section 4.2 says,
\* for some state the call overlapped: nil and empty server lists included.
ClusterPredicatesCorrect == \A p \in LoopPreds : Correct(p)

\* IsProvisioned returns what section 4.2 says: TRUE on premise or with no
\* hosts configured, else TRUE exactly when every server and proxy is
\* provisioned or reachable (and then gets its cookie) in some state the
\* call overlapped.
ProvisionedCorrect == Correct("IsProvisioned")

\* The predicates as spec.md promises them, with the caller's answer as
\* the value the last call returned; pc, idx and seen are hidden.
Atomic == INSTANCE AtomicPredicates WITH answer <- ret

\* The loops of cluster_has and IsProvisioned implement atomic predicates:
\* each call returns the value section 4.2 gives the state it returns in,
\* and IsProvisioned writes a cookie only for a host that is running.
ImplementsAtomicPredicates == Atomic!Spec

=============================================================================
