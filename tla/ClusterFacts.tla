---------------------------- MODULE ClusterFacts ----------------------------
(***************************************************************************)
(* What the cluster aggregate predicates of replication-manager           *)
(* (src/unnamed/part_000, the Cluster.Has* / Is* methods) read: the        *)
(* server and proxy lists, each host's health state and cookies, and the   *)
(* orchestrator setting; the writes the rest of the monitor makes to them; *)
(* and the value spec.md section 4.2 gives each predicate in one state.    *)
(* ClusterHas (the code, one loop iteration per step) and AtomicPredicates *)
(* (the spec, one whole evaluation per step) both extend this module.      *)
(***************************************************************************)
EXTENDS Naturals, Sequences, FiniteSets

CONSTANTS
    DbServers,   \* cluster.Servers: a sequence of distinct server URLs
    ProxyList,   \* cluster.Proxies: a sequence of distinct proxy URLs
    HostsEmpty   \* Conf.Hosts == ""

SeqSet(s) == {s[i] : i \in 1..Len(s)}

DbSet == SeqSet(DbServers)
ProxySet == SeqSet(ProxyList)
Hosts == DbSet \cup ProxySet

\* A URL identifies a server (HasServer compares URLs, never ids).
DistinctURLs(s) == \A i, j \in 1..Len(s) : s[i] = s[j] => i = j

\* HasServer(srv): some server of cluster.Servers has srv's URL; the id is
\* not compared, since one server may sit in several clusters.
HasServer(url) == \E i \in 1..Len(DbServers) : DbServers[i] = url

States == {"Running", "Suspect", "Failed"}

\* The loop predicates of the file, by method name.
LoopPreds == {"HasAllDbUp", "HasRequestDBRestart", "HasRequestDBRollingRestart",
              "HasRequestDBRollingReprov", "HasRequestDBReprov",
              "HasRequestProxiesRestart", "HasRequestProxiesReprov"}
Preds == LoopPreds \cup {"IsProvisioned"}

VARIABLES
    state,    \* ServerMonitor.State / Proxy.State, owned by the state machine
    prov,     \* HasProvisionCookie()
    restart,  \* HasRestartCookie()
    reprov,   \* HasReprovCookie()
    onPremise \* Conf.ProvOrchestrator == ConstOrchestratorOnPremise, fixed

facts == <<state, prov, restart, reprov, onPremise>>

\* No call has returned since the last write: the caller holds no answer.
NoRet == [p |-> "none", v |-> FALSE]

IsRunning(h) == state[h] = "Running"

(***************************************************************************)
(* What spec.md section 4.2 says each predicate means, on one state.      *)
(***************************************************************************)
SpecValue(p) ==
    CASE p = "HasAllDbUp" ->
            DbSet # {} /\ \A n \in DbSet : state[n] \notin {"Failed", "Suspect"}
      [] p = "HasRequestDBRestart"        -> \E n \in DbSet : restart[n]
      [] p = "HasRequestDBRollingRestart" -> DbSet # {} /\ \A n \in DbSet : restart[n]
      [] p = "HasRequestDBRollingReprov"  -> DbSet # {} /\ \A n \in DbSet : reprov[n]
      [] p = "HasRequestDBReprov"         -> \E n \in DbSet : reprov[n]
      [] p = "HasRequestProxiesRestart"   -> \E x \in ProxySet : restart[x]
      [] p = "HasRequestProxiesReprov"    -> \E x \in ProxySet : reprov[x]
      [] p = "IsProvisioned" ->
            onPremise \/ HostsEmpty \/ \A h \in Hosts : prov[h] \/ IsRunning(h)

(***************************************************************************)
(* The writers outside the predicates: the state machine moves health      *)
(* states, the API requests restarts and reprovisions (cookie files), the  *)
(* orchestrator consumes them and unprovisions.                            *)
(***************************************************************************)
EnvWrite ==
    \/ \E h \in Hosts, s \in States : s # state[h] /\ state' = [state EXCEPT ![h] = s]
       /\ UNCHANGED <<prov, restart, reprov, onPremise>>
    \/ \E h \in Hosts : restart' = [restart EXCEPT ![h] = ~restart[h]]
       /\ UNCHANGED <<state, prov, reprov, onPremise>>
    \/ \E h \in Hosts : reprov' = [reprov EXCEPT ![h] = ~reprov[h]]
       /\ UNCHANGED <<state, prov, restart, onPremise>>
    \/ \E h \in Hosts : prov[h] /\ prov' = [prov EXCEPT ![h] = FALSE]
       /\ UNCHANGED <<state, restart, reprov, onPremise>>

=============================================================================
