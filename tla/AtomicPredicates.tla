-------------------------- MODULE AtomicPredicates --------------------------
(***************************************************************************)
(* What spec.md promises of the cluster predicates, as a specification:    *)
(* a predicate call answers, in one step, the value section 4.2 gives it   *)
(* on the state of that instant (section 5: an evaluation sees one         *)
(* consistent snapshot); IsProvisioned may in passing give the provision   *)
(* cookie to a host that is running; and the rest of the monitor writes    *)
(* node state and cookies (EnvWrite), after which the caller holds no      *)
(* answer about the new state.  ClusterHas, whose loops read one host per  *)
(* step, implements it when no write overlaps a call (MCClusterHas.cfg).   *)
(***************************************************************************)
EXTENDS ClusterFacts

VARIABLE answer  \* the last answer a caller received, as [p, v], or NoRet

avars == <<facts, answer>>

Init ==
    /\ state \in [Hosts -> States]
    /\ prov \in [Hosts -> BOOLEAN]
    /\ restart \in [Hosts -> BOOLEAN]
    /\ reprov \in [Hosts -> BOOLEAN]
    /\ onPremise \in BOOLEAN
    /\ answer = NoRet

\* A call of p answers the value of p in the current state.
Answer(p) ==
    /\ answer' = [p |-> p, v |-> SpecValue(p)]
    /\ UNCHANGED facts

\* A call starts: the caller no longer holds the previous answer.
Forget ==
    /\ answer' = NoRet
    /\ UNCHANGED facts

\* IsProvisioned gives a running host its missing provision cookie.
Provision(h) ==
    /\ IsRunning(h) /\ ~prov[h]
    /\ prov' = [prov EXCEPT ![h] = TRUE]
    /\ UNCHANGED <<state, restart, reprov, onPremise, answer>>

\* Another part of the monitor writes a node's state or a cookie.
Write ==
    /\ EnvWrite
    /\ answer' \in {answer, NoRet}

Next ==
    \/ \E p \in Preds : Answer(p)
    \/ Forget
    \/ \E h \in Hosts : Provision(h)
    \/ Write

Spec == Init /\ [][Next]_avars

=============================================================================
