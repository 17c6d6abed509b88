------------------------- MODULE ClusterHasRefinement -------------------------
(***************************************************************************)
(* Proof that the step-by-step predicate loops of ClusterHas implement the *)
(* atomic predicates of AtomicPredicates (ImplementsAtomicPredicates), for *)
(* every server and proxy list, when no write overlaps a call, some hosts  *)
(* are configured and cluster.Servers is not empty.  Each hypothesis is    *)
(* needed: the runs cluster_has_concurrent and cluster_has_empty_slice and *)
(* the ProvNoHosts return (FALSE where section 4.2 says TRUE) break the     *)
(* refinement without it.                                                  *)
(***************************************************************************)
EXTENDS ClusterHasProofs

\* The configurations the refinement is proved for.
NoOverlap == ~Concurrent /\ ~HostsEmpty /\ DbServers # << >>

(***************************************************************************)
(* The invariant: a running loop has so far passed over elements on which  *)
(* it does not stop, and IsProvisioned, past its on-premise shortcut, has  *)
(* a provision cookie on every host it visited.  It holds because no write *)
(* overlaps a call, so what an earlier iteration read is still true.      *)
(***************************************************************************)
LoopInv ==
    pc \in LoopPreds => \A i \in 1..(idx - 1) : ~Hit(pc, LoopList(pc)[i])

ProvInv ==
    pc = "IsProvisioned" =>
        /\ ~onPremise
        /\ \A i \in 1..(idx - 1) : prov[ProvList[i]]

RInv == TypeOK /\ LoopInv /\ ProvInv

\* A non-empty server list has a first server.
LEMMA DbSetNonEmpty ==
    ASSUME DbServers # << >>
    PROVE  DbSet # {}
<1>1. Len(DbServers) >= 1
  BY ProvListFacts, EmptySeq, LenProperties
<1>2. DbServers[1] \in DbSet
  BY <1>1 DEF DbSet, SeqSet
<1>3. QED
  BY <1>2

\* Hit, ExitValue and SpecValue unfolded for each predicate.
LEMMA LoopTable ==
    ASSUME NEW h
    PROVE  /\ Hit("HasAllDbUp", h) = (state[h] \in {"Failed", "Suspect"})
           /\ Hit("HasRequestDBRestart", h) = restart[h]
           /\ Hit("HasRequestDBRollingRestart", h) = ~restart[h]
           /\ Hit("HasRequestDBRollingReprov", h) = ~reprov[h]
           /\ Hit("HasRequestDBReprov", h) = reprov[h]
           /\ Hit("HasRequestProxiesRestart", h) = restart[h]
           /\ Hit("HasRequestProxiesReprov", h) = reprov[h]
           /\ LoopList("HasRequestProxiesRestart") = ProxyList
           /\ LoopList("HasRequestProxiesReprov") = ProxyList
           /\ \A p \in LoopPreds \ {"HasRequestProxiesRestart", "HasRequestProxiesReprov"} :
                 LoopList(p) = DbServers
           /\ ExitValue("HasAllDbUp") = FALSE
           /\ ExitValue("HasRequestDBRestart") = TRUE
           /\ ExitValue("HasRequestDBRollingRestart") = FALSE
           /\ ExitValue("HasRequestDBRollingReprov") = FALSE
           /\ ExitValue("HasRequestDBReprov") = TRUE
           /\ ExitValue("HasRequestProxiesRestart") = TRUE
           /\ ExitValue("HasRequestProxiesReprov") = TRUE
<1>1. Hit("HasAllDbUp", h) = (state[h] \in {"Failed", "Suspect"})
  BY DEF Hit
<1>2. Hit("HasRequestDBRestart", h) = restart[h]
  BY DEF Hit
<1>3. Hit("HasRequestDBRollingRestart", h) = ~restart[h]
  BY DEF Hit
<1>4. Hit("HasRequestDBRollingReprov", h) = ~reprov[h]
  BY DEF Hit
<1>5. Hit("HasRequestDBReprov", h) = reprov[h]
  BY DEF Hit
<1>6. Hit("HasRequestProxiesRestart", h) = restart[h]
  BY DEF Hit
<1>7. Hit("HasRequestProxiesReprov", h) = reprov[h]
  BY DEF Hit
<1>8. QED
  BY <1>1, <1>2, <1>3, <1>4, <1>5, <1>6, <1>7 DEF LoopList, ExitValue, LoopPreds

LEMMA SpecTable ==
    /\ SpecValue("HasAllDbUp") =
          (DbSet # {} /\ \A n \in DbSet : state[n] \notin {"Failed", "Suspect"})
    /\ SpecValue("HasRequestDBRestart") = \E n \in DbSet : restart[n]
    /\ SpecValue("HasRequestDBRollingRestart") = (DbSet # {} /\ \A n \in DbSet : restart[n])
    /\ SpecValue("HasRequestDBRollingReprov") = (DbSet # {} /\ \A n \in DbSet : reprov[n])
    /\ SpecValue("HasRequestDBReprov") = \E n \in DbSet : reprov[n]
    /\ SpecValue("HasRequestProxiesRestart") = \E x \in ProxySet : restart[x]
    /\ SpecValue("HasRequestProxiesReprov") = \E x \in ProxySet : reprov[x]
    /\ SpecValue("IsProvisioned") =
          (onPremise \/ HostsEmpty \/ \A h \in Hosts : prov[h] \/ IsRunning(h))
BY Zenon DEF SpecValue

\* A loop that stops on an element returns what section 4.2 gives the
\* predicate: the element it stopped on decides it.
LEMMA HitDecides ==
    ASSUME TypeOK, NEW p \in LoopPreds, NEW i \in 1..Len(LoopList(p)),
           Hit(p, LoopList(p)[i])
    PROVE  SpecValue(p) = ExitValue(p)
<1>1. /\ p \in {"HasRequestProxiesRestart", "HasRequestProxiesReprov"} =>
            LoopList(p)[i] \in ProxySet
      /\ p \notin {"HasRequestProxiesRestart", "HasRequestProxiesReprov"} =>
            LoopList(p)[i] \in DbSet
  BY LoopTable DEF ProxySet, DbSet, SeqSet
<1>2. LoopList(p)[i] \in Hosts
  BY <1>1 DEF Hosts
<1>3. CASE p = "HasAllDbUp"
  BY <1>1, <1>2, <1>3, LoopTable, SpecTable DEF TypeOK
<1>4. CASE p = "HasRequestDBRestart"
  BY <1>1, <1>2, <1>4, LoopTable, SpecTable DEF TypeOK
<1>5. CASE p = "HasRequestDBRollingRestart"
  BY <1>1, <1>2, <1>5, LoopTable, SpecTable DEF TypeOK
<1>6. CASE p = "HasRequestDBRollingReprov"
  BY <1>1, <1>2, <1>6, LoopTable, SpecTable DEF TypeOK
<1>7. CASE p = "HasRequestDBReprov"
  BY <1>1, <1>2, <1>7, LoopTable, SpecTable DEF TypeOK
<1>8. CASE p = "HasRequestProxiesRestart"
  BY <1>1, <1>2, <1>8, LoopTable, SpecTable DEF TypeOK
<1>9. CASE p = "HasRequestProxiesReprov"
  BY <1>1, <1>2, <1>9, LoopTable, SpecTable DEF TypeOK
<1>10. QED
  BY <1>3, <1>4, <1>5, <1>6, <1>7, <1>8, <1>9 DEF LoopPreds

\* A loop that passes over every element returns what section 4.2 gives
\* the predicate, when the server list is not empty or the predicate has
\* no nil guard (the unguarded ones ask whether some host has a cookie).
LEMMA ExhaustedDecides ==
    ASSUME TypeOK, NEW p \in LoopPreds, DbServers # << >> \/ ~NilGuarded(p),
           \A i \in 1..Len(LoopList(p)) : ~Hit(p, LoopList(p)[i])
    PROVE  SpecValue(p) = ~ExitValue(p)
<1>1. NilGuarded(p) => DbSet # {}
  <2> SUFFICES ASSUME NilGuarded(p) PROVE DbSet # {}
    OBVIOUS
  <2>1. DbServers # << >>
    OBVIOUS
  <2>2. QED
    BY <2>1, DbSetNonEmpty
<1>2. /\ \A n \in DbSet : \E i \in 1..Len(DbServers) : DbServers[i] = n
      /\ \A x \in ProxySet : \E i \in 1..Len(ProxyList) : ProxyList[i] = x
  BY DEF DbSet, ProxySet, SeqSet
<1>3. CASE p = "HasAllDbUp"
  <2>1. LoopList(p) = DbServers
    BY <1>3, LoopTable DEF LoopPreds
  <2>2. \A n \in DbSet : ~Hit(p, n)
    BY <1>2, <2>1
  <2>3. QED
    BY <1>1, <1>3, <2>2, LoopTable, SpecTable DEF TypeOK, Hosts, NilGuarded
<1>4. CASE p = "HasRequestDBRestart"
  <2>1. LoopList(p) = DbServers
    BY <1>4, LoopTable DEF LoopPreds
  <2>2. \A n \in DbSet : ~Hit(p, n)
    BY <1>2, <2>1
  <2>3. QED
    BY <1>1, <1>4, <2>2, LoopTable, SpecTable DEF TypeOK, Hosts, NilGuarded
<1>5. CASE p = "HasRequestDBRollingRestart"
  <2>1. LoopList(p) = DbServers
    BY <1>5, LoopTable DEF LoopPreds
  <2>2. \A n \in DbSet : ~Hit(p, n)
    BY <1>2, <2>1
  <2>3. QED
    BY <1>1, <1>5, <2>2, LoopTable, SpecTable DEF TypeOK, Hosts, NilGuarded
<1>6. CASE p = "HasRequestDBRollingReprov"
  <2>1. LoopList(p) = DbServers
    BY <1>6, LoopTable DEF LoopPreds
  <2>2. \A n \in DbSet : ~Hit(p, n)
    BY <1>2, <2>1
  <2>3. QED
    BY <1>1, <1>6, <2>2, LoopTable, SpecTable DEF TypeOK, Hosts, NilGuarded
<1>7. CASE p = "HasRequestDBReprov"
  <2>1. LoopList(p) = DbServers
    BY <1>7, LoopTable DEF LoopPreds
  <2>2. \A n \in DbSet : ~Hit(p, n)
    BY <1>2, <2>1
  <2>3. QED
    BY <1>1, <1>7, <2>2, LoopTable, SpecTable DEF TypeOK, Hosts, NilGuarded
<1>8. CASE p = "HasRequestProxiesRestart"
  <2>1. LoopList(p) = ProxyList
    BY <1>8, LoopTable DEF LoopPreds
  <2>2. \A n \in ProxySet : ~Hit(p, n)
    BY <1>2, <2>1
  <2>3. QED
    BY <1>1, <1>8, <2>2, LoopTable, SpecTable DEF TypeOK, Hosts, NilGuarded
<1>9. CASE p = "HasRequestProxiesReprov"
  <2>1. LoopList(p) = ProxyList
    BY <1>9, LoopTable DEF LoopPreds
  <2>2. \A n \in ProxySet : ~Hit(p, n)
    BY <1>2, <2>1
  <2>3. QED
    BY <1>1, <1>9, <2>2, LoopTable, SpecTable DEF TypeOK, Hosts, NilGuarded
<1>10. QED
  BY <1>3, <1>4, <1>5, <1>6, <1>7, <1>8, <1>9 DEF LoopPreds

\* What a loop iteration tests depends only on the state and cookies.
LEMMA HitUnchanged ==
    ASSUME NEW p, NEW h, UNCHANGED <<state, restart, reprov>>
    PROVE  Hit(p, h)' = Hit(p, h)
BY DEF Hit

\* Every step keeps the invariant, given that the next state is well typed.
LEMMA RInvStep ==
    ASSUME ~Concurrent, RInv, TypeOK', [Next]_vars
    PROVE  (LoopInv /\ ProvInv)'
<1>. USE DEF LoopInv, ProvInv, LoopPreds, Return
<1>1. ASSUME NEW p \in LoopPreds, LoopStart(p) PROVE (LoopInv /\ ProvInv)'
  BY <1>1 DEF LoopStart
<1>2. ASSUME NEW p \in LoopPreds, LoopHit(p) PROVE (LoopInv /\ ProvInv)'
  BY <1>2 DEF LoopHit
<1>3. ASSUME NEW p \in LoopPreds, LoopAdvance(p) PROVE (LoopInv /\ ProvInv)'
  <2>1. pc' = p /\ pc = p /\ idx' = idx + 1 /\ idx <= Len(LoopList(p))
    BY <1>3 DEF LoopAdvance
  <2>2. \A i \in 1..idx : ~Hit(p, LoopList(p)[i])
    BY <1>3, <2>1 DEF LoopAdvance, RInv, TypeOK
  <2>3. \A i \in 1..idx : ~Hit(p, LoopList(p)[i])'
    <3> SUFFICES ASSUME NEW i \in 1..idx PROVE ~Hit(p, LoopList(p)[i])'
      OBVIOUS
    <3>1. Hit(p, LoopList(p)[i])' = Hit(p, LoopList(p)[i])
      BY <1>3, HitUnchanged DEF LoopAdvance
    <3>2. QED
      BY <2>2, <3>1
  <2>4. 1..(idx' - 1) = 1..idx
    BY <2>1 DEF RInv, TypeOK
  <2>5. QED
    BY <2>1, <2>3, <2>4
<1>4. ASSUME NEW p \in LoopPreds, LoopExhausted(p) PROVE (LoopInv /\ ProvInv)'
  BY <1>4 DEF LoopExhausted
<1>5. CASE ProvOnPremise \/ ProvNoHosts \/ ProvUnreachable \/ ProvAllDone
  BY <1>5 DEF ProvOnPremise, ProvNoHosts, ProvUnreachable, ProvAllDone
<1>6. CASE ProvStart
  BY <1>6 DEF ProvStart
<1>7. CASE ProvVisit
  <2>1. /\ pc = "IsProvisioned" /\ pc' = pc /\ idx' = idx + 1
        /\ idx \in 1..Len(ProvList)
        /\ prov' = [prov EXCEPT ![ProvList[idx]] = TRUE]
        /\ onPremise' = onPremise
    BY <1>7 DEF ProvVisit, RInv, TypeOK
  <2>2. \A i \in 1..Len(ProvList) : ProvList[i] \in Hosts
    BY ProvListFacts, ElementIsHost
  <2>3. \A i \in 1..idx : prov'[ProvList[i]]
    BY <2>1, <2>2 DEF RInv, TypeOK
  <2>4. QED
    BY <2>1, <2>3 DEF RInv
<1>8. CASE Environment
  BY <1>8 DEF Environment
<1>9. CASE UNCHANGED vars
  <2>1. pc \in LoopPreds =>
          \A i \in 1..(idx - 1) : Hit(pc, LoopList(pc)[i])' = Hit(pc, LoopList(pc)[i])
    BY <1>9, HitUnchanged DEF vars
  <2>2. QED
    BY <1>9, <2>1 DEF vars, RInv
<1>10. QED
  BY <1>1, <1>2, <1>3, <1>4, <1>5, <1>6, <1>7, <1>8, <1>9 DEF Next, Call, Evaluate

\* With no write overlapping a call, every reachable state satisfies RInv.
THEOREM InvariantHolds ==
    ASSUME ~Concurrent
    PROVE  Spec => []RInv
<1>1. Init => RInv
  BY ProvListFacts DEF Init, RInv, TypeOK, LoopInv, ProvInv, NoRet
<1>2. RInv /\ TypeOK' /\ [Next]_vars => RInv'
  BY RInvStep DEF RInv
<1>3. QED
  BY <1>1, <1>2, TypeCorrect, PTL DEF Spec

\* IsProvisioned's list visits every host.
LEMMA ProvListCovers ==
    \A h \in Hosts : \E i \in 1..Len(ProvList) : ProvList[i] = h
<1> SUFFICES ASSUME NEW h \in Hosts
             PROVE  \E i \in 1..Len(ProvList) : ProvList[i] = h
  OBVIOUS
<1>1. CASE h \in DbSet
  <2>1. PICK j \in 1..Len(DbServers) : DbServers[j] = h
    BY <1>1 DEF DbSet, SeqSet
  <2>2. QED
    BY <2>1, ProvListFacts
<1>2. CASE h \in ProxySet
  <2>1. PICK j \in 1..Len(ProxyList) : ProxyList[j] = h
    BY <1>2 DEF ProxySet, SeqSet
  <2>2. /\ Len(DbServers) \in Nat /\ Len(ProxyList) \in Nat
        /\ Len(DbServers) + j \in 1..Len(ProvList)
    BY <2>1, ProvListFacts, LenProperties
  <2>3. ProvList[Len(DbServers) + j] = h
    BY <2>1, <2>2, ProvListFacts
  <2>4. QED
    BY <2>2, <2>3
<1>3. QED
  BY <1>1, <1>2 DEF Hosts

\* The abstract specification reads the same facts as the loops: its
\* operators, under the refinement mapping, are the module's own.
LEMMA SameFacts ==
    /\ \A p : Atomic!SpecValue(p) = SpecValue(p)
    /\ \A h : Atomic!IsRunning(h) = IsRunning(h)
    /\ Atomic!Hosts = Hosts
    /\ Atomic!States = States
    /\ Atomic!NoRet = NoRet
    /\ Atomic!Preds = Preds
    /\ Atomic!EnvWrite = EnvWrite
BY DEF Atomic!SpecValue, SpecValue, Atomic!IsRunning, IsRunning, Atomic!Hosts,
       Hosts, Atomic!DbSet, DbSet, Atomic!ProxySet, ProxySet, Atomic!SeqSet,
       SeqSet, Atomic!NoRet, NoRet, Atomic!Preds, Preds, Atomic!LoopPreds,
       LoopPreds, Atomic!EnvWrite, EnvWrite, Atomic!States, States

\* Every step of the loops and of the environment is a step of the atomic
\* predicates, or leaves the facts and the caller's answer unchanged.
LEMMA RefineStep ==
    ASSUME NoOverlap, RInv, [Next]_vars
    PROVE  [Atomic!Next]_Atomic!avars
<1>. USE DEF Atomic!avars, facts, Atomic!facts
<1>1. ~ServersNil
  BY ConstantsAssumption DEF NoOverlap
<1>2. ASSUME NEW p \in LoopPreds, LoopStart(p) PROVE [Atomic!Next]_Atomic!avars
  <2>1. ret' = NoRet /\ UNCHANGED facts
    BY <1>1, <1>2 DEF LoopStart
  <2>2. Atomic!Forget
    BY <2>1, SameFacts DEF Atomic!Forget
  <2>3. QED
    BY <2>2, SameFacts DEF Atomic!Next
<1>3. ASSUME NEW p \in LoopPreds, LoopHit(p) PROVE [Atomic!Next]_Atomic!avars
  <2>1. /\ idx \in 1..Len(LoopList(p)) /\ Hit(p, LoopList(p)[idx])
        /\ ret' = [p |-> p, v |-> ExitValue(p)] /\ UNCHANGED facts
    BY <1>3 DEF LoopHit, Return, RInv, TypeOK
  <2>2. SpecValue(p) = ExitValue(p)
    BY <2>1, HitDecides DEF RInv
  <2>3. Atomic!Answer(p)
    BY <2>1, <2>2, SameFacts DEF Atomic!Answer
  <2>4. QED
    BY <2>3, SameFacts DEF Atomic!Next, Preds
<1>4. ASSUME NEW p \in LoopPreds, LoopAdvance(p) PROVE [Atomic!Next]_Atomic!avars
  BY <1>4 DEF LoopAdvance
<1>5. ASSUME NEW p \in LoopPreds, LoopExhausted(p) PROVE [Atomic!Next]_Atomic!avars
  <2>1. /\ pc = p /\ idx = Len(LoopList(p)) + 1
        /\ ret' = [p |-> p, v |-> ~ExitValue(p)] /\ UNCHANGED facts
    BY <1>5 DEF LoopExhausted, Return
  <2>2. \A i \in 1..Len(LoopList(p)) : ~Hit(p, LoopList(p)[i])
    BY <2>1, LoopListFacts DEF RInv, LoopInv
  <2>3. SpecValue(p) = ~ExitValue(p)
    BY <2>2, ExhaustedDecides DEF RInv, NoOverlap
  <2>4. Atomic!Answer(p)
    BY <2>1, <2>3, SameFacts DEF Atomic!Answer
  <2>5. QED
    BY <2>4, SameFacts DEF Atomic!Next, Preds
<1>6. CASE ProvOnPremise
  <2>1. onPremise /\ ret' = [p |-> "IsProvisioned", v |-> TRUE] /\ UNCHANGED facts
    BY <1>6 DEF ProvOnPremise, Return
  <2>2. SpecValue("IsProvisioned") = TRUE
    BY <2>1, SpecTable
  <2>3. Atomic!Answer("IsProvisioned")
    BY <2>1, <2>2, SameFacts DEF Atomic!Answer
  <2>4. QED
    BY <2>3, SameFacts DEF Atomic!Next, Preds
<1>7. CASE ProvNoHosts
  BY <1>7 DEF ProvNoHosts, NoOverlap
<1>8. CASE ProvStart
  <2>1. Atomic!Forget
    BY <1>8 DEF ProvStart, Atomic!Forget, NoRet, Atomic!NoRet
  <2>2. QED
    BY <2>1, SameFacts DEF Atomic!Next
<1>9. CASE ProvVisit
  <2>1. /\ idx \in 1..Len(ProvList)
        /\ prov[ProvList[idx]] \/ IsRunning(ProvList[idx])
        /\ prov' = [prov EXCEPT ![ProvList[idx]] = TRUE]
        /\ UNCHANGED <<state, restart, reprov, onPremise, ret>>
    BY <1>9 DEF ProvVisit, RInv, TypeOK
  <2>2. ProvList[idx] \in Hosts
    BY <2>1, ProvListFacts, ElementIsHost
  <2>3. CASE prov[ProvList[idx]]
    BY <2>1, <2>2, <2>3 DEF RInv, TypeOK
  <2>4. CASE ~prov[ProvList[idx]]
    <3>1. Atomic!Provision(ProvList[idx])
      BY <2>1, <2>4, SameFacts DEF Atomic!Provision
    <3>2. QED
      BY <2>2, <3>1, SameFacts DEF Atomic!Next
  <2>5. QED
    BY <2>3, <2>4
<1>10. CASE ProvUnreachable
  <2>1. /\ pc = "IsProvisioned" /\ idx \in 1..Len(ProvList)
        /\ ~prov[ProvList[idx]] /\ ~IsRunning(ProvList[idx])
        /\ ret' = [p |-> "IsProvisioned", v |-> FALSE] /\ UNCHANGED facts
    BY <1>10 DEF ProvUnreachable, Return, RInv, TypeOK
  <2>2. ProvList[idx] \in Hosts
    BY <2>1, ProvListFacts, ElementIsHost
  <2>3. SpecValue("IsProvisioned") = FALSE
    BY <2>1, <2>2, SpecTable DEF RInv, ProvInv, NoOverlap
  <2>4. Atomic!Answer("IsProvisioned")
    BY <2>1, <2>3, SameFacts DEF Atomic!Answer
  <2>5. QED
    BY <2>4, SameFacts DEF Atomic!Next, Preds
<1>11. CASE ProvAllDone
  <2>1. /\ pc = "IsProvisioned" /\ idx = Len(ProvList) + 1
        /\ ret' = [p |-> "IsProvisioned", v |-> TRUE] /\ UNCHANGED facts
    BY <1>11 DEF ProvAllDone, Return
  <2>2. \A h \in Hosts : prov[h]
    BY <2>1, ProvListCovers, ProvListFacts DEF RInv, ProvInv
  <2>3. SpecValue("IsProvisioned") = TRUE
    BY <2>2, SpecTable
  <2>4. Atomic!Answer("IsProvisioned")
    BY <2>1, <2>3, SameFacts DEF Atomic!Answer
  <2>5. QED
    BY <2>4, SameFacts DEF Atomic!Next, Preds
<1>12. CASE Environment
  <2>1. pc = "idle" /\ EnvWrite /\ ret' = NoRet
    BY <1>12 DEF Environment, NoOverlap
  <2>2. Atomic!Write
    BY <2>1, SameFacts DEF Atomic!Write
  <2>3. QED
    BY <2>2, SameFacts DEF Atomic!Next
<1>13. CASE UNCHANGED vars
  BY <1>13 DEF vars
<1>14. QED
  BY <1>2, <1>3, <1>4, <1>5, <1>6, <1>7, <1>8, <1>9, <1>10, <1>11, <1>12, <1>13
     DEF Next, Call, Evaluate

\* ImplementsAtomicPredicates: with no write overlapping a call, hosts
\* configured and a non-empty server list, the cluster_has loops and
\* IsProvisioned behave as predicates evaluated atomically on one snapshot,
\* with their answers what spec.md section 4.2 defines.
THEOREM Refinement ==
    ASSUME NoOverlap
    PROVE  Spec => ImplementsAtomicPredicates
<1>1. Init => Atomic!Init
  BY SameFacts DEF Init, Atomic!Init
<1>2. Spec => []RInv
  BY InvariantHolds DEF NoOverlap
<1>3. RInv /\ [Next]_vars => [Atomic!Next]_Atomic!avars
  BY RefineStep
<1>4. QED
  BY <1>1, <1>2, <1>3, PTL DEF Spec, ImplementsAtomicPredicates, Atomic!Spec

=============================================================================
