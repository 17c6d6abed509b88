-------------------------- MODULE ClusterHasProofs --------------------------
(***************************************************************************)
(* Proofs about the aggregate predicate layer (ClusterHas), for every      *)
(* server list, proxy list and configuration the assumptions allow.        *)
(***************************************************************************)
EXTENDS ClusterHas, SequenceTheorems, TLAPS

\* The servers-then-proxies list of IsProvisioned ranges over every host.
LEMMA ProvListFacts ==
    /\ DbServers \in Seq(Hosts)
    /\ ProxyList \in Seq(Hosts)
    /\ ProvList \in Seq(Hosts)
    /\ Len(ProvList) = Len(DbServers) + Len(ProxyList)
    /\ \A i \in 1..Len(ProvList) :
          ProvList[i] = IF i <= Len(DbServers) THEN DbServers[i]
                        ELSE ProxyList[i - Len(DbServers)]
<1>1. DbServers \in Seq(Hosts) /\ ProxyList \in Seq(Hosts)
  BY ConstantsAssumption, SeqMonotonic DEF Hosts
<1>2. QED
  BY <1>1, ConcatProperties DEF ProvList

\* Each loop ranges over a list of hosts no longer than ProvList.
LEMMA LoopListFacts ==
    ASSUME NEW p \in LoopPreds
    PROVE  /\ LoopList(p) \in Seq(Hosts)
           /\ Len(LoopList(p)) <= Len(ProvList)
BY ProvListFacts, LenProperties DEF LoopList

\* What a loop reads in one iteration is a host.
LEMMA ElementIsHost ==
    ASSUME NEW s \in Seq(Hosts), NEW i \in 1..Len(s)
    PROVE  s[i] \in Hosts
BY ElementOfSeq

\* The spec's meaning of a predicate is a boolean, now and after any step.
LEMMA SpecValueBoolean ==
    ASSUME NEW p \in Preds
    PROVE  /\ SpecValue(p) \in BOOLEAN
           /\ SpecValue(p)' \in BOOLEAN
BY DEF SpecValue, Preds, LoopPreds

(***************************************************************************)
(* Type correctness: every step of the code and of its environment keeps   *)
(* each variable in its type, and a running loop's index within its list. *)
(***************************************************************************)
THEOREM TypeCorrect == Spec => []TypeOK
<1>1. Init => TypeOK
  BY ProvListFacts DEF Init, TypeOK, NoRet
<1>2. TypeOK /\ [Next]_vars => TypeOK'
  <2> SUFFICES ASSUME TypeOK, [Next]_vars PROVE TypeOK'
    OBVIOUS
  <2>. USE ProvListFacts DEF TypeOK, Preds, LoopPreds, Return, NoRet
  <2>1. ASSUME NEW p \in LoopPreds, LoopStart(p) PROVE TypeOK'
    <3>1. seen' \in SUBSET BOOLEAN
      BY <2>1, SpecValueBoolean DEF LoopStart
    <3>2. UNCHANGED <<state, prov, restart, reprov, onPremise>>
      BY <2>1 DEF LoopStart
    <3>3. CASE NilGuarded(p) /\ ServersNil
      <4>1. pc' = "idle" /\ ret' = [p |-> p, v |-> FALSE] /\ idx' = idx
        BY <2>1, <3>3 DEF LoopStart
      <4>2. QED
        BY <3>1, <3>2, <4>1
    <3>4. CASE ~(NilGuarded(p) /\ ServersNil)
      <4>1. pc' = p /\ ret' = NoRet /\ idx' = 1
        BY <2>1, <3>4 DEF LoopStart
      <4>2. QED
        BY <3>1, <3>2, <4>1, LoopListFacts
    <3>5. QED
      BY <3>3, <3>4
  <2>2. ASSUME NEW p \in LoopPreds, LoopHit(p) PROVE TypeOK'
    BY <2>2 DEF LoopHit, ExitValue
  <2>3. ASSUME NEW p \in LoopPreds, LoopAdvance(p) PROVE TypeOK'
    <3>1. /\ pc = p /\ idx \in 1..Len(LoopList(p)) /\ idx' = idx + 1
          /\ UNCHANGED <<state, prov, restart, reprov, onPremise, pc, ret, seen>>
      BY <2>3 DEF LoopAdvance
    <3>2. Len(LoopList(p)) \in Nat /\ Len(LoopList(p)) <= Len(ProvList)
      BY LoopListFacts, LenProperties
    <3>3. idx' \in 1..(Len(ProvList) + 1) /\ idx' \in 1..(Len(LoopList(p)) + 1)
      BY <3>1, <3>2
    <3>4. QED
      BY <3>1, <3>3
  <2>4. ASSUME NEW p \in LoopPreds, LoopExhausted(p) PROVE TypeOK'
    BY <2>4 DEF LoopExhausted, ExitValue
  <2>5. CASE ProvOnPremise
    BY <2>5, SpecValueBoolean DEF ProvOnPremise
  <2>6. CASE ProvNoHosts
    BY <2>6, SpecValueBoolean DEF ProvNoHosts
  <2>7. CASE ProvStart
    BY <2>7, SpecValueBoolean DEF ProvStart
  <2>8. CASE ProvVisit
    BY <2>8, ElementIsHost DEF ProvVisit
  <2>9. CASE ProvUnreachable
    BY <2>9 DEF ProvUnreachable
  <2>10. CASE ProvAllDone
    BY <2>10 DEF ProvAllDone
  <2>11. CASE Environment
    <3>1. /\ state' \in [Hosts -> States]
          /\ prov' \in [Hosts -> BOOLEAN]
          /\ restart' \in [Hosts -> BOOLEAN]
          /\ reprov' \in [Hosts -> BOOLEAN]
          /\ onPremise' = onPremise
      BY <2>11 DEF Environment, EnvWrite
    <3>2. UNCHANGED <<pc, idx>>
      BY <2>11 DEF Environment
    <3>3. CASE pc = "idle"
      <4>1. seen' = {} /\ ret' = NoRet
        BY <2>11, <3>3 DEF Environment
      <4>2. QED
        BY <3>1, <3>2, <4>1
    <3>4. CASE pc # "idle"
      <4>1. seen' = seen \cup {SpecValue(pc)'} /\ ret' = ret
        BY <2>11, <3>4 DEF Environment
      <4>2. SpecValue(pc)' \in BOOLEAN
        BY <3>2, <3>4, SpecValueBoolean
      <4>3. QED
        BY <3>1, <3>2, <4>1, <4>2
    <3>5. QED
      BY <3>3, <3>4
  <2>12. CASE UNCHANGED vars
    BY <2>12 DEF vars
  <2>13. QED
    BY <2>1, <2>2, <2>3, <2>4, <2>5, <2>6, <2>7, <2>8, <2>9, <2>10, <2>11, <2>12
       DEF Next, Call, Evaluate
<1>3. QED
  BY <1>1, <1>2, PTL DEF Spec

=============================================================================
