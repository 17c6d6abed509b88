------------------------ MODULE ClusterHasCorrectness ------------------------
(***************************************************************************)
(* Proofs that the cluster predicates return what spec.md section 4.2      *)
(* says (ClusterPredicatesCorrect, ProvisionedCorrect) for every server    *)
(* and proxy list, when no write overlaps a call.  The loop predicates     *)
(* need a server list that is nil or not empty (an empty non-nil slice is  *)
(* the cluster_has_empty_slice run); IsProvisioned needs hosts configured  *)
(* (ProvNoHosts returns FALSE where section 4.2 says TRUE).                *)
(***************************************************************************)
EXTENDS ClusterHasRefinement

(***************************************************************************)
(* The invariant, over RInv of ClusterHasRefinement.                       *)
(*   RunInv: a call in progress holds no answer, and the spec's value of   *)
(*           its predicate has not moved since the call started;           *)
(*   NilInv: with a nil server list no guarded loop is running;            *)
(*   AnswerInv(P): the last answer of a predicate in P is the spec's value *)
(*           of the current state, the one value seen during its call.     *)
(***************************************************************************)
RunInv ==
    pc # "idle" => seen = {SpecValue(pc)} /\ ret = NoRet

NilInv ==
    ServersNil /\ pc \in LoopPreds => ~NilGuarded(pc)

AnswerInv(P) ==
    pc = "idle" /\ ret.p \in P =>
        /\ ret.v = SpecValue(ret.p)
        /\ seen = {ret.v}

CInv == RInv /\ RunInv /\ NilInv

\* A step that leaves the facts alone leaves the spec's values alone.
LEMMA SpecValueUnchanged ==
    ASSUME NEW p, UNCHANGED facts
    PROVE  SpecValue(p)' = SpecValue(p)
BY DEF SpecValue, IsRunning, facts

\* IsProvisioned's meaning, on this state and on the next.
LEMMA ProvSpecTable ==
    /\ SpecValue("IsProvisioned") =
          (onPremise \/ HostsEmpty \/ \A h \in Hosts : prov[h] \/ IsRunning(h))
    /\ SpecValue("IsProvisioned")' =
          (onPremise' \/ HostsEmpty \/ \A h \in Hosts : prov'[h] \/ IsRunning(h)')
BY Zenon DEF SpecValue

\* A visit of IsProvisioned gives a cookie only to a host that already
\* counts as provisioned or running, so it does not move the spec's value.
LEMMA ProvVisitKeepsSpec ==
    ASSUME TypeOK, NEW h \in Hosts, prov[h] \/ IsRunning(h),
           prov' = [prov EXCEPT ![h] = TRUE],
           UNCHANGED <<state, restart, reprov, onPremise>>
    PROVE  SpecValue("IsProvisioned")' = SpecValue("IsProvisioned")
<1>1. \A x \in Hosts : (prov'[x] \/ IsRunning(x)') = (prov[x] \/ IsRunning(x))
  BY DEF TypeOK, IsRunning
<1>2. QED
  BY <1>1, ProvSpecTable

\* With a nil server list the guarded predicates are false in every state.
LEMMA NilDecides ==
    ASSUME ServersNil, NEW p \in LoopPreds, NilGuarded(p)
    PROVE  SpecValue(p) = FALSE
<1>1. DbSet = {}
  BY ConstantsAssumption DEF DbSet, SeqSet
<1>2. QED
  BY <1>1, SpecTable DEF NilGuarded


\* Every step keeps RunInv and NilInv.
LEMMA CInvStep ==
    ASSUME ~Concurrent, CInv, [Next]_vars
    PROVE  (RunInv /\ NilInv)'
<1>. USE DEF RunInv, NilInv, Return, LoopPreds
<1>1. ASSUME NEW p \in LoopPreds, LoopStart(p) PROVE (RunInv /\ NilInv)'
  <2>1. UNCHANGED facts
    BY <1>1 DEF LoopStart, facts
  <2>2. SpecValue(p)' = SpecValue(p)
    BY <2>1, SpecValueUnchanged
  <2>3. QED
    BY <1>1, <2>2 DEF LoopStart
<1>2. ASSUME NEW p \in LoopPreds, LoopHit(p) PROVE (RunInv /\ NilInv)'
  BY <1>2 DEF LoopHit
<1>3. ASSUME NEW p \in LoopPreds, LoopAdvance(p) PROVE (RunInv /\ NilInv)'
  <2>1. SpecValue(p)' = SpecValue(p)
    BY <1>3, SpecValueUnchanged DEF LoopAdvance, facts
  <2>2. QED
    BY <1>3, <2>1 DEF LoopAdvance, CInv
<1>4. ASSUME NEW p \in LoopPreds, LoopExhausted(p) PROVE (RunInv /\ NilInv)'
  BY <1>4 DEF LoopExhausted
<1>5. CASE ProvOnPremise \/ ProvNoHosts \/ ProvUnreachable \/ ProvAllDone
  BY <1>5 DEF ProvOnPremise, ProvNoHosts, ProvUnreachable, ProvAllDone
<1>6. CASE ProvStart
  <2>1. SpecValue("IsProvisioned")' = SpecValue("IsProvisioned")
    BY <1>6, SpecValueUnchanged DEF ProvStart, facts
  <2>2. QED
    BY <1>6, <2>1 DEF ProvStart
<1>7. CASE ProvVisit
  <2>1. /\ pc = "IsProvisioned" /\ idx \in 1..Len(ProvList)
        /\ prov[ProvList[idx]] \/ IsRunning(ProvList[idx])
        /\ prov' = [prov EXCEPT ![ProvList[idx]] = TRUE]
        /\ UNCHANGED <<state, restart, reprov, onPremise, pc, ret, seen>>
    BY <1>7 DEF ProvVisit, CInv, RInv, TypeOK
  <2>2. ProvList[idx] \in Hosts
    BY <2>1, ProvListFacts, ElementIsHost
  <2>3. SpecValue("IsProvisioned")' = SpecValue("IsProvisioned")
    BY <2>1, <2>2, ProvVisitKeepsSpec DEF CInv, RInv
  <2>4. QED
    BY <2>1, <2>3 DEF CInv
<1>8. CASE Environment
  BY <1>8 DEF Environment
<1>9. CASE UNCHANGED vars
  <2>1. SpecValue(pc)' = SpecValue(pc)
    BY <1>9, SpecValueUnchanged DEF vars, facts
  <2>2. QED
    BY <1>9, <2>1 DEF vars, CInv
<1>10. QED
  BY <1>1, <1>2, <1>3, <1>4, <1>5, <1>6, <1>7, <1>8, <1>9 DEF Next, Call, Evaluate

\* With no write overlapping a call, every reachable state satisfies CInv.
THEOREM CInvHolds ==
    ASSUME ~Concurrent
    PROVE  Spec => []CInv
<1>1. Init => RunInv /\ NilInv
  BY DEF Init, RunInv, NilInv, LoopPreds
<1>2. CInv /\ [Next]_vars => (RunInv /\ NilInv)'
  BY CInvStep
<1>3. QED
  BY <1>1, <1>2, InvariantHolds, PTL DEF Spec, CInv

\* The loop predicates' answers stay what section 4.2 says, when the
\* server list is nil or not empty.
LEMMA LoopAnswerStep ==
    ASSUME ~Concurrent, ServersNil \/ DbServers # << >>,
           CInv, AnswerInv(LoopPreds), [Next]_vars
    PROVE  AnswerInv(LoopPreds)'
<1>. USE DEF AnswerInv, Return
<1>1. ASSUME NEW p \in LoopPreds, LoopStart(p) PROVE AnswerInv(LoopPreds)'
  <2>1. SpecValue(p)' = SpecValue(p)
    BY <1>1, SpecValueUnchanged DEF LoopStart, facts
  <2>2. CASE NilGuarded(p) /\ ServersNil
    <3>1. SpecValue(p) = FALSE
      BY <2>2, NilDecides
    <3>2. pc' = "idle" /\ ret' = [p |-> p, v |-> FALSE] /\ seen' = {SpecValue(p)}
      BY <1>1, <2>2 DEF LoopStart
    <3>3. QED
      BY <2>1, <3>1, <3>2
  <2>3. CASE ~(NilGuarded(p) /\ ServersNil)
    BY <1>1, <2>3 DEF LoopStart, LoopPreds
  <2>4. QED
    BY <2>2, <2>3
<1>2. ASSUME NEW p \in LoopPreds, LoopHit(p) PROVE AnswerInv(LoopPreds)'
  <2>1. /\ pc = p /\ idx \in 1..Len(LoopList(p)) /\ Hit(p, LoopList(p)[idx])
        /\ pc' = "idle" /\ ret' = [p |-> p, v |-> ExitValue(p)] /\ seen' = seen
        /\ UNCHANGED facts
    BY <1>2 DEF LoopHit, CInv, RInv, TypeOK, facts
  <2>2. SpecValue(p) = ExitValue(p)
    BY <2>1, HitDecides DEF CInv, RInv
  <2>3. SpecValue(p)' = SpecValue(p)
    BY <2>1, SpecValueUnchanged
  <2>4. seen = {SpecValue(p)}
    BY <2>1 DEF CInv, RunInv, LoopPreds
  <2>5. QED
    BY <2>1, <2>2, <2>3, <2>4
<1>3. ASSUME NEW p \in LoopPreds, LoopAdvance(p) PROVE AnswerInv(LoopPreds)'
  BY <1>3 DEF LoopAdvance, LoopPreds
<1>4. ASSUME NEW p \in LoopPreds, LoopExhausted(p) PROVE AnswerInv(LoopPreds)'
  <2>1. /\ pc = p /\ idx = Len(LoopList(p)) + 1
        /\ pc' = "idle" /\ ret' = [p |-> p, v |-> ~ExitValue(p)] /\ seen' = seen
        /\ UNCHANGED facts
    BY <1>4 DEF LoopExhausted, facts
  <2>2. \A i \in 1..Len(LoopList(p)) : ~Hit(p, LoopList(p)[i])
    BY <2>1, LoopListFacts DEF CInv, RInv, LoopInv
  <2>3. DbServers # << >> \/ ~NilGuarded(p)
    BY <2>1, ConstantsAssumption DEF CInv, NilInv
  <2>4. SpecValue(p) = ~ExitValue(p)
    BY <2>2, <2>3, ExhaustedDecides DEF CInv, RInv
  <2>5. SpecValue(p)' = SpecValue(p)
    BY <2>1, SpecValueUnchanged
  <2>6. seen = {SpecValue(p)}
    BY <2>1 DEF CInv, RunInv, LoopPreds
  <2>7. QED
    BY <2>1, <2>4, <2>5, <2>6
<1>5. CASE ProvOnPremise \/ ProvNoHosts \/ ProvUnreachable \/ ProvAllDone
  BY <1>5 DEF ProvOnPremise, ProvNoHosts, ProvUnreachable, ProvAllDone, LoopPreds
<1>6. CASE ProvStart \/ ProvVisit
  BY <1>6 DEF ProvStart, ProvVisit
<1>7. CASE Environment
  BY <1>7 DEF Environment, NoRet, LoopPreds
<1>8. CASE UNCHANGED vars
  <2>1. SpecValue(ret.p)' = SpecValue(ret.p)
    BY <1>8, SpecValueUnchanged DEF vars, facts
  <2>2. QED
    BY <1>8, <2>1 DEF vars
<1>9. QED
  BY <1>1, <1>2, <1>3, <1>4, <1>5, <1>6, <1>7, <1>8 DEF Next, Call, Evaluate

\* ClusterPredicatesCorrect: with no write overlapping a call and a server
\* list that is nil or not empty, every value HasAllDbUp .. 
\* HasRequestProxiesReprov return is the value section 4.2 gives them in
\* the state of their call.
THEOREM LoopsCorrect ==
    ASSUME ~Concurrent, ServersNil \/ DbServers # << >>
    PROVE  Spec => []ClusterPredicatesCorrect
<1>1. Init => AnswerInv(LoopPreds)
  BY DEF Init, AnswerInv, NoRet, LoopPreds
<1>2. CInv /\ AnswerInv(LoopPreds) /\ [Next]_vars => AnswerInv(LoopPreds)'
  BY LoopAnswerStep
<1>3. CInv /\ AnswerInv(LoopPreds) => ClusterPredicatesCorrect
  BY DEF CInv, RunInv, AnswerInv, ClusterPredicatesCorrect, Correct, NoRet, LoopPreds
<1>4. QED
  BY <1>1, <1>2, <1>3, CInvHolds, PTL DEF Spec

\* IsProvisioned's answers stay what section 4.2 says, when hosts are
\* configured.
LEMMA ProvAnswerStep ==
    ASSUME ~Concurrent, ~HostsEmpty,
           CInv, AnswerInv({"IsProvisioned"}), [Next]_vars
    PROVE  AnswerInv({"IsProvisioned"})'
<1>. USE DEF AnswerInv, Return
<1>1. ASSUME NEW p \in LoopPreds, LoopStart(p) \/ LoopHit(p) \/ LoopExhausted(p)
      PROVE  AnswerInv({"IsProvisioned"})'
  BY <1>1 DEF LoopStart, LoopHit, LoopExhausted, LoopPreds
<1>2. ASSUME NEW p \in LoopPreds, LoopAdvance(p) PROVE AnswerInv({"IsProvisioned"})'
  BY <1>2 DEF LoopAdvance, LoopPreds
<1>3. CASE ProvOnPremise
  <2>1. /\ onPremise /\ pc' = "idle"
        /\ ret' = [p |-> "IsProvisioned", v |-> TRUE]
        /\ seen' = {SpecValue("IsProvisioned")}
        /\ UNCHANGED facts
    BY <1>3 DEF ProvOnPremise, facts
  <2>2. SpecValue("IsProvisioned") = TRUE
    BY <2>1, ProvSpecTable
  <2>3. SpecValue("IsProvisioned")' = SpecValue("IsProvisioned")
    BY <2>1, SpecValueUnchanged
  <2>4. QED
    BY <2>1, <2>2, <2>3
<1>4. CASE ProvNoHosts
  BY <1>4 DEF ProvNoHosts
<1>5. CASE ProvUnreachable
  <2>1. /\ pc = "IsProvisioned" /\ idx \in 1..Len(ProvList)
        /\ ~prov[ProvList[idx]] /\ ~IsRunning(ProvList[idx])
        /\ pc' = "idle" /\ ret' = [p |-> "IsProvisioned", v |-> FALSE]
        /\ seen' = seen /\ UNCHANGED facts
    BY <1>5 DEF ProvUnreachable, CInv, RInv, TypeOK, facts
  <2>2. ProvList[idx] \in Hosts
    BY <2>1, ProvListFacts, ElementIsHost
  <2>3. SpecValue("IsProvisioned") = FALSE
    BY <2>1, <2>2, ProvSpecTable DEF CInv, RInv, ProvInv
  <2>4. SpecValue("IsProvisioned")' = SpecValue("IsProvisioned")
    BY <2>1, SpecValueUnchanged
  <2>5. seen = {SpecValue("IsProvisioned")}
    BY <2>1 DEF CInv, RunInv
  <2>6. QED
    BY <2>1, <2>3, <2>4, <2>5
<1>6. CASE ProvAllDone
  <2>1. /\ pc = "IsProvisioned" /\ idx = Len(ProvList) + 1
        /\ pc' = "idle" /\ ret' = [p |-> "IsProvisioned", v |-> TRUE]
        /\ seen' = seen /\ UNCHANGED facts
    BY <1>6 DEF ProvAllDone, facts
  <2>2. \A h \in Hosts : prov[h]
    BY <2>1, ProvListCovers, ProvListFacts DEF CInv, RInv, ProvInv
  <2>3. SpecValue("IsProvisioned") = TRUE
    BY <2>2, ProvSpecTable
  <2>4. SpecValue("IsProvisioned")' = SpecValue("IsProvisioned")
    BY <2>1, SpecValueUnchanged
  <2>5. seen = {SpecValue("IsProvisioned")}
    BY <2>1 DEF CInv, RunInv
  <2>6. QED
    BY <2>1, <2>3, <2>4, <2>5
<1>7. CASE ProvStart \/ ProvVisit
  BY <1>7 DEF ProvStart, ProvVisit
<1>8. CASE Environment
  BY <1>8 DEF Environment, NoRet
<1>9. CASE UNCHANGED vars
  <2>1. SpecValue(ret.p)' = SpecValue(ret.p)
    BY <1>9, SpecValueUnchanged DEF vars, facts
  <2>2. QED
    BY <1>9, <2>1 DEF vars
<1>10. QED
  BY <1>1, <1>2, <1>3, <1>4, <1>5, <1>6, <1>7, <1>8, <1>9 DEF Next, Call, Evaluate

\* ProvisionedCorrect: with no write overlapping a call and hosts
\* configured, every value IsProvisioned returns is the value section 4.2
\* gives it in the state of its call, its own cookie writes included.
THEOREM ProvisionedCorrectness ==
    ASSUME ~Concurrent, ~HostsEmpty
    PROVE  Spec => []ProvisionedCorrect
<1>1. Init => AnswerInv({"IsProvisioned"})
  BY DEF Init, AnswerInv, NoRet
<1>2. CInv /\ AnswerInv({"IsProvisioned"}) /\ [Next]_vars => AnswerInv({"IsProvisioned"})'
  BY ProvAnswerStep
<1>3. CInv /\ AnswerInv({"IsProvisioned"}) => ProvisionedCorrect
  BY DEF CInv, RunInv, AnswerInv, ProvisionedCorrect, Correct, NoRet
<1>4. QED
  BY <1>1, <1>2, <1>3, CInvHolds, PTL DEF Spec

=============================================================================
