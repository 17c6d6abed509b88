---------------------- MODULE ReplicationTopologyProofs ----------------------
(***************************************************************************)
(* Proof that GetSibling is sound and complete (SiblingSound) for every    *)
(* server list, every record list each server can report and every         *)
(* channel configuration, provided server_ids are distinct.  The           *)
(* hypothesis is needed: GetSibling excludes the asking server by          *)
(* ServerID, so two servers sharing a server_id never see each other.      *)
(***************************************************************************)
EXTENDS ReplicationTopology, WellFoundedInduction, TLAPS

\* Every server of the cluster has its own server_id (MariaDB and MySQL
\* replication require it; nothing in this code checks it).
DistinctServerIDs == \A a, b \in Nodes : ServerID[a] = ServerID[b] => a = b

\* A non-empty set of positions has a first one.
LEMMA LeastExists ==
    ASSUME NEW T \in SUBSET Nat, T # {}
    PROVE  \E i \in T : \A j \in T : i <= j
<1> DEFINE LT == OpToRel(<, Nat)
<1>1. IsWellFoundedOn(LT, Nat)
  BY NatLessThanWellFounded
<1>2. \E x \in T : \A y \in T : ~(<<y, x>> \in LT)
  BY <1>1, WFMin
<1>3. PICK x \in T : \A y \in T : ~(<<y, x>> \in LT)
  BY <1>2
<1>4. \A y \in T : <<y, x>> \in Nat \X Nat
  OBVIOUS
<1>5. \A y \in T : ~(y < x)
  BY <1>3, <1>4 DEF OpToRel
<1>6. QED
  BY <1>5

\* SiblingSound holds of whatever the servers' record lists are.
LEMMA SiblingSoundAlways ==
    ASSUME DistinctServerIDs
    PROVE  SiblingSound
<1> SUFFICES ASSUME NEW n \in Nodes
             PROVE  /\ GetSibling(n) = Nil <=> SpecSiblings(n) = {}
                    /\ GetSibling(n) # Nil => GetSibling(n) \in SpecSiblings(n)
  BY DEF SiblingSound
<1> DEFINE cand == {i \in 1..Len(Servers) : SiblingCandidate(n, i)}
<1>1. CASE SourceStatus(n) = NoStatus
  BY <1>1 DEF GetSibling, SpecSiblings
<1>2. CASE SourceStatus(n) # NoStatus
  <2>1. \A i \in 1..Len(Servers) : Servers[i] \in Nodes
    BY DEF Nodes
  <2>2. \A i \in 1..Len(Servers) : i \in cand <=> Servers[i] \in SpecSiblings(n)
    BY <1>2, <2>1 DEF SiblingCandidate, SpecSiblings, DistinctServerIDs
  <2>3. SpecSiblings(n) = {} <=> cand = {}
    <3>1. SpecSiblings(n) \subseteq Nodes
      BY <1>2 DEF SpecSiblings
    <3>2. QED
      BY <2>2, <3>1 DEF Nodes
  <2>4. CASE cand = {}
    BY <1>2, <2>3, <2>4 DEF GetSibling
  <2>5. CASE cand # {}
    <3>1. \E i \in cand : \A j \in cand : i <= j
      <4>1. cand \in SUBSET Nat
        OBVIOUS
      <4>2. QED
        BY <2>5, <4>1, LeastExists
    <3>2. GetSibling(n) = Servers[CHOOSE i \in cand : \A j \in cand : i <= j]
      BY <1>2, <2>5 DEF GetSibling
    <3>3. (CHOOSE i \in cand : \A j \in cand : i <= j) \in cand
      BY <3>1
    <3>4. GetSibling(n) \in SpecSiblings(n)
      BY <2>2, <3>2, <3>3
    <3>5. GetSibling(n) # Nil
      BY <3>4, TopologyAssumption DEF SpecSiblings
    <3>6. QED
      BY <2>3, <2>5, <3>4, <3>5
  <2>6. QED
    BY <2>4, <2>5
<1>3. QED
  BY <1>1, <1>2

\* SiblingSound: with distinct server_ids, in every state the monitor
\* reaches, GetSibling returns a server exactly when spec.md 4.3 says n has
\* a sibling, and what it returns is one.
THEOREM SiblingSoundness ==
    ASSUME DistinctServerIDs
    PROVE  Spec => []SiblingSound
<1>1. SiblingSound
  BY SiblingSoundAlways
<1>2. QED
  BY <1>1, PTL

=============================================================================
