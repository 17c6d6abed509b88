------------------------- MODULE ConnManagerProofs -------------------------
(***************************************************************************)
(* Type correctness of GetNewDBConn (ConnManager), for any number of      *)
(* concurrent callers.                                                     *)
(***************************************************************************)
EXTENDS ConnManager, TLAPS

\* Every step keeps the types.
LEMMA TypeStep ==
    TypeOK /\ [Next]_vars => TypeOK'
<1> SUFFICES ASSUME TypeOK, [Next]_vars PROVE TypeOK'
  OBVIOUS
<1>. USE ConnAssumption DEF TypeOK, Goto, Labels, Dial
<1>1. CASE Rotate
  BY <1>1 DEF Rotate
<1>2. ASSUME NEW g \in Callers, Call(g) PROVE TypeOK'
  BY <1>2 DEF Call
<1>3. ASSUME NEW g \in Callers, Step(g) PROVE TypeOK'
  <2>1. CASE PgConnect(g)
    BY <2>1 DEF PgConnect
  <2>2. CASE Connect(g)
    BY <2>2 DEF Connect
  <2>3. CASE ConnectOld(g)
    BY <2>3 DEF ConnectOld
  <2>4. CASE ConnectNone(g)
    BY <2>4 DEF ConnectNone
  <2>5. ASSUME NEW from, NEW t \in Tiers, NEW to \in Labels, SetTLS(g, from, t, to)
        PROVE  TypeOK'
    BY <2>5 DEF SetTLS
  <2>6. ASSUME NEW from, NEW mid \in Labels, SetDSNRead(g, from, mid)
        PROVE  TypeOK'
    BY <2>6 DEF SetDSNRead
  <2>7. ASSUME NEW mid, NEW to \in Labels, SetDSNWrite(g, mid, to)
        PROVE  TypeOK'
    BY <2>7 DEF SetDSNWrite
  <2>8. QED
    BY <1>3, <2>1, <2>2, <2>3, <2>4, <2>5, <2>6, <2>7 DEF Step, SetDSN, Tiers
<1>4. CASE UNCHANGED vars
  BY <1>4 DEF vars
<1>5. QED
  BY <1>1, <1>2, <1>3, <1>4 DEF Next


(***************************************************************************)
(* Type correctness of every step of the callers and of the server.        *)
(***************************************************************************)
THEOREM TypeCorrect == Spec => []TypeOK
<1>1. Init => TypeOK
  BY DEF Init, TypeOK, Labels, Tiers
<1>2. QED
  BY <1>1, TypeStep, PTL DEF Spec

=============================================================================
