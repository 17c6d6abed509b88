----------------------- MODULE ServerDiagnosticsProofs -----------------------
(***************************************************************************)
(* Proofs about the slow-log views of ServerMonitor: GetSlowLog,          *)
(* GetPFSStatementsSlowLog and the lookup of GetQueryExplainSlowLog, for   *)
(* every buffer the slow-log reader can fill.                              *)
(*                                                                         *)
(* Both views are loops over the buffer, modelled as functions over its    *)
(* prefixes (SlowLogRowsAfter, SlowPFSAfter).  The provers cannot          *)
(* instantiate the library's theorems on inductive definitions, whose      *)
(* step is an operator parameter, so the proofs carry their own: an       *)
(* induction over prefixes whose parameter is the set of counterexamples  *)
(* (PrefixInduction, from the well-foundedness of < on Nat), the           *)
(* existence of each prefix function by that induction, and the prefix     *)
(* invariant LoopInv relating the two loops, from which the three        *)
(* slow-log invariants of the run MCServerDiagnostics follow.              *)
(***************************************************************************)
EXTENDS ServerDiagnostics, FiniteSetTheorems, SequenceTheorems, TLAPS

\* The buffer is a sequence of slow-log entries.
TypeOK == buffer \in Seq(Entry)

\* The slow-log reader keeps the buffer a sequence of entries.
THEOREM TypeCorrect == Spec => []TypeOK
<1>1. ASSUME NEW b \in Buffers PROVE b \in Seq(Entry)
  <2>1. PICK n \in 0..MaxEntries : b \in [1..n -> Entry]
    BY DEF Buffers
  <2>2. n \in Nat
    BY <2>1, DiagnosticsAssumption
  <2>3. QED
    BY <2>1, <2>2
<1>2. Init => TypeOK
  BY <1>1 DEF Init, TypeOK
<1>3. TypeOK /\ [Next]_buffer => TypeOK'
  BY <1>1 DEF TypeOK, Next, ReadSlowLog
<1>4. QED
  BY <1>2, <1>3, PTL DEF Spec

\* Induction over the prefixes 0..L of a sequence: a set of counterexamples
\* that excludes 0 and is closed under predecessor is empty.
LEMMA PrefixInduction ==
    ASSUME NEW L \in Nat, NEW T \in SUBSET (0..L), 0 \notin T,
           \A n \in 1..L : n - 1 \notin T => n \notin T
    PROVE  T = {}
<1> SUFFICES ASSUME T # {} PROVE FALSE
  OBVIOUS
<1> DEFINE LT == OpToRel(<, Nat)
<1>1. IsWellFoundedOn(LT, Nat)
  BY NatLessThanWellFounded
<1>2. \E x \in T : \A y \in T : ~(<<y, x>> \in LT)
  <2>1. T \subseteq Nat
    OBVIOUS
  <2>2. QED
    BY <1>1, <2>1, WFMin
<1>3. PICK x \in T : \A y \in T : ~(<<y, x>> \in LT)
  BY <1>2
<1>4. x \in 1..L
  OBVIOUS
<1>5. <<x - 1, x>> \in LT
  BY <1>4 DEF OpToRel
<1>6. x - 1 \notin T
  BY <1>3, <1>5
<1>7. QED
  BY <1>4, <1>6

-----------------------------------------------------------------------------
(***************************************************************************)
(* The prefix functions exist: the recursive definitions are equations.    *)
(***************************************************************************)

\* One iteration of GetSlowLog's loop, on the rows g[n - 1].
RowsStep(g, n) ==
    IF buffer[n].query = EmptyQuery THEN g[n - 1]
    ELSE Append(g[n - 1], NewRow(buffer[n]))

RowsDef(g, m) == g = [n \in 0..m |-> IF n = 0 THEN << >> ELSE RowsStep(g, n)]

\* One iteration of GetPFSStatementsSlowLog's loop, on the map g[n - 1].
AggStep(g, n) == Aggregate(g[n - 1], buffer[n])

AggDef(g, m) ==
    g = [n \in 0..m |-> IF n = 0 THEN [d \in {} |-> 0] ELSE AggStep(g, n)]

LEMMA RowsExist ==
    ASSUME TypeOK
    PROVE  \A m \in 0..Len(buffer) : \E g : RowsDef(g, m)
<1> DEFINE T == {m \in 0..Len(buffer) : ~\E g : RowsDef(g, m)}
<1>1. 0 \notin T
  <2> DEFINE g0 == [n \in 0..0 |-> << >>]
  <2>1. RowsDef(g0, 0)
    BY DEF RowsDef
  <2>2. QED
    BY <2>1
<1>2. ASSUME NEW m \in 1..Len(buffer), m - 1 \notin T PROVE m \notin T
  <2>1. PICK g : RowsDef(g, m - 1)
    BY <1>2
  <2> DEFINE h == [n \in 0..m |-> IF n < m THEN g[n] ELSE RowsStep(g, m)]
  <2>2. \A n \in 1..m : RowsStep(h, n) = RowsStep(g, n)
    BY DEF RowsStep
  <2>3. \A n \in 0..(m - 1) : g[n] = IF n = 0 THEN << >> ELSE RowsStep(g, n)
    BY <2>1 DEF RowsDef
  <2>4. RowsDef(h, m)
    BY <2>2, <2>3 DEF RowsDef
  <2>5. QED
    BY <2>4
<1>3. T = {}
  <2>1. Len(buffer) \in Nat /\ T \subseteq 0..Len(buffer)
    BY DEF TypeOK
  <2>2. \A n \in 1..Len(buffer) : n - 1 \notin T => n \notin T
    BY <1>2
  <2>3. QED
    BY <1>1, <2>1, <2>2, PrefixInduction
<1>4. QED
  BY <1>3

\* GetSlowLog's loop, one iteration per entry.
LEMMA RowsEquation ==
    ASSUME TypeOK
    PROVE  RowsDef(SlowLogRowsAfter, Len(buffer))
<1>1. \E g : RowsDef(g, Len(buffer))
  BY RowsExist
<1>2. QED
  BY <1>1 DEF RowsDef, RowsStep, SlowLogRowsAfter

LEMMA AggExist ==
    ASSUME TypeOK
    PROVE  \A m \in 0..Len(buffer) : \E g : AggDef(g, m)
<1> DEFINE T == {m \in 0..Len(buffer) : ~\E g : AggDef(g, m)}
<1>1. 0 \notin T
  <2> DEFINE g0 == [n \in 0..0 |-> [d \in {} |-> 0]]
  <2>1. AggDef(g0, 0)
    BY DEF AggDef
  <2>2. QED
    BY <2>1
<1>2. ASSUME NEW m \in 1..Len(buffer), m - 1 \notin T PROVE m \notin T
  <2>1. PICK g : AggDef(g, m - 1)
    BY <1>2
  <2> DEFINE h == [n \in 0..m |-> IF n < m THEN g[n] ELSE AggStep(g, m)]
  <2>2. \A n \in 1..m : AggStep(h, n) = AggStep(g, n)
    BY DEF AggStep
  <2>3. \A n \in 0..(m - 1) :
          g[n] = IF n = 0 THEN [d \in {} |-> 0] ELSE AggStep(g, n)
    BY <2>1 DEF AggDef
  <2>4. AggDef(h, m)
    BY <2>2, <2>3 DEF AggDef
  <2>5. QED
    BY <2>4
<1>3. T = {}
  <2>1. Len(buffer) \in Nat /\ T \subseteq 0..Len(buffer)
    BY DEF TypeOK
  <2>2. \A n \in 1..Len(buffer) : n - 1 \notin T => n \notin T
    BY <1>2
  <2>3. QED
    BY <1>1, <2>1, <2>2, PrefixInduction
<1>4. QED
  BY <1>3

\* GetPFSStatementsSlowLog's loop, one iteration per entry.
LEMMA AggEquation ==
    ASSUME TypeOK
    PROVE  AggDef(SlowPFSAfter, Len(buffer))
<1>1. \E g : AggDef(g, Len(buffer))
  BY AggExist
<1>2. QED
  BY <1>1 DEF AggDef, AggStep, SlowPFSAfter

-----------------------------------------------------------------------------
(***************************************************************************)
(* Lemmas about the operators of one iteration.                            *)
(***************************************************************************)

\* The rows GetSlowLog can produce, and the fields of a digest row.
RowSet == {NewRow(e) : e \in Entry}
RowFields == {"digest", "query", "count", "total", "max"}

\* The slow query of an entry, as a row.
LEMMA NewRowFacts ==
    ASSUME NEW e \in Entry
    PROVE  /\ NewRow(e) \in RowSet
           /\ DOMAIN NewRow(e) = RowFields
           /\ NewRow(e).digest = DigestOf[e.query]
           /\ NewRow(e).query = e.query
           /\ NewRow(e).count = 1
           /\ NewRow(e).max = e.time
           /\ NewRow(e).max \in Nat
BY DiagnosticsAssumption DEF NewRow, RowSet, RowFields, Entry

\* A later slow query of a digest: the count goes up by one, the maximum is
\* the larger time, the digest and the first query are kept.
LEMMA AddRowFacts ==
    ASSUME NEW val, DOMAIN val = RowFields, NEW e \in Entry
    PROVE  /\ DOMAIN AddRow(val, e) = RowFields
           /\ AddRow(val, e).digest = val.digest
           /\ AddRow(val, e).query = val.query
           /\ AddRow(val, e).count = val.count + 1
           /\ AddRow(val, e).max = IF e.time > val.max THEN e.time ELSE val.max
BY DEF AddRow, RowFields

\* The rows of one digest are a finite set of positions.
LEMMA MineFinite ==
    ASSUME NEW rows \in Seq(RowSet), NEW d
    PROVE  IsFiniteSet({i \in 1..Len(rows) : rows[i].digest = d})
<1>1. IsFiniteSet(1..Len(rows))
  BY FS_Interval
<1>2. QED
  BY <1>1, FS_Subset

\* Every row's maximum time is a natural number.
LEMMA RowMaxNat ==
    ASSUME NEW rows \in Seq(RowSet)
    PROVE  \A i \in 1..Len(rows) : rows[i].max \in Nat
<1> SUFFICES ASSUME NEW i \in 1..Len(rows) PROVE rows[i].max \in Nat
  OBVIOUS
<1>1. PICK e \in Entry : rows[i] = NewRow(e)
  BY DEF RowSet
<1>2. QED
  BY <1>1, NewRowFacts

\* The positions of the rows of digest d in rows (GetSlowLog's loop, before
\* its sort), and the digest of the j-th entry of the buffer.
Mine(rows, d) == {i \in 1..Len(rows) : rows[i].digest = d}
DigestAt(j) == DigestOf[buffer[j].query]

\* GetSlowLog's loop appends a row for an entry with a text.
NextRows(rows, n) ==
    IF buffer[n].query = EmptyQuery THEN rows
    ELSE Append(rows, NewRow(buffer[n]))

\* After n iterations of both loops, the map's row of digest d summarizes
\* the loop's rows of d: their number, the largest time, the text of the
\* first; and its text is that of the first entry of d in the buffer.
DigestInv(acc, rows, n, d) ==
    LET v == acc[d] IN
    /\ DOMAIN v = RowFields
    /\ v.digest = d
    /\ v.count = Cardinality(Mine(rows, d))
    /\ v.max \in Nat
    /\ \A i \in Mine(rows, d) : rows[i].max <= v.max
    /\ \E i \in Mine(rows, d) : rows[i].max = v.max
    /\ \E i \in Mine(rows, d) : /\ rows[i].query = v.query
                                /\ \A j \in Mine(rows, d) : i <= j
    /\ \E i \in 1..n : /\ DigestAt(i) = d
                       /\ buffer[i].query = v.query
                       /\ \A j \in 1..(i - 1) : DigestAt(j) # d

\* After n iterations the map has a key for exactly the digests of the rows
\* GetSlowLog's loop has appended, every entry with a text so far included.
LoopInv(acc, rows, n) ==
    /\ rows \in Seq(RowSet)
    /\ DOMAIN acc = {rows[i].digest : i \in 1..Len(rows)}
    /\ \A j \in 1..n : buffer[j].query # EmptyQuery => DigestAt(j) \in DOMAIN acc
    /\ \A d \in DOMAIN acc : DigestInv(acc, rows, n, d)

\* Appending the row of an entry s to xs keeps the earlier rows and adds the
\* new position to the rows of s's digest only.
LEMMA MineAppend ==
    ASSUME NEW xs \in Seq(RowSet), NEW s \in Entry, NEW d
    PROVE  /\ Append(xs, NewRow(s)) \in Seq(RowSet)
           /\ Len(Append(xs, NewRow(s))) = Len(xs) + 1
           /\ \A i \in 1..Len(xs) : Append(xs, NewRow(s))[i] = xs[i]
           /\ Append(xs, NewRow(s))[Len(xs) + 1] = NewRow(s)
           /\ DigestOf[s.query] = d =>
                 Mine(Append(xs, NewRow(s)), d) = Mine(xs, d) \cup {Len(xs) + 1}
           /\ DigestOf[s.query] # d =>
                 Mine(Append(xs, NewRow(s)), d) = Mine(xs, d)
<1>1. NewRow(s) \in RowSet /\ NewRow(s).digest = DigestOf[s.query] /\ Len(xs) \in Nat
  BY NewRowFacts
<1>2. QED
  BY <1>1 DEF Mine

\* A digest whose row and rows an iteration leaves alone keeps DigestInv.
LEMMA DigestInvKept ==
    ASSUME NEW acc, NEW rows, NEW acc2, NEW rows2, NEW n \in Nat, NEW d,
           DigestInv(acc, rows, n, d),
           acc2[d] = acc[d],
           Mine(rows2, d) = Mine(rows, d),
           \A i \in Mine(rows, d) : rows2[i] = rows[i]
    PROVE  DigestInv(acc2, rows2, n + 1, d)
<1>1. \A i \in 1..n : i \in 1..(n + 1)
  OBVIOUS
<1>2. QED
  BY <1>1 DEF DigestInv

\* An entry with no text: both loops skip it.
LEMMA StepSkip ==
    ASSUME TypeOK, NEW n \in 1..Len(buffer), NEW acc, NEW rows,
           LoopInv(acc, rows, n - 1), buffer[n].query = EmptyQuery
    PROVE  LoopInv(Aggregate(acc, buffer[n]), NextRows(rows, n), n)
<1>1. Aggregate(acc, buffer[n]) = acc /\ NextRows(rows, n) = rows
  BY DEF Aggregate, NextRows
<1>2. \A d \in DOMAIN acc : DigestInv(acc, rows, n, d)
  <2>1. n - 1 \in Nat /\ (n - 1) + 1 = n
    BY DEF TypeOK
  <2>2. QED
    BY <2>1, DigestInvKept DEF LoopInv
<1>3. QED
  BY <1>1, <1>2 DEF LoopInv

\* An entry with a text whose digest is in the map: its row is updated by
\* AddRow and GetSlowLog appends a row of that digest.
LEMMA StepOld ==
    ASSUME TypeOK, NEW n \in 1..Len(buffer), NEW acc, NEW rows,
           LoopInv(acc, rows, n - 1), buffer[n].query # EmptyQuery,
           DigestAt(n) \in DOMAIN acc
    PROVE  LoopInv(Aggregate(acc, buffer[n]), NextRows(rows, n), n)
<1> DEFINE e == buffer[n]
           d0 == DigestAt(n)
           acc2 == [acc EXCEPT ![d0] = AddRow(acc[d0], e)]
           rows2 == Append(rows, NewRow(e))
           m == Len(rows) + 1
<1>0. e \in Entry /\ n - 1 \in Nat /\ (n - 1) + 1 = n
  BY DEF TypeOK
<1>1. Aggregate(acc, e) = acc2 /\ NextRows(rows, n) = rows2
  BY DEF Aggregate, NextRows, DigestAt
<1>2. rows \in Seq(RowSet)
  BY DEF LoopInv
<1>3. /\ rows2 \in Seq(RowSet)
      /\ Len(rows2) = m
      /\ \A i \in 1..Len(rows) : rows2[i] = rows[i]
      /\ rows2[m] = NewRow(e)
      /\ \A d : Mine(rows2, d) = IF d0 = d THEN Mine(rows, d) \cup {m}
                                 ELSE Mine(rows, d)
  <2>1. d0 = DigestOf[e.query]
    BY DEF DigestAt
  <2>2. ASSUME NEW d
        PROVE  Mine(rows2, d) = IF d0 = d THEN Mine(rows, d) \cup {m}
                                ELSE Mine(rows, d)
    <3>1. CASE d0 = d
      BY <1>0, <1>2, <2>1, <3>1, MineAppend
    <3>2. CASE d0 # d
      BY <1>0, <1>2, <2>1, <3>2, MineAppend
    <3>3. QED
      BY <3>1, <3>2
  <2>3. QED
    BY <1>0, <1>2, <2>2, MineAppend
<1>4. NewRow(e).digest = d0 /\ NewRow(e).max = e.time /\ e.time \in Nat
  BY <1>0, NewRowFacts DEF DigestAt
<1>5. DOMAIN acc2 = {rows2[i].digest : i \in 1..Len(rows2)}
  <2>1. DOMAIN acc2 = DOMAIN acc
    OBVIOUS
  <2>2. DOMAIN acc = {rows[i].digest : i \in 1..Len(rows)}
    BY DEF LoopInv
  <2>3. {rows2[i].digest : i \in 1..Len(rows2)}
          = {rows[i].digest : i \in 1..Len(rows)} \cup {d0}
    BY <1>2, <1>3, <1>4
  <2>4. QED
    BY <2>1, <2>2, <2>3
<1>6. \A j \in 1..n : buffer[j].query # EmptyQuery => DigestAt(j) \in DOMAIN acc2
  BY DEF LoopInv
<1>7. ASSUME NEW d \in DOMAIN acc, d # d0 PROVE DigestInv(acc2, rows2, n, d)
  <2>1. DigestInv(acc, rows, n - 1, d)
    BY DEF LoopInv
  <2>2. Mine(rows2, d) = Mine(rows, d) /\ acc2[d] = acc[d]
    BY <1>3, <1>7
  <2>3. \A i \in Mine(rows, d) : rows2[i] = rows[i]
    BY <1>3 DEF Mine
  <2>4. QED
    BY <1>0, <2>1, <2>2, <2>3, DigestInvKept
<1>8. DigestInv(acc2, rows2, n, d0)
  <2> DEFINE v == acc[d0]
             w == acc2[d0]
             M == Mine(rows, d0)
  <2>1. DigestInv(acc, rows, n - 1, d0)
    BY DEF LoopInv
  <2>2. w = AddRow(v, e) /\ DOMAIN v = RowFields
    BY <2>1 DEF DigestInv
  <2>3. /\ DOMAIN w = RowFields
        /\ w.digest = v.digest
        /\ w.query = v.query
        /\ w.count = v.count + 1
        /\ w.max = IF e.time > v.max THEN e.time ELSE v.max
    BY <1>0, <2>2, AddRowFacts
  <2>4. Mine(rows2, d0) = M \cup {m}
    BY <1>3, Zenon
  <2>5. m \notin M /\ IsFiniteSet(M)
    <3>1. m \notin M
      BY <1>2 DEF Mine
    <3>2. IsFiniteSet(M)
      BY <1>2, MineFinite DEF Mine
    <3>3. QED
      BY <3>1, <3>2
  <2>6. Cardinality(M \cup {m}) = Cardinality(M) + 1
    BY <2>5, FS_AddElement
  <2>7. \A i \in M : /\ rows2[i] = rows[i]
                     /\ i \in Nat /\ i < m
                     /\ rows[i].max \in Nat
    BY <1>2, <1>3, RowMaxNat DEF Mine
  <2>8. /\ v.count = Cardinality(M)
        /\ v.max \in Nat
        /\ \A i \in M : rows[i].max <= v.max
        /\ \E i \in M : rows[i].max = v.max
        /\ \E i \in M : rows[i].query = v.query /\ \A j \in M : i <= j
    BY <2>1 DEF DigestInv
  <2>9. w.count = Cardinality(Mine(rows2, d0))
    BY <2>3, <2>4, <2>6, <2>8
  <2>10. /\ w.max \in Nat
         /\ \A i \in Mine(rows2, d0) : rows2[i].max <= w.max
         /\ \E i \in Mine(rows2, d0) : rows2[i].max = w.max
    <3>1. /\ w.max = IF e.time > v.max THEN e.time ELSE v.max
          /\ rows2[m].max = e.time
          /\ m \in Mine(rows2, d0)
          /\ e.time \in Nat /\ v.max \in Nat
      BY <1>3, <1>4, <2>3, <2>4, <2>8
    <3>2. ASSUME NEW i \in Mine(rows2, d0) PROVE rows2[i].max <= w.max
      <4>1. CASE i = m
        BY <3>1, <4>1
      <4>2. CASE i \in M
        <5>1. rows2[i].max = rows[i].max /\ rows[i].max \in Nat
          BY <2>7, <4>2
        <5>2. rows[i].max <= v.max
          BY <2>8, <4>2
        <5>3. v.max <= w.max
          BY <3>1
        <5>4. QED
          BY <3>1, <5>1, <5>2, <5>3
      <4>3. QED
        BY <2>4, <4>1, <4>2
    <3>3. \E i \in Mine(rows2, d0) : rows2[i].max = w.max
      <4>1. CASE e.time > v.max
        BY <3>1, <4>1
      <4>2. CASE ~(e.time > v.max)
        <5>1. PICK i \in M : rows[i].max = v.max
          BY <2>8
        <5>2. i \in Mine(rows2, d0) /\ rows2[i] = rows[i]
          BY <5>1, <2>4, <2>7
        <5>3. QED
          BY <3>1, <4>2, <5>1, <5>2
      <4>3. QED
        BY <4>1, <4>2
    <3>4. QED
      BY <3>1, <3>2, <3>3
  <2>11. \E i \in Mine(rows2, d0) : /\ rows2[i].query = w.query
                                    /\ \A j \in Mine(rows2, d0) : i <= j
    <3>1. PICK i \in M : rows[i].query = v.query /\ \A j \in M : i <= j
      BY <2>8
    <3>2. \A j \in Mine(rows2, d0) : i <= j
      BY <1>2, <2>4, <2>7, <3>1
    <3>3. QED
      BY <2>3, <2>4, <2>7, <3>1, <3>2
  <2>12. \E i \in 1..n : /\ DigestAt(i) = d0
                         /\ buffer[i].query = w.query
                         /\ \A j \in 1..(i - 1) : DigestAt(j) # d0
    BY <1>0, <2>1, <2>3 DEF DigestInv
  <2>13. QED
    BY <2>1, <2>3, <2>9, <2>10, <2>11, <2>12 DEF DigestInv
<1>9. \A d \in DOMAIN acc2 : DigestInv(acc2, rows2, n, d)
  BY <1>7, <1>8
<1>10. LoopInv(acc2, rows2, n)
  BY <1>3, <1>5, <1>6, <1>9 DEF LoopInv
<1>11. QED
  BY <1>1, <1>10

\* An entry with a text whose digest is not in the map yet: a new row is
\* inserted for it and GetSlowLog appends the first row of that digest.
LEMMA StepNew ==
    ASSUME TypeOK, NEW n \in 1..Len(buffer), NEW acc, NEW rows,
           LoopInv(acc, rows, n - 1), buffer[n].query # EmptyQuery,
           DigestAt(n) \notin DOMAIN acc
    PROVE  LoopInv(Aggregate(acc, buffer[n]), NextRows(rows, n), n)
<1> DEFINE e == buffer[n]
           d0 == DigestAt(n)
           acc2 == [x \in DOMAIN acc \cup {d0} |->
                      IF x = d0 THEN NewRow(e) ELSE acc[x]]
           rows2 == Append(rows, NewRow(e))
           m == Len(rows) + 1
<1>0. e \in Entry /\ n - 1 \in Nat /\ (n - 1) + 1 = n /\ n \in Nat
  BY DEF TypeOK
<1>1. Aggregate(acc, e) = acc2 /\ NextRows(rows, n) = rows2
  BY DEF Aggregate, NextRows, DigestAt
<1>2. rows \in Seq(RowSet) /\ Len(rows) \in Nat
  BY DEF LoopInv
<1>3. /\ rows2 \in Seq(RowSet)
      /\ Len(rows2) = m
      /\ \A i \in 1..Len(rows) : rows2[i] = rows[i]
      /\ rows2[m] = NewRow(e)
      /\ \A d : Mine(rows2, d) = IF d0 = d THEN Mine(rows, d) \cup {m}
                                 ELSE Mine(rows, d)
  <2>1. d0 = DigestOf[e.query]
    BY DEF DigestAt
  <2>2. ASSUME NEW d
        PROVE  Mine(rows2, d) = IF d0 = d THEN Mine(rows, d) \cup {m}
                                ELSE Mine(rows, d)
    <3>1. CASE d0 = d
      BY <1>0, <1>2, <2>1, <3>1, MineAppend
    <3>2. CASE d0 # d
      BY <1>0, <1>2, <2>1, <3>2, MineAppend
    <3>3. QED
      BY <3>1, <3>2
  <2>3. QED
    BY <1>0, <1>2, <2>2, MineAppend
<1>4. /\ DOMAIN NewRow(e) = RowFields
      /\ NewRow(e).digest = d0 /\ NewRow(e).query = e.query
      /\ NewRow(e).count = 1
      /\ NewRow(e).max = e.time /\ e.time \in Nat
  BY <1>0, NewRowFacts DEF DigestAt
<1>5. DOMAIN acc = {rows[i].digest : i \in 1..Len(rows)}
  BY DEF LoopInv
<1>6. Mine(rows, d0) = {}
  BY <1>5 DEF Mine
<1>7. DOMAIN acc2 = {rows2[i].digest : i \in 1..Len(rows2)}
  <2>1. {rows2[i].digest : i \in 1..Len(rows2)}
          = {rows[i].digest : i \in 1..Len(rows)} \cup {d0}
    BY <1>2, <1>3, <1>4
  <2>2. QED
    BY <1>5, <2>1
<1>8. \A j \in 1..n : buffer[j].query # EmptyQuery => DigestAt(j) \in DOMAIN acc2
  <2>1. \A j \in 1..(n - 1) : buffer[j].query # EmptyQuery => DigestAt(j) \in DOMAIN acc
    BY DEF LoopInv
  <2>2. QED
    BY <1>0, <2>1
<1>9. ASSUME NEW d \in DOMAIN acc PROVE DigestInv(acc2, rows2, n, d)
  <2>1. DigestInv(acc, rows, n - 1, d)
    BY DEF LoopInv
  <2>2. d # d0
    BY <1>9
  <2>3. Mine(rows2, d) = Mine(rows, d) /\ acc2[d] = acc[d]
    BY <1>3, <2>2
  <2>4. \A i \in Mine(rows, d) : rows2[i] = rows[i]
    BY <1>3 DEF Mine
  <2>5. DigestInv(acc2, rows2, (n - 1) + 1, d)
    BY <1>0, <2>1, <2>3, <2>4, DigestInvKept
  <2>6. QED
    BY <1>0, <2>5
<1>10. DigestInv(acc2, rows2, n, d0)
  <2>1. acc2[d0] = NewRow(e)
    OBVIOUS
  <2>2. Mine(rows2, d0) = {m} /\ m \in Nat
    <3>1. Mine(rows2, d0) = Mine(rows, d0) \cup {m}
      BY <1>3, Zenon
    <3>2. QED
      BY <1>2, <1>6, <3>1
  <2>3. Cardinality(Mine(rows2, d0)) = 1
    BY <2>2, FS_Singleton
  <2>4. \A j \in 1..(n - 1) : DigestAt(j) # d0
    <3> SUFFICES ASSUME NEW j \in 1..(n - 1) PROVE DigestAt(j) # d0
      OBVIOUS
    <3>1. CASE buffer[j].query # EmptyQuery
      <4>1. DigestAt(j) \in DOMAIN acc
        BY <3>1 DEF LoopInv
      <4>2. QED
        BY <4>1
    <3>2. CASE buffer[j].query = EmptyQuery
      <4>1. e.query \in Queries \ {EmptyQuery}
        BY <1>0 DEF Entry
      <4>2. QED
        BY <3>2, <4>1, DiagnosticsAssumption DEF DigestAt
    <3>3. QED
      BY <3>1, <3>2
  <2>5. QED
    BY <1>0, <1>3, <1>4, <2>1, <2>2, <2>3, <2>4 DEF DigestInv
<1>11. \A d \in DOMAIN acc2 : DigestInv(acc2, rows2, n, d)
  BY <1>9, <1>10
<1>12. LoopInv(acc2, rows2, n)
  BY <1>3, <1>7, <1>8, <1>11 DEF LoopInv
<1>13. QED
  BY <1>1, <1>12

\* Both loops, run side by side over the whole buffer, keep LoopInv.
LEMMA LoopAll ==
    ASSUME TypeOK
    PROVE  \A n \in 0..Len(buffer) :
              LoopInv(SlowPFSAfter[n], SlowLogRowsAfter[n], n)
<1> DEFINE T == {n \in 0..Len(buffer) :
                   ~LoopInv(SlowPFSAfter[n], SlowLogRowsAfter[n], n)}
<1>1. /\ \A n \in 0..Len(buffer) :
           SlowPFSAfter[n] = IF n = 0 THEN [d \in {} |-> 0]
                             ELSE Aggregate(SlowPFSAfter[n - 1], buffer[n])
      /\ \A n \in 0..Len(buffer) :
           SlowLogRowsAfter[n] = IF n = 0 THEN << >>
                                 ELSE NextRows(SlowLogRowsAfter[n - 1], n)
  BY AggEquation, RowsEquation DEF AggDef, AggStep, RowsDef, RowsStep, NextRows
<1>2. 0 \notin T
  <2>1. SlowPFSAfter[0] = [d \in {} |-> 0] /\ SlowLogRowsAfter[0] = << >>
    <3>1. 0 \in 0..Len(buffer)
      BY DEF TypeOK
    <3>2. QED
      BY <1>1, <3>1
  <2>2. LoopInv([d \in {} |-> 0], << >>, 0)
    BY DEF LoopInv
  <2>3. QED
    BY <2>1, <2>2
<1>3. ASSUME NEW n \in 1..Len(buffer), n - 1 \notin T PROVE n \notin T
  <2> DEFINE acc == SlowPFSAfter[n - 1]
             rows == SlowLogRowsAfter[n - 1]
  <2>1. LoopInv(acc, rows, n - 1)
    BY <1>3 DEF TypeOK
  <2>2. SlowPFSAfter[n] = Aggregate(acc, buffer[n])
        /\ SlowLogRowsAfter[n] = NextRows(rows, n)
    BY <1>1 DEF TypeOK
  <2>3. LoopInv(Aggregate(acc, buffer[n]), NextRows(rows, n), n)
    <3>1. CASE buffer[n].query = EmptyQuery
      BY <2>1, <3>1, StepSkip
    <3>2. CASE buffer[n].query # EmptyQuery /\ DigestAt(n) \in DOMAIN acc
      BY <2>1, <3>2, StepOld
    <3>3. CASE buffer[n].query # EmptyQuery /\ DigestAt(n) \notin DOMAIN acc
      BY <2>1, <3>3, StepNew
    <3>4. QED
      BY <3>1, <3>2, <3>3
  <2>4. QED
    BY <2>2, <2>3
<1>4. T = {}
  <2>1. Len(buffer) \in Nat /\ T \subseteq 0..Len(buffer)
    BY DEF TypeOK
  <2>2. \A n \in 1..Len(buffer) : n - 1 \notin T => n \notin T
    BY <1>3
  <2>3. QED
    BY <1>2, <2>1, <2>2, PrefixInduction
<1>5. QED
  BY <1>4

-----------------------------------------------------------------------------
(***************************************************************************)
(* The three views over the whole buffer.                                  *)
(***************************************************************************)

\* The digests SlowPFSQueries has a row for, and how many rows the top-N
\* cut keeps of them.
Keys == DOMAIN SlowPFSQueries
Cut == IF Cardinality(Keys) < SlowLogLimit THEN Cardinality(Keys) ELSE SlowLogLimit

\* LoopInv once both loops have run over the whole buffer.
LEMMA FinalInv ==
    ASSUME TypeOK
    PROVE  LoopInv(SlowPFSQueries, SlowLogRows, Len(buffer))
<1>1. Len(buffer) \in 0..Len(buffer)
  BY DEF TypeOK
<1>2. QED
  BY <1>1, LoopAll DEF SlowPFSQueries, SlowLogRows

\* The map has one row per digest GetSlowLog's loop appends a row of,
\* finitely many, and the sorted rows list each of them once.
LEMMA SortedFacts ==
    ASSUME TypeOK
    PROVE  /\ Keys = {SlowLogRows[i].digest : i \in 1..Len(SlowLogRows)}
           /\ \A d \in Keys : DigestInv(SlowPFSQueries, SlowLogRows, Len(buffer), d)
           /\ IsFiniteSet(Keys) /\ Cardinality(Keys) \in Nat
           /\ SortedRows \in [1..Cardinality(Keys) -> MapRows]
           /\ \A i, j \in 1..Cardinality(Keys) : SortedRows[i] = SortedRows[j] => i = j
<1> DEFINE acc == SlowPFSQueries
           rows == SlowLogRows
           L == Len(rows)
<1>1. /\ rows \in Seq(RowSet)
      /\ Keys = {rows[i].digest : i \in 1..L}
      /\ \A d \in Keys : DigestInv(acc, rows, Len(buffer), d)
  BY FinalInv DEF LoopInv, Keys
<1>2. \A d \in Keys : acc[d].digest = d
  BY <1>1 DEF DigestInv
<1>3. IsFiniteSet(Keys)
  <2> DEFINE f == [i \in 1..L |-> rows[i].digest]
  <2>1. f \in Surjection(1..L, Keys)
    BY <1>1 DEF Surjection
  <2>2. IsFiniteSet(1..L)
    BY <1>1, FS_Interval
  <2>3. QED
    BY <2>1, <2>2, FS_Surjection
<1>4. IsFiniteSet(MapRows) /\ Cardinality(MapRows) = Cardinality(Keys)
  <2> DEFINE g == [d \in Keys |-> acc[d]]
  <2>1. g \in Bijection(Keys, MapRows)
    BY <1>2 DEF Bijection, Injection, Surjection, IsInjective, MapRows, Keys
  <2>2. ExistsBijection(Keys, MapRows)
    BY <2>1 DEF ExistsBijection
  <2>3. QED
    BY <1>3, <2>2, FS_Bijection
<1>5. Cardinality(MapRows) \in Nat /\ ExistsBijection(1..Cardinality(MapRows), MapRows)
  BY <1>4, FS_CardinalityType
<1>6. \E f \in [1..Cardinality(MapRows) -> MapRows] :
         \A i, j \in DOMAIN f : f[i] = f[j] => i = j
  BY <1>5 DEF ExistsBijection, Bijection, Injection, IsInjective
<1>7. /\ SortedRows \in [1..Cardinality(MapRows) -> MapRows]
      /\ \A i, j \in 1..Cardinality(MapRows) : SortedRows[i] = SortedRows[j] => i = j
  BY <1>6 DEF SortedRows
<1>8. QED
  BY <1>1, <1>3, <1>4, <1>5, <1>7

\* GetPFSStatementsSlowLog returns the first Cut sorted rows.
LEMMA OutFacts ==
    ASSUME TypeOK
    PROVE  /\ Cut \in 0..Cardinality(Keys)
           /\ GetPFSStatementsSlowLog = [k \in 1..Cut |-> SortedRows[k]]
<1> DEFINE N == Cardinality(Keys)
           kept == {k \in 1..Len(SortedRows) : Keep(k - 1)}
<1>1. N \in Nat /\ SortedRows \in [1..N -> MapRows]
  BY SortedFacts
<1>2. Len(SortedRows) = N
  <2>1. SortedRows \in Seq(MapRows)
    BY <1>1, SeqDef
  <2>2. DOMAIN SortedRows = 1..Len(SortedRows) /\ Len(SortedRows) \in Nat
    BY <2>1, LenProperties
  <2>3. QED
    BY <1>1, <2>2
<1>3. Cut \in 0..N
  BY <1>1, DiagnosticsAssumption DEF Cut
<1>4. kept = 1..Cut
  BY <1>2, <1>3, DiagnosticsAssumption DEF Keep, Cut
<1>5. Cardinality(kept) = Cut
  <2>1. Cut \in Nat
    BY <1>1, <1>3
  <2>2. Cardinality(1..Cut) = IF 1 > Cut THEN 0 ELSE Cut - 1 + 1
    BY <2>1, FS_Interval
  <2>3. Cardinality(1..Cut) = Cut
    BY <2>1, <2>2
  <2>4. QED
    BY <1>4, <2>3, Zenon
<1>6. QED
  BY <1>3, <1>5 DEF GetPFSStatementsSlowLog

\* Each row the cut returns is the map's row of a digest GetSlowLog lists.
LEMMA OutRow ==
    ASSUME TypeOK, NEW k \in DOMAIN GetPFSStatementsSlowLog
    PROVE  \E d \in Keys : /\ GetPFSStatementsSlowLog[k] = SlowPFSQueries[d]
                          /\ GetPFSStatementsSlowLog[k].digest = d
                          /\ DigestInv(SlowPFSQueries, SlowLogRows, Len(buffer), d)
<1>1. k \in 1..Cardinality(Keys) /\ GetPFSStatementsSlowLog[k] = SortedRows[k]
  <2>1. Cardinality(Keys) \in Nat
    BY SortedFacts
  <2>2. QED
    BY <2>1, OutFacts
<1>2. SortedRows[k] \in MapRows
  BY <1>1, SortedFacts
<1>3. PICK d \in Keys : SortedRows[k] = SlowPFSQueries[d]
  BY <1>2 DEF MapRows, Keys
<1>4. DigestInv(SlowPFSQueries, SlowLogRows, Len(buffer), d)
  BY SortedFacts
<1>5. SlowPFSQueries[d].digest = d
  BY <1>4 DEF DigestInv
<1>6. QED
  BY <1>1, <1>3, <1>4, <1>5

\* The unstable sort of GetSlowLog lists every row of its loop exactly once.
LEMMA OrderFacts ==
    ASSUME TypeOK
    PROVE  LET L == Len(SlowLogRows) IN
           /\ SlowLogRows \in Seq(RowSet)
           /\ SlowLogOrder \in [1..L -> 1..L]
           /\ \A k \in 1..L : \E i \in 1..L : SlowLogOrder[i] = k
           /\ \A i, j \in 1..L : SlowLogOrder[i] = SlowLogOrder[j] => i = j
           /\ DOMAIN GetSlowLog = 1..L
           /\ \A i \in 1..L : GetSlowLog[i] = SlowLogRows[SlowLogOrder[i]]
<1> DEFINE L == Len(SlowLogRows)
           Perm(p) == \A k \in 1..L : \E i \in 1..L :
                          /\ p[i] = k
                          /\ \A j \in 1..L : p[j] = k => j = i
<1>1. SlowLogRows \in Seq(RowSet)
  BY FinalInv DEF LoopInv
<1>2. [i \in 1..L |-> i] \in [1..L -> 1..L] /\ Perm([i \in 1..L |-> i])
  OBVIOUS
<1>3. SlowLogOrder \in [1..L -> 1..L] /\ Perm(SlowLogOrder)
  <2>1. \E p \in [1..L -> 1..L] : Perm(p)
    BY <1>2
  <2>2. QED
    BY <2>1, Zenon DEF SlowLogOrder
<1>4. \A i, j \in 1..L : SlowLogOrder[i] = SlowLogOrder[j] => i = j
  BY <1>3
<1>5. QED
  BY <1>1, <1>3, <1>4 DEF GetSlowLog

\* GetSlowLog's rows of a digest are the sorted positions of the rows Mine
\* counts in the loop's order, as many of them.
LEMMA RowsOfMine ==
    ASSUME TypeOK, NEW d
    PROVE  /\ \A i \in RowsOf(d) : /\ SlowLogOrder[i] \in Mine(SlowLogRows, d)
                                  /\ GetSlowLog[i] = SlowLogRows[SlowLogOrder[i]]
           /\ \A j \in Mine(SlowLogRows, d) :
                 \E i \in RowsOf(d) : SlowLogOrder[i] = j
           /\ Cardinality(RowsOf(d)) = Cardinality(Mine(SlowLogRows, d))
<1> DEFINE L == Len(SlowLogRows)
           p == SlowLogOrder
<1>1. /\ p \in [1..L -> 1..L]
      /\ \A k \in 1..L : \E i \in 1..L : p[i] = k
      /\ \A i, j \in 1..L : p[i] = p[j] => i = j
      /\ DOMAIN GetSlowLog = 1..L
      /\ \A i \in 1..L : GetSlowLog[i] = SlowLogRows[p[i]]
  BY OrderFacts
<1>2. RowsOf(d) = {i \in 1..L : SlowLogRows[p[i]].digest = d}
  BY <1>1 DEF RowsOf
<1>3. \A i \in RowsOf(d) : /\ p[i] \in Mine(SlowLogRows, d)
                          /\ GetSlowLog[i] = SlowLogRows[p[i]]
  BY <1>1, <1>2 DEF Mine
<1>4. \A j \in Mine(SlowLogRows, d) : \E i \in RowsOf(d) : p[i] = j
  BY <1>1, <1>2 DEF Mine
<1>5. Cardinality(RowsOf(d)) = Cardinality(Mine(SlowLogRows, d))
  <2> DEFINE f == [i \in RowsOf(d) |-> p[i]]
  <2>1. f \in Bijection(RowsOf(d), Mine(SlowLogRows, d))
    BY <1>1, <1>2, <1>3, <1>4 DEF Bijection, Injection, Surjection, IsInjective
  <2>2. IsFiniteSet(RowsOf(d))
    <3>1. IsFiniteSet(1..L)
      BY FS_Interval
    <3>2. QED
      BY <1>2, <3>1, FS_Subset
  <2>3. QED
    BY <2>1, <2>2, FS_Bijection DEF ExistsBijection
<1>6. QED
  BY <1>3, <1>4, <1>5

LEMMA DigestRowsAgreeHolds ==
    ASSUME TypeOK
    PROVE  DigestRowsAgree
<1> SUFFICES ASSUME NEW k \in DOMAIN GetPFSStatementsSlowLog
             PROVE  LET r == GetPFSStatementsSlowLog[k]
                        mine == RowsOf(r.digest)
                    IN  /\ r.count = Cardinality(mine)
                        /\ \A i \in mine : GetSlowLog[i].max <= r.max
                        /\ \E i \in mine : GetSlowLog[i].max = r.max
                        /\ \E i \in mine : GetSlowLog[i].query = r.query
  BY DEF DigestRowsAgree
<1> DEFINE r == GetPFSStatementsSlowLog[k]
<1>1. PICK d \in Keys : /\ r = SlowPFSQueries[d]
                        /\ r.digest = d
                        /\ DigestInv(SlowPFSQueries, SlowLogRows, Len(buffer), d)
  BY OutRow
<1>2. /\ \A i \in RowsOf(d) : /\ SlowLogOrder[i] \in Mine(SlowLogRows, d)
                             /\ GetSlowLog[i] = SlowLogRows[SlowLogOrder[i]]
      /\ \A j \in Mine(SlowLogRows, d) : \E i \in RowsOf(d) : SlowLogOrder[i] = j
      /\ Cardinality(RowsOf(d)) = Cardinality(Mine(SlowLogRows, d))
  BY RowsOfMine
<1>3. r.count = Cardinality(RowsOf(d))
  BY <1>1, <1>2 DEF DigestInv
<1>4. \A i \in RowsOf(d) : GetSlowLog[i].max <= r.max
  BY <1>1, <1>2 DEF DigestInv
<1>5. \E i \in RowsOf(d) : GetSlowLog[i].max = r.max
  <2>1. PICK j \in Mine(SlowLogRows, d) : SlowLogRows[j].max = r.max
    BY <1>1 DEF DigestInv
  <2>2. PICK i \in RowsOf(d) : SlowLogOrder[i] = j
    BY <1>2
  <2>3. QED
    BY <1>2, <2>1, <2>2
<1>6. \E i \in RowsOf(d) : GetSlowLog[i].query = r.query
  <2>1. PICK j \in Mine(SlowLogRows, d) : SlowLogRows[j].query = r.query
    BY <1>1 DEF DigestInv
  <2>2. PICK i \in RowsOf(d) : SlowLogOrder[i] = j
    BY <1>2
  <2>3. QED
    BY <1>2, <2>1, <2>2
<1>7. QED
  BY <1>1, <1>3, <1>4, <1>5, <1>6

LEMMA ListedDigestExplainsHolds ==
    ASSUME TypeOK
    PROVE  ListedDigestExplains
<1> SUFFICES ASSUME NEW k \in DOMAIN GetPFSStatementsSlowLog
             PROVE  GetQueryExplainSlowLog(GetPFSStatementsSlowLog[k].digest)
                      = [explain |-> GetPFSStatementsSlowLog[k].query]
  BY DEF ListedDigestExplains
<1> DEFINE r == GetPFSStatementsSlowLog[k]
           m(d) == {i \in DOMAIN buffer : DigestOf[buffer[i].query] = d}
<1>1. PICK d \in Keys : /\ r = SlowPFSQueries[d]
                        /\ r.digest = d
                        /\ DigestInv(SlowPFSQueries, SlowLogRows, Len(buffer), d)
  BY OutRow
<1>2. PICK i \in 1..Len(buffer) : /\ DigestAt(i) = d
                                  /\ buffer[i].query = r.query
                                  /\ \A j \in 1..(i - 1) : DigestAt(j) # d
  BY <1>1 DEF DigestInv
<1>3. DOMAIN buffer = 1..Len(buffer) /\ buffer[i] \in Entry
  BY DEF TypeOK
<1>4. i \in m(d) /\ \A j \in m(d) : i <= j
  BY <1>2, <1>3 DEF DigestAt
<1>5. (CHOOSE x \in m(d) : \A j \in m(d) : x <= j) = i
  BY <1>3, <1>4
<1>6. GetQueryFromSlowLogDigest(d) = r.query
  BY <1>2, <1>4, <1>5 DEF GetQueryFromSlowLogDigest
<1>7. r.query # NotFound
  BY <1>2, <1>3, DiagnosticsAssumption DEF Entry
<1>8. QED
  BY <1>1, <1>6, <1>7 DEF GetQueryExplainSlowLog

LEMMA LimitExactHolds ==
    ASSUME TypeOK
    PROVE  LimitExact
<1> DEFINE out == GetPFSStatementsSlowLog
<1>1. {GetSlowLog[i].digest : i \in DOMAIN GetSlowLog} = Keys
  <2> DEFINE L == Len(SlowLogRows)
  <2>1. /\ SlowLogOrder \in [1..L -> 1..L]
        /\ \A k \in 1..L : \E i \in 1..L : SlowLogOrder[i] = k
        /\ DOMAIN GetSlowLog = 1..L
        /\ \A i \in 1..L : GetSlowLog[i] = SlowLogRows[SlowLogOrder[i]]
    BY OrderFacts
  <2>2. Keys = {SlowLogRows[i].digest : i \in 1..L}
    BY SortedFacts
  <2>3. \A i \in DOMAIN GetSlowLog : GetSlowLog[i].digest \in Keys
    BY <2>1, <2>2
  <2>4. \A d \in Keys : \E i \in DOMAIN GetSlowLog : GetSlowLog[i].digest = d
    <3> SUFFICES ASSUME NEW d \in Keys
                 PROVE  \E i \in DOMAIN GetSlowLog : GetSlowLog[i].digest = d
      OBVIOUS
    <3>1. PICK k \in 1..L : SlowLogRows[k].digest = d
      BY <2>2
    <3>2. PICK i \in 1..L : SlowLogOrder[i] = k
      BY <2>1
    <3>3. QED
      BY <2>1, <3>1, <3>2
  <2>5. QED
    BY <2>3, <2>4
<1>2. Cut \in 0..Cardinality(Keys) /\ out = [k \in 1..Cut |-> SortedRows[k]]
  BY OutFacts
<1>3. Len(out) = Cut
  <2>1. out \in Seq(MapRows)
    <3>1. \A k \in 1..Cut : SortedRows[k] \in MapRows
      BY <1>2, SortedFacts
    <3>2. QED
      BY <1>2, <3>1, SeqDef
  <2>2. DOMAIN out = 1..Len(out) /\ Len(out) \in Nat
    BY <2>1, LenProperties
  <2>3. QED
    BY <1>2, <2>2
<1>4. \A i, j \in DOMAIN out : out[i].digest = out[j].digest => i = j
  <2> SUFFICES ASSUME NEW i \in DOMAIN out, NEW j \in DOMAIN out,
                      out[i].digest = out[j].digest
               PROVE  i = j
    OBVIOUS
  <2>1. PICK di \in Keys : out[i] = SlowPFSQueries[di] /\ out[i].digest = di
    BY OutRow
  <2>2. PICK dj \in Keys : out[j] = SlowPFSQueries[dj] /\ out[j].digest = dj
    BY OutRow
  <2>3. SortedRows[i] = SortedRows[j] /\ i \in 1..Cardinality(Keys)
                                     /\ j \in 1..Cardinality(Keys)
    <3>1. Cardinality(Keys) \in Nat
      BY SortedFacts
    <3>2. out[i] = SortedRows[i] /\ out[j] = SortedRows[j]
      BY <1>2
    <3>3. di = dj
      BY <2>1, <2>2
    <3>4. i \in 1..Cardinality(Keys) /\ j \in 1..Cardinality(Keys)
      BY <1>2, <3>1
    <3>5. QED
      BY <2>1, <2>2, <3>2, <3>3, <3>4
  <2>4. QED
    BY <2>3, SortedFacts
<1>5. QED
  BY <1>1, <1>3, <1>4 DEF LimitExact, Cut

-----------------------------------------------------------------------------
(***************************************************************************)
(* The invariants of the run MCServerDiagnostics, for every buffer the     *)
(* slow-log reader can fill and every value of the constants.              *)
(***************************************************************************)

\* Each digest row of GetPFSStatementsSlowLog counts the GetSlowLog rows of
\* its digest, carries the largest of their times and one of their texts,
\* whatever order the two unstable sorts leave the rows in.
THEOREM DigestRowsAgreeThm == Spec => []DigestRowsAgree
<1>1. TypeOK => DigestRowsAgree
  BY DigestRowsAgreeHolds
<1>2. QED
  BY <1>1, TypeCorrect, PTL

\* The top-N cut of GetPFSStatementsSlowLog returns min(digests, limit)
\* rows, each digest once.
THEOREM LimitExactThm == Spec => []LimitExact
<1>1. TypeOK => LimitExact
  BY LimitExactHolds
<1>2. QED
  BY <1>1, TypeCorrect, PTL

\* GetQueryExplainSlowLog finds, for every digest the slow-log view lists,
\* the query text that row shows.
THEOREM ListedDigestExplainsThm == Spec => []ListedDigestExplains
<1>1. TypeOK => ListedDigestExplains
  BY ListedDigestExplainsHolds
<1>2. QED
  BY <1>1, TypeCorrect, PTL

=============================================================================
