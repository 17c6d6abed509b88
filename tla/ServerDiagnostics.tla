-------------------------- MODULE ServerDiagnostics --------------------------
(***************************************************************************)
(* The diagnostics accessors of ServerMonitor (src/cluster/srv_get.go)     *)
(* that compute something from what the monitor collected:                 *)
(*   - GetPFSStatementsSlowLog, which folds the slow-log buffer into one   *)
(*     row per query digest (count, running total, maximum), sorts the     *)
(*     rows and keeps the first 50;                                        *)
(*   - GetSlowLog, one row per slow query;                                 *)
(*   - GetQueryFromSlowLogDigest / GetQueryFromPFSDigest and the explain   *)
(*     and analyze calls built on them;                                    *)
(*   - GetStatusDelta, the change of each numeric status counter between   *)
(*     two polls.                                                          *)
(*                                                                         *)
(* A slow-log entry is abstracted to its query text and its query time in  *)
(* milliseconds; its digest is DigestOf[query] (queries that differ only   *)
(* in literals share a digest).  Times are kept as integers of ms: the     *)
(* code's seconds are ms / 1000, and strconv.FormatFloat(x, 'g', 1, 64)    *)
(* keeps one significant digit, which is the same rounding of the ms       *)
(* value (FormatG1).  The buffer is filled by the slow-log reader outside  *)
(* src/; the model lets it hold any list of up to MaxEntries entries.      *)
(***************************************************************************)
EXTENDS Integers, Sequences, FiniteSets

CONSTANTS
    Queries,       \* the query texts an entry may carry; "" is a parse with no query
    DigestOf,      \* the digest of each query text
    Times,         \* query times, in ms
    MaxEntries,    \* the most entries the buffer holds in the model
    SlowLogLimit,  \* the "if i < 50" cut of GetPFSStatementsSlowLog
    NotFound       \* the "digest not found" error

\* A slow-log entry parsed with no query text.
EmptyQuery == ""

ASSUME DiagnosticsAssumption ==
    /\ EmptyQuery \in Queries
    /\ DigestOf \in [Queries -> STRING]
    \* a digest hashes the normalized text: no query normalizes to ""
    /\ \A q \in Queries \ {EmptyQuery} : DigestOf[q] # DigestOf[EmptyQuery]
    /\ Times \subseteq Nat
    /\ MaxEntries \in Nat /\ SlowLogLimit \in Nat
    \* the lookup's "digest not found" error is not a query text
    /\ NotFound \notin Queries

\* Query times are positive and at most 10^8 ms (FormatG1 rounds below 10^9).
ASSUME TimesAssumption == Times \subseteq 1..10^8

Entry == [query : Queries, time : Times]

\* SlowLog.Buffer
Buffers == UNION {[1..n -> Entry] : n \in 0..MaxEntries}

VARIABLE buffer  \* ServerMonitor.SlowLog.Buffer

Init == buffer \in Buffers

\* The slow-log reader replaces the buffer's content.
ReadSlowLog ==
    \E b \in Buffers :
        /\ b # buffer
        /\ buffer' = b

Next == ReadSlowLog

Spec == Init /\ [][Next]_buffer

-----------------------------------------------------------------------------
(***************************************************************************)
(* The accessors.                                                          *)
(***************************************************************************)

\* strconv.FormatFloat(v / 1000, 'g', 1, 64) read back by ParseFloat, in ms:
\* v rounded to one significant digit, a tie to even.
FormatG1(v) ==
    LET p == CHOOSE p \in {10^k : k \in 0..8} : p <= v /\ v < 10 * p
        q == v \div p
        r == v % p
    IN  p * (IF 2 * r > p \/ (2 * r = p /\ q % 2 = 1) THEN q + 1 ELSE q)

\* The nval of a slow query: Exec_count 1, its time as Exec_time_total and
\* Exec_time_max (Exec_time_avg_ms, Rows_*, Last_seen are not modelled).
NewRow(s) ==
    [digest |-> DigestOf[s.query], query |-> s.query, count |-> 1,
     total |-> FormatG1(s.time), max |-> s.time]

\* Mutant: Exec_count is not incremented.
AddRowNoCount(val, s) ==
    [val EXCEPT !.total = FormatG1(s.time + @),
                !.max = IF s.time > @ THEN s.time ELSE @]

\* A later slow query of a digest already seen: Exec_count + 1, the total
\* re-formatted from the parsed total plus this time, the maximum kept.
AddRow(val, s) ==
    [val EXCEPT !.count = @ + 1,
                !.total = FormatG1(s.time + @),
                !.max = IF s.time > @ THEN s.time ELSE @]

\* One iteration of "for _, s := range server.SlowLog.Buffer" over the map
\* SlowPFSQueries, keyed by digest.
Aggregate(acc, s) ==
    IF s.query = EmptyQuery THEN acc
    ELSE LET d == DigestOf[s.query] IN
         IF d \in DOMAIN acc THEN [acc EXCEPT ![d] = AddRow(@, s)]
         ELSE [x \in DOMAIN acc \cup {d} |-> IF x = d THEN NewRow(s) ELSE acc[x]]

\* SlowPFSQueries after the first n iterations of the loop.
SlowPFSAfter[n \in 0..Len(buffer)] ==
    IF n = 0 THEN [d \in {} |-> 0]
    ELSE Aggregate(SlowPFSAfter[n - 1], buffer[n])

SlowPFSQueries == SlowPFSAfter[Len(buffer)]

\* for _, v := range SlowPFSQueries { rows = append(rows, v) }
MapRows == {SlowPFSQueries[d] : d \in DOMAIN SlowPFSQueries}

\* sort.Sort(dbhelper.PFSQuerySorter(rows)): the sorter is outside src/, so
\* the rows are listed, each once, in some fixed order.
SortedRows ==
    CHOOSE f \in [1..Cardinality(MapRows) -> MapRows] :
        \A i, j \in DOMAIN f : f[i] = f[j] => i = j

\* Mutant: the cut keeps one row too many.
KeepOffByOne(i) == i <= SlowLogLimit

\* "if i < 50 { limits = append(limits, v) }", i counting from 0.
Keep(i) == i < SlowLogLimit

GetPFSStatementsSlowLog ==
    LET kept == {k \in 1..Len(SortedRows) : Keep(k - 1)} IN
    [k \in 1..Cardinality(kept) |-> SortedRows[k]]

\* GetSlowLog's rows after the first n iterations of its loop: a row is
\* appended for each slow query with a text.
SlowLogRowsAfter[n \in 0..Len(buffer)] ==
    IF n = 0 THEN << >>
    ELSE IF buffer[n].query = EmptyQuery THEN SlowLogRowsAfter[n - 1]
    ELSE Append(SlowLogRowsAfter[n - 1], NewRow(buffer[n]))

SlowLogRows == SlowLogRowsAfter[Len(buffer)]

\* sort.Sort(dbhelper.PFSQuerySorter(rows)): the sorter is outside src/ and
\* sort.Sort is not stable, so the rows come back in some order that lists
\* each of them exactly once.
SlowLogOrder ==
    LET L == Len(SlowLogRows) IN
    CHOOSE p \in [1..L -> 1..L] :
        \A k \in 1..L : \E i \in 1..L : /\ p[i] = k
                                     /\ \A j \in 1..L : p[j] = k => j = i

\* GetSlowLog returns the sorted rows.
GetSlowLog == [i \in 1..Len(SlowLogRows) |-> SlowLogRows[SlowLogOrder[i]]]

\* Mutant: the lookup returns the last entry of the digest.
GetQueryFromSlowLogDigestLast(digest) ==
    LET m == {i \in DOMAIN buffer : DigestOf[buffer[i].query] = digest} IN
    IF m = {} THEN NotFound
    ELSE buffer[CHOOSE i \in m : \A j \in m : j <= i].query

\* GetQueryFromSlowLogDigest: the query of the first entry of the digest
\* (the schema, returned with it, is not modelled).
GetQueryFromSlowLogDigest(digest) ==
    LET m == {i \in DOMAIN buffer : DigestOf[buffer[i].query] = digest} IN
    IF m = {} THEN NotFound
    ELSE buffer[CHOOSE i \in m : \A j \in m : i <= j].query

\* GetQueryExplainSlowLog / GetQueryAnalyzeSlowLog: the lookup's error is
\* returned, else the plan of the query (dbhelper, outside src/) as the
\* query it was asked for.
GetQueryExplainSlowLog(digest) ==
    IF GetQueryFromSlowLogDigest(digest) = NotFound THEN NotFound
    ELSE [explain |-> GetQueryFromSlowLogDigest(digest)]

GetQueryAnalyzeSlowLog(digest) ==
    IF GetQueryFromSlowLogDigest(digest) = NotFound THEN NotFound
    ELSE [analyze |-> GetQueryFromSlowLogDigest(digest)]

\* GetQueryFromPFSDigest over server.PFSQueries, a sequence of
\* [digest, query] rows, and the explain and analyze calls built on it.
GetQueryFromPFSDigest(pfs, digest) ==
    LET m == {i \in DOMAIN pfs : pfs[i].digest = digest} IN
    IF m = {} THEN NotFound
    ELSE pfs[CHOOSE i \in m : \A j \in m : i <= j].query

GetQueryExplainPFS(pfs, digest) ==
    IF GetQueryFromPFSDigest(pfs, digest) = NotFound THEN NotFound
    ELSE [explain |-> GetQueryFromPFSDigest(pfs, digest)]

GetQueryAnalyzePFS(pfs, digest) ==
    IF GetQueryFromPFSDigest(pfs, digest) = NotFound THEN NotFound
    ELSE [analyze |-> GetQueryFromPFSDigest(pfs, digest)]

\* strconv.ParseInt(v, 10, 64) succeeds on a numeral; a status value that
\* is not a number (ON, a version string) or a key missing from the map
\* ("") fails.
ParsesInt(m, k) == k \in DOMAIN m /\ m[k] \in Nat

\* GetStatusDelta(status = server.Status, prev = server.PrevStatus): each
\* counter numeric in both polls whose value changed, with now - prev.
GetStatusDelta(status, prev) ==
    {[name |-> k, value |-> status[k] - prev[k]] :
        k \in {k \in DOMAIN status :
                 ParsesInt(status, k) /\ ParsesInt(prev, k) /\ prev[k] - status[k] # 0}}

-----------------------------------------------------------------------------
(***************************************************************************)
(* Properties.                                                             *)
(***************************************************************************)

\* The slow queries of one digest, as GetSlowLog lists them.
RowsOf(d) == {i \in DOMAIN GetSlowLog : GetSlowLog[i].digest = d}

\* The two slow-log views agree, whatever order either sort leaves the rows
\* in: each digest row of GetPFSStatementsSlowLog counts the GetSlowLog rows
\* of its digest, carries the largest of their times as its maximum, and
\* shows the text of one of them as its query.
DigestRowsAgree ==
    \A k \in DOMAIN GetPFSStatementsSlowLog :
        LET r == GetPFSStatementsSlowLog[k]
            mine == RowsOf(r.digest)
        IN  /\ r.count = Cardinality(mine)
            /\ \A i \in mine : GetSlowLog[i].max <= r.max
            /\ \E i \in mine : GetSlowLog[i].max = r.max
            /\ \E i \in mine : GetSlowLog[i].query = r.query

\* The top-N cut of GetPFSStatementsSlowLog returns SlowLogLimit rows, or
\* every digest when there are fewer, each digest once.
LimitExact ==
    LET digests == {GetSlowLog[i].digest : i \in DOMAIN GetSlowLog}
        out == GetPFSStatementsSlowLog
    IN  /\ Len(out) = IF Cardinality(digests) < SlowLogLimit
                      THEN Cardinality(digests) ELSE SlowLogLimit
        /\ \A i, j \in DOMAIN out : out[i].digest = out[j].digest => i = j

\* A digest the slow-log view lists can be explained: the lookup that
\* GetQueryExplainSlowLog makes finds the query the row shows.
ListedDigestExplains ==
    \A k \in DOMAIN GetPFSStatementsSlowLog :
        LET r == GetPFSStatementsSlowLog[k] IN
        GetQueryExplainSlowLog(r.digest) = [explain |-> r.query]

=============================================================================
