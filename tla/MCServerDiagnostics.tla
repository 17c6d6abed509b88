------------------------- MODULE MCServerDiagnostics -------------------------
(***************************************************************************)
(* ServerDiagnostics on a slow log of up to three entries: two texts of    *)
(* one digest (they differ only in a literal), a text of another digest,  *)
(* and an entry with no text.  Times of 400 ms and 900 ms never make a    *)
(* one-digit total fall on a tie.                                          *)
(***************************************************************************)
EXTENDS ServerDiagnostics, Functions

MCQueries == {"", "select 1", "select 2", "update t"}
MCDigestOf == [q \in MCQueries |->
                 CASE q = "" -> "d0"
                   [] q \in {"select 1", "select 2"} -> "dsel"
                   [] q = "update t" -> "dupd"]

\* The time of each slow query of a digest.
TimesOf(d) == [i \in RowsOf(d) |-> GetSlowLog[i].max]

\* The sum of the query times of a digest.
SumOf(d) == FoldFunction(LAMBDA t, acc : t + acc, 0, TimesOf(d))

\* Exec_time_total, as in performance_schema's statement digests that this
\* view imitates, is the digest's summed execution time, shown here to one
\* significant digit.
TotalIsRoundedSum ==
    \A k \in DOMAIN GetPFSStatementsSlowLog :
        LET r == GetPFSStatementsSlowLog[k] IN
        r.total = FormatG1(SumOf(r.digest))

=============================================================================
