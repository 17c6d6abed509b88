\* The running total of a digest, re-rounded to one significant digit at
\* every slow query, against the rounded sum of its query times.
CONSTANTS
    Queries <- MCQueries
    DigestOf <- MCDigestOf
    Times = {400, 900}
    MaxEntries = 3
    SlowLogLimit = 1
    NotFound = NotFound
SPECIFICATION Spec
INVARIANT TotalIsRoundedSum
