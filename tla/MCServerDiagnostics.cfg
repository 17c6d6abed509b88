\* Both slow-log views, the top-N cut (one row kept of two digests) and the
\* explain lookup, over every buffer of up to three entries.
CONSTANTS
    Queries <- MCQueries
    DigestOf <- MCDigestOf
    Times = {400, 900}
    MaxEntries = 3
    SlowLogLimit = 1
    NotFound = NotFound
SPECIFICATION Spec
INVARIANTS
    DigestRowsAgree
    LimitExact
    ListedDigestExplains
