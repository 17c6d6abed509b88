\* Two concurrent callers: one caller's retries use the DSN another caller
\* has just reset, so a tier that was accepted throughout is never tried.
CONSTANTS
    g1 = g1
    g2 = g2
    Callers <- MCTwoCallers
    HaveTLS = TRUE
    Err = Err
SPECIFICATION Spec
INVARIANTS LadderComplete
