\* Two concurrent callers on one server, with TLS certificates: a caller's
\* SetDSN reads TLSConfigUsed while the other has set the old certificate,
\* and assigns the DSN after the other caller's final reset.
CONSTANTS
    g1 = g1
    g2 = g2
    Callers <- MCTwoCallers
    HaveTLS = TRUE
    Err = Err
SPECIFICATION Spec
INVARIANTS DsnResetOnReturn
