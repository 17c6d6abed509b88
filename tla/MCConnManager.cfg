\* One caller at a time, with TLS certificates, against a server whose
\* accepted client configurations may change at any step.
CONSTANTS
    g1 = g1
    g2 = g2
    Callers <- MCOneCaller
    HaveTLS = TRUE
    Err = Err
SPECIFICATION Spec
INVARIANTS DsnResetOnReturn LadderComplete AlertMeansOldCert
