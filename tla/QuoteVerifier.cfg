\* Every list of up to three of nine certificates; every platform under every
\* list of up to two of six TCB levels; every CRL of up to three entries.
SPECIFICATION FairSpec
CONSTANTS
    Certs <- AllCerts
    Pinned <- Roots
    Calls <- AllCalls
    Components <- TwoComponents
    TopSvn = 2
INVARIANTS
    VerifierInv
    AcceptedIsTrusted
    SevAcceptedIsTrusted
    TcbVerdictIsMonotone
PROPERTIES VerificationEnds
CHECK_DEADLOCK FALSE
