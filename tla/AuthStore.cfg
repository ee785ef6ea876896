SPECIFICATION Spec
CONSTANTS
    t1 = t1
    t2 = t2
    c1 = c1
    c2 = c2
    r1 = r1
    r2 = r2
    r3 = r3
    Tokens <- MCTokens
    Credentials <- MCCredentials
    Requests <- MCRequests
    None = None
    MaxSequence = 2
    MaxCredentials = 2
    MaxPairingClaims = 1
    MaxOperationClaims = 1
    TokenLifetime = 2
    CredentialLifetime = 2
    RotationLifetime = 1
    MaxTime = 3
    MaxResponses = 5
SYMMETRY Symmetry
INVARIANTS
    TypeOK
    NothingTwice
    RevocationIsFinal
    PairingNotWedged
