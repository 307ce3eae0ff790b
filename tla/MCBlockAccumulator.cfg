\* Genuine and forged bodies, with the acceptor entry created when missing
\* (the behaviour spec section 4.1 describes).
CONSTANTS
    h1 = h1
    h2 = h2
    v1 = v1
    v2 = v2
    p1 = p1
    Hashes = {h1, h2}
    Validators = {v1, v2}
    Eras = {1, 2}
    Parent <- MCParent
    HeightOf <- MCHeightOf
    EraOf <- MCEraOf
    Weight <- MCWeight
    Signatures <- MCSignatures
    ForgedBodies <- MCForgedBodies
    NoHash = NoHash
    NoEra = NoEra
    NoBlock = NoBlock
    NoAcceptor = NoAcceptor
    Peers = {p1}
    Threshold = 1
    DeadAir = 1
    MaxTime = 2
    InitLocalTip <- MCNoTip
    InitEras = {1}
    ExecutedHeights = {1, 2}
    EntryArm = "Vacant"
    PlaceholderArm = "insert"
SPECIFICATION Spec
INVARIANTS
    TypeOK
    BlocksAboveTip
    DuplicateSignatureIgnored
