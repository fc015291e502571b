SPECIFICATION MCSpec
CONSTANTS
    gallery = gallery
    t1 = t1
    Account = {gallery, buyer}
    ZERO = ZERO
    Administrator = gallery
    Creator = gallery
    CollectionAddress = collection1
    TokenId = {t1}
    MetadataCID = {cid1}
    Artist = {buyer}
    generate <- Generate
    Reveal = {reveal}
    NoCommitment = NoCommitment
    KnownHistory = {1}
    Royalty <- Royalties
    Null = Null
    LicensedUser = {gallery}
    HereChain = here
    Backlog = 0
    MaxTime = 2
INVARIANTS
    CollectionAgrees
    BalancesCountTokens
    ShownIsInForce
PROPERTY LockedMovesWithProvenance
