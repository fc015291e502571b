SPECIFICATION MCSpec
CONSTANTS
    gallery = gallery
    t1 = t1
    Account = {gallery, buyer}
    ZERO = ZERO
    Administrator = gallery
    Creator = gallery
    CollectionAddress = collection1
    TokenId = {t1}
    MetadataCID = {cid1}
    Artist = {buyer}
    generate <- Generate
    Reveal = {reveal}
    NoCommitment = NoCommitment
    KnownHistory = {}
    Royalty = {}
    Null = Null
    LicensedUser = {gallery}
    HereChain = here
    Backlog = 0
    MaxTime = 1
PROPERTY LockedAsCreated
