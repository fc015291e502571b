SPECIFICATION MCSpec
CONSTANTS
    Account = {admin, gallery}
    admin = admin
    gallery = gallery
    ZERO = ZERO
    TokenId = {t1}
    t1 = t1
    HistoryName = {"show"}
    MaxHistories = 1
    Administrator = admin
    OpenSeaProxy = admin
    Artist = {admin, gallery}
    MetadataCID = {cid1}
    generate <- Generate
    Reveal = {reveal}
    Issuer = {gallery}
    Operator = {}
    Receiver = {gallery}
    BasisPoints = {500}
    LicensedUser = {gallery}
    RegistryAddress = registry
    HereChain = here
    Null = Null
    Backlog = 0
    MaxTime = 2
INVARIANTS
    NeverStops
    RecordsAgree
    
    OpenCommitmentIsLive
PROPERTIES
    RecordIsIndexed
    ProvenanceKeepsHistory
    ProvenanceIsFinal
