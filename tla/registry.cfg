SPECIFICATION MCSpec
CONSTANTS
    Account = {admin, artist, buyer}
    ZERO = ZERO
    TokenId = {t1, t2}
    HistoryName = {"show"}
    MaxHistories = 1
    Administrator = admin
    OpenSeaProxy = buyer
    artist = artist
    buyer = buyer
    Artist = {artist}
    cid1 = cid1
    cid2 = cid2
    t1 = t1
    t2 = t2
    MetadataCID = {cid1, cid2}
    generate <- Generate
    Reveal = {reveal}
    Issuer = {artist, buyer}
    Operator = {artist}
    Receiver = {artist}
    BasisPoints = {10000, 10001}
INVARIANTS
    TypeOK
    BalancesCountTokens
PROPERTIES
    RoyaltyOnlyFromCreation
    ApprovalEndsWithOwnership
    KeepsTitle
