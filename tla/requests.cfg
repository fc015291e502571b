SPECIFICATION MCSpec
CONSTANTS
    Caller = {c1, c2}
    Owner = {1, 2}
    Wallet = wallet
    Collection = {collection1}
    RequestType <- MetaTxRequestType
    TypeLists <- Lists
    Channel = {0, 1}
    MaxNonce = 1
    BITS_PER_NONCE = 2
    Null = Null
    Backlog = 0
    MaxTime = 1
    Signatures <- CollectionFunctionSignatures
    Ownable <- OwnableFunctions
    Interfaces <- supportedInterfaceIds
    Claims <- Standards
    Script <- Scripts
    Removable <- LegacyFunction
    MaxScripts = 4
    MaxCutOffs = 1
    MaxRegistries = 2
SYMMETRY Symmetry
INVARIANTS
    
    SignedRequestIsAccepted
    ForwarderIndexAgrees
    RoutedIsImplemented
    UpgradedIsWhole
    UpgradeReachesServed
    ClaimedIsRouted
    RequestReachesFeature
CHECK_DEADLOCK FALSE
