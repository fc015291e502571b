SPECIFICATION Spec
CONSTANTS
    w1 = w1
    collection = collection
    Wallet = {w1}
    Owner = {2, 3}
    OwnerLists <- Lists
    MaxUint8 = 2
    Administrator = administrator
    Name = {"gallery"}
    TypeHash <- Types
    TypeTargets <- Targets
    Channel <- Channels
    MaxNonce = 2
    Collection = {collection}
    Registry = registry
    Manager = manager
    Request <- Requests
    MaxSignatures = 2
    MaxDepth = 2
INVARIANTS
    NonceAccounting
PROPERTIES
    OwnersChangeByConsent
    CommitsInOrder
