SPECIFICATION MCSpec
CONSTANTS
    Wallet = {w1}
    Owner = {2, 3, 4}
    OwnerLists <- AllLists
    MaxUint8 = 3
    Administrator = administrator
    Name = {"gallery", "museum"}
    Null = Null
    Chain = {mainnet}
    Backlog = 0
    MaxTime = 2
INVARIANTS
    TypeOK
    OneStorage
    ThresholdInRange
    ListIsRing
    OwnersReadable
    SignatureSetIsQuorum
    IndexAgrees
PROPERTIES
    DriftOnlyAtSetup
