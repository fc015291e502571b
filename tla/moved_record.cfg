SPECIFICATION Spec
CONSTANTS
    Account = {gallery, buyer}
    ZERO = ZERO
    LicensedUser = {gallery}
    Digest = {digest1, digest2}
    Commitment = {commitment}
    CustomHistory = {1}
    MaxEvents = 5
    MaxOriginTime = 2
    RegistryAddress = registry
    HereChain = here
    OriginChain = mainnet
    Null = Null
    Backlog = 0
    MaxTime = 1
INVARIANTS
    MovedRecordAgrees
    ProvenanceIsDated
CHECK_DEADLOCK FALSE
