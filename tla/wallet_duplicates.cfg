SPECIFICATION Spec
CONSTANTS
    Wallet = {w1}
    Owner = {2, 3, 4, 5}
    OwnerLists <- AllLists
    MaxUint8 = 3
    Administrator = administrator
    Name = {"gallery", "museum"}
INVARIANT NoDuplicateOwners
