SPECIFICATION MCSpec
CONSTANTS
    gallery = gallery
    buyer = buyer
    collection = collection
    token1 = token1
    token2 = token2
    issue1 = issue1
    issue2 = issue2
    issue3 = issue3
    approve1 = approve1
    transfer3 = transfer3
    batch1 = batch1
    batch2 = batch2
    BulkContract = {"Bulk", "BulkIssue", "BulkTransfer"}
    Account = {gallery, buyer}
    Licensed = {gallery, buyer}
    CollectionOwner = gallery
    MaxMulti = 2
    ZERO = ZERO
    Root = {batch1, batch2}
    Leaf = {issue1, issue2, issue3, approve1, transfer3}
    leavesOf <- Trees
    detailOf <- Details
    COUNT_MAX = 2
    NoOwner = NoOwner
    Null = Null
    Backlog = 1
    MaxTime = 1
INVARIANTS
    LeavesTakeEffectOnce
    
    BulkAgrees
CHECK_DEADLOCK FALSE
