---------------------------- MODULE MCIndexedBulk ----------------------------
(***************************************************************************)
(* Model checking of IndexedBulk: two batches with leaves in common, which *)
(* issue two records of the registry and one of a collection, approve the  *)
(* first and transfer the last.  The states of its two parts add up        *)
(* instead of multiplying: in "bulk" only BulkV6 is called, in "replaced"  *)
(* only the contracts before it.                                           *)
(***************************************************************************)
EXTENDS IndexedBulk

CONSTANTS gallery, buyer, collection, token1, token2,
          issue1, issue2, issue3, approve1, transfer3, batch1, batch2

VARIABLE part

Detail(call, contract, tokenId, to) ==
    [call |-> call, contract |-> contract, tokenId |-> tokenId, to |-> to]

Details ==
    [leaf \in Leaf |->
        CASE leaf = issue1 -> Detail("create", ZERO, token1, ZERO)
          [] leaf = issue2 -> Detail("create", ZERO, token2, ZERO)
          [] leaf = issue3 -> Detail("create", collection, token2, buyer)
          [] leaf = approve1 -> Detail("approve", ZERO, token1, ZERO)
          [] leaf = transfer3 -> Detail("transfer", collection, token2, buyer)]

Trees ==
    [root \in Root |->
        IF root = batch1 THEN {issue1, issue2, issue3, approve1}
        ELSE {issue1, approve1, transfer3}]

MCInit == IndexedInit /\ part \in {"bulk", "replaced"}

Processed(c, root) == batches'[c][root].processedLeaves

MCNext ==
    /\ IndexedNext
    /\ UNCHANGED part
    /\ part = "bulk" =>
          /\ \A c \in BulkContract \ {"Bulk"} : batches'[c] = batches[c]
          /\ \A root \in Root : issue2 \notin Processed("Bulk", root)
    /\ part = "replaced" =>
          /\ batches'["Bulk"] = batches["Bulk"]
          /\ Len(log') <= 1
          /\ Processed("BulkIssue", batch1) \subseteq {issue1, issue2}
          /\ Processed("BulkIssue", batch2) \subseteq {issue1, approve1}
          /\ batches'["BulkTransfer"][batch1] = NoBatch

MCSpec == MCInit /\ [][MCNext]_<<composed, part>>
=============================================================================
