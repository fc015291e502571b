------------------------------ MODULE BulkIndex ------------------------------
(***************************************************************************)
(* The index of the batches: generalized-bulk-mapping.ts (Bulk),           *)
(* bulk-mapping.ts (BulkIssue) and bulk-transfer-mapping.ts (BulkTransfer) *)
(* of subgraph/src.  A batch is known by its merkle root in the store of   *)
(* its contract; e.source names the contract that emitted e.               *)
(***************************************************************************)
EXTENDS EntityStore

CONSTANTS ZERO_ADDRESS

NoBatches ==
    [Bulk |-> NoEntities, BulkSRR |-> NoEntities, BulkIssue |-> NoEntities,
     BulkIssueSRR |-> NoEntities, BulkTransfer |-> NoEntities]

\* The handleBatchPrepared of the three mappings: only the first event of a
\* root counts.
handleBatchPrepared(db, e) ==
    IF Has(db, e.source, e.root) THEN db
    ELSE Save(db, e.source, e.root,
              IF e.source = "BulkTransfer"
              THEN [sender |-> e.sender, srrApproveHashes |-> << >>, tokenId |-> Null]
              ELSE [sender |-> e.sender])

\* The handlers of the Bulk contract's six leaf events; a legacy event names
\* no contract (e.contract = Null).
updateBulkInternal(db, e) ==
    IfKnown(db, "Bulk", e.root,
      Save(db, "BulkSRR", e.leaf,
           [bulk |-> e.root, tokenId |-> e.tokenId,
            contractAddress |-> IF e.contract = ZERO_ADDRESS THEN Null ELSE e.contract]))

handleCreateSRRWithProof(db, e) ==
    IfKnown(db, "BulkIssue", e.root,
      Save(db, "BulkIssueSRR", e.leaf, [bulkIssue |-> e.root, tokenId |-> e.tokenId]))

\* The batch and the entries of its leaves are written anew, whatever was shown.
handleMigrateBatch(db, e) ==
    LET shown == Save(db, "BulkIssue", e.root, [sender |-> e.sender])
    IN  [shown EXCEPT !["BulkIssueSRR"] =
            [l \in DOMAIN @ \union e.leaves |->
                IF l \in e.leaves THEN [bulkIssue |-> e.root, tokenId |-> Null] ELSE @[l]]]

handleApproveSRRByCommitmentWithProof(db, e) ==
    IfKnown(db, "BulkTransfer", e.root,
      Save(db, "BulkTransfer", e.root,
           [db["BulkTransfer"][e.root] EXCEPT !.srrApproveHashes = Append(@, e.leaf),
                                              !.tokenId = e.tokenId]))

HandleBulkEvent(db, e) ==
    CASE e.event = "BatchPrepared" -> handleBatchPrepared(db, e)
      [] e.event = "MigrateBatch" -> handleMigrateBatch(db, e)
      [] e.event = "WithProof" /\ e.source = "Bulk" -> updateBulkInternal(db, e)
      [] e.event = "WithProof" /\ e.source = "BulkIssue" -> handleCreateSRRWithProof(db, e)
      [] e.event = "WithProof" /\ e.source = "BulkTransfer" ->
             handleApproveSRRByCommitmentWithProof(db, e)
=============================================================================
