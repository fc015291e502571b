--------------------------- MODULE CollectionIndex ---------------------------
(***************************************************************************)
(* subgraph/src/collection-factory-mapping.ts and collection-mapping.ts:   *)
(* the index of the collections and of their records.  A collection's      *)
(* events carry the sender of the call, which the registry's do not, and   *)
(* some of its handlers store it.  The legacy handlers are those of the    *)
(* events without a sender (e.sender = Null).                              *)
(***************************************************************************)
EXTENDS SRRIndex

handleCollectionCreated(db, e, millis) ==
    Save(db, "Collection", e.address,
         [ownerAddress |-> e.owner, creatorAddress |-> e.owner, createdAt |-> millis])

\* Seeded fault: only the current owner's collections are looked up.
handleOwnershipTransferredOnce(db, e) ==
    IfKnown(db, "Collection", e.address,
      IF db["Collection"][e.address].ownerAddress = db["Collection"][e.address].creatorAddress
      THEN Save(db, "Collection", e.address,
                [db["Collection"][e.address] EXCEPT !.ownerAddress = e.owner])
      ELSE db)

handleOwnershipTransferred(db, e) ==
    IfKnown(db, "Collection", e.address,
      Save(db, "Collection", e.address,
           [db["Collection"][e.address] EXCEPT !.ownerAddress = e.owner]))

\* Unlike the registry's, this one lets an unknown record pass.
handleCreateSRR(db, e) ==
    IfKnown(db, "SRR", idOf(e),
      saveCreateSRRInternal(db, idOf(e),
          [db["SRR"][idOf(e)] EXCEPT !.collection = e.address], e, e.lock))

\* handleSRRCommitment stores the sender, handleSRRCommitmentWithCustomHistory
\* and the two legacy handlers do not.
handleCollectionCommitment(db, e) ==
    handleSRRCommitmentInternal(db, idOf(e), e.commitment, e.customHistory,
        IF e.customHistory = Null THEN e.sender ELSE Null)

handleCollectionCommitmentCancelled(db, e) ==
    handleSRRCommitmentCancelledInternal(db, idOf(e), e.sender)

\* handleSRRProvenanceWithIntermediaryWithSender and its forms with a custom
\* history and without a sender.
handleCollectionProvenance(db, e, millis) ==
    handleSRRProvenanceInternal(db, idOf(e), millis, e.from, e.to, e.customHistory, e.digest,
                                e.sender)

HandleCollectionEvent(db, e, timestamp) ==
    LET millis == secondsToMillis(timestamp) IN
    CASE e.event = "CollectionCreated" -> handleCollectionCreated(db, e, millis)
      [] e.event = "OwnershipTransferred" -> handleOwnershipTransferred(db, e)
      [] e.event = "Transfer" -> handleTransfer(db, e, millis)
      [] e.event = "CreateSRR" -> handleCreateSRR(db, e)
      [] e.event = "UpdateSRR" -> handleUpdateSRR(db, e)
      [] e.event = "UpdateSRRMetadataDigest" -> handleUpdateSRRMetadata(db, e)
      [] e.event = "SRRCommitment" -> handleCollectionCommitment(db, e)
      [] e.event = "SRRCommitmentCancelled" -> handleCollectionCommitmentCancelled(db, e)
      [] e.event = "Provenance" -> handleCollectionProvenance(db, e, millis)
      [] e.event = "LockExternalTransferSetLock" -> handleLockExternalTransfer(db, e)
      [] e.event = "RoyaltiesSet" -> handleRoyaltiesSet(db, e)
      [] e.event = "History" -> handleSRRHistory(db, e)
=============================================================================
