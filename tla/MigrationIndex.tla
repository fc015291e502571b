--------------------------- MODULE MigrationIndex ---------------------------
(***************************************************************************)
(* subgraph/src/lib/srr-migration-handlers.ts: the index of the records    *)
(* that were moved here from another chain.  Their events are replayed     *)
(* with the timestamp they had over there, and that is the time the        *)
(* entities get.                                                           *)
(***************************************************************************)
EXTENDS SRRIndex

originMillis(e) == secondsToMillis(e.originTimestamp)

\* Seeded fault: the commitment is cleared on the record before the save of the
\* loaded copy, which restores it.
handleTransferFromMigrationStale(db, e) ==
    LET id == idOf(e)
        srr == IF Has(db, "SRR", id) THEN db["SRR"][id]
               ELSE [NewSRR EXCEPT !.createdAt = originMillis(e), !.originChain = HereChain]
        cleared == IF e.from = ZERO_ADDRESS THEN db ELSE checkAndClearCommitOnTransfer(db, id)
    IN  SaveSRR(cleared, id, [srr EXCEPT !.ownerAddress = e.to])

\* Makes the record when it comes before its CreateSRR, as it usually does.  No
\* SRRProvenance is made of it.
handleTransferFromMigration(db, e) ==
    LET id == idOf(e)
        srr == IF Has(db, "SRR", id) THEN db["SRR"][id]
               ELSE [NewSRR EXCEPT !.createdAt = originMillis(e), !.originChain = HereChain]
        owned == SaveSRR(db, id, [srr EXCEPT !.ownerAddress = e.to])
    IN  IF e.from = ZERO_ADDRESS THEN owned ELSE checkAndClearCommitOnTransfer(owned, id)

\* "due to a Mainnet migration in Oct 2020 sometimes this order is flipped": makes
\* the record when it comes before its Transfer.
handleCreateSRRFromMigration(db, e) ==
    LET srr == IF Has(db, "SRR", idOf(e)) THEN db["SRR"][idOf(e)]
               ELSE [NewSRR EXCEPT !.createdAt = originMillis(e)]
    IN  saveCreateSRRInternal(db, idOf(e), srr, e, FALSE)

handleMigrateSRR(db, e) ==
    UpdateSRR(db, idOf(e), [db["SRR"][idOf(e)] EXCEPT !.originChain = e.originChain])

\* handleSRRCommitmentFromMigration, and the one with a custom history.
handleSRRCommitmentFromMigration(db, e) ==
    handleSRRCommitmentInternal(db, idOf(e), e.commitment, e.customHistory, Null)

\* handleSRRProvenanceFromMigration, and the one with a custom history.
handleSRRProvenanceFromMigration(db, e) ==
    handleSRRProvenanceInternal(db, idOf(e), originMillis(e), e.from, e.to, e.customHistory,
                                e.digest, Null)

handleSRRCommitmentCancelledFromMigration(db, e) ==
    handleSRRCommitmentCancelledInternal(db, idOf(e), Null)

handleCreateCustomHistoryFromMigration(db, e) ==
    handleCreateCustomHistoryInternal(db, e.id, e.name, e.type, e.digest, e.originChain)

handleUpdateSRRFromMigration(db, e) == handleUpdateSRRInternal(db, idOf(e), e.artist)

handleUpdateSRRMetadataDigestFromMigration(db, e) ==
    handleUpdateSRRMetadataHashInternal(db, idOf(e), e.metadataDigest)

\* Seeded fault: the date is taken for seconds, as in every other event.
handleProvenanceDateFixInSeconds(db, e) ==
    LET provenanceId == <<idOf(e), 66000>> IN
    IfKnown(db, "SRRProvenance", provenanceId,
      Save(db, "SRRProvenance", provenanceId,
           [db["SRRProvenance"][provenanceId] EXCEPT !.timestamp = 1000 * e.originMillis]))

\* The entity with the bad timestamp gets the right one, and keeps its id.
handleProvenanceDateMigrationFix(db, e) ==
    LET provenanceId == <<idOf(e), 66000>> IN
    IfKnown(db, "SRRProvenance", provenanceId,
      Save(db, "SRRProvenance", provenanceId,
           [db["SRRProvenance"][provenanceId] EXCEPT !.timestamp = e.originMillis]))

HandleMigrationEvent(db, e) ==
    CASE e.event = "TransferFromMigration" -> handleTransferFromMigration(db, e)
      [] e.event = "CreateSRRFromMigration" -> handleCreateSRRFromMigration(db, e)
      [] e.event = "MigrateSRR" -> handleMigrateSRR(db, e)
      [] e.event = "SRRCommitmentFromMigration" -> handleSRRCommitmentFromMigration(db, e)
      [] e.event = "ProvenanceFromMigration" -> handleSRRProvenanceFromMigration(db, e)
      [] e.event = "SRRCommitmentCancelledFromMigration" ->
            handleSRRCommitmentCancelledFromMigration(db, e)
      [] e.event = "CreateCustomHistoryFromMigration" ->
            handleCreateCustomHistoryFromMigration(db, e)
      [] e.event = "UpdateSRRFromMigration" -> handleUpdateSRRFromMigration(db, e)
      [] e.event = "UpdateSRRMetadataDigestFromMigration" ->
            handleUpdateSRRMetadataDigestFromMigration(db, e)
      [] e.event = "ProvenanceDateMigrationFix" -> handleProvenanceDateMigrationFix(db, e)
=============================================================================
