------------------------------ MODULE SRRIndex ------------------------------
(***************************************************************************)
(* The index of the records: subgraph/src/lib/srr-handlers.ts, shared by   *)
(* the registry (srr-mapping.ts) and the collections                       *)
(* (collection-mapping.ts, collection-factory-mapping.ts), and the         *)
(* handlers of the events that moved the records from Mainnet              *)
(* (lib/srr-migration-handlers.ts).                                        *)
(*                                                                         *)
(* An event keeps the fields that the handlers store; the metadata URI,    *)
(* isPrimaryIssuer, isIntermediary and tokenId, which they copy, are left  *)
(* out, and so are the legacy overloads that only lack a field.            *)
(***************************************************************************)
EXTENDS LUWIndex

CONSTANTS
    ZERO_ADDRESS,
    HereChain       \* currentChainId()

Tables == {"SRR", "SRRProvenance", "SRRTransferCommit", "SRRMetadataHistory", "SRRHistory",
           "CustomHistory", "CustomHistoryMetadataHistory", "CustomHistoryType",
           "Collection", LUW}

\* stopped: graph-node has given up on the subgraph, after a trap in a handler or
\* the save of an entity that lacks a required field.
EmptyDatabase == [t \in Tables \union {"stopped"} |-> IF t = "stopped" THEN FALSE ELSE NoEntities]

Stop(db) == [db EXCEPT !["stopped"] = TRUE]

NewSRR == [ownerAddress |-> Null, artistAddress |-> Null, artist |-> Null, issuer |-> Null,
           metadataDigest |-> Null, transferCommitment |-> Null, lockExternalTransfer |-> Null,
           royaltyReceiver |-> Null, royaltyBasisPoints |-> Null, collection |-> Null,
           originChain |-> Null, createdAt |-> Null]

\* SRR.createdAt is required.
SaveSRR(db, id, srr) == IF srr.createdAt = Null THEN Stop(db) ELSE Save(db, "SRR", id, srr)

UpdateSRR(db, id, srr) == IfKnown(db, "SRR", id, SaveSRR(db, id, srr))

idOf(e) == srrEntityId(e.address, e.tokenId)

-----------------------------------------------------------------------------
(* Shared logic. *)

\* Seeded fault: the later event of a block wins.
ProvenanceLastWins(db, id, millis, from, to, customHistory, digest, sender) ==
    LET provenanceId == <<id, millis>>
        owned == UpdateSRR(db, id, [db["SRR"][id] EXCEPT !.ownerAddress = to])
    IN  IfKnown(db, "SRR", id,
          Save(owned, "SRRProvenance", provenanceId,
               [srr |-> id, from |-> from, to |-> to, sender |-> sender,
                customHistory |-> customHistory, metadataDigest |-> digest,
                timestamp |-> millis]))

\* A Provenance and the Transfer beside it are one entity: whichever the contract
\* emits first makes it.
handleSRRProvenanceInternal(db, id, millis, from, to, customHistory, digest, sender) ==
    LET provenanceId == <<id, millis>>
        owned == UpdateSRR(db, id, [db["SRR"][id] EXCEPT !.ownerAddress = to])
    IN  IfKnown(db, "SRR", id,
          IF Has(db, "SRRProvenance", provenanceId) THEN owned
          ELSE Save(owned, "SRRProvenance", provenanceId,
                    [srr |-> id, from |-> from, to |-> to, sender |-> sender,
                     customHistory |-> customHistory, metadataDigest |-> digest,
                     timestamp |-> millis]))

\* srrCommit.f = value, where the code does it only for a value that is given.
Given(value, before) == IF value = Null THEN before ELSE value

handleSRRCommitmentInternal(db, id, commitment, customHistory, sender) ==
    LET before == IF Has(db, "SRRTransferCommit", id) THEN db["SRRTransferCommit"][id]
                  ELSE [customHistory |-> Null, sender |-> Null]
    IN  IfKnown(db, "SRR", id,
          Save(UpdateSRR(db, id, [db["SRR"][id] EXCEPT !.transferCommitment = commitment]),
               "SRRTransferCommit", id,
               [commitment |-> commitment, lastAction |-> "approve",
                customHistory |-> Given(customHistory, before.customHistory),
                sender |-> Given(sender, before.sender)]))

EndCommit(db, id, lastAction, sender) ==
    IfKnown(db, "SRRTransferCommit", id,
      Save(db, "SRRTransferCommit", id,
           [db["SRRTransferCommit"][id] EXCEPT !.commitment = Null, !.lastAction = lastAction,
                                               !.sender = Given(sender, @)]))

handleSRRCommitmentCancelledInternal(db, id, sender) ==
    IfKnown(db, "SRR", id,
      EndCommit(UpdateSRR(db, id, [db["SRR"][id] EXCEPT !.transferCommitment = Null]),
                id, "cancel", sender))

\* Seeded fault: the commitment on the record stays.
ClearEntityOnly(db, id) == EndCommit(db, id, "transfer", Null)

checkAndClearCommitOnTransfer(db, id) ==
    EndCommit(UpdateSRR(db, id, [db["SRR"][id] EXCEPT !.transferCommitment = Null]),
              id, "transfer", Null)

handleCreateCustomHistoryInternal(db, id, name, type, digest, originChain) ==
    Save(db, "CustomHistory", id,
         [name |-> name, historyType |-> type, metadataDigest |-> digest,
          originChain |-> originChain])

\* What the history was before goes to its metadata history, under an id made of
\* the old digest and the time.
handleUpdateCustomHistoryInternal(db, id, millis, digest, name) ==
    LET ch == db["CustomHistory"][id] IN
    IfKnown(db, "CustomHistory", id,
      Save(Save(db, "CustomHistoryMetadataHistory", <<ch.metadataDigest, millis>>,
                [metadataDigest |-> ch.metadataDigest, name |-> ch.name, customHistory |-> id]),
           "CustomHistory", id, [ch EXCEPT !.metadataDigest = digest, !.name = name]))

getLicensedUserIdFromAddress(db, address) == IF Has(db, LUW, address) THEN address ELSE Null

\* Seeded fault: the reference to the artist's wallet is not updated.
handleUpdateSRRAddressOnly(db, id, artistAddress) ==
    IfKnown(db, "SRR", id,
      UpdateSRR(db, id, [db["SRR"][id] EXCEPT !.artistAddress = artistAddress]))

\* An update that names an artist who has no wallet is logged and dropped.
handleUpdateSRRInternal(db, id, artistAddress) ==
    LET artist == getLicensedUserIdFromAddress(db, artistAddress) IN
    IfKnown(db, "SRR", id,
      IF artist = Null THEN db
      ELSE UpdateSRR(db, id, [db["SRR"][id] EXCEPT !.artistAddress = artistAddress,
                                                   !.artist = artist]))

\* One entity for each event, its id being made of the transaction, the place of
\* the event in it and the digest; those of the same digest count as one here.
saveSRRMetadataHistory(db, id, digest) ==
    Save(db, "SRRMetadataHistory", <<id, digest>>, [srr |-> id, metadataDigest |-> digest])

handleUpdateSRRMetadataHashInternal(db, id, digest) ==
    IfKnown(db, "SRR", id,
      saveSRRMetadataHistory(UpdateSRR(db, id, [db["SRR"][id] EXCEPT !.metadataDigest = digest]),
                             id, digest))

saveCreateSRRInternal(db, id, srr, e, lock) ==
    saveSRRMetadataHistory(
        SaveSRR(db, id,
            [srr EXCEPT !.metadataDigest = e.metadataDigest, !.lockExternalTransfer = lock,
                        !.artistAddress = e.artist,
                        !.artist = getLicensedUserIdFromAddress(db, e.artist),
                        !.issuer = getLicensedUserIdFromAddress(db, e.issuer)]),
        id, e.metadataDigest)

-----------------------------------------------------------------------------
(* Handlers of registry and collections. *)

MintedSRR(millis) == [NewSRR EXCEPT !.lockExternalTransfer = FALSE,
                                    !.originChain = HereChain, !.createdAt = millis]

handleTransfer(db, e, millis) ==
    LET id == idOf(e)
        isMint == e.from = ZERO_ADDRESS
        loaded == IF Has(db, "SRR", id) THEN db["SRR"][id]
                  ELSE IF isMint THEN MintedSRR(millis) ELSE MintedSRR(Null)
        owned == SaveSRR(db, id, [loaded EXCEPT !.ownerAddress = e.to])
    IN  IF isMint \/ owned["stopped"] THEN owned
        ELSE checkAndClearCommitOnTransfer(
                handleSRRProvenanceInternal(owned, id, millis, e.from, e.to, Null, "", Null), id)

handleLockExternalTransfer(db, e) ==
    UpdateSRR(db, idOf(e), [db["SRR"][idOf(e)] EXCEPT !.lockExternalTransfer = e.flag])

\* Seeded fault: the record keeps the rate it had.
handleRoyaltiesSetReceiver(db, e) ==
    UpdateSRR(db, idOf(e), [db["SRR"][idOf(e)] EXCEPT !.royaltyReceiver = e.receiver])

handleRoyaltiesSet(db, e) ==
    UpdateSRR(db, idOf(e), [db["SRR"][idOf(e)] EXCEPT !.royaltyReceiver = e.receiver,
                                                      !.royaltyBasisPoints = e.basisPoints])

\* One entity for each pair of a record and a history.
handleSRRHistory(db, e) ==
    LET pairs == {<<srrEntityId(e.address, t), h>> : t \in e.tokenIds, h \in e.customHistoryIds}
    IN  [db EXCEPT !["SRRHistory"] =
            [p \in DOMAIN @ \union pairs |->
                [srr |-> p[1], customHistory |-> p[2]]]]

\* handleUpdateSRRWithSender, and the handlers of the UpdateSRR overloads.
handleUpdateSRR(db, e) == handleUpdateSRRInternal(db, idOf(e), e.artist)

\* handleUpdateSRRMetadataWithCid and its two legacy forms.
handleUpdateSRRMetadata(db, e) ==
    handleUpdateSRRMetadataHashInternal(db, idOf(e), e.metadataDigest)

-----------------------------------------------------------------------------
(* Handlers of the registry (srr-mapping.ts). *)

\* handleCreateSRRWithCID and its two legacy forms: the record is taken to be
\* there, `srr as SRR` traps when it is not.
handleCreateSRRWithCID(db, e) ==
    IF Has(db, "SRR", idOf(e))
    THEN saveCreateSRRInternal(db, idOf(e), db["SRR"][idOf(e)], e, e.lock)
    ELSE Stop(db)

\* handleSRRProvenance and its overloads with a custom history and isIntermediary.
handleSRRProvenance(db, e, millis) ==
    handleSRRProvenanceInternal(db, idOf(e), millis, e.from, e.to, e.customHistory, e.digest, Null)

\* handleSRRCommitment and handleSRRCommitmentWithCustomHistory.
handleSRRCommitment(db, e) ==
    handleSRRCommitmentInternal(db, idOf(e), e.commitment, e.customHistory, Null)

handleSRRCommitmentCancelled(db, e) == handleSRRCommitmentCancelledInternal(db, idOf(e), Null)

handleCustomHistoryType(db, e) ==
    Save(db, "CustomHistoryType", e.id, [name |-> e.name])

\* handleCreateCustomHistory and handleCreateCustomHistoryWithCid.
handleCreateCustomHistory(db, e) ==
    handleCreateCustomHistoryInternal(db, e.id, e.name, e.type, e.digest, HereChain)

\* handleUpdateCustomHistory and handleUpdateCustomHistoryWithCID.
handleUpdateCustomHistory(db, e, millis) ==
    handleUpdateCustomHistoryInternal(db, e.id, millis, e.digest, e.name)

HandleRegistryEvent(db, e, timestamp) ==
    LET millis == secondsToMillis(timestamp) IN
    CASE e.event = "Transfer" -> handleTransfer(db, e, millis)
      [] e.event = "CreateSRR" -> handleCreateSRRWithCID(db, e)
      [] e.event = "UpdateSRR" -> handleUpdateSRR(db, e)
      [] e.event = "UpdateSRRMetadataCID" -> handleUpdateSRRMetadata(db, e)
      [] e.event = "LockExternalTransfer" -> handleLockExternalTransfer(db, e)
      [] e.event = "RoyaltiesSet" -> handleRoyaltiesSet(db, e)
      [] e.event = "Provenance" -> handleSRRProvenance(db, e, millis)
      [] e.event = "SRRCommitment" -> handleSRRCommitment(db, e)
      [] e.event = "SRRCommitmentCancelled" -> handleSRRCommitmentCancelled(db, e)
      [] e.event = "CreateCustomHistoryType" -> handleCustomHistoryType(db, e)
      [] e.event = "CreateCustomHistory" -> handleCreateCustomHistory(db, e)
      [] e.event = "UpdateCustomHistory" -> handleUpdateCustomHistory(db, e, millis)
      [] e.event = "History" -> handleSRRHistory(db, e)
      [] OTHER -> HandleWalletEvent(db, e, timestamp)
=============================================================================
