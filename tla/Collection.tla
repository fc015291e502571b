----------------------------- MODULE Collection -----------------------------
(***************************************************************************)
(* A collection: the contract that CollectionFactoryV01 makes for a        *)
(* licensed user, whose calls CollectionProxy dispatches to the features   *)
(* (ERC721FeatureV05, SRRFeatureV02, SRRApproveTransferFeatureV04,         *)
(* SRRMetadataFeatureV01, SRRHistoryFeatureV01, OwnableFeatureV01,         *)
(* LockExternalTransferFeatureV01, ERC2981RoyaltyFeatureV01,               *)
(* BulkFeatureV04), all of them over the storage of the collection.        *)
(*                                                                         *)
(* caller is msgSender(): the wallet for which the forwarder relays, or    *)
(* whoever calls directly; `signer` is the signer of a batch of Bulk.      *)
(* Each call emits its events.  As with the registry, operators approved   *)
(* for all tokens are left out, and a safe transfer either happens or      *)
(* reverts.                                                                *)
(***************************************************************************)
EXTENDS FiniteSets, ChainLog

CONSTANTS
    Account,
    ZERO,               \* address(0)
    Administrator,
    Creator,            \* the licensed user who makes the collection
    CollectionAddress,
    TokenId,
    MetadataCID,        \* not empty
    Artist,
    generate,           \* IDGeneratorV3.generate: [MetadataCID \X Artist -> TokenId]
    Reveal,
    NoCommitment,
    KnownHistory,       \* ids of the registry's custom histories
    Royalty,            \* [receiver, basisPoints] that callers ask for
    Null

ASSUME CollectionAssumption ==
    /\ ZERO \notin Account
    /\ IsFiniteSet(TokenId)
    /\ {Administrator, Creator} \cup Artist \subseteq Account
    /\ generate \in [MetadataCID \X Artist -> TokenId]
    /\ NoCommitment \notin Reveal /\ 0 \notin KnownHistory

VARIABLES
    collectionOwner,    \* OwnableStorage: ZERO until the collection exists
    ownerOf,
    balanceOf,          \* but for ZERO's, which balanceOf(owner) refuses to tell
    getApproved,
    srrs,               \* LibSRRStorage and LibSRRMetadataStorage
    tokenIdToLockFlag,
    royalties,
    approvals           \* LibApproveTransferStorage

collection == <<collectionOwner, ownerOf, balanceOf, getApproved, srrs, tokenIdToLockFlag,
                royalties, approvals>>

Address == Account \union {ZERO}
NO_CUSTOM_HISTORY == 0
NoSRR == [issuer |-> ZERO, artist |-> ZERO, metadataCID |-> Null]
NoRoyalty == [receiver |-> ZERO, basisPoints |-> 0]
NothingCommitted == [commitment |-> NoCommitment, customHistoryId |-> NO_CUSTOM_HISTORY]

CollectionInit ==
    /\ collectionOwner = ZERO
    /\ ownerOf = [t \in TokenId |-> ZERO]
    /\ balanceOf = [a \in Account |-> 0]
    /\ getApproved = [t \in TokenId |-> ZERO]
    /\ srrs = [t \in TokenId |-> NoSRR]
    /\ tokenIdToLockFlag = [t \in TokenId |-> FALSE]
    /\ royalties = [t \in TokenId |-> NoRoyalty]
    /\ approvals = [t \in TokenId |-> NothingCommitted]

-----------------------------------------------------------------------------
(* Events. *)

Of(event, t) == [event |-> event, address |-> CollectionAddress, tokenId |-> t]

By(event, t, sender) ==
    [event |-> event, address |-> CollectionAddress, tokenId |-> t, sender |-> sender]

Transfer(from, to, t) ==
    [event |-> "Transfer", address |-> CollectionAddress, tokenId |-> t, from |-> from, to |-> to]

CreateSRR(t, issuer, artist, cid, lock) ==
    [event |-> "CreateSRR", address |-> CollectionAddress, tokenId |-> t,
     issuer |-> issuer, artist |-> artist, metadataDigest |-> cid, lock |-> lock]

RoyaltiesSet(t, royalty) ==
    [event |-> "RoyaltiesSet", address |-> CollectionAddress, tokenId |-> t,
     receiver |-> royalty.receiver, basisPoints |-> royalty.basisPoints]

IdOrNull(customHistoryId) ==
    IF customHistoryId = NO_CUSTOM_HISTORY THEN Null ELSE customHistoryId

SRRCommitment(t, commitment, customHistoryId, sender) ==
    [event |-> "SRRCommitment", address |-> CollectionAddress, tokenId |-> t,
     commitment |-> commitment, customHistory |-> IdOrNull(customHistoryId), sender |-> sender]

Provenance(t, from, to, customHistoryId, sender) ==
    [event |-> "Provenance", address |-> CollectionAddress, tokenId |-> t,
     from |-> from, to |-> to, customHistory |-> IdOrNull(customHistoryId),
     digest |-> "digest", sender |-> sender]

-----------------------------------------------------------------------------
(* Guards and storage writes that features share. *)

exists(t) == ownerOf[t] # ZERO

onlyIssuerOrArtistOrCollectionOwner(caller, t) ==
    caller \in {srrs[t].issuer, srrs[t].artist, collectionOwner}

onlyCollectionOwnerOrSRROwner(caller, t) ==
    exists(t) /\ caller \in {collectionOwner, ownerOf[t]}

\* LibERC721Storage._transferFrom: neither the sender nor the recipient is checked.
_transferFrom(from, to, t) ==
    /\ balanceOf' = [a \in Account |->
          balanceOf[a] - (IF a = from THEN 1 ELSE 0) + (IF a = to THEN 1 ELSE 0)]
    /\ ownerOf' = [ownerOf EXCEPT ![t] = to]
    /\ getApproved' = [getApproved EXCEPT ![t] = ZERO]

\* Seeded fault: the transfer to the recipient leaves the issuer's balance.
MintAndCredit(issuer, to, t) ==
    LET owner == IF to = ZERO THEN issuer ELSE to IN
    /\ balanceOf' = [a \in Account |-> balanceOf[a] + (IF a \in {issuer, to} THEN 1 ELSE 0)]
    /\ ownerOf' = [ownerOf EXCEPT ![t] = owner]
    /\ getApproved' = IF to = ZERO THEN getApproved ELSE [getApproved EXCEPT ![t] = ZERO]

\* _mint(issuer, t), and _transferFrom(issuer, to, t) when a recipient is named.
MintAndTransfer(issuer, to, t) ==
    LET owner == IF to = ZERO THEN issuer ELSE to IN
    /\ balanceOf' = [balanceOf EXCEPT ![owner] = @ + 1]
    /\ ownerOf' = [ownerOf EXCEPT ![t] = owner]
    /\ getApproved' = IF to = ZERO THEN getApproved ELSE [getApproved EXCEPT ![t] = ZERO]

erc721 == <<ownerOf, balanceOf, getApproved>>
records == <<srrs, tokenIdToLockFlag, royalties>>

-----------------------------------------------------------------------------
(* CollectionFactoryV01. *)

\* Deploying, initialising and registering is one transaction.
createCollectionContract ==
    /\ collectionOwner = ZERO
    /\ collectionOwner' = Creator
    /\ Emit(<<[event |-> "CollectionCreated", address |-> CollectionAddress,
               owner |-> Creator]>>)
    /\ UNCHANGED <<erc721, records, approvals>>

transferOwnership(caller, newOwner) ==
    /\ caller = collectionOwner
    /\ newOwner # ZERO
    /\ collectionOwner' = newOwner
    /\ Emit(<<[event |-> "OwnershipTransferred", address |-> CollectionAddress,
               owner |-> newOwner]>>)
    /\ UNCHANGED <<erc721, records, approvals>>

-----------------------------------------------------------------------------
(* Issuing and updating. *)

notToExceedSalePrice(royalty) == royalty.basisPoints <= 10000

CreationEvents(t, issuer, cid, artist, lock, to, royalty) ==
    <<Transfer(ZERO, issuer, t), CreateSRR(t, issuer, artist, cid, lock)>>
    \o (IF royalty.receiver = ZERO THEN << >> ELSE <<RoyaltiesSet(t, royalty)>>)
    \o (IF to = ZERO THEN << >> ELSE <<Transfer(issuer, to, t)>>)

\* SRRFeature.createSRR, and BulkFeature.createSRRFromBulk for the signer of the
\* batch.  The lock flag is written when it is asked for, and only then.
createSRR(issuer, cid, artist, lock, to, royalty) ==
    LET t == generate[<<cid, artist>>] IN
    /\ issuer = collectionOwner
    /\ royalty.receiver # ZERO => notToExceedSalePrice(royalty)
    /\ ~exists(t)
    /\ srrs' = [srrs EXCEPT ![t] = [issuer |-> issuer, artist |-> artist, metadataCID |-> cid]]
    /\ tokenIdToLockFlag' = [tokenIdToLockFlag EXCEPT ![t] = @ \/ lock]
    /\ royalties' = [royalties EXCEPT ![t] = IF royalty.receiver = ZERO THEN @ ELSE royalty]
    /\ MintAndTransfer(issuer, to, t)
    /\ Emit(CreationEvents(t, issuer, cid, artist, lock, to, royalty))
    /\ UNCHANGED <<collectionOwner, approvals>>

updateSRR(caller, t, artist) ==
    /\ exists(t)
    /\ onlyIssuerOrArtistOrCollectionOwner(caller, t)
    /\ srrs' = [srrs EXCEPT ![t].artist = artist]
    /\ Emit(<<[artist |-> artist, event |-> "UpdateSRR", address |-> CollectionAddress,
               tokenId |-> t, sender |-> caller]>>)
    /\ UNCHANGED <<collectionOwner, erc721, tokenIdToLockFlag, royalties, approvals>>

updateSRRMetadata(caller, t, cid) ==
    /\ exists(t)
    /\ onlyIssuerOrArtistOrCollectionOwner(caller, t)
    /\ srrs' = [srrs EXCEPT ![t].metadataCID = cid]
    /\ Emit(<<[metadataDigest |-> cid, event |-> "UpdateSRRMetadataDigest",
               address |-> CollectionAddress, tokenId |-> t]>>)
    /\ UNCHANGED <<collectionOwner, erc721, tokenIdToLockFlag, royalties, approvals>>

setLockExternalTransfer(caller, t, flag) ==
    /\ exists(t)
    /\ caller \in {srrs[t].issuer, collectionOwner}
    /\ tokenIdToLockFlag' = [tokenIdToLockFlag EXCEPT ![t] = flag]
    /\ Emit(<<[flag |-> flag, event |-> "LockExternalTransferSetLock",
               address |-> CollectionAddress, tokenId |-> t]>>)
    /\ UNCHANGED <<collectionOwner, erc721, srrs, royalties, approvals>>

\* updateSRRRoyalty; updateSRRRoyaltyReceiverMulti, for one record, keeps its rate.
updateSRRRoyalty(caller, t, royalty) ==
    /\ exists(t)
    /\ caller = Administrator
    /\ royalties[t].receiver # ZERO
    /\ royalty.receiver # ZERO /\ notToExceedSalePrice(royalty)
    /\ royalties' = [royalties EXCEPT ![t] = royalty]
    /\ Emit(<<RoyaltiesSet(t, royalty)>>)
    /\ UNCHANGED <<collectionOwner, erc721, srrs, tokenIdToLockFlag, approvals>>

addHistory(caller, t, customHistoryId) ==
    /\ exists(t)
    /\ caller \in {srrs[t].issuer, srrs[t].artist, collectionOwner, ownerOf[t]}
    /\ Emit(<<[event |-> "History", address |-> CollectionAddress,
               tokenIds |-> {t}, customHistoryIds |-> {customHistoryId}]>>)
    /\ UNCHANGED collection

-----------------------------------------------------------------------------
(* Approval by commitment, transfer by reveal, transfer with provenance. *)

\* Also approveSRRByCommitmentFromBulk.  Without a custom history the stored id is
\* left alone.
approveSRRByCommitment(caller, t, commitment, customHistoryId) ==
    /\ onlyCollectionOwnerOrSRROwner(caller, t)
    /\ approvals' = [approvals EXCEPT ![t] =
          [commitment |-> commitment,
           customHistoryId |-> IF customHistoryId = NO_CUSTOM_HISTORY
                               THEN @.customHistoryId ELSE customHistoryId]]
    /\ Emit((IF approvals[t].commitment = NoCommitment THEN << >>
             ELSE <<By("SRRCommitmentCancelled", t, caller)>>)
            \o <<SRRCommitment(t, commitment, customHistoryId, caller)>>)
    /\ UNCHANGED <<collectionOwner, erc721, records>>

cancelSRRCommitment(caller, t) ==
    /\ onlyCollectionOwnerOrSRROwner(caller, t)
    /\ approvals' = [approvals EXCEPT ![t] = NothingCommitted]
    /\ Emit(<<By("SRRCommitmentCancelled", t, caller)>>)
    /\ UNCHANGED <<collectionOwner, erc721, records>>

\* Anybody who knows the reveal may call.
transferSRRByReveal(to, reveal, t) ==
    /\ exists(t)
    /\ approvals[t].commitment = reveal
    /\ approvals' = [approvals EXCEPT ![t] = NothingCommitted]
    /\ _transferFrom(ownerOf[t], to, t)
    /\ Emit(<<Provenance(t, ownerOf[t], to, approvals[t].customHistoryId, Null),
              Transfer(ownerOf[t], to, t)>>)
    /\ UNCHANGED <<collectionOwner, records>>

\* transferFromWithProvenance of the ERC-721 feature and, for the signer of the
\* batch, of the bulk feature: the lock does not bind them.
transferFromWithProvenance(caller, to, t, customHistoryId) ==
    /\ onlyCollectionOwnerOrSRROwner(caller, t)
    /\ _transferFrom(ownerOf[t], to, t)
    /\ Emit(<<Provenance(t, ownerOf[t], to, customHistoryId, caller),
              Transfer(ownerOf[t], to, t)>>)
    /\ UNCHANGED <<collectionOwner, records, approvals>>

-----------------------------------------------------------------------------
(* The standard ERC-721 calls. *)

\* Seeded fault: whoever was approved before the lock may still transfer.
transferFromApproved(caller, from, to, t) ==
    /\ ~tokenIdToLockFlag[t] \/ caller = getApproved[t]
    /\ from = ownerOf[t]
    /\ to # ZERO
    /\ caller \in {from, getApproved[t]}
    /\ _transferFrom(from, to, t)
    /\ Emit(<<Transfer(from, to, t)>>)
    /\ UNCHANGED <<collectionOwner, records, approvals>>

transferFrom(caller, from, to, t) ==
    /\ ~tokenIdToLockFlag[t]
    /\ from = ownerOf[t]
    /\ to # ZERO
    /\ caller \in {from, getApproved[t]}
    /\ _transferFrom(from, to, t)
    /\ Emit(<<Transfer(from, to, t)>>)
    /\ UNCHANGED <<collectionOwner, records, approvals>>

\* The index takes no notice of the Approval event.
approve(caller, spender, t) ==
    /\ ~tokenIdToLockFlag[t]
    /\ caller = ownerOf[t]
    /\ getApproved' = [getApproved EXCEPT ![t] = spender]
    /\ Emit(<< >>)
    /\ UNCHANGED <<collectionOwner, ownerOf, balanceOf, records, approvals>>

-----------------------------------------------------------------------------
Issue(issuer) ==
    \E cid \in MetadataCID, artist \in Artist, lock \in BOOLEAN, to \in Address,
       royalty \in Royalty \union {NoRoyalty} :
        createSRR(issuer, cid, artist, lock, to, royalty)

Update(caller, t) ==
    \/ \E artist \in Artist : updateSRR(caller, t, artist)
    \/ \E cid \in MetadataCID : updateSRRMetadata(caller, t, cid)
    \/ \E flag \in BOOLEAN : setLockExternalTransfer(caller, t, flag)
    \/ \E royalty \in Royalty : updateSRRRoyalty(caller, t, royalty)
    \/ \E id \in KnownHistory : addHistory(caller, t, id)

Move(caller, t) ==
    \/ \E commitment \in Reveal, id \in KnownHistory \union {NO_CUSTOM_HISTORY} :
          approveSRRByCommitment(caller, t, commitment, id)
    \/ cancelSRRCommitment(caller, t)
    \/ \E to \in Address, reveal \in Reveal : transferSRRByReveal(to, reveal, t)
    \/ \E to \in Address, id \in KnownHistory \union {NO_CUSTOM_HISTORY} :
          transferFromWithProvenance(caller, to, t, id)
    \/ \E from \in Account, to \in Address : transferFrom(caller, from, to, t)
    \/ \E spender \in Address : approve(caller, spender, t)

CollectionCall ==
    \/ createCollectionContract
    \/ \E caller \in Account :
          \/ Issue(caller)
          \/ \E newOwner \in Account : transferOwnership(caller, newOwner)
          \/ \E t \in TokenId : Update(caller, t) \/ Move(caller, t)
=============================================================================
