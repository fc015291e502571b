-------------------------- MODULE StartrailRegistry --------------------------
(***************************************************************************)
(* contracts/startrailregistry/StartrailRegistryV25.sol: the Startrail     *)
(* Registry Records (SRRs), an ERC-721 token with an issuer, an artist and *)
(* metadata, that also changes hands by commitment and reveal and by       *)
(* transfers that leave a provenance record.                               *)
(*                                                                         *)
(* `caller` is the account a call comes from: msgSender() for Startrail's  *)
(* own operations (the signer of a forwarded request), _msgSender() for    *)
(* the ERC-721 ones (the sender or the signer of an OpenSea meta           *)
(* transaction).  A commitment is known by its reveal, which the owner may *)
(* have given to anybody.  The history metadata hash is set and cleared    *)
(* with the commitment and left out, like isPrimaryIssuer and the URIs.    *)
(* A call that reverts is a step that is not taken; addHistory, which only *)
(* emits an event, is left out.                                            *)
(***************************************************************************)
EXTENDS ERC721, CustomHistories

CONSTANTS
    Administrator,  \* the account of the administrator
    OpenSeaProxy,   \* the account registered as OpenSea's proxy
    Artist,         \* artist addresses
    MetadataCID,    \* non-empty metadata ids
    generate,       \* generate[<<cid, artist>>]: the token id, a truncated hash
    Reveal,         \* reveals
    BasisPoints,    \* royalty rates, in 1/10000 of the price
    Issuer,         \* bound: accounts that create records
    Operator,       \* bound: accounts made operators
    Receiver        \* bound: accounts named as royalty receivers

VARIABLES
    srrs,           \* srrs[t]: issuer, artist, metadata and lock of token t
    royalties,      \* royalties[t]
    commitments,    \* commitments[t]: the stored commitment and its custom history
    killSwitch,     \* the kill switch of the OpenSea proxy
    announced,      \* announced[t]: custom history id in t's last SRRCommitment event
    emitted         \* the Provenance event of the last call, if any

records == <<srrs, royalties, killSwitch>>
vars == <<tokenOwner, ownedTokensCount, tokenApprovals, operatorApprovals,
          historyTypeNames, historyNames,
          srrs, royalties, commitments, killSwitch, announced, emitted>>

NoMetadata == ""
NoCommitment == "0x0"
NoSRR == [issuer |-> ZERO, artist |-> ZERO, metadata |-> NoMetadata, locked |-> FALSE]
NoRoyalty == [receiver |-> ZERO, basisPoints |-> 0]
NothingCommitted == [commitment |-> NoCommitment, customHistory |-> NO_CUSTOM_HISTORY]

ASSUME RegistryAssumption ==
    /\ {Administrator, OpenSeaProxy} \subseteq Account
    /\ Artist \subseteq Address
    /\ NoMetadata \notin MetadataCID
    /\ NoCommitment \notin Reveal
    /\ generate \in [MetadataCID \X Artist -> TokenId]
    /\ BasisPoints \subseteq Nat
    /\ Issuer \union Operator \union Receiver \subseteq Account

SRR == [issuer: Address, artist: Address, metadata: MetadataCID \union {NoMetadata},
        locked: BOOLEAN]
Rate == 0..10000

RoyaltyInfo == [receiver: Address, basisPoints: Rate]
Commitment == [commitment: Reveal \union {NoCommitment}, customHistory: HistoryId]
Provenance == [token: TokenId, from: Account, to: Account, customHistory: HistoryId]

TypeOK ==
    /\ ERC721TypeOK
    /\ CustomHistoriesTypeOK
    /\ srrs \in [TokenId -> SRR]
    /\ royalties \in [TokenId -> RoyaltyInfo]
    /\ commitments \in [TokenId -> Commitment]
    /\ killSwitch \in BOOLEAN
    /\ announced \in [TokenId -> HistoryId]
    /\ emitted \subseteq Provenance /\ Cardinality(emitted) <= 1

Init ==
    /\ ERC721Init
    /\ CustomHistoriesInit
    /\ srrs = [t \in TokenId |-> NoSRR]
    /\ royalties = [t \in TokenId |-> NoRoyalty]
    /\ commitments = [t \in TokenId |-> NothingCommitted]
    /\ killSwitch = FALSE
    /\ announced = [t \in TokenId |-> NO_CUSTOM_HISTORY]
    /\ emitted = {}

-----------------------------------------------------------------------------
(* Who may call. *)

onlySRROwnerOrAdministrator(caller, t) ==
    exists(t) /\ (tokenOwner[t] = caller \/ caller = Administrator)

onlyIssuerOrArtistOrAdministrator(caller, t) ==
    caller \in {Administrator, srrs[t].issuer, srrs[t].artist}

onlyIssuerOrAdministrator(caller, t) == caller \in {Administrator, srrs[t].issuer}

externalTransferNotLocked(t) == ~srrs[t].locked

isApprovedForAll(owner, operator) ==
    \/ ~killSwitch /\ operator = OpenSeaProxy
    \/ <<owner, operator>> \in operatorApprovals

isApprovedOrOwner(spender, t) ==
    /\ exists(t)
    /\ \/ spender = tokenOwner[t]
       \/ spender = tokenApprovals[t]
       \/ isApprovedForAll(tokenOwner[t], spender)

-----------------------------------------------------------------------------
(* Issuing and updating. *)

\* Seeded fault: the rate is not limited.
RoyaltyAllowedUncapped(receiver, basisPoints) == receiver # ZERO

RoyaltyAllowed(receiver, basisPoints) == receiver # ZERO /\ basisPoints <= 10000

\* createSRRFromLicensedUser, and createSRRFromBulk for the signer of the batch.
createSRR(issuer, cid, artist, lock, to, receiver, basisPoints) ==
    LET t == generate[<<cid, artist>>] IN
    /\ receiver # ZERO => RoyaltyAllowed(receiver, basisPoints)
    /\ IF to = ZERO THEN mint(issuer, t) ELSE mintAndTransfer(issuer, to, t)
    /\ srrs' = [srrs EXCEPT ![t] = [issuer |-> issuer, artist |-> artist,
                                    metadata |-> cid, locked |-> lock]]
    /\ royalties' = IF receiver = ZERO THEN royalties
                    ELSE [royalties EXCEPT ![t] = [receiver |-> receiver,
                                                   basisPoints |-> basisPoints]]
    /\ emitted' = {}
    /\ UNCHANGED <<customHistories, commitments, killSwitch, announced>>

updateSRR(caller, t, artist) ==
    /\ exists(t)
    /\ onlyIssuerOrArtistOrAdministrator(caller, t)
    /\ srrs' = [srrs EXCEPT ![t].artist = artist]
    /\ emitted' = {}
    /\ UNCHANGED <<erc721, customHistories, royalties, commitments, killSwitch, announced>>

updateSRRMetadata(caller, t, cid) ==
    /\ exists(t)
    /\ onlyIssuerOrArtistOrAdministrator(caller, t)
    /\ srrs' = [srrs EXCEPT ![t].metadata = cid]
    /\ emitted' = {}
    /\ UNCHANGED <<erc721, customHistories, royalties, commitments, killSwitch, announced>>

\* Seeded fault: a royalty is set on a record that was created without one.
updateSRRRoyaltyAny(caller, t, receiver, basisPoints) ==
    /\ exists(t)
    /\ onlyIssuerOrArtistOrAdministrator(caller, t)
    /\ RoyaltyAllowed(receiver, basisPoints)
    /\ royalties' = [royalties EXCEPT ![t] = [receiver |-> receiver,
                                              basisPoints |-> basisPoints]]
    /\ emitted' = {}
    /\ UNCHANGED <<erc721, customHistories, srrs, commitments, killSwitch, announced>>

\* Succeeds, and changes nothing, for a record created without a royalty.
updateSRRRoyalty(caller, t, receiver, basisPoints) ==
    /\ exists(t)
    /\ onlyIssuerOrArtistOrAdministrator(caller, t)
    /\ IF royalties[t].receiver = ZERO
       THEN UNCHANGED royalties
       ELSE /\ RoyaltyAllowed(receiver, basisPoints)
            /\ royalties' = [royalties EXCEPT ![t] = [receiver |-> receiver,
                                                      basisPoints |-> basisPoints]]
    /\ emitted' = {}
    /\ UNCHANGED <<erc721, customHistories, srrs, commitments, killSwitch, announced>>

WithReceiver(royalty, receiver) ==
    [receiver |-> receiver, basisPoints |-> royalty.basisPoints]

updateSRRRoyaltyReceiverMulti(caller, tokens, receiver) ==
    LET withRoyalty == {t \in tokens : royalties[t].receiver # ZERO} IN
    /\ caller = Administrator
    /\ \A t \in tokens : exists(t)
    /\ withRoyalty # {} => receiver # ZERO
    /\ royalties' = [t \in TokenId |-> IF t \in withRoyalty
                                       THEN WithReceiver(royalties[t], receiver)
                                       ELSE royalties[t]]
    /\ emitted' = {}
    /\ UNCHANGED <<erc721, customHistories, srrs, commitments, killSwitch, announced>>

setLockExternalTransfer(caller, t, lock) ==
    /\ onlyIssuerOrAdministrator(caller, t)
    /\ exists(t)
    /\ srrs' = [srrs EXCEPT ![t].locked = lock]
    /\ emitted' = {}
    /\ UNCHANGED <<erc721, customHistories, royalties, commitments, killSwitch, announced>>

-----------------------------------------------------------------------------
(* Approval by commitment and transfer by reveal. *)

\* _approveSRRByCommitment: without a custom history the stored id is left alone.
Commit(t, commitment, customHistory) ==
    /\ commitments' = [commitments EXCEPT ![t] =
          [commitment |-> commitment,
           customHistory |-> IF customHistory = NO_CUSTOM_HISTORY
                             THEN @.customHistory ELSE customHistory]]
    /\ announced' = [announced EXCEPT ![t] = customHistory]
    /\ emitted' = {}
    /\ UNCHANGED <<erc721, customHistories, records>>

\* The two approveSRRByCommitment: the one that names a custom history checks it.
approveSRRByCommitment(caller, t, commitment, customHistory) ==
    /\ onlySRROwnerOrAdministrator(caller, t)
    /\ customHistory # NO_CUSTOM_HISTORY => customHistoryIdExists(customHistory)
    /\ Commit(t, commitment, customHistory)

\* For a batch of Bulk: the signer must own the record; the id is not checked.
approveSRRByCommitmentFromBulk(signer, t, commitment, customHistory) ==
    /\ ownerIs(t, signer)
    /\ Commit(t, commitment, customHistory)

cancelSRRCommitment(caller, t) ==
    /\ onlySRROwnerOrAdministrator(caller, t)
    /\ commitments' = [commitments EXCEPT ![t] = NothingCommitted]
    /\ emitted' = {}
    /\ UNCHANGED <<erc721, customHistories, records, announced>>

ProvenanceOf(t, to, customHistory) ==
    [token |-> t, from |-> tokenOwner[t], to |-> to, customHistory |-> customHistory]

\* Anybody who knows the reveal may call.
transferSRRByReveal(to, reveal, t) ==
    /\ exists(t)
    /\ reveal = commitments[t].commitment
    /\ emitted' = {ProvenanceOf(t, to, commitments[t].customHistory)}
    /\ commitments' = [commitments EXCEPT ![t] = NothingCommitted]
    /\ transfer(tokenOwner[t], to, t)
    /\ UNCHANGED <<customHistories, records, announced>>

\* _transferFromWithProvenance.
TransferWithProvenance(to, t, customHistory) ==
    /\ emitted' = {ProvenanceOf(t, to, customHistory)}
    /\ transfer(tokenOwner[t], to, t)
    /\ UNCHANGED <<customHistories, records, commitments, announced>>

transferFromWithProvenance(caller, to, t, customHistory) ==
    /\ onlySRROwnerOrAdministrator(caller, t)
    /\ TransferWithProvenance(to, t, customHistory)

transferFromWithProvenanceFromBulk(signer, to, t, customHistory) ==
    /\ ownerIs(t, signer)
    /\ TransferWithProvenance(to, t, customHistory)

-----------------------------------------------------------------------------
(* The standard ERC-721 calls. *)

\* Seeded fault: a locked record may be transferred by its owner.
transferFromByOwner(caller, from, to, t) ==
    /\ externalTransferNotLocked(t) \/ ownerIs(t, caller)
    /\ isApprovedOrOwner(caller, t)
    /\ transfer(from, to, t)
    /\ emitted' = {}
    /\ UNCHANGED <<customHistories, records, commitments, announced>>

\* transferFrom and the two safeTransferFrom.
transferFrom(caller, from, to, t) ==
    /\ externalTransferNotLocked(t)
    /\ isApprovedOrOwner(caller, t)
    /\ transfer(from, to, t)
    /\ emitted' = {}
    /\ UNCHANGED <<customHistories, records, commitments, announced>>

approve(caller, to, t) ==
    /\ externalTransferNotLocked(t)
    /\ exists(t)
    /\ to # tokenOwner[t]
    /\ \/ caller = tokenOwner[t]
       \/ isApprovedForAll(tokenOwner[t], caller)
       \/ caller = Administrator
    /\ approveTo(to, t)
    /\ emitted' = {}
    /\ UNCHANGED <<customHistories, records, commitments, announced>>

SetApprovalForAll(caller, operator, approved) ==
    /\ setApprovalForAll(caller, operator, approved)
    /\ emitted' = {}
    /\ UNCHANGED <<customHistories, records, commitments, announced>>

setOpenSeaApproveAllKillSwitch(caller, on) ==
    /\ caller = Administrator
    /\ killSwitch' = on
    /\ emitted' = {}
    /\ UNCHANGED <<erc721, customHistories, srrs, royalties, commitments, announced>>

\* The custom histories are the administrator's.
WriteHistories ==
    /\ \/ \E name \in NameOrEmpty : addCustomHistoryType(name)
       \/ \E name \in NameOrEmpty, type \in 1..MaxHistories : writeCustomHistory(name, type)
       \/ \E name \in NameOrEmpty, id \in HistoryId : updateCustomHistory(id, name)
    /\ emitted' = {}
    /\ UNCHANGED <<erc721, records, commitments, announced>>

-----------------------------------------------------------------------------
Issue(issuer) ==
    \E cid \in MetadataCID, artist \in Artist, lock \in BOOLEAN,
       to \in Address, receiver \in Receiver \union {ZERO}, basisPoints \in BasisPoints :
        createSRR(issuer, cid, artist, lock, to, receiver, basisPoints)

Update(caller, t) ==
    \/ \E artist \in Artist : updateSRR(caller, t, artist)
    \/ \E cid \in MetadataCID \union {NoMetadata} : updateSRRMetadata(caller, t, cid)
    \/ \E receiver \in Receiver \union {ZERO}, basisPoints \in BasisPoints :
          updateSRRRoyalty(caller, t, receiver, basisPoints)
    \/ \E lock \in BOOLEAN : setLockExternalTransfer(caller, t, lock)

ByCommitment(caller, t) ==
    \/ \E commitment \in Reveal \union {NoCommitment}, id \in HistoryId :
          \/ approveSRRByCommitment(caller, t, commitment, id)
          \/ approveSRRByCommitmentFromBulk(caller, t, commitment, id)
    \/ cancelSRRCommitment(caller, t)

WithProvenance(caller, t) ==
    \/ \E to \in Address, reveal \in Reveal : transferSRRByReveal(to, reveal, t)
    \/ \E to \in Address, id \in HistoryId :
          \/ transferFromWithProvenance(caller, to, t, id)
          \/ transferFromWithProvenanceFromBulk(caller, to, t, id)

Standard(caller, t) ==
    \/ \E from \in Account, to \in Address : transferFrom(caller, from, to, t)
    \/ \E to \in Address : approve(caller, to, t)

Next ==
    \/ \E issuer \in Issuer : Issue(issuer)
    \/ \E caller \in Account, t \in TokenId :
          \/ Update(caller, t)
          \/ ByCommitment(caller, t)
          \/ WithProvenance(caller, t)
          \/ Standard(caller, t)
    \/ \E caller \in Account, tokens \in SUBSET TokenId, receiver \in Receiver \union {ZERO} :
          updateSRRRoyaltyReceiverMulti(caller, tokens, receiver)
    \/ \E caller \in Account, operator \in Operator, approved \in BOOLEAN :
          SetApprovalForAll(caller, operator, approved)
    \/ \E caller \in Account, on \in BOOLEAN : setOpenSeaApproveAllKillSwitch(caller, on)
    \/ WriteHistories

Spec == Init /\ [][Next]_vars

-----------------------------------------------------------------------------
(* Properties. *)

\* "Only apply to srrs created with royalty info" (updateSRRRoyalty and
\* updateSRRRoyaltyReceiverMulti): an issued record has a royalty if, and only
\* if, it was created with one, through any updates and transfers.
RoyaltyOnlyFromCreation ==
    [][\A t \in TokenId : exists(t) =>
          (royalties[t].receiver = ZERO <=> royalties'[t].receiver = ZERO)]_vars

\* Whoever is approved for a single token was approved under its present owner:
\* an approval does not outlive the ownership it was given under.
ApprovalEndsWithOwnership ==
    [][\A t \in TokenId :
          tokenOwner'[t] # tokenOwner[t] => tokenApprovals'[t] = ZERO]_vars

\* A custom history that exists exists for good, so that records and events that
\* refer to it can always be resolved.
HistoriesStay ==
    [][\A id \in HistoryId : customHistoryIdExists(id) => customHistoryIdExists(id)']_vars

\* The record keeps what SRRTitle promises: it has an owner and one issuer for
\* good, moves without provenance only while unlocked, and its provenance is true.
Title == INSTANCE SRRTitle WITH
    NoOne <- ZERO,
    holder <- tokenOwner,
    issuer <- [t \in TokenId |-> srrs[t].issuer],
    locked <- [t \in TokenId |-> srrs[t].locked],
    entry <- {[token |-> e.token, from |-> e.from, to |-> e.to] : e \in emitted}
KeepsTitle == Title!Spec

\* What a stored commitment will do is what its SRRCommitment event announced: a
\* new approval replaces the prior one, which the SRRCommitmentCancelled event
\* cancels, "If approve has already been called then emit event that signifies
\* that prior approval is cancelled." (_approveSRRByCommitment).
CommitmentIsAsAnnounced ==
    \A t \in TokenId :
        commitments[t].commitment # NoCommitment => commitments[t].customHistory = announced[t]

\* "SRR already exists on chain for artist/metadata combination" (_createSRR): a
\* record is not created for an artist and metadata that another record has.
CreatesNewArtwork ==
    [][\A s, t \in TokenId :
          exists(s) /\ ~exists(t) /\ exists(t)'
          => <<srrs[s].artist, srrs[s].metadata>> # <<srrs'[t].artist, srrs'[t].metadata>>]_vars
=============================================================================
