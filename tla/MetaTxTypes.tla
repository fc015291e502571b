----------------------------- MODULE MetaTxTypes -----------------------------
(***************************************************************************)
(* startrail-common-js/meta-tx: the types of meta transaction, as the      *)
(* client tables them.  A field is a pair of its name and its type, a      *)
(* request type a pair of the prefix and the rest of its key, a Solidity   *)
(* function a sequence of its name and the types of its parameters.        *)
(***************************************************************************)
EXTENDS Integers, Sequences

-----------------------------------------------------------------------------
(* eip712-message-types *)

GenericParamTypes == << <<"from", "address">>, <<"nonce", "uint256">> >>

isDynamicArrayType(type) == type \in {"string", "bytes", "uint256[]"}

\* Seeded fault: the calldata are asked for only when the first field is dynamic.
buildTypeListFirst(fields) ==
    GenericParamTypes
      \o (IF isDynamicArrayType(fields[1][2]) THEN << <<"data", "bytes">> >> ELSE << >>)
      \o fields

buildTypeList(fields) ==
    GenericParamTypes
      \o (IF \E i \in DOMAIN fields : isDynamicArrayType(fields[i][2])
          THEN << <<"data", "bytes">> >> ELSE << >>)
      \o fields

addDestinationField(fields) ==
    LET core == IF fields[3][1] = "data" THEN 3 ELSE 2
    IN  SubSeq(fields, 1, core) \o << <<"destination", "address">> >>
          \o SubSeq(fields, core + 1, Len(fields))

WalletTypes ==
    LET wallet == <<"wallet", "address">>
        prevOwner == <<"prevOwner", "address">>
        owner == <<"owner", "address">>
        threshold == <<"threshold", "uint256">>
    IN [AddOwner        |-> buildTypeList(<<wallet, owner, threshold>>),
        RemoveOwner     |-> buildTypeList(<<wallet, prevOwner, owner, threshold>>),
        SwapOwner       |-> buildTypeList(<<wallet, prevOwner, <<"oldOwner", "address">>,
                                            <<"newOwner", "address">> >>),
        ChangeThreshold |-> buildTypeList(<<wallet, threshold>>),
        SetEnglishName  |-> buildTypeList(<<wallet, <<"name", "string">> >>),
        SetOriginalName |-> buildTypeList(<<wallet, <<"name", "string">> >>)]

tokenId == <<"tokenId", "uint256">>
isPrimaryIssuer == <<"isPrimaryIssuer", "bool">>
artistAddress == <<"artistAddress", "address">>
metadataDigest == <<"metadataDigest", "bytes32">>
metadataCID == <<"metadataCID", "string">>
lockExternalTransfer == <<"lockExternalTransfer", "bool">>
to == <<"to", "address">>
royaltyReceiver == <<"royaltyReceiver", "address">>
royaltyBasisPoints == <<"royaltyBasisPoints", "uint16">>
commitment == <<"commitment", "bytes32">>
historyMetadataDigest == <<"historyMetadataDigest", "string">>
historyMetadataHash == <<"historyMetadataHash", "string">>
customHistoryId == <<"customHistoryId", "uint256">>
isIntermediary == <<"isIntermediary", "bool">>

StartrailRegistryTypes ==
   [CreateSRRWithLockExternalTransfer |->
        buildTypeList(<<isPrimaryIssuer, artistAddress, metadataDigest, lockExternalTransfer>>),
    CreateSRRFromLicensedUser |->
        buildTypeList(<<isPrimaryIssuer, artistAddress, metadataDigest, lockExternalTransfer,
                        to>>),
    CreateSRRFromLicensedUserWithCid |->
        buildTypeList(<<isPrimaryIssuer, artistAddress, metadataDigest, metadataCID,
                        lockExternalTransfer, to>>),
    CreateSRRFromLicensedUserWithRoyalty |->
        buildTypeList(<<isPrimaryIssuer, artistAddress, metadataDigest, metadataCID,
                        lockExternalTransfer, to, royaltyReceiver, royaltyBasisPoints>>),
    CreateSRRFromLicensedUserWithIPFSAndRoyalty |->
        buildTypeList(<<isPrimaryIssuer, artistAddress, metadataCID, lockExternalTransfer, to,
                        royaltyReceiver, royaltyBasisPoints>>),
    UpdateSRR |-> buildTypeList(<<tokenId, isPrimaryIssuer, artistAddress>>),
    UpdateSRRMetadata |-> buildTypeList(<<tokenId, metadataDigest>>),
    UpdateSRRMetadataWithCid |-> buildTypeList(<<tokenId, metadataCID>>),
    UpdateSRRRoyalty |-> buildTypeList(<<tokenId, royaltyReceiver, royaltyBasisPoints>>),
    ApproveSRRByCommitment |-> buildTypeList(<<tokenId, commitment, historyMetadataDigest>>),
    ApproveSRRByCommitmentV2 |-> buildTypeList(<<tokenId, commitment, historyMetadataHash>>),
    ApproveSRRByCommitmentWithCustomHistoryId |->
        buildTypeList(<<tokenId, commitment, historyMetadataDigest, customHistoryId>>),
    ApproveSRRByCommitmentWithCustomHistoryIdV2 |->
        buildTypeList(<<tokenId, commitment, historyMetadataHash, customHistoryId>>),
    CancelSRRCommitment |-> buildTypeList(<<tokenId>>),
    AddHistory |-> buildTypeList(<< <<"tokenIds", "uint256[]">>,
                                    <<"customHistoryIds", "uint256[]">> >>),
    SetLockExternalTransfer |-> buildTypeList(<<tokenId, <<"flag", "bool">> >>),
    TransferFromWithProvenance |->
        buildTypeList(<<to, tokenId, historyMetadataDigest, customHistoryId, isIntermediary>>),
    TransferFromWithProvenanceV2 |->
        buildTypeList(<<to, tokenId, historyMetadataHash, customHistoryId, isIntermediary>>)]

\* bulk-types: the same for BulkIssue, BulkTransfer and Bulk.
SendBatchTypes == buildTypeList(<< <<"merkleRoot", "bytes32">> >>)

CollectionFactoryCreateCollectionTypes ==
    buildTypeList(<< <<"name", "string">>, <<"symbol", "string">>, <<"salt", "bytes32">> >>)

\* Types of the registry that collections take over, with the destination added.
OfCollections ==
    {"UpdateSRR", "UpdateSRRMetadataWithCid", "UpdateSRRRoyalty", "ApproveSRRByCommitmentV2",
     "ApproveSRRByCommitmentWithCustomHistoryIdV2", "CancelSRRCommitment", "AddHistory",
     "SetLockExternalTransfer", "TransferFromWithProvenanceV2"}

CollectionTypes ==
    [key \in OfCollections \union {"CreateSRR", "TransferOwnership"} |->
        addDestinationField(
            CASE key = "CreateSRR" ->
                    buildTypeList(<<isPrimaryIssuer, artistAddress, metadataCID,
                                    lockExternalTransfer, to, royaltyReceiver,
                                    royaltyBasisPoints>>)
              [] key = "TransferOwnership" -> buildTypeList(<< <<"newOwner", "address">> >>)
              [] OTHER -> StartrailRegistryTypes[key])]

With(prefix, keys) == {<<prefix, key>> : key \in keys}

MetaTxRequestType ==
    With("Wallet", DOMAIN WalletTypes)
      \union With("StartrailRegistry", DOMAIN StartrailRegistryTypes)
      \union {<<"BulkIssue", "SendBatch">>, <<"BulkTransfer", "SendBatch">>,
              <<"Bulk", "SendBatch">>, <<"CollectionFactory", "CreateCollection">>}
      \union With("Collection", DOMAIN CollectionTypes)

\* MessageTypesRegistry
TypesOf(requestType) ==
    CASE requestType[1] = "Wallet" -> WalletTypes[requestType[2]]
      [] requestType[1] = "StartrailRegistry" -> StartrailRegistryTypes[requestType[2]]
      [] requestType[1] = "Collection" -> CollectionTypes[requestType[2]]
      [] requestType[1] = "CollectionFactory" -> CollectionFactoryCreateCollectionTypes
      [] OTHER -> SendBatchTypes

-----------------------------------------------------------------------------
(* meta-tx-request-registry.ts *)

WalletSignatures ==
   [AddOwner        |-> <<"addOwner", "address", "address", "uint8">>,
    RemoveOwner     |-> <<"removeOwner", "address", "address", "address", "uint8">>,
    ChangeThreshold |-> <<"changeThreshold", "address", "uint8">>,
    SwapOwner       |-> <<"swapOwner", "address", "address", "address", "address">>,
    SetEnglishName  |-> <<"setEnglishName", "address", "string">>,
    SetOriginalName |-> <<"setOriginalName", "address", "string">>]

approveSRRByCommitment == <<"approveSRRByCommitment", "uint256", "bytes32", "string">>
transferFromWithProvenance ==
    <<"transferFromWithProvenance", "address", "uint256", "string", "uint256", "bool">>

\* STARTRAIL_REGISTRY_TYPE_KEY_TO_FUNCTION_SIGNATURE
RegistrySignatures ==
   [CreateSRRWithLockExternalTransfer |->
        <<"createSRRFromLicensedUser", "bool", "address", "bytes32", "bool">>,
    CreateSRRFromLicensedUser |->
        <<"createSRRFromLicensedUser", "bool", "address", "bytes32", "bool", "address">>,
    CreateSRRFromLicensedUserWithCid |->
        <<"createSRRFromLicensedUser", "bool", "address", "bytes32", "string", "bool",
          "address">>,
    CreateSRRFromLicensedUserWithRoyalty |->
        <<"createSRRFromLicensedUser", "bool", "address", "bytes32", "string", "bool",
          "address", "address", "uint16">>,
    CreateSRRFromLicensedUserWithIPFSAndRoyalty |->
        <<"createSRRFromLicensedUser", "bool", "address", "string", "bool", "address",
          "address", "uint16">>,
    UpdateSRR                |-> <<"updateSRR", "uint256", "bool", "address">>,
    UpdateSRRMetadata        |-> <<"updateSRRMetadata", "uint256", "bytes32">>,
    UpdateSRRMetadataWithCid |-> <<"updateSRRMetadata", "uint256", "string">>,
    UpdateSRRRoyalty         |-> <<"updateSRRRoyalty", "uint256", "address", "uint16">>,
    ApproveSRRByCommitment   |-> approveSRRByCommitment,
    ApproveSRRByCommitmentV2 |-> approveSRRByCommitment,
    ApproveSRRByCommitmentWithCustomHistoryId   |-> Append(approveSRRByCommitment, "uint256"),
    ApproveSRRByCommitmentWithCustomHistoryIdV2 |-> Append(approveSRRByCommitment, "uint256"),
    CancelSRRCommitment      |-> <<"cancelSRRCommitment", "uint256">>,
    AddHistory               |-> <<"addHistory", "uint256[]", "uint256[]">>,
    SetLockExternalTransfer  |-> <<"setLockExternalTransfer", "uint256", "bool">>,
    TransferFromWithProvenance   |-> transferFromWithProvenance,
    TransferFromWithProvenanceV2 |-> transferFromWithProvenance]

CollectionSignatures ==
   [CreateSRR         |-> <<"createSRR", "bool", "address", "string", "bool", "address",
                            "address", "uint16">>,
    TransferOwnership |-> <<"transferOwnership", "address">>]

FactorySignatures == [CreateCollection |-> <<"createCollectionContract", "string", "string", "bytes32">>]

BatchSignatures == [SendBatch |-> <<"prepareBatchFromLicensedUser", "bytes32">>]

functionSignature(requestType) ==
    CASE requestType[1] = "Wallet" -> WalletSignatures[requestType[2]]
      [] requestType[1] = "StartrailRegistry" -> RegistrySignatures[requestType[2]]
      [] requestType[1] = "Collection" ->
            IF requestType[2] \in OfCollections THEN RegistrySignatures[requestType[2]]
            ELSE CollectionSignatures[requestType[2]]
      [] requestType[1] = "CollectionFactory" -> FactorySignatures[requestType[2]]
      [] OTHER -> BatchSignatures[requestType[2]]

destinationContract(requestType) ==
    CASE requestType[1] = "Wallet" -> "LicensedUserManager"
      [] requestType[1] = "Collection" -> "CollectionProxyFeaturesAggregate"
      [] OTHER -> requestType[1]

destinationAddressProvided(requestType) ==
    destinationContract(requestType) = "CollectionProxyFeaturesAggregate"

requiresDataField(requestType) ==
    \E i \in DOMAIN TypesOf(requestType) : TypesOf(requestType)[i][1] = "data"

\* buildSuffixTypeString: the fields after the generic ones.
suffixType(requestType) ==
    SubSeq(TypesOf(requestType), Len(GenericParamTypes) + 1, Len(TypesOf(requestType)))

\* buildTypeHash: two types have the same hash when name and fields are the same.
eip712TypeHash(requestType) == <<requestType, TypesOf(requestType)>>
=============================================================================
