-------------------------- MODULE FeatureSignatures --------------------------
(***************************************************************************)
(* utils/collection: the functions of every version of every collection    *)
(* feature (feature-signatures.ts), and the scripts that release them      *)
(* (utils/deployment).  A function is the sequence of its name and the     *)
(* types of its parameters, as in MetaTxTypes; a script is a sequence of   *)
(* tasks.  upgradeFeature takes the old version's functions from this      *)
(* table and the new version's from the contract; a test compares the two  *)
(* (test/utils/collection/feature-selectors.test.ts), and they are equal.  *)
(***************************************************************************)
EXTENDS MetaTxTypes

Keyed(keys, value) == [key \in keys |-> value]

erc721CommonFuncSignatures ==
    {<<"__ERC721Feature_initialize", "string", "string">>, <<"exists", "uint256">>,
     transferFromWithProvenance, <<"balanceOf", "address">>, <<"ownerOf", "uint256">>,
     <<"safeTransferFrom", "address", "address", "uint256">>,
     <<"safeTransferFrom", "address", "address", "uint256", "bytes">>,
     <<"transferFrom", "address", "address", "uint256">>, <<"approve", "address", "uint256">>,
     <<"getApproved", "uint256">>, <<"setApprovalForAll", "address", "bool">>,
     <<"isApprovedForAll", "address", "address">>, <<"name">>, <<"symbol">>}

lockExternalTransferCommonFuncSignatures ==
    {<<"setLockExternalTransfer", "uint256", "bool">>, <<"getLockExternalTransfer", "uint256">>}

srrCommonFuncSignatures ==
    {<<"createSRR", "bool", "address", "string", "bool", "address", "address", "uint16">>,
     <<"getSRR", "uint256">>, <<"updateSRR", "uint256", "bool", "address">>}

srrMetadataCommonFuncSignatures ==
    {<<"updateSRRMetadata", "uint256", "string">>, <<"getSRRMetadata", "uint256">>,
     <<"tokenURI", "uint256">>}

srrApproveTransferCommonFuncSignatures ==
    {Append(approveSRRByCommitment, "uint256"), approveSRRByCommitment,
     <<"cancelSRRCommitment", "uint256">>, <<"getSRRCommitment", "uint256">>,
     <<"transferSRRByReveal", "address", "bytes32", "uint256", "bool">>}

erc2981RoyaltyCommonFuncSignatures ==
    {<<"updateSRRRoyalty", "uint256", "address", "uint16">>,
     <<"updateSRRRoyaltyReceiverMulti", "uint256[]", "address">>,
     <<"getSRRRoyalty", "uint256">>, <<"royaltyInfo", "uint256", "uint256">>}

bulkCommonFuncSignatures ==
    {<<"approveSRRByCommitmentFromBulk", "address", "uint256", "bytes32", "string", "uint256">>,
     <<"transferFromWithProvenanceFromBulk", "address", "address", "uint256", "string",
       "uint256", "bool">>}

createSRRFromBulk ==
    <<"createSRRFromBulk", "bool", "address", "string", "address", "bool", "address">>

CollectionFunctionSignatures ==
   [ERC721Feature |-> Keyed({"V01", "V02", "V03", "V04", "V05"}, erc721CommonFuncSignatures),
    LockExternalTransferFeature |-> [V01 |-> lockExternalTransferCommonFuncSignatures],
    SRRFeature |-> Keyed({"V01", "V02"}, srrCommonFuncSignatures),
    SRRApproveTransferFeature |->
       [version \in {"V01", "V02", "V03", "V04"} |->
           srrApproveTransferCommonFuncSignatures
             \union (IF version = "V01"
                     THEN {<<"approveSRRByCommitmentFromBulk", "uint256", "bytes32", "string",
                             "uint256">>}
                     ELSE {})],
    SRRMetadataFeature |-> [V01 |-> srrMetadataCommonFuncSignatures],
    SRRHistoryFeature |-> [V01 |-> {<<"addHistory", "uint256[]", "uint256[]">>}],
    ERC2981RoyaltyFeature |-> [V01 |-> erc2981RoyaltyCommonFuncSignatures],
    BulkFeature |->
       [version \in {"V01", "V02", "V03", "V04"} |->
           bulkCommonFuncSignatures
             \union {IF version = "V01" THEN Append(createSRRFromBulk, "uint16")
                     ELSE createSRRFromBulk \o <<"address", "uint16">>}]]

\* The functions that the feature registry's constructor registers.
OwnableFunctions ==
    {<<"owner">>, <<"transferOwnership", "address">>, <<"__OwnableFeature_initialize", "address">>}

\* The interfaces that a feature adds, and their functions (erc-interfaces.ts).
FunctionsOfInterface ==
   [ERC721 |-> erc721CommonFuncSignatures
                 \ {<<"__ERC721Feature_initialize", "string", "string">>, <<"exists", "uint256">>,
                    transferFromWithProvenance, <<"name">>, <<"symbol">>},
    ERC721Metadata |-> {<<"name">>, <<"symbol">>, <<"tokenURI", "uint256">>},
    ERC2981 |-> {<<"royaltyInfo", "uint256", "uint256">>}]

supportedInterfaceIds(feature) ==
    CASE feature = "ERC721Feature" -> <<"ERC721", "ERC721Metadata">>
      [] feature = "ERC2981RoyaltyFeature" -> <<"ERC2981">>
      [] OTHER -> << >>

-----------------------------------------------------------------------------
(* The scripts. *)

Deploy(feature, version) == [do |-> "deploy", feature |-> feature, version |-> version]

Upgrade(feature, from, version) ==
    [do |-> "upgrade", feature |-> feature, from |-> from, version |-> version]

Register(requestTypes) == [do |-> "register", types |-> requestTypes]

Do(what) == [do |-> what]

\* The features that deployCollectionsCore deploys, in this order.
CoreFeatures ==
    <<"ERC721Feature", "LockExternalTransferFeature", "SRRFeature", "SRRApproveTransferFeature",
      "ERC2981RoyaltyFeature", "SRRMetadataFeature", "SRRHistoryFeature">>

\* deployCollectionsCore.  The collection proxy that collections are cloned from is
\* part of the factory, and its ownership and the implementation addresses, which no
\* other step reads, are left out.
deployCollectionsCore ==
    <<Do("registry"), Do("registryJSON"), Do("factory"), Do("factoryJSON"),
      Do("setCollectionRegistry")>>
      \o [i \in DOMAIN CoreFeatures |-> Deploy(CoreFeatures[i], "V01")]

\* The types of 024-deploy-collections.ts.
CollectionRequestTypes ==
    LET keys == <<"CreateSRR", "UpdateSRR", "UpdateSRRMetadataWithCid", "UpdateSRRRoyalty",
                  "ApproveSRRByCommitmentV2", "ApproveSRRByCommitmentWithCustomHistoryIdV2",
                  "CancelSRRCommitment", "AddHistory", "SetLockExternalTransfer",
                  "TransferFromWithProvenanceV2", "TransferOwnership">>
    IN  << <<"CollectionFactory", "CreateCollection">> >>
          \o [i \in DOMAIN keys |-> <<"Collection", keys[i]>>]

deployCollections == Append(deployCollectionsCore, Register(CollectionRequestTypes))

\* 026-deploy-bulk-collection.ts, what it does to collections.
deployBulkCollection ==
    <<Upgrade("ERC721Feature", "V03", "V03"), Upgrade("SRRFeature", "V02", "V02"),
      Upgrade("SRRApproveTransferFeature", "V02", "V02"),
      Upgrade("ERC2981RoyaltyFeature", "V01", "V01"), Upgrade("SRRMetadataFeature", "V01", "V01"),
      Upgrade("LockExternalTransferFeature", "V01", "V01"),
      Upgrade("SRRHistoryFeature", "V01", "V01"), Deploy("BulkFeature", "V01")>>

\* 027-deploy-bulk-issue-on-buyer.ts
deployBulkIssueOnBuyer == <<Upgrade("BulkFeature", "V01", "V02")>>

\* 029-deploy-collection-srr-transfer-privileges-update.ts
deployCollectionSRRTransferPrivilegesUpdate ==
    <<Upgrade("SRRApproveTransferFeature", "V02", "V03"), Upgrade("ERC721Feature", "V03", "V04"),
      Upgrade("BulkFeature", "V02", "V03")>>

\* 030-deploy-fix-collection-log-provenance.ts
deployFixCollectionLogProvenance == <<Upgrade("SRRApproveTransferFeature", "V03", "V04")>>
=============================================================================
