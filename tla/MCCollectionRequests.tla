------------------------ MODULE MCCollectionRequests ------------------------
\* Three parts.  "tables": every type of request, in every form of its data, by one
\* caller, all types registered.  "race": two types, two callers, while owners and
\* registrations change.  "release": the scripts, cut off and repeated, while a caller
\* creates collections.  The first two begin with the core of collections deployed.
EXTENDS CollectionRequests, FeatureSignatures

LOCAL INSTANCE FiniteSetsExt

VARIABLE part

TransferOwnership == <<"Collection", "TransferOwnership">>
SwapOwner == <<"Wallet", "SwapOwner">>
Listed(types) == FoldSet(LAMBDA type, list : Append(list, type), << >>, types)
Lists == {Listed(MetaTxRequestType), <<TransferOwnership>>, <<SwapOwner>>}

Scripts == {deployCollections, deployCollectionsCore, deployBulkCollection,
            deployBulkIssueOnBuyer, deployCollectionSRRTransferPrivilegesUpdate,
            deployFixCollectionLogProvenance,
            <<Upgrade("SRRApproveTransferFeature", "V01", "V02")>>,
            <<Upgrade("BulkFeature", "V02", "V01")>>}
LegacyFunction == {<<"approveSRRByCommitmentFromBulk", "uint256", "bytes32", "string", "uint256">>}
Standards == [id \in {"ERC721", "ERC2981"} |-> FunctionsOfInterface[id]]

Symmetry == Permutations(Caller)

CoreRegistry ==
    LET features == {CoreFeatures[i] : i \in DOMAIN CoreFeatures} IN
    [NewRegistry EXCEPT !.route = @ @@
        [s \in UNION {Signatures[f]["V01"] : f \in features} |->
            [feature |-> CHOOSE f \in features : s \in Signatures[f]["V01"], version |-> "V01",
             number |-> 1]]]

MCInit ==
    /\ ClientInit
    /\ creates = 0 /\ todo = << >> /\ started = 0 /\ cutOffs = 0 /\ built = [f \in Feature |-> 0]
    /\ \/ part = "release" /\ RequestsInit
       \/ /\ part \in {"tables", "race"}
          /\ registries = <<CoreRegistry>> /\ factories = <<1>> /\ served = 1
          /\ json = [registry |-> 1, factory |-> 1]
          /\ collections = [c \in Collection |-> 1]

Tables ==
    /\ \A c, d \in Caller : c = d \/ Idle \in {pending'[c], pending'[d]}
    /\ UNCHANGED wallet
    /\ requestTypes' # requestTypes =>
          requestTypes = << >> /\ Cardinality(DOMAIN requestTypes') > 1
    /\ pending' # [c \in Caller |-> Idle] =>
          requestTypes # << >> /\ CaughtUp /\ nonces = [c \in Channel |-> 0]

Plain(c) == \A i \in DOMAIN pending[c].data : ~pending[c].data[i][1][1]

Race ==
    /\ DOMAIN requestTypes' \subseteq {eip712TypeHash(t) : t \in {TransferOwnership, SwapOwner}}
    /\ threshold' = Cardinality(owners')
    /\ \A c \in Caller : pending'[c] # Idle =>
          /\ pending'[c].type \in {TransferOwnership, SwapOwner}
          /\ pending'[c].nonce = 0
          /\ Plain(c)'
          /\ pending'[c].type = TransferOwnership => pending'[c].data[1][1][2] = "destination"

\* Steps of one caller that creates a collection.
Create(c) ==
    \/ /\ CreateCollection \in {h[1] : h \in DOMAIN requestTypes}
       /\ CaughtUp /\ collections = << >> /\ nonces[0] = 0
       /\ getNonce(c, CreateCollection, 0,
                   RequestData(CreateCollection, NoDestination, FALSE, FALSE))
    \/ signRequest(c, <<CHOOSE o \in owners : TRUE>>)

Release ==
    /\ \A c, d \in Caller : c = d \/ Idle \in {pending'[c], pending'[d]}
    /\ started = 0 /\ todo' # todo => todo' = deployCollections
    /\ ~CaughtUp => log' # log
    /\ TypesByScripts

MCNext ==
    /\ UNCHANGED part
    /\ \/ /\ part # "release"
          /\ \/ ClientStep /\ UNCHANGED <<releaseVars, collections, creates>>
             \/ \E types \in TypeLists : RegisterByHand(types)
             \/ \E c \in Caller : Relay(c)
       \/ /\ part = "release"
          /\ \/ \E c \in Caller : Create(c) /\ UNCHANGED <<releaseVars, collections, creates>>
             \/ IndexEvent /\ UNCHANGED <<releaseVars, collections, creates>>
             \/ \E c \in Caller : Relay(c)
             \/ RegisterByScript
             \/ ReleaseStep /\ UNCHANGED <<clientVars, collections, creates>>
    /\ part = "tables" => Tables
    /\ part = "race" => Race
    /\ part = "release" => Release

MCSpec == MCInit /\ [][MCNext]_<<requestVars, part>>
=============================================================================
