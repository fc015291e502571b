------------------------- MODULE CollectionRequests -------------------------
(***************************************************************************)
(* The meta transactions of collections, from the client to the feature    *)
(* that executes them, while scripts deploy and upgrade the features: the  *)
(* client and the forwarder (MetaTxClient), the release scripts and the    *)
(* feature registries (FeatureUpgrade), and between them the factory, its  *)
(* list of collections and the proxies.                                    *)
(***************************************************************************)
EXTENDS MetaTxClient, FeatureUpgrade

VARIABLES
    collections,        \* the collections that exist: the factory each was made by
    creates             \* the factory that the type CreateCollection was registered with

\* A script registers a list of types.
ASSUME RequestsAssumption ==
    \A task \in Task : task.do = "register" => task.types \in Seq(RequestType)

requestVars == <<clientVars, releaseVars, collections, creates>>

CreateCollection == <<"CollectionFactory", "CreateCollection">>

\* The types of request that name a collection as their destination.
CollectionType == {t \in RequestType : destinationAddressProvided(t)}

\* A script that registers such types deploys the core, has deployed the features with
\* their functions before, if not every registry has them, and registers the type that
\* creates collections with them (024-deploy-collections.ts).  No later version of a
\* feature lacks such a function and nobody removes one by hand (feature-signatures.ts).
ASSUME RegistrationAssumption ==
    /\ \A script \in Script : \A k \in 1..Len(script) : script[k].do = "register" =>
          \A i \in DOMAIN script[k].types : script[k].types[i] \in CollectionType =>
             /\ script[1].do = "registry"
             /\ \E j \in DOMAIN script[k].types : script[k].types[j] = CreateCollection
             /\ \/ functionSignature(script[k].types[i]) \in Ownable
                \/ \E j \in 1..(k - 1) :
                      /\ script[j].do = "deploy"
                      /\ functionSignature(script[k].types[i])
                            \in Signatures[script[j].feature][script[j].version]
    /\ \A t \in CollectionType :
          /\ functionSignature(t) \notin Removable
          /\ \A task \in Task : task.do = "upgrade" =>
                (functionSignature(t) \in Signatures[task.feature][task.from] =>
                    functionSignature(t) \in Signatures[task.feature][task.version])

\* CollectionProxy: the feature registry of a collection.
featureRegistry(c) == registries[factories[collections[c]]]

\* createCollectionContract: the clone is initialised through the registry.
createCollectionContract(c) ==
    LET route == registries[factories[creates]].route IN
    /\ c \notin DOMAIN collections
    /\ \E s \in DOMAIN route : s[1] = "__ERC721Feature_initialize"
    /\ \E s \in DOMAIN route : s[1] = "__OwnableFeature_initialize"
    /\ collections' = [d \in DOMAIN collections \union {c} |->
                          IF d = c THEN creates ELSE collections[d]]

\* The forwarder asks the factory's list of collections, and the collection its
\* registry for the function.
CallCollection(request) ==
    LET c == Destination(request) IN
    /\ c \in DOMAIN collections /\ collections[c] = served
    /\ CallOf(request)[1] \in DOMAIN featureRegistry(c).route
    /\ UNCHANGED collections

Relay(c) ==
    LET r == pending[c] IN
    /\ executeTransactionLUW(c)
    /\ IF r.type = CreateCollection
       THEN \E new \in Collection : createCollectionContract(new)
       ELSE IF destinationAddressProvided(r.type) THEN CallCollection(Relayed(r))
       ELSE UNCHANGED collections
    /\ UNCHANGED <<releaseVars, creates>>

\* The destination of CreateCollection is the factory of deploy.json.
Registered(types) ==
    /\ registerRequestTypes(types)
    /\ creates' = IF \E i \in DOMAIN types : types[i] = CreateCollection THEN json.factory
                  ELSE creates

RegisterByHand(types) ==
    /\ Registered(types)
    /\ UNCHANGED <<releaseVars, collections>>

\* The types a script registers; it fails when one of them is registered already.
RegisterByScript ==
    /\ RegistrationTask
    /\ LET types == Head(todo).types IN
       \/ Registered(types) /\ todo' = Tail(todo)
       \/ /\ \E i \in DOMAIN types : eip712TypeHash(types[i]) \in DOMAIN requestTypes
          /\ todo' = << >>
          /\ UNCHANGED <<clientVars, creates>>
    /\ UNCHANGED collections

RequestsInit == ClientInit /\ ReleaseInit /\ collections = << >> /\ creates = 0

RequestsNext ==
    \/ ClientStep /\ UNCHANGED <<releaseVars, collections, creates>>
    \/ \E c \in Caller : Relay(c)
    \/ \E types \in TypeLists : RegisterByHand(types)
    \/ RegisterByScript
    \/ ReleaseStep /\ UNCHANGED <<clientVars, collections, creates>>

RequestsSpec == RequestsInit /\ [][RequestsNext]_requestVars

\* Nobody registers a type of collections by hand, and the type that creates them
\* stays registered.
TypesByScripts ==
    /\ UNCHANGED todo =>
          \A t \in CollectionType \union {CreateCollection} :
              eip712TypeHash(t) \in DOMAIN requestTypes' =>
                  eip712TypeHash(t) \in DOMAIN requestTypes
    /\ eip712TypeHash(CreateCollection) \in DOMAIN requestTypes =>
          eip712TypeHash(CreateCollection) \in DOMAIN requestTypes'

ScriptedSpec == RequestsInit /\ [][RequestsNext /\ TypesByScripts]_requestVars

\* A request of a collection that the forwarder accepts finds a contract for its
\* function, in the middle of an upgrade too, whatever scripts were cut off or run
\* again (deployCollections registers the types last, upgradeFeature replaces a
\* function in one step).
RequestReachesFeature ==
    \A c \in DOMAIN collections, t \in RequestType :
        /\ destinationAddressProvided(t)
        /\ eip712TypeHash(t) \in DOMAIN requestTypes
        /\ collections[c] = served
        => functionSignature(t) \in DOMAIN featureRegistry(c).route
=============================================================================
