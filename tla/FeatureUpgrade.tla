--------------------------- MODULE FeatureUpgrade ---------------------------
(***************************************************************************)
(* The release scripts of collections (utils/collection).  Every           *)
(* collection looks up the contract that implements a function in the      *)
(* feature registry its factory was made with; scripts route the functions *)
(* there with diamond cuts, one transaction after another, and may stop    *)
(* between any two of them.  What a script finds again after a restart is  *)
(* deploy.json and the chain.  One script runs at a time.                  *)
(***************************************************************************)
EXTENDS Integers, Sequences

CONSTANTS
    Signatures,         \* Signatures[feature][version]: the functions of a feature contract
    Ownable,            \* the functions that a registry has from its constructor
    Interfaces(_),      \* the interfaces that deploying a feature adds, a sequence
    Claims,             \* interfaces, and the functions they stand for
    Script,             \* the scripts that may be run
    Removable,          \* functions that may be removed by hand
    MaxScripts,         \* bound: scripts that are started
    MaxCutOffs,         \* bound: scripts that are cut off
    MaxRegistries       \* bound: feature registries that are deployed

VARIABLES
    registries,         \* the feature registries deployed, in order
    factories,          \* the factories deployed: the registry each was made with
    built,              \* built[feature]: how many contracts of the feature were deployed
    json,               \* deploy.json: the registry and the factory, 0 when there is none
    served,             \* the factory whose collections the forwarder accepts, or 0
    todo,               \* what the running script still does
    started,            \* how many scripts were started
    cutOffs             \* how many were cut off

Feature == DOMAIN Signatures

\* What scripts are made of.
Task == UNION {{script[k] : k \in DOMAIN script} : script \in Script}

\* A script deploys and upgrades features in versions that there are; what it cuts it
\* finds out when it runs.
ASSUME ReleaseAssumption ==
    /\ "OwnableFeature" \notin Feature
    /\ Script \subseteq Seq(Task)
    /\ \A task \in Task :
          /\ task.do \notin {"add", "replace", "remove", "interface", "upgraded"}
          /\ task.do \in {"deploy", "upgrade"} =>
                task.feature \in Feature /\ task.version \in DOMAIN Signatures[task.feature]
          /\ task.do = "upgrade" => task.from \in DOMAIN Signatures[task.feature]
    /\ \A feature \in Feature : Interfaces(feature) \in Seq(STRING)

\* A feature that adds an interface has the functions that the interface stands for, no
\* later version of it lacks them and nobody removes them by hand (erc-interfaces.ts,
\* feature-signatures.ts).
ASSUME ClaimsAssumption ==
    \A id \in DOMAIN Claims :
        /\ Removable \cap Claims[id] = {}
        /\ \A task \in Task :
              /\ task.do = "deploy" =>
                    \A k \in DOMAIN Interfaces(task.feature) :
                        Interfaces(task.feature)[k] = id =>
                            Claims[id] \subseteq Signatures[task.feature][task.version]
              /\ task.do = "upgrade" =>
                    Claims[id] \cap Signatures[task.feature][task.from]
                        \subseteq Signatures[task.feature][task.version]

\* What a deployment of the core begins with, before any feature: the forwarder is told
\* of the factory before a feature is deployed to its registry (deployCollectionsCore).
CoreTasks == <<"registry", "registryJSON", "factory", "factoryJSON", "setCollectionRegistry">>

CoreKinds == {CoreTasks[k] : k \in 1..5}

\* The functions that an upgrade can route in a registry to which no feature was
\* deployed, before it finds out that there is nothing to replace; and those of the
\* registry itself.
Stray ==
    Ownable \union UNION {Signatures[task.feature][task.version] \ Signatures[task.feature][task.from] :
                            task \in {t \in Task : t.do = "upgrade"}}

\* The five tasks come first and in this order.  Other scripts deploy a feature only
\* after they upgraded one.  Every upgrade replaces a function that no other upgrade
\* adds (feature-signatures.ts), and what is removed by hand is not among those either.
ASSUME OrderAssumption ==
    /\ \A script \in Script :
          \/ /\ Len(script) >= 5 /\ \A k \in 1..5 : script[k].do = CoreTasks[k]
             /\ \A k \in 6..Len(script) : script[k].do \notin CoreKinds
          \/ \A k \in 1..Len(script) :
                /\ script[k].do \notin CoreKinds
                /\ script[k].do = "deploy" => \E i \in 1..(k - 1) : script[i].do = "upgrade"
    /\ \A task \in Task : task.do = "upgrade" =>
          ~(Signatures[task.feature][task.from] \cap Signatures[task.feature][task.version]
                \subseteq Stray)
    /\ Removable \cap Stray = {}

releaseVars == <<registries, factories, built, json, served, todo, started, cutOffs>>

-----------------------------------------------------------------------------
(* StartrailCollectionFeatureRegistry: a diamond's cuts, all or nothing. *)

\* route is a function from the functions that are routed to their contracts.
NewRegistry == [route |-> [s \in Ownable |-> [feature |-> "OwnableFeature", version |-> "V01",
                                              number |-> 1]],
                interfaces |-> {}]

\* Add takes functions that are not routed, Replace those that are routed elsewhere
\* and Remove those that are routed.
CutAllowed(route, cut) ==
    CASE cut.do = "add" -> cut.functions \cap DOMAIN route = {}
      [] cut.do = "replace" ->
            \A s \in cut.functions : s \in DOMAIN route /\ route[s] # cut.target
      [] cut.do = "remove" -> cut.functions \subseteq DOMAIN route

Cut(route, cut) ==
    IF cut.do = "remove" THEN [s \in DOMAIN route \ cut.functions |-> route[s]]
    ELSE [s \in DOMAIN route \union cut.functions |->
             IF s \in cut.functions THEN cut.target ELSE route[s]]

-----------------------------------------------------------------------------
(* utils/collection/utils.ts *)

NoTarget == [feature |-> "none", version |-> "none", number |-> 0]

\* One transaction, unless there is nothing to cut.
CutOf(action, registry, target, functions) ==
    IF functions = {} THEN << >>
    ELSE <<[do |-> action, registry |-> registry, target |-> target, functions |-> functions]>>

\* The contract a task deploys.
Target(task) ==
    [feature |-> task.feature, version |-> task.version, number |-> built[task.feature] + 1]

\* Seeded fault: the interfaces are set first.
deployFeatureInterfacesFirst(task, registry) ==
    [i \in DOMAIN Interfaces(task.feature) |->
        [do |-> "interface", registry |-> registry, id |-> Interfaces(task.feature)[i]]]
      \o CutOf("add", registry, Target(task), Signatures[task.feature][task.version])

\* deployFeature, after the contract is deployed.  The call that initialises the
\* registry's own ERC721 storage, which no collection reads, is left out.
deployFeature(task, registry) ==
    CutOf("add", registry, Target(task), Signatures[task.feature][task.version])
      \o [i \in DOMAIN Interfaces(task.feature) |->
             [do |-> "interface", registry |-> registry, id |-> Interfaces(task.feature)[i]]]

\* Every function of the feature's version, and nothing else, is routed to one
\* contract of it.
Whole(route, feature, version) ==
    LET routed == {s \in DOMAIN route : route[s].feature = feature} IN
    /\ routed = Signatures[feature][version]
    /\ \A s, u \in routed : route[s] = route[u] /\ route[s].version = version

\* What the script logs when it has upgraded a feature.
Report(task, registry) ==
    <<[do |-> "upgraded", registry |-> registry, target |-> Target(task),
       fromWhole |-> Whole(registries[registry].route, task.feature, task.from)]>>

\* Seeded fault: what the old version had is replaced, also where the new one lacks it.
upgradeFeatureReplacingAll(task, registry) ==
    LET from == Signatures[task.feature][task.from]
        to == Signatures[task.feature][task.version]
    IN  CutOf("add", registry, Target(task), to \ from)
          \o CutOf("replace", registry, Target(task), from)
          \o Report(task, registry)

\* Seeded fault: the functions of the old version only are left as they are.
upgradeFeatureKeepingLegacy(task, registry) ==
    LET from == Signatures[task.feature][task.from]
        to == Signatures[task.feature][task.version]
    IN  CutOf("add", registry, Target(task), to \ from)
          \o CutOf("replace", registry, Target(task), from \cap to)
          \o Report(task, registry)

\* Seeded fault: the old version is removed before the new one is added.
upgradeFeatureRemovingFirst(task, registry) ==
    CutOf("remove", registry, Target(task), Signatures[task.feature][task.from])
      \o CutOf("add", registry, Target(task), Signatures[task.feature][task.version])
      \o Report(task, registry)

\* upgradeFeature, after the contract is deployed.
upgradeFeature(task, registry) ==
    LET from == Signatures[task.feature][task.from]
        to == Signatures[task.feature][task.version]
    IN  CutOf("add", registry, Target(task), to \ from)
          \o CutOf("replace", registry, Target(task), from \cap to)
          \o CutOf("remove", registry, Target(task), from \ to)
          \o Report(task, registry)

-----------------------------------------------------------------------------
(* The steps of the running script. *)

Doing(what) == todo # << >> /\ Head(todo).do \in what

StartScript(script) ==
    /\ todo = << >> /\ started < MaxScripts
    /\ todo' = script
    /\ started' = started + 1
    /\ UNCHANGED <<registries, factories, built, json, served, cutOffs>>

\* A feature is deployed to the registry of deploy.json; without one the script fails.
DeployFeatureContract ==
    /\ Doing({"deploy", "upgrade"})
    /\ IF json.registry = 0
       THEN todo' = << >> /\ UNCHANGED built
       ELSE LET task == Head(todo) IN
            /\ todo' = (IF task.do = "deploy" THEN deployFeature(task, json.registry)
                        ELSE upgradeFeature(task, json.registry)) \o Tail(todo)
            /\ built' = [built EXCEPT ![task.feature] = @ + 1]
    /\ UNCHANGED <<registries, factories, json, served, started, cutOffs>>

\* registerSelectors, replaceSelectors, removeSelectors: a cut that reverts ends the script.
diamondCut ==
    /\ Doing({"add", "replace", "remove"})
    /\ LET cut == Head(todo) IN
       IF CutAllowed(registries[cut.registry].route, cut)
       THEN /\ registries' = [registries EXCEPT ![cut.registry].route = Cut(@, cut)]
            /\ todo' = Tail(todo)
       ELSE todo' = << >> /\ UNCHANGED registries
    /\ UNCHANGED <<factories, built, json, served, started, cutOffs>>

setSupportedInterface ==
    /\ Doing({"interface"})
    /\ LET set == Head(todo) IN
       registries' = [registries EXCEPT ![set.registry].interfaces = @ \union {set.id}]
    /\ todo' = Tail(todo)
    /\ UNCHANGED <<factories, built, json, served, started, cutOffs>>

Upgraded ==
    /\ Doing({"upgraded"})
    /\ todo' = Tail(todo)
    /\ UNCHANGED <<registries, factories, built, json, served, started, cutOffs>>

DeployRegistry ==
    /\ Doing({"registry"}) /\ Len(registries) < MaxRegistries
    /\ registries' = Append(registries, NewRegistry)
    /\ todo' = Tail(todo)
    /\ UNCHANGED <<factories, built, json, served, started, cutOffs>>

\* The factory gets the registry that the same script deployed.
DeployFactory ==
    /\ Doing({"factory"})
    /\ factories' = Append(factories, Len(registries))
    /\ todo' = Tail(todo)
    /\ UNCHANGED <<registries, built, json, served, started, cutOffs>>

\* Seeded fault: a registry that is in deploy.json already is kept.
updateDeployJSONKeeping ==
    /\ Doing({"registryJSON", "factoryJSON"})
    /\ json' = IF Head(todo).do = "registryJSON"
               THEN [json EXCEPT !.registry = IF @ = 0 THEN Len(registries) ELSE @]
               ELSE [json EXCEPT !.factory = Len(factories)]
    /\ todo' = Tail(todo)
    /\ UNCHANGED <<registries, factories, built, served, started, cutOffs>>

updateDeployJSON ==
    /\ Doing({"registryJSON", "factoryJSON"})
    /\ json' = IF Head(todo).do = "registryJSON" THEN [json EXCEPT !.registry = Len(registries)]
               ELSE [json EXCEPT !.factory = Len(factories)]
    /\ todo' = Tail(todo)
    /\ UNCHANGED <<registries, factories, built, served, started, cutOffs>>

setCollectionRegistryOnCollectionFactory ==
    /\ Doing({"setCollectionRegistry"})
    /\ served' = Len(factories)
    /\ todo' = Tail(todo)
    /\ UNCHANGED <<registries, factories, built, json, started, cutOffs>>

\* feature-registry-remove-selector.ts
RemoveSelector(s) ==
    /\ todo = << >> /\ started < MaxScripts /\ json.registry # 0
    /\ todo' = CutOf("remove", json.registry, NoTarget, {s})
    /\ started' = started + 1
    /\ UNCHANGED <<registries, factories, built, json, served, cutOffs>>

\* The process ends, or a transaction fails for a reason of its own.
CutOff ==
    /\ todo # << >> /\ cutOffs < MaxCutOffs
    /\ todo' = << >>
    /\ cutOffs' = cutOffs + 1
    /\ UNCHANGED <<registries, factories, built, json, served, started>>

\* A script registers types of request, or fails to (CollectionRequests says which).
RegistrationTask ==
    /\ Doing({"register"})
    /\ todo' \in {Tail(todo), << >>}
    /\ UNCHANGED <<registries, factories, built, json, served, started, cutOffs>>

ReleaseInit ==
    /\ registries = << >> /\ factories = << >>
    /\ built = [feature \in Feature |-> 0]
    /\ json = [registry |-> 0, factory |-> 0]
    /\ served = 0 /\ todo = << >> /\ started = 0 /\ cutOffs = 0

ReleaseStep ==
    \/ \E script \in Script : StartScript(script)
    \/ DeployFeatureContract
    \/ diamondCut
    \/ setSupportedInterface
    \/ Upgraded
    \/ DeployRegistry
    \/ DeployFactory
    \/ updateDeployJSON
    \/ setCollectionRegistryOnCollectionFactory
    \/ \E s \in Removable : RemoveSelector(s)
    \/ CutOff

ReleaseNext == ReleaseStep \/ RegistrationTask

ReleaseSpec == ReleaseInit /\ [][ReleaseNext]_releaseVars

-----------------------------------------------------------------------------
(* Properties. *)

\* A function is routed to a contract that has it, at every moment of every release,
\* also when scripts are cut off, repeated, or run with a version that is not the
\* installed one (upgradeFeature, the cuts).
RoutedIsImplemented ==
    \A i \in DOMAIN registries :
        LET route == registries[i].route IN
        \A s \in DOMAIN route :
            IF route[s].feature = "OwnableFeature" THEN s \in Ownable
            ELSE s \in Signatures[route[s].feature][route[s].version]

\* When a script reports a feature upgraded, and the feature was all of the version it
\* upgrades from, then it is all of the new contract and nothing of the old is left.
UpgradedIsWhole ==
    Doing({"upgraded"}) =>
        LET report == Head(todo)
            route == registries[report.registry].route
        IN  report.fromWhole =>
                /\ Whole(route, report.target.feature, report.target.version)
                /\ \A s \in Signatures[report.target.feature][report.target.version] :
                      route[s] = report.target

\* A function that is replaced or removed is one of the collections that the forwarder
\* serves: no upgrade succeeds on a registry they do not use, whatever deployment of
\* the core was cut off or repeated before (deployCollectionsCore: deploy.json names
\* the new registry long before the forwarder serves its collections).
UpgradeReachesServed ==
    Doing({"replace", "remove"}) =>
        LET cut == Head(todo) IN
        CutAllowed(registries[cut.registry].route, cut) =>
            served # 0 /\ factories[served] = cut.registry

\* A collection that claims ERC-721 or ERC-2981 routes every function of it
\* (deployFeature: the interfaces are set after the functions are registered).
ClaimedIsRouted ==
    \A i \in DOMAIN registries :
        \A id \in registries[i].interfaces \cap DOMAIN Claims :
            Claims[id] \subseteq DOMAIN registries[i].route
=============================================================================
