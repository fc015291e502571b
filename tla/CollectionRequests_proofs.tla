---------------------- MODULE CollectionRequests_proofs ----------------------
(***************************************************************************)
(* Proofs about the release scripts of collections, alone and beside the   *)
(* meta transactions they register, for every table of functions, every    *)
(* set of scripts and any number of runs and cut-offs.                     *)
(*                                                                         *)
(* A script fixes its cuts when it deploys the contract of a feature, and  *)
(* makes them in later transactions.  The inductive invariants therefore   *)
(* speak of what still waits in todo: a cut adds or replaces only          *)
(* functions that its contract has (RoutedIsImplemented), the cuts in      *)
(* front of a report make the route that it reports (UpgradedIsWhole), an  *)
(* interface waits behind the cut that adds its functions                  *)
(* (ClaimedIsRouted), and what a script may do to a registry that is not   *)
(* served stands behind a cut that fails there (UpgradeReachesServed).     *)
(* Likewise the index of the forwarder: what it will have known after each *)
(* event that waits ends in what the contract knows now.                   *)
(*                                                                         *)
(* Requests are the second half.  Their invariant (RequestInv) says what   *)
(* data a request may hold and that it was signed as the message built     *)
(* from them; the lemmas before it compute the message, the calldata and   *)
(* the hash that the forwarder rebuilds from the layout that all types     *)
(* have in common (Laid).  The last part joins the two: what a script      *)
(* registers is routed before, and stays so (ServedInv).                   *)
(***************************************************************************)
EXTENDS CollectionRequests, SequenceFacts, FiniteSetTheorems, SequenceTheorems, TLAPS

OwnableContract == [feature |-> "OwnableFeature", version |-> "V01", number |-> 1]

Contract == {OwnableContract, NoTarget} \union
    {c \in [feature : Feature, version : UNION {DOMAIN Signatures[f] : f \in Feature},
            number : Nat] : c.version \in DOMAIN Signatures[c.feature]}

Function == Ownable \union Removable \union
    UNION {UNION {Signatures[f][v] : v \in DOMAIN Signatures[f]} : f \in Feature}

\* The contract has the function.
Implements(c, s) ==
    IF c.feature = "OwnableFeature" THEN s \in Ownable
    ELSE s \in Signatures[c.feature][c.version]

Route == {route \in UNION {[D -> Contract] : D \in SUBSET Function} :
             \A s \in DOMAIN route : Implements(route[s], s)}

Registry == [route : Route, interfaces : SUBSET STRING]

CutStep(n) ==
    {cut \in [do : {"add", "replace", "remove"}, registry : 1..n, target : Contract,
              functions : SUBSET Function] :
        cut.do # "remove" => \A s \in cut.functions : Implements(cut.target, s)}

InterfaceStep(n) == [do : {"interface"}, registry : 1..n, id : STRING]

ReportStep(n) == [do : {"upgraded"}, registry : 1..n, target : Contract, fromWhole : BOOLEAN]

\* What a script may still have to do when n registries are deployed.
Step(n) == Task \union CutStep(n) \union InterfaceStep(n) \union ReportStep(n)

IInv ==
    /\ registries \in Seq(Registry)
    /\ built \in [Feature -> Nat]
    /\ json \in [registry : 0..Len(registries), factory : Nat]
    /\ todo \in Seq(Step(Len(registries)))

-----------------------------------------------------------------------------

LEMMA StepGrows ==
    ASSUME NEW n \in Nat, NEW m \in Nat, n <= m
    PROVE  Step(n) \subseteq Step(m)
<1>1. 1..n \subseteq 1..m
  OBVIOUS
<1>2. CutStep(n) \subseteq CutStep(m)
  BY <1>1 DEF CutStep
<1>3. InterfaceStep(n) \subseteq InterfaceStep(m)
  BY <1>1 DEF InterfaceStep
<1>4. ReportStep(n) \subseteq ReportStep(m)
  BY <1>1 DEF ReportStep
<1>5. QED
  BY <1>2, <1>3, <1>4 DEF Step

\* The steps by what they do.
LEMMA StepKind ==
    ASSUME NEW n \in Nat, NEW step \in Step(n)
    PROVE  /\ step.do \in {"add", "replace", "remove"} => step \in CutStep(n)
           /\ step.do = "interface" => step \in InterfaceStep(n)
           /\ step.do = "upgraded" => step \in ReportStep(n)
           /\ step.do \notin {"add", "replace", "remove", "interface", "upgraded"} => step \in Task
<1>1. step \in Task => step.do \notin {"add", "replace", "remove", "interface", "upgraded"}
  BY ReleaseAssumption
<1>2. step \in CutStep(n) => step.do \in {"add", "replace", "remove"}
  BY DEF CutStep
<1>3. step \in InterfaceStep(n) => step.do = "interface"
  BY DEF InterfaceStep
<1>4. step \in ReportStep(n) => step.do = "upgraded"
  BY DEF ReportStep
<1>5. step \in Task \/ step \in CutStep(n) \/ step \in InterfaceStep(n) \/ step \in ReportStep(n)
  BY DEF Step
<1>6. QED
  BY <1>1, <1>2, <1>3, <1>4, <1>5

\* A cut to a contract that has the functions keeps a route whole.
LEMMA CutRoute ==
    ASSUME NEW n \in Nat, NEW route \in Route, NEW cut \in CutStep(n)
    PROVE  Cut(route, cut) \in Route
<1>1. PICK D \in SUBSET Function : route \in [D -> Contract]
  BY DEF Route
<1>2. \A s \in D : route[s] \in Contract /\ Implements(route[s], s)
  BY <1>1 DEF Route
<1>3. CASE cut.do = "remove"
  <2>1. Cut(route, cut) = [s \in D \ cut.functions |-> route[s]]
    BY <1>1, <1>3 DEF Cut
  <2>2. Cut(route, cut) \in [D \ cut.functions -> Contract]
    BY <2>1, <1>2
  <2>3. \A s \in D \ cut.functions : Implements(Cut(route, cut)[s], s)
    BY <2>1, <1>2
  <2>4. QED
    BY <2>2, <2>3 DEF Route
<1>4. CASE cut.do # "remove"
  <2>1. /\ cut.functions \in SUBSET Function
        /\ cut.target \in Contract
        /\ \A s \in cut.functions : Implements(cut.target, s)
    BY <1>4 DEF CutStep
  <2> DEFINE E == D \union cut.functions
  <2>2. Cut(route, cut) =
          [s \in E |-> IF s \in cut.functions THEN cut.target ELSE route[s]]
    BY <1>1, <1>4 DEF Cut
  <2>3. Cut(route, cut) \in [E -> Contract]
    BY <2>1, <2>2, <1>2
  <2>4. \A s \in E : Implements(Cut(route, cut)[s], s)
    BY <2>1, <2>2, <1>2
  <2>5. E \in SUBSET Function
    BY <2>1
  <2>6. QED
    BY <2>3, <2>4, <2>5 DEF Route
<1>5. QED
  BY <1>3, <1>4

\* The cut of a set of functions to a contract that has them, or a removal.
LEMMA CutOfSteps ==
    ASSUME NEW n \in Nat, NEW i \in 1..n, NEW action \in {"add", "replace", "remove"},
           NEW target \in Contract, NEW functions \in SUBSET Function,
           action # "remove" => \A s \in functions : Implements(target, s)
    PROVE  CutOf(action, i, target, functions) \in Seq(Step(n))
<1> DEFINE cut == [do |-> action, registry |-> i, target |-> target, functions |-> functions]
<1>1. cut \in CutStep(n)
  BY DEF CutStep
<1>2. cut \in Step(n)
  BY <1>1 DEF Step
<1> HIDE DEF cut
<1>3. <<cut>> \in Seq(Step(n)) /\ << >> \in Seq(Step(n))
  BY <1>2
<1>4. QED
  BY <1>3 DEF CutOf, cut

\* The contract that a task deploys has every function of the task's version.
LEMMA TargetOfTask ==
    ASSUME NEW task \in Task, task.do \in {"deploy", "upgrade"}, built \in [Feature -> Nat]
    PROVE  /\ task.feature \in Feature
           /\ Target(task) \in Contract
           /\ Signatures[task.feature][task.version] \subseteq Function
           /\ \A s \in Signatures[task.feature][task.version] : Implements(Target(task), s)
<1>1. task.feature \in Feature /\ task.version \in DOMAIN Signatures[task.feature]
  BY ReleaseAssumption
<1>2. task.feature # "OwnableFeature"
  BY <1>1, ReleaseAssumption
<1>3. built[task.feature] + 1 \in Nat
  BY <1>1
<1>4. /\ Target(task) \in [feature : Feature,
                           version : UNION {DOMAIN Signatures[f] : f \in Feature}, number : Nat]
      /\ Target(task).feature = task.feature /\ Target(task).version = task.version
  BY <1>1, <1>3 DEF Target
<1>5. QED
  BY <1>1, <1>2, <1>4 DEF Contract, Function, Implements

LEMMA DeployFeatureSteps ==
    ASSUME NEW task \in Task, task.do = "deploy", built \in [Feature -> Nat],
           NEW n \in Nat, NEW i \in 1..n
    PROVE  deployFeature(task, i) \in Seq(Step(n))
<1>1. CutOf("add", i, Target(task), Signatures[task.feature][task.version]) \in Seq(Step(n))
  BY TargetOfTask, CutOfSteps
<1> DEFINE ids == Interfaces(task.feature)
           sets == [k \in DOMAIN ids |->
                      [do |-> "interface", registry |-> i, id |-> ids[k]]]
<1>2. ids \in Seq(STRING)
  BY TargetOfTask, ReleaseAssumption
<1> HIDE DEF ids
<1>3. \A k \in 1..Len(ids) : [do |-> "interface", registry |-> i, id |-> ids[k]] \in Step(n)
  BY <1>2 DEF Step, InterfaceStep
<1>4. DOMAIN ids = 1..Len(ids) /\ Len(ids) \in Nat
  BY <1>2
<1>5. sets \in [1..Len(ids) -> Step(n)]
  BY <1>3, <1>4
<1>6. sets \in Seq(Step(n))
  BY <1>4, <1>5, IsASeq
<1> HIDE DEF sets
<1>7. deployFeature(task, i) =
        CutOf("add", i, Target(task), Signatures[task.feature][task.version]) \o sets
  BY DEF deployFeature, sets, ids
<1>8. QED
  BY <1>1, <1>6, <1>7, ConcatProperties

LEMMA UpgradeFeatureSteps ==
    ASSUME NEW task \in Task, task.do = "upgrade", built \in [Feature -> Nat],
           NEW n \in Nat, NEW i \in 1..n
    PROVE  upgradeFeature(task, i) \in Seq(Step(n))
<1> DEFINE from == Signatures[task.feature][task.from]
           into == Signatures[task.feature][task.version]
           added == CutOf("add", i, Target(task), into \ from)
           replaced == CutOf("replace", i, Target(task), from \cap into)
           removed == CutOf("remove", i, Target(task), from \ into)
<1>1. /\ Target(task) \in Contract
      /\ into \subseteq Function
      /\ \A s \in into : Implements(Target(task), s)
  BY TargetOfTask
<1>2. from \subseteq Function
  BY TargetOfTask, ReleaseAssumption DEF Function
<1> HIDE DEF from, into
<1>3. /\ added \in Seq(Step(n)) /\ replaced \in Seq(Step(n)) /\ removed \in Seq(Step(n))
  BY <1>1, <1>2, CutOfSteps
<1>4. Report(task, i) \in Seq(Step(n))
  <2> DEFINE report ==
        [do |-> "upgraded", registry |-> i, target |-> Target(task),
         fromWhole |-> Whole(registries[i].route, task.feature, task.from)]
  <2>1. Whole(registries[i].route, task.feature, task.from) \in BOOLEAN
    BY DEF Whole
  <2>2. report \in ReportStep(n)
    BY <1>1, <2>1 DEF ReportStep
  <2>3. report \in Step(n)
    BY <2>2 DEF Step
  <2> HIDE DEF report
  <2>4. <<report>> \in Seq(Step(n))
    BY <2>3
  <2>5. QED
    BY <2>4 DEF Report, report
<1>5. upgradeFeature(task, i) = added \o replaced \o removed \o Report(task, i)
  BY DEF upgradeFeature, from, into
<1> HIDE DEF added, replaced, removed
<1>6. QED
  BY <1>3, <1>4, <1>5, ConcatProperties

-----------------------------------------------------------------------------

LEMMA NewRegistryFits == NewRegistry \in Registry
<1> DEFINE route == [s \in Ownable |-> OwnableContract]
<1>1. route \in [Ownable -> Contract]
  BY DEF Contract
<1>2. \A s \in Ownable : Implements(route[s], s)
  BY DEF Implements, OwnableContract
<1>3. Ownable \in SUBSET Function
  BY DEF Function
<1>4. route \in Route
  BY <1>1, <1>2, <1>3 DEF Route
<1>5. NewRegistry = [route |-> route, interfaces |-> {}]
  BY DEF NewRegistry, OwnableContract
<1> HIDE DEF route
<1>6. QED
  BY <1>4, <1>5 DEF Registry

LEMMA InitHolds == ReleaseInit => IInv
<1> SUFFICES ASSUME ReleaseInit PROVE IInv
  OBVIOUS
<1>1. registries = << >> /\ Len(registries) = 0 /\ todo = << >>
  BY DEF ReleaseInit
<1>2. built \in [Feature -> Nat] /\ json \in [registry : 0..0, factory : Nat]
  BY DEF ReleaseInit
<1>3. QED
  BY <1>1, <1>2 DEF IInv

\* The rest of the script, and a script that ends.
LEMMA RestFits ==
    ASSUME NEW S, NEW q \in Seq(S)
    PROVE  /\ << >> \in Seq(S)
           /\ q # << >> => Tail(q) \in Seq(S) /\ Head(q) \in S
BY HeadTailProperties, EmptySeq

\* One registry is changed and none is added.
LEMMA RegistryChanges ==
    ASSUME IInv, NEW i \in 1..Len(registries), NEW r \in Registry
    PROVE  /\ [registries EXCEPT ![i] = r] \in Seq(Registry)
           /\ Len([registries EXCEPT ![i] = r]) = Len(registries)
BY ExceptSeq DEF IInv

LEMMA NextKeeps == IInv /\ [ReleaseNext]_releaseVars => IInv'
<1> SUFFICES ASSUME IInv, [ReleaseNext]_releaseVars PROVE IInv'
  OBVIOUS
<1> DEFINE n == Len(registries)
<1>0. n \in Nat /\ todo \in Seq(Step(n))
  BY DEF IInv
<1>1. ASSUME NEW script \in Script, StartScript(script) PROVE IInv'
  <2>1. script \in Seq(Step(n))
    BY ReleaseAssumption, SeqMonotonic DEF Step
  <2>2. QED
    BY <1>1, <2>1 DEF StartScript, IInv
<1>2. CASE DeployFeatureContract
  <2>1. Head(todo) \in Task /\ Head(todo).do \in {"deploy", "upgrade"} /\ todo # << >>
    BY <1>0, <1>2, RestFits, StepKind DEF DeployFeatureContract, Doing
  <2>2. CASE json.registry = 0
    BY <1>2, <2>2, RestFits DEF DeployFeatureContract, IInv
  <2>3. CASE json.registry # 0
    <3> DEFINE task == Head(todo)
               steps == IF task.do = "deploy" THEN deployFeature(task, json.registry)
                        ELSE upgradeFeature(task, json.registry)
    <3>1. json.registry \in 1..n
      BY <2>3 DEF IInv
    <3>2. steps \in Seq(Step(n))
      BY <1>0, <2>1, <3>1, DeployFeatureSteps, UpgradeFeatureSteps DEF IInv
    <3>3. todo' = steps \o Tail(todo) /\ built' = [built EXCEPT ![task.feature] = @ + 1]
      BY <1>2, <2>3 DEF DeployFeatureContract
    <3> HIDE DEF steps
    <3>4. todo' \in Seq(Step(n))
      BY <1>0, <2>1, <3>2, <3>3, RestFits, ConcatProperties
    <3> DEFINE f == task.feature
    <3>5. built \in [Feature -> Nat] /\ f \in Feature /\ built' = [built EXCEPT ![f] = @ + 1]
      BY <2>1, <3>3, ReleaseAssumption DEF IInv
    <3> HIDE DEF f
    <3>6. built' \in [Feature -> Nat]
      BY <3>5
    <3>7. QED
      BY <1>2, <3>4, <3>6 DEF DeployFeatureContract, IInv
  <2>4. QED
    BY <2>2, <2>3
<1>3. CASE diamondCut
  <2> DEFINE cut == Head(todo)
  <2>1. cut \in CutStep(n) /\ todo # << >>
    BY <1>0, <1>3, RestFits, StepKind DEF diamondCut, Doing
  <2>2. CASE CutAllowed(registries[cut.registry].route, cut)
    <3> DEFINE i == cut.registry
               r == [registries[i] EXCEPT !.route = Cut(@, cut)]
    <3>1. i \in 1..n
      BY <2>1 DEF CutStep
    <3>2. registries[i] \in Registry
      BY <3>1, ElementOfSeq DEF IInv
    <3>3. r \in Registry
      BY <1>0, <2>1, <3>2, CutRoute DEF Registry
    <3>4. registries' = [registries EXCEPT ![i] = r] /\ todo' = Tail(todo)
      BY <1>3, <2>2 DEF diamondCut
    <3> HIDE DEF r
    <3>5. registries' \in Seq(Registry) /\ Len(registries') = n
      BY <3>1, <3>3, <3>4, RegistryChanges
    <3>6. QED
      BY <1>0, <1>3, <2>1, <3>4, <3>5, RestFits DEF diamondCut, IInv
  <2>3. CASE ~CutAllowed(registries[cut.registry].route, cut)
    BY <1>3, <2>3, RestFits DEF diamondCut, IInv
  <2>4. QED
    BY <2>2, <2>3
<1>4. CASE setSupportedInterface
  <2> DEFINE set == Head(todo)
             i == set.registry
             r == [registries[i] EXCEPT !.interfaces = @ \union {set.id}]
  <2>1. set \in InterfaceStep(n) /\ todo # << >>
    BY <1>0, <1>4, RestFits, StepKind DEF setSupportedInterface, Doing
  <2>2. i \in 1..n /\ set.id \in STRING
    BY <2>1 DEF InterfaceStep
  <2>3. registries[i] \in Registry
    BY <2>2, ElementOfSeq DEF IInv
  <2>4. r \in Registry
    BY <2>2, <2>3 DEF Registry
  <2>5. registries' = [registries EXCEPT ![i] = r] /\ todo' = Tail(todo)
    BY <1>4 DEF setSupportedInterface
  <2> HIDE DEF r
  <2>6. registries' \in Seq(Registry) /\ Len(registries') = n
    BY <2>2, <2>4, <2>5, RegistryChanges
  <2>7. QED
    BY <1>0, <1>4, <2>1, <2>5, <2>6, RestFits DEF setSupportedInterface, IInv
<1>5. CASE Upgraded
  BY <1>0, <1>5, RestFits DEF Upgraded, Doing, IInv
<1>6. CASE DeployRegistry
  <2>1. registries' = Append(registries, NewRegistry) /\ todo' = Tail(todo) /\ todo # << >>
    BY <1>6 DEF DeployRegistry, Doing
  <2>2. registries' \in Seq(Registry) /\ Len(registries') = n + 1
    BY <2>1, NewRegistryFits, AppendProperties DEF IInv
  <2>3. Tail(todo) \in Seq(Step(n + 1))
    BY <1>0, <2>1, RestFits, StepGrows, SeqMonotonic
  <2>4. json \in [registry : 0..(n + 1), factory : Nat]
    BY <1>0 DEF IInv
  <2>5. QED
    BY <1>6, <2>1, <2>2, <2>3, <2>4 DEF DeployRegistry, IInv
<1>7. CASE DeployFactory
  BY <1>0, <1>7, RestFits DEF DeployFactory, Doing, IInv
<1>8. CASE updateDeployJSON
  BY <1>0, <1>8, RestFits DEF updateDeployJSON, Doing, IInv
<1>9. CASE setCollectionRegistryOnCollectionFactory
  BY <1>0, <1>9, RestFits DEF setCollectionRegistryOnCollectionFactory, Doing, IInv
<1>10. ASSUME NEW s \in Removable, RemoveSelector(s) PROVE IInv'
  <2>1. json.registry \in 1..n
    BY <1>10 DEF RemoveSelector, IInv
  <2>2. NoTarget \in Contract /\ {s} \in SUBSET Function
    BY DEF Contract, Function
  <2>3. CutOf("remove", json.registry, NoTarget, {s}) \in Seq(Step(n))
    BY <1>0, <2>1, <2>2, CutOfSteps
  <2>4. QED
    BY <1>10, <2>3 DEF RemoveSelector, IInv
<1>11. CASE CutOff
  BY <1>11, RestFits DEF CutOff, IInv
<1>12. CASE UNCHANGED releaseVars
  BY <1>12 DEF releaseVars, IInv
<1>13. CASE RegistrationTask
  <2>1. todo # << >> /\ todo' \in {Tail(todo), << >>}
    BY <1>13 DEF RegistrationTask, Doing
  <2>2. todo' \in Seq(Step(n))
    BY <1>0, <2>1, RestFits
  <2>3. QED
    BY <1>13, <2>2 DEF RegistrationTask, IInv
<1>14. QED
  BY <1>1, <1>2, <1>3, <1>4, <1>5, <1>6, <1>7, <1>8, <1>9, <1>10, <1>11, <1>12, <1>13
     DEF ReleaseNext, ReleaseStep

LEMMA InvariantSuffices == IInv => RoutedIsImplemented
<1> SUFFICES ASSUME IInv, NEW i \in DOMAIN registries,
                    NEW s \in DOMAIN registries[i].route
             PROVE  Implements(registries[i].route[s], s)
  BY DEF RoutedIsImplemented, Implements
<1>1. registries[i] \in Registry
  BY ElementOfSeq, LenProperties DEF IInv
<1>2. registries[i].route \in Route
  BY <1>1 DEF Registry
<1>3. QED
  BY <1>2 DEF Route

\* Every function that a registry routes, at every moment of every release, is routed
\* to a contract that has it (RoutedIsImplemented).
THEOREM RoutedIsImplementedHolds == ReleaseSpec => []RoutedIsImplemented
<1>1. ReleaseSpec => []IInv
  BY InitHolds, NextKeeps, PTL DEF ReleaseSpec
<1>2. QED
  BY <1>1, InvariantSuffices, PTL

-----------------------------------------------------------------------------
(* What an upgrade leaves behind.  The report of an upgrade is true because of   *)
(* the cuts before it, which are still to be made when the script computes it:   *)
(* the invariant follows the route through the cuts that wait in todo, at most   *)
(* three of them, up to the report.                                              *)

\* The report claims what UpgradedIsWhole is about.
NoWholeReport(q) == \A k \in 1..Len(q) : ~(q[k].do = "upgraded" /\ q[k].fromWhole)

\* What the report of an upgrade to the contract says of the route.
AllOf(route, target) ==
    /\ Whole(route, target.feature, target.version)
    /\ \A s \in Signatures[target.feature][target.version] : route[s] = target

\* The next step is the report of the upgrade, and it is true.
Arrives(i, route, q) ==
    /\ q # << >> /\ Head(q).do = "upgraded" /\ Head(q).registry = i
    /\ AllOf(route, Head(q).target)
    /\ NoWholeReport(Tail(q))

CutNext(i, q) == q # << >> /\ Head(q).do \in {"add", "replace", "remove"} /\ Head(q).registry = i

\* It is after one more cut, or two, or three.
OneCut(i, route, q) ==
    \/ Arrives(i, route, q)
    \/ CutNext(i, q) /\ Arrives(i, Cut(route, Head(q)), Tail(q))

TwoCuts(i, route, q) ==
    \/ OneCut(i, route, q)
    \/ CutNext(i, q) /\ OneCut(i, Cut(route, Head(q)), Tail(q))

ThreeCuts(i, route, q) ==
    \/ TwoCuts(i, route, q)
    \/ CutNext(i, q) /\ TwoCuts(i, Cut(route, Head(q)), Tail(q))

UpgradeInv ==
    \/ NoWholeReport(todo)
    \/ \E i \in 1..Len(registries) : ThreeCuts(i, registries[i].route, todo)

\* The steps that a cut puts in front of the rest, and the route that it makes.
After(action, route, target, functions) ==
    IF functions = {} THEN route
    ELSE Cut(route, [do |-> action, registry |-> 0, target |-> target, functions |-> functions])

LEMMA TailOfPrefixed ==
    ASSUME NEW S, NEW c \in S, NEW q \in Seq(S)
    PROVE  <<c>> \o q # << >> /\ Head(<<c>> \o q) = c /\ Tail(<<c>> \o q) = q
<1>1. <<c>> \in Seq(S) /\ Len(<<c>>) = 1 /\ <<c>>[1] = c
  OBVIOUS
<1>2. <<c>> \o q \in Seq(S) /\ Len(<<c>> \o q) = 1 + Len(q) /\ Len(q) \in Nat
  BY <1>1, ConcatProperties, LenProperties
<1>3. <<c>> \o q # << >> /\ Head(<<c>> \o q) = c
  BY <1>1, <1>2, ConcatProperties, HeadTailProperties, EmptySeq
<1>4. Tail(<<c>> \o q) \in Seq(S) /\ Len(Tail(<<c>> \o q)) = Len(q)
  BY <1>2, <1>3, HeadTailProperties
<1>5. \A k \in 1..Len(q) : Tail(<<c>> \o q)[k] = q[k]
  BY <1>1, <1>2, <1>3, <1>4, ConcatProperties, HeadTailProperties
<1>6. QED
  BY <1>3, <1>4, <1>5, SeqEqual

\* Concatenation, with a name that keeps the provers from looking into it.
Join(s, t) == s \o t

LEMMA JoinIsSeq ==
    ASSUME NEW S, NEW s \in Seq(S), NEW t \in Seq(S)
    PROVE  Join(s, t) \in Seq(S)
BY ConcatProperties DEF Join

LEMMA JoinAssociative ==
    ASSUME NEW S, NEW s \in Seq(S), NEW t \in Seq(S), NEW u \in Seq(S)
    PROVE  Join(Join(s, t), u) = Join(s, Join(t, u))
BY ConcatAssociative DEF Join

LEMMA JoinFive ==
    ASSUME NEW S, NEW a \in Seq(S), NEW b \in Seq(S), NEW c \in Seq(S), NEW d \in Seq(S),
           NEW e \in Seq(S)
    PROVE  Join(Join(Join(Join(a, b), c), d), e) = Join(a, Join(b, Join(c, Join(d, e))))
<1>1. /\ Join(a, b) \in Seq(S) /\ Join(Join(a, b), c) \in Seq(S) /\ Join(d, e) \in Seq(S)
      /\ Join(c, Join(d, e)) \in Seq(S)
  BY JoinIsSeq
<1>2. QED
  BY <1>1, JoinAssociative

\* The steps p make the route into after, by one cut or by none, and go on with q.
CutsTo(i, p, route, q, after) ==
    \/ p = q /\ after = route
    \/ CutNext(i, p) /\ Tail(p) = q /\ Cut(route, Head(p)) = after

LEMMA CutOfThen ==
    ASSUME NEW n, NEW i, NEW action \in {"add", "replace", "remove"}, NEW target, NEW functions,
           CutOf(action, i, target, functions) \in Seq(Step(n)), NEW route, NEW q \in Seq(Step(n))
    PROVE  CutsTo(i, Join(CutOf(action, i, target, functions), q), route, q,
                  After(action, route, target, functions))
<1> DEFINE cut == [do |-> action, registry |-> i, target |-> target, functions |-> functions]
           p == Join(CutOf(action, i, target, functions), q)
           after == After(action, route, target, functions)
<1> SUFFICES CutsTo(i, p, route, q, after)
  OBVIOUS
<1>1. CASE functions = {}
  <2>1. p = q
    BY <1>1, ConcatEmptySeq DEF CutOf, Join
  <2>2. after = route
    BY <1>1 DEF After
  <2> HIDE DEF p, after
  <2>3. QED
    BY <2>1, <2>2 DEF CutsTo
<1>2. CASE functions # {}
  <2>1. <<cut>> \in Seq(Step(n))
    BY <1>2 DEF CutOf
  <2>2. cut.do = action /\ cut.registry = i /\ cut.target = target /\ cut.functions = functions
    OBVIOUS
  <2>3. p = <<cut>> \o q
    BY <1>2 DEF CutOf, Join
  <2>4. Cut(route, cut) = after
    BY <1>2 DEF Cut, After
  <2> HIDE DEF cut, p, after
  <2>5. <<cut>>[1] \in Step(n)
    BY <2>1
  <2>6. p # << >> /\ Head(p) = cut /\ Tail(p) = q
    BY <2>3, <2>5, TailOfPrefixed
  <2>7. QED
    BY <2>2, <2>4, <2>6 DEF CutNext, CutsTo
<1>3. QED
  BY <1>1, <1>2

\* A route that is right after the cut is right after one step more.
LEMMA OneMore ==
    ASSUME NEW i, NEW p, NEW route, NEW q, NEW after, CutsTo(i, p, route, q, after)
    PROVE  /\ Arrives(i, after, q) => OneCut(i, route, p)
           /\ OneCut(i, after, q) => TwoCuts(i, route, p)
           /\ TwoCuts(i, after, q) => ThreeCuts(i, route, p)
BY DEF CutsTo, OneCut, TwoCuts, ThreeCuts

\* Function by function, what a cut makes of a route.
IsFunction(f) == f = [s \in DOMAIN f |-> f[s]]

Adds(after, route, target, functions) ==
    /\ IsFunction(after)
    /\ DOMAIN after = DOMAIN route \union functions
    /\ \A s \in DOMAIN after : after[s] = IF s \in functions THEN target ELSE route[s]

Removes(after, route, functions) ==
    /\ DOMAIN after = DOMAIN route \ functions
    /\ \A s \in DOMAIN after : after[s] = route[s]

LEMMA AfterAdding ==
    ASSUME NEW action, NEW route, NEW target, NEW functions, action # "remove", IsFunction(route)
    PROVE  Adds(After(action, route, target, functions), route, target, functions)
<1>1. CASE functions = {}
  BY <1>1 DEF After, Adds
<1>2. CASE functions # {}
  BY <1>2 DEF After, Cut, IsFunction, Adds
<1>3. QED
  BY <1>1, <1>2

LEMMA AfterRemoving ==
    ASSUME NEW route, NEW target, NEW functions
    PROVE  Removes(After("remove", route, target, functions), route, functions)
<1>1. CASE functions = {}
  BY <1>1 DEF After, Removes
<1>2. CASE functions # {}
  BY <1>2 DEF After, Cut, Removes
<1>3. QED
  BY <1>1, <1>2

\* The three cuts of an upgrade make all of a version all of the next.
LEMMA ThreeCutsUpgrade ==
    ASSUME NEW route, NEW target, NEW old, NEW from, NEW into, NEW added, NEW replaced, NEW removed,
           into = Signatures[target.feature][target.version],
           from = Signatures[target.feature][old],
           Whole(route, target.feature, old),
           Adds(added, route, target, into \ from),
           Adds(replaced, added, target, from \cap into),
           Removes(removed, replaced, from \ into)
    PROVE  AllOf(removed, target)
<1>1. {s \in DOMAIN route : route[s].feature = target.feature} = from
  BY DEF Whole
<1>2. /\ DOMAIN added = DOMAIN route \union (into \ from)
      /\ \A s \in DOMAIN added : added[s] = IF s \in into \ from THEN target ELSE route[s]
  BY DEF Adds
<1>3. /\ DOMAIN replaced = DOMAIN added \union (from \cap into)
      /\ \A s \in DOMAIN replaced :
            replaced[s] = IF s \in from \cap into THEN target ELSE added[s]
  BY DEF Adds
<1>4. /\ DOMAIN removed = DOMAIN replaced \ (from \ into)
      /\ \A s \in DOMAIN removed : removed[s] = replaced[s]
  BY DEF Removes
<1> HIDE DEF Whole
<1>5. \A s \in into : s \in DOMAIN removed /\ removed[s] = target
  BY <1>2, <1>3, <1>4
<1>6. \A s \in DOMAIN removed : s \notin into => removed[s].feature # target.feature
  BY <1>1, <1>2, <1>3, <1>4
<1>7. {s \in DOMAIN removed : removed[s].feature = target.feature} = into
  BY <1>5, <1>6
<1>8. \A s, u \in into : removed[s] = removed[u] /\ removed[s].version = target.version
  BY <1>5
<1>9. Whole(removed, target.feature, target.version)
  BY <1>7, <1>8 DEF Whole
<1>10. QED
  BY <1>5, <1>9 DEF AllOf

-----------------------------------------------------------------------------
(* Steps and scripts that report no upgrade. *)

LEMMA JoinNoWhole ==
    ASSUME NEW S, NEW p \in Seq(S), NEW q \in Seq(S), NoWholeReport(p), NoWholeReport(q)
    PROVE  NoWholeReport(Join(p, q))
<1> SUFFICES ASSUME NEW k \in 1..Len(Join(p, q))
             PROVE  ~(Join(p, q)[k].do = "upgraded" /\ Join(p, q)[k].fromWhole)
  BY DEF NoWholeReport
<1>1. /\ k \in 1..(Len(p) + Len(q)) /\ Len(p) \in Nat /\ Len(q) \in Nat
      /\ Join(p, q)[k] = IF k <= Len(p) THEN p[k] ELSE q[k - Len(p)]
  BY ConcatProperties, LenProperties DEF Join
<1>2. CASE k <= Len(p)
  BY <1>1, <1>2 DEF NoWholeReport
<1>3. CASE ~(k <= Len(p))
  <2> DEFINE j == k - Len(p)
  <2>1. j \in 1..Len(q)
    BY <1>1, <1>3
  <2>2. Join(p, q)[k] = q[j]
    BY <1>1, <1>3
  <2> HIDE DEF j
  <2>3. QED
    BY <2>1, <2>2 DEF NoWholeReport
<1>4. QED
  BY <1>2, <1>3

LEMMA RestNoWhole ==
    ASSUME NEW S, NEW q \in Seq(S), q # << >>, NoWholeReport(q)
    PROVE  NoWholeReport(Tail(q))
<1>1. /\ Len(Tail(q)) = Len(q) - 1 /\ Len(q) \in Nat
      /\ \A k \in 1..Len(Tail(q)) : Tail(q)[k] = q[k + 1]
  BY HeadTailProperties, LenProperties
<1> SUFFICES ASSUME NEW k \in 1..Len(Tail(q))
             PROVE  ~(Tail(q)[k].do = "upgraded" /\ Tail(q)[k].fromWhole)
  BY DEF NoWholeReport
<1> DEFINE j == k + 1
<1>2. j \in 1..Len(q) /\ Tail(q)[k] = q[j]
  BY <1>1
<1> HIDE DEF j
<1>3. QED
  BY <1>2 DEF NoWholeReport

LEMMA NothingNoWhole == NoWholeReport(<< >>)
BY DEF NoWholeReport

LEMMA ScriptNoWhole ==
    ASSUME NEW script \in Script
    PROVE  NoWholeReport(script)
<1>1. script \in Seq(Task)
  BY ReleaseAssumption
<1>2. \A k \in 1..Len(script) : script[k] \in Task
  BY <1>1, ElementOfSeq
<1>3. QED
  BY <1>2, ReleaseAssumption DEF NoWholeReport

LEMMA CutOfNoWhole ==
    ASSUME NEW i, NEW action \in {"add", "replace", "remove"}, NEW target, NEW functions
    PROVE  NoWholeReport(CutOf(action, i, target, functions))
<1> DEFINE cut == [do |-> action, registry |-> i, target |-> target, functions |-> functions]
<1>1. cut.do # "upgraded"
  OBVIOUS
<1> HIDE DEF cut
<1>2. NoWholeReport(<<cut>>)
  BY <1>1 DEF NoWholeReport
<1>3. QED
  BY <1>2, NothingNoWhole DEF CutOf, cut

LEMMA DeployFeatureNoWhole ==
    ASSUME NEW task \in Task, task.do = "deploy", built \in [Feature -> Nat],
           NEW n \in Nat, NEW i \in 1..n
    PROVE  NoWholeReport(deployFeature(task, i))
<1> DEFINE ids == Interfaces(task.feature)
           sets == [k \in DOMAIN ids |->
                      [do |-> "interface", registry |-> i, id |-> ids[k]]]
           adds == CutOf("add", i, Target(task), Signatures[task.feature][task.version])
<1>1. ids \in Seq(STRING)
  BY TargetOfTask, ReleaseAssumption
<1> HIDE DEF ids
<1>2. DOMAIN ids = 1..Len(ids) /\ Len(ids) \in Nat
  BY <1>1
<1>3. \A k \in 1..Len(ids) : [do |-> "interface", registry |-> i, id |-> ids[k]] \in Step(n)
  BY <1>1 DEF Step, InterfaceStep
<1>4. sets \in [1..Len(ids) -> Step(n)]
  BY <1>2, <1>3
<1>5. sets \in Seq(Step(n)) /\ Len(sets) = Len(ids)
  BY <1>2, <1>4
<1>6. \A k \in 1..Len(sets) : sets[k].do = "interface"
  BY <1>2, <1>5
<1>7. NoWholeReport(sets)
  BY <1>6 DEF NoWholeReport
<1>8. adds \in Seq(Step(n))
  BY TargetOfTask, CutOfSteps
<1>9. NoWholeReport(adds)
  BY CutOfNoWhole
<1>10. deployFeature(task, i) = adds \o sets
  BY DEF deployFeature, ids
<1> HIDE DEF sets, adds
<1>11. QED
  BY <1>5, <1>7, <1>8, <1>9, <1>10, JoinNoWhole DEF Join

\* An upgrade that finds the old version whole leads up to a true report, and any
\* other reports nothing of the kind.
LEMMA UpgradeFeatureLeads ==
    ASSUME NEW task \in Task, task.do = "upgrade", IInv, NEW i \in 1..Len(registries),
           NEW rest \in Seq(Step(Len(registries))), NoWholeReport(rest)
    PROVE  \/ NoWholeReport(Join(upgradeFeature(task, i), rest))
           \/ ThreeCuts(i, registries[i].route, Join(upgradeFeature(task, i), rest))
<1> DEFINE n == Len(registries)
           f == task.feature
           from == Signatures[f][task.from]
           into == Signatures[f][task.version]
           target == Target(task)
           route == registries[i].route
           new == into \ from
           both == from \cap into
           gone == from \ into
           adds == CutOf("add", i, target, new)
           replaces == CutOf("replace", i, target, both)
           removes == CutOf("remove", i, target, gone)
           report == Report(task, i)
<1>1. n \in Nat /\ built \in [Feature -> Nat]
  BY DEF IInv
<1>2. /\ target \in Contract /\ into \subseteq Function
      /\ \A s \in into : Implements(target, s)
  BY <1>1, TargetOfTask
<1>3. from \subseteq Function
  BY <1>1, TargetOfTask, ReleaseAssumption DEF Function
<1>4. target.feature = f /\ target.version = task.version
  BY DEF Target
<1>5. IsFunction(route)
  <2>1. registries[i] \in Registry
    BY ElementOfSeq DEF IInv
  <2>2. route \in Route
    BY <2>1 DEF Registry
  <2>3. QED
    BY <2>2 DEF Route, IsFunction
<1> DEFINE step == [do |-> "upgraded", registry |-> i, target |-> target,
                    fromWhole |-> Whole(route, f, task.from)]
<1>6. /\ report = <<step>> /\ step.do = "upgraded" /\ step.registry = i /\ step.target = target
      /\ step.fromWhole = Whole(route, f, task.from)
  BY DEF Report
<1>7. step \in Step(n)
  <2>1. Whole(route, f, task.from) \in BOOLEAN
    BY DEF Whole
  <2>2. step \in ReportStep(n)
    BY <1>2, <2>1 DEF ReportStep
  <2>3. QED
    BY <2>2 DEF Step
<1> HIDE DEF step
<1>8. report \in Seq(Step(n))
  BY <1>6, <1>7
<1>9. upgradeFeature(task, i) = Join(Join(Join(adds, replaces), removes), report)
  BY DEF upgradeFeature, Join
<1>10. into = Signatures[target.feature][target.version] /\ from = Signatures[target.feature][task.from]
  BY <1>4
<1>11. /\ \A s \in new : Implements(target, s)
       /\ \A s \in both : Implements(target, s)
       /\ new \in SUBSET Function /\ both \in SUBSET Function /\ gone \in SUBSET Function
  BY <1>2, <1>3
<1> HIDE DEF from, into, new, both, gone, target, route, report
<1>12. adds \in Seq(Step(n)) /\ replaces \in Seq(Step(n)) /\ removes \in Seq(Step(n))
  BY <1>1, <1>2, <1>11, CutOfSteps
<1> DEFINE q4 == Join(report, rest)
           q3 == Join(removes, q4)
           q2 == Join(replaces, q3)
           q1 == Join(adds, q2)
<1>13. q4 \in Seq(Step(n)) /\ q3 \in Seq(Step(n)) /\ q2 \in Seq(Step(n)) /\ q1 \in Seq(Step(n))
  BY <1>8, <1>12, JoinIsSeq
<1>14. Join(upgradeFeature(task, i), rest) = q1
  <2> HIDE DEF adds, replaces, removes
  <2>1. QED
    BY <1>8, <1>9, <1>12, JoinFive
<1>15. CASE ~step.fromWhole
  <2>1. NoWholeReport(report)
    BY <1>6, <1>15 DEF NoWholeReport
  <2>2. NoWholeReport(adds) /\ NoWholeReport(replaces) /\ NoWholeReport(removes)
    BY CutOfNoWhole
  <2> HIDE DEF adds, replaces, removes
  <2>3. NoWholeReport(q4)
    BY <1>8, <2>1, JoinNoWhole
  <2>4. NoWholeReport(q3)
    BY <1>12, <1>13, <2>2, <2>3, JoinNoWhole
  <2>5. NoWholeReport(q2)
    BY <1>12, <1>13, <2>2, <2>4, JoinNoWhole
  <2>6. NoWholeReport(q1)
    BY <1>12, <1>13, <2>2, <2>5, JoinNoWhole
  <2>7. QED
    BY <1>14, <2>6
<1>16. CASE step.fromWhole
  <2> DEFINE added == After("add", route, target, new)
             replaced == After("replace", added, target, both)
             removed == After("remove", replaced, target, gone)
  <2>1. Adds(added, route, target, new)
    BY <1>5, AfterAdding
  <2>2. IsFunction(added)
    BY <2>1 DEF Adds
  <2>3. Adds(replaced, added, target, both)
    <3> HIDE DEF added
    <3>1. QED
      BY <2>2, AfterAdding
  <2>4. Removes(removed, replaced, gone)
    <3> HIDE DEF replaced
    <3>1. QED
      BY AfterRemoving
  <2>5. Whole(route, target.feature, task.from)
    BY <1>4, <1>6, <1>16
  <2>6. AllOf(removed, target)
    <3> HIDE DEF added, replaced, removed
    <3>1. QED
      BY <1>10, <2>1, <2>3, <2>4, <2>5, ThreeCutsUpgrade DEF new, both, gone
  <2>7. q4 # << >> /\ Head(q4) = step /\ Tail(q4) = rest
    BY <1>6, <1>7, TailOfPrefixed DEF Join
  <2>8. Arrives(i, removed, q4)
    <3> HIDE DEF q4, removed
    <3>1. QED
      BY <1>6, <2>6, <2>7 DEF Arrives
  <2>9. CutsTo(i, q3, replaced, q4, removed)
    <3> HIDE DEF q4, replaced
    <3>1. QED
      BY <1>12, <1>13, CutOfThen
  <2>10. CutsTo(i, q2, added, q3, replaced)
    <3> HIDE DEF q3, added
    <3>1. QED
      BY <1>12, <1>13, CutOfThen
  <2>11. CutsTo(i, q1, route, q2, added)
    <3> HIDE DEF q2
    <3>1. QED
      BY <1>12, <1>13, CutOfThen
  <2> HIDE DEF q1, q2, q3, q4, added, replaced, removed
  <2>12. OneCut(i, replaced, q3)
    BY <2>8, <2>9, OneMore
  <2>13. TwoCuts(i, added, q2)
    BY <2>10, <2>12, OneMore
  <2>14. ThreeCuts(i, route, q1)
    BY <2>11, <2>13, OneMore
  <2>15. QED
    BY <1>14, <2>14 DEF route
<1>17. QED
  BY <1>15, <1>16

-----------------------------------------------------------------------------
(* The invariant of the upgrades. *)

\* A script on its way to a true report makes a cut or the report next.
LEMMA Unwind ==
    ASSUME NEW i, NEW route, NEW q, ThreeCuts(i, route, q)
    PROVE  \/ Arrives(i, route, q)
           \/ CutNext(i, q) /\ TwoCuts(i, Cut(route, Head(q)), Tail(q))
BY DEF ThreeCuts, TwoCuts, OneCut

\* No other step is on the way to one.
LEMMA OtherStep ==
    ASSUME IInv, UpgradeInv, NEW what, Doing(what),
           "add" \notin what, "replace" \notin what, "remove" \notin what, "upgraded" \notin what
    PROVE  NoWholeReport(todo) /\ NoWholeReport(Tail(todo))
<1>1. todo \in Seq(Step(Len(registries))) /\ todo # << >> /\ Head(todo).do \in what
  BY DEF IInv, Doing
<1>2. ASSUME NEW i \in 1..Len(registries), ThreeCuts(i, registries[i].route, todo) PROVE FALSE
  <2>1. Head(todo).do \in {"add", "replace", "remove", "upgraded"}
    BY <1>2, Unwind DEF Arrives, CutNext
  <2>2. QED
    BY <1>1, <2>1
<1>3. NoWholeReport(todo)
  BY <1>2 DEF UpgradeInv
<1>4. QED
  BY <1>1, <1>3, RestNoWhole

LEMMA UpgradeInitHolds == ReleaseInit => UpgradeInv
BY NothingNoWhole DEF ReleaseInit, UpgradeInv

LEMMA UpgradeNextKeeps == IInv /\ UpgradeInv /\ [ReleaseNext]_releaseVars => UpgradeInv'
<1> SUFFICES ASSUME IInv, UpgradeInv, [ReleaseNext]_releaseVars PROVE UpgradeInv'
  OBVIOUS
<1> DEFINE n == Len(registries)
<1>0. n \in Nat /\ todo \in Seq(Step(n))
  BY DEF IInv
<1>a. NoWholeReport(todo') => UpgradeInv'
  BY DEF UpgradeInv
<1>1. ASSUME NEW script \in Script, StartScript(script) PROVE UpgradeInv'
  BY <1>a, <1>1, ScriptNoWhole DEF StartScript
<1>2. CASE DeployFeatureContract
  <2>1. Head(todo) \in Task /\ Head(todo).do \in {"deploy", "upgrade"} /\ todo # << >>
    BY <1>0, <1>2, RestFits, StepKind DEF DeployFeatureContract, Doing
  <2>2. Doing({"deploy", "upgrade"})
    BY <1>2 DEF DeployFeatureContract
  <2>3. NoWholeReport(Tail(todo)) /\ Tail(todo) \in Seq(Step(n))
    BY <1>0, <2>1, <2>2, OtherStep, RestFits
  <2>4. CASE json.registry = 0
    BY <1>2, <1>a, <2>4, NothingNoWhole DEF DeployFeatureContract
  <2>5. CASE json.registry # 0
    <3> DEFINE task == Head(todo)
               i == json.registry
               rest == Tail(todo)
    <3>1. i \in 1..n /\ built \in [Feature -> Nat]
      BY <2>5 DEF IInv
    <3>2. registries' = registries
      BY <1>2 DEF DeployFeatureContract
    <3>3. CASE task.do = "deploy"
      <4>1. todo' = Join(deployFeature(task, i), rest)
        BY <1>2, <2>5, <3>3 DEF DeployFeatureContract, Join
      <4> HIDE DEF i, rest
      <4>2. deployFeature(task, i) \in Seq(Step(n)) /\ NoWholeReport(deployFeature(task, i))
        BY <1>0, <2>1, <3>1, <3>3, DeployFeatureSteps, DeployFeatureNoWhole
      <4>3. NoWholeReport(Join(deployFeature(task, i), rest))
        BY <2>3, <4>2, JoinNoWhole DEF rest
      <4>4. QED
        BY <1>a, <4>1, <4>3
    <3>4. CASE task.do = "upgrade"
      <4>1. todo' = Join(upgradeFeature(task, i), rest)
        BY <1>2, <2>5, <3>4 DEF DeployFeatureContract, Join
      <4>2. \/ NoWholeReport(todo')
            \/ ThreeCuts(i, registries[i].route, todo')
        <5> HIDE DEF i, rest, task
        <5>1. QED
          BY <2>1, <2>3, <3>1, <3>4, <4>1, UpgradeFeatureLeads DEF task, rest
      <4>3. ThreeCuts(i, registries[i].route, todo') => UpgradeInv'
        <5> HIDE DEF i
        <5>1. QED
          BY <3>1, <3>2 DEF UpgradeInv
      <4>4. QED
        BY <1>a, <4>2, <4>3
    <3>5. QED
      BY <2>1, <3>3, <3>4
  <2>6. QED
    BY <2>4, <2>5
<1>3. CASE diamondCut
  <2> DEFINE cut == Head(todo)
  <2>1. cut \in CutStep(n) /\ todo # << >> /\ cut.do \in {"add", "replace", "remove"}
    BY <1>0, <1>3, RestFits, StepKind DEF diamondCut, Doing
  <2>2. CASE todo' = << >>
    BY <1>a, <2>2, NothingNoWhole
  <2>3. CASE NoWholeReport(todo) /\ todo' = Tail(todo)
    BY <1>0, <1>a, <2>1, <2>3, RestNoWhole
  <2>4. ASSUME NEW i \in 1..n, ThreeCuts(i, registries[i].route, todo), todo' = Tail(todo),
               registries' = [registries EXCEPT ![cut.registry].route = Cut(@, cut)]
        PROVE  UpgradeInv'
    <3>1. ~Arrives(i, registries[i].route, todo)
      BY <2>1 DEF Arrives
    <3>2. CutNext(i, todo) /\ TwoCuts(i, Cut(registries[i].route, cut), todo')
      BY <2>4, <3>1, Unwind
    <3>3. cut.registry = i
      BY <3>2 DEF CutNext
    <3>4. i \in 1..Len(registries') /\ registries'[i].route = Cut(registries[i].route, cut)
      <4>1. registries[i] \in Registry /\ registries \in Seq(Registry)
        BY ElementOfSeq DEF IInv
      <4>2. registries' = [registries EXCEPT ![i] = [registries[i] EXCEPT !.route = Cut(@, cut)]]
        BY <2>4, <3>3
      <4> HIDE DEF cut
      <4>3. QED
        BY <4>1, <4>2 DEF Registry
    <3>5. TwoCuts(i, registries'[i].route, todo')
      BY <3>2, <3>4
    <3>6. ThreeCuts(i, registries'[i].route, todo')
      BY <3>5 DEF ThreeCuts
    <3>7. QED
      BY <3>4, <3>6 DEF UpgradeInv
  <2>5. \/ todo' = << >>
        \/ /\ todo' = Tail(todo)
           /\ registries' = [registries EXCEPT ![cut.registry].route = Cut(@, cut)]
    BY <1>3 DEF diamondCut
  <2>6. QED
    BY <2>2, <2>3, <2>4, <2>5 DEF UpgradeInv
<1>4. CASE setSupportedInterface
  BY <1>a, <1>4, OtherStep DEF setSupportedInterface
<1>5. CASE Upgraded
  <2>1. todo' = Tail(todo) /\ todo # << >> /\ Head(todo).do = "upgraded"
    BY <1>5 DEF Upgraded, Doing
  <2>2. ASSUME NEW i \in 1..n, ThreeCuts(i, registries[i].route, todo) PROVE NoWholeReport(todo')
    BY <2>1, <2>2, Unwind DEF Arrives, CutNext
  <2>3. NoWholeReport(todo) => NoWholeReport(todo')
    BY <1>0, <2>1, RestNoWhole
  <2>4. QED
    BY <1>a, <2>2, <2>3 DEF UpgradeInv
<1>6. CASE DeployRegistry
  BY <1>a, <1>6, OtherStep DEF DeployRegistry
<1>7. CASE DeployFactory
  BY <1>a, <1>7, OtherStep DEF DeployFactory
<1>8. CASE updateDeployJSON
  BY <1>a, <1>8, OtherStep DEF updateDeployJSON
<1>9. CASE setCollectionRegistryOnCollectionFactory
  BY <1>a, <1>9, OtherStep DEF setCollectionRegistryOnCollectionFactory
<1>10. ASSUME NEW s \in Removable, RemoveSelector(s) PROVE UpgradeInv'
  BY <1>a, <1>10, CutOfNoWhole DEF RemoveSelector
<1>11. CASE CutOff
  BY <1>a, <1>11, NothingNoWhole DEF CutOff
<1>12. CASE UNCHANGED releaseVars
  BY <1>12 DEF releaseVars, UpgradeInv
<1>13. CASE RegistrationTask
  BY <1>a, <1>13, OtherStep, NothingNoWhole DEF RegistrationTask
<1>14. QED
  BY <1>1, <1>2, <1>3, <1>4, <1>5, <1>6, <1>7, <1>8, <1>9, <1>10, <1>11, <1>12, <1>13
     DEF ReleaseNext, ReleaseStep

LEMMA UpgradeInvSuffices == IInv /\ UpgradeInv => UpgradedIsWhole
<1> SUFFICES ASSUME IInv, UpgradeInv, Doing({"upgraded"}), Head(todo).fromWhole
             PROVE  AllOf(registries[Head(todo).registry].route, Head(todo).target)
  BY DEF UpgradedIsWhole, AllOf
<1>1. todo \in Seq(Step(Len(registries))) /\ todo # << >> /\ Head(todo).do = "upgraded"
  BY DEF IInv, Doing
<1>2. ~NoWholeReport(todo)
  <2>1. 1 \in 1..Len(todo) /\ Head(todo) = todo[1]
    BY <1>1, EmptySeq
  <2>2. QED
    BY <1>1, <2>1 DEF NoWholeReport
<1>3. PICK i \in 1..Len(registries) : ThreeCuts(i, registries[i].route, todo)
  BY <1>2 DEF UpgradeInv
<1>4. QED
  BY <1>1, <1>3, Unwind DEF Arrives, CutNext

\* When a script reports an upgrade of a feature that was all of the version it upgrades
\* from, all of it is the new contract, for any tables of functions, whatever scripts
\* were cut off or repeated before (UpgradedIsWhole).
THEOREM UpgradedIsWholeHolds == ReleaseSpec => []UpgradedIsWhole
<1>1. ReleaseInit => IInv /\ UpgradeInv
  BY InitHolds, UpgradeInitHolds
<1>2. IInv /\ UpgradeInv /\ [ReleaseNext]_releaseVars => (IInv /\ UpgradeInv)'
  BY NextKeeps, UpgradeNextKeeps
<1>3. IInv /\ UpgradeInv => UpgradedIsWhole
  BY UpgradeInvSuffices
<1>4. QED
  BY <1>1, <1>2, <1>3, PTL DEF ReleaseSpec

-----------------------------------------------------------------------------
(* What a registry claims.  An interface is set in a transaction of its own,     *)
(* later than the cut that adds its functions: the invariant says of every       *)
(* interface that waits in todo that its functions are routed already or are     *)
(* added by a cut that waits before it.                                          *)

AddedBefore(q, k, i, s) ==
    \E j \in 1..(k - 1) : q[j].do = "add" /\ q[j].registry = i /\ s \in q[j].functions

Prepared(regs, q) ==
    \A k \in 1..Len(q) :
        q[k].do = "interface" /\ q[k].id \in DOMAIN Claims =>
            \A s \in Claims[q[k].id] :
                \/ s \in DOMAIN regs[q[k].registry].route
                \/ AddedBefore(q, k, q[k].registry, s)

\* No cut that waits takes a function of a claimed interface away.
RemovesUnclaimed(q) ==
    \A k \in 1..Len(q) :
        q[k].do = "remove" => \A id \in DOMAIN Claims : q[k].functions \cap Claims[id] = {}

ClaimInv == ClaimedIsRouted /\ Prepared(registries, todo) /\ RemovesUnclaimed(todo)

\* Registries that route what they did, the functions of claimed interfaces at least.
KeepClaimed(regs, later, n) ==
    \A i \in 1..n, id \in DOMAIN Claims : \A s \in Claims[id] :
        s \in DOMAIN regs[i].route => s \in DOMAIN later[i].route

LEMMA NothingPrepared ==
    ASSUME NEW regs
    PROVE  Prepared(regs, << >>) /\ RemovesUnclaimed(<< >>)
BY DEF Prepared, RemovesUnclaimed

LEMMA JoinPrepared ==
    ASSUME NEW S, NEW p \in Seq(S), NEW q \in Seq(S), NEW regs, Prepared(regs, p), Prepared(regs, q)
    PROVE  Prepared(regs, Join(p, q))
<1> DEFINE r == Join(p, q)
<1>1. /\ Len(p) \in Nat /\ Len(q) \in Nat /\ Len(r) = Len(p) + Len(q)
      /\ \A k \in 1..(Len(p) + Len(q)) : r[k] = IF k <= Len(p) THEN p[k] ELSE q[k - Len(p)]
  BY ConcatProperties, LenProperties DEF Join
<1> HIDE DEF r
<1> SUFFICES ASSUME NEW k \in 1..Len(r), r[k].do = "interface", r[k].id \in DOMAIN Claims,
                    NEW s \in Claims[r[k].id]
             PROVE  \/ s \in DOMAIN regs[r[k].registry].route
                    \/ AddedBefore(r, k, r[k].registry, s)
  BY DEF Prepared, r
<1>2. CASE k <= Len(p)
  <2>1. k \in 1..Len(p) /\ r[k] = p[k]
    BY <1>1, <1>2
  <2>2. \/ s \in DOMAIN regs[p[k].registry].route
        \/ AddedBefore(p, k, p[k].registry, s)
    BY <2>1 DEF Prepared
  <2>3. \A j \in 1..(k - 1) : r[j] = p[j]
    BY <1>1, <1>2
  <2>4. QED
    BY <2>1, <2>2, <2>3 DEF AddedBefore
<1>3. CASE ~(k <= Len(p))
  <2> DEFINE m == k - Len(p)
  <2>1. m \in 1..Len(q) /\ r[k] = q[m]
    BY <1>1, <1>3
  <2> HIDE DEF m
  <2>2. \/ s \in DOMAIN regs[q[m].registry].route
        \/ AddedBefore(q, m, q[m].registry, s)
    BY <2>1 DEF Prepared
  <2>3. ASSUME AddedBefore(q, m, q[m].registry, s)
        PROVE  AddedBefore(r, k, r[k].registry, s)
    <3>1. PICK j \in 1..(m - 1) : q[j].do = "add" /\ q[j].registry = q[m].registry
                                  /\ s \in q[j].functions
      BY <2>3 DEF AddedBefore
    <3> DEFINE l == Len(p) + j
    <3>2. l \in 1..(k - 1) /\ r[l] = q[j]
      BY <1>1, <1>3, <2>1 DEF m
    <3> HIDE DEF l
    <3>3. QED
      BY <2>1, <3>1, <3>2 DEF AddedBefore
  <2>4. QED
    BY <2>1, <2>2, <2>3
<1>4. QED
  BY <1>2, <1>3

\* A step is done: what it added, if it is a cut, is routed.
LEMMA RestPrepared ==
    ASSUME NEW n \in Nat, NEW q \in Seq(Step(n)), q # << >>, NEW regs, NEW later,
           Prepared(regs, q), KeepClaimed(regs, later, n),
           Head(q).do = "add" =>
               \A s \in Head(q).functions : s \in DOMAIN later[Head(q).registry].route
    PROVE  Prepared(later, Tail(q))
<1> DEFINE r == Tail(q)
<1>1. /\ Len(q) \in Nat \ {0} /\ Len(r) = Len(q) - 1 /\ Head(q) = q[1]
      /\ \A k \in 1..Len(r) : r[k] = q[k + 1]
  BY HeadTailProperties, EmptySeq
<1>2. \A k \in 1..Len(q) : q[k] \in Step(n)
  BY ElementOfSeq
<1> HIDE DEF r
<1> SUFFICES ASSUME NEW k \in 1..Len(r), r[k].do = "interface", r[k].id \in DOMAIN Claims,
                    NEW s \in Claims[r[k].id]
             PROVE  \/ s \in DOMAIN later[r[k].registry].route
                    \/ AddedBefore(r, k, r[k].registry, s)
  BY DEF Prepared, r
<1> DEFINE m == k + 1
<1>3. m \in 1..Len(q) /\ r[k] = q[m]
  BY <1>1
<1>4. q[m].registry \in 1..n
  BY <1>2, <1>3, StepKind DEF InterfaceStep
<1>5. \A j \in 2..(m - 1) : j - 1 \in 1..(k - 1) /\ r[j - 1] = q[j]
  BY <1>1, <1>3
<1>6. \A j \in 1..(m - 1) : j = 1 \/ j \in 2..(m - 1)
  OBVIOUS
<1> HIDE DEF m
<1>7. \/ s \in DOMAIN regs[q[m].registry].route
      \/ AddedBefore(q, m, q[m].registry, s)
  BY <1>3 DEF Prepared
<1>8. CASE s \in DOMAIN regs[q[m].registry].route
  BY <1>3, <1>4, <1>8 DEF KeepClaimed
<1>9. CASE AddedBefore(q, m, q[m].registry, s)
  <2>1. PICK j \in 1..(m - 1) : q[j].do = "add" /\ q[j].registry = q[m].registry
                                /\ s \in q[j].functions
    BY <1>9 DEF AddedBefore
  <2>2. CASE j = 1
    BY <1>1, <1>3, <2>1, <2>2
  <2>3. CASE j \in 2..(m - 1)
    <3> DEFINE l == j - 1
    <3>1. l \in 1..(k - 1) /\ r[l] = q[j]
      BY <1>5, <2>3
    <3> HIDE DEF l
    <3>2. QED
      BY <1>3, <2>1, <3>1 DEF AddedBefore
  <2>4. QED
    BY <1>6, <2>2, <2>3
<1>10. QED
  BY <1>7, <1>8, <1>9

LEMMA JoinUnclaimed ==
    ASSUME NEW S, NEW p \in Seq(S), NEW q \in Seq(S), RemovesUnclaimed(p), RemovesUnclaimed(q)
    PROVE  RemovesUnclaimed(Join(p, q))
<1> DEFINE r == Join(p, q)
<1>1. /\ Len(p) \in Nat /\ Len(q) \in Nat /\ Len(r) = Len(p) + Len(q)
      /\ \A k \in 1..(Len(p) + Len(q)) : r[k] = IF k <= Len(p) THEN p[k] ELSE q[k - Len(p)]
  BY ConcatProperties, LenProperties DEF Join
<1>2. \A k \in 1..Len(r) : \/ \E j \in 1..Len(p) : r[k] = p[j]
                           \/ \E j \in 1..Len(q) : r[k] = q[j]
  <2> TAKE k \in 1..Len(r)
  <2>1. CASE k <= Len(p)
    BY <1>1, <2>1
  <2>2. CASE ~(k <= Len(p))
    <3>1. k - Len(p) \in 1..Len(q) /\ r[k] = q[k - Len(p)]
      BY <1>1, <2>2
    <3>2. QED
      BY <3>1
  <2>3. QED
    BY <2>1, <2>2
<1> HIDE DEF r
<1>3. RemovesUnclaimed(r)
  BY <1>2 DEF RemovesUnclaimed
<1>4. QED
  BY <1>3 DEF r

LEMMA RestUnclaimed ==
    ASSUME NEW S, NEW q \in Seq(S), q # << >>, RemovesUnclaimed(q)
    PROVE  /\ RemovesUnclaimed(Tail(q))
           /\ Head(q).do = "remove" => \A id \in DOMAIN Claims : Head(q).functions \cap Claims[id] = {}
<1> DEFINE r == Tail(q)
<1>1. /\ Len(q) \in Nat \ {0} /\ Len(r) = Len(q) - 1 /\ Head(q) = q[1]
      /\ \A k \in 1..Len(r) : r[k] = q[k + 1]
  BY HeadTailProperties, EmptySeq
<1>2. \A k \in 1..Len(r) : \E j \in 1..Len(q) : r[k] = q[j]
  <2> TAKE k \in 1..Len(r)
  <2>1. k + 1 \in 1..Len(q) /\ r[k] = q[k + 1]
    BY <1>1
  <2>2. QED
    BY <2>1
<1> HIDE DEF r
<1>3. RemovesUnclaimed(r)
  BY <1>2 DEF RemovesUnclaimed
<1>4. 1 \in 1..Len(q)
  BY <1>1
<1>5. QED
  BY <1>1, <1>3, <1>4 DEF RemovesUnclaimed, r

LEMMA ScriptPrepared ==
    ASSUME NEW script \in Script, NEW regs
    PROVE  Prepared(regs, script) /\ RemovesUnclaimed(script)
<1>1. script \in Seq(Task)
  BY ReleaseAssumption
<1>2. \A k \in 1..Len(script) : script[k] \in Task
  BY <1>1, ElementOfSeq
<1>3. \A k \in 1..Len(script) : script[k].do # "interface" /\ script[k].do # "remove"
  BY <1>2, ReleaseAssumption
<1>4. QED
  BY <1>3 DEF Prepared, RemovesUnclaimed

LEMMA CutOfPrepared ==
    ASSUME NEW i, NEW action \in {"add", "replace", "remove"}, NEW target, NEW functions, NEW regs,
           \A id \in DOMAIN Claims : action = "remove" => functions \cap Claims[id] = {}
    PROVE  /\ Prepared(regs, CutOf(action, i, target, functions))
           /\ RemovesUnclaimed(CutOf(action, i, target, functions))
<1> DEFINE cut == [do |-> action, registry |-> i, target |-> target, functions |-> functions]
<1>1. cut.do = action /\ cut.functions = functions
  OBVIOUS
<1> HIDE DEF cut
<1>2. Prepared(regs, <<cut>>)
  BY <1>1 DEF Prepared
<1>3. RemovesUnclaimed(<<cut>>)
  BY <1>1 DEF RemovesUnclaimed
<1>4. QED
  BY <1>2, <1>3, NothingPrepared DEF CutOf, cut

LEMMA DeployFeaturePrepared ==
    ASSUME NEW task \in Task, task.do = "deploy", built \in [Feature -> Nat],
           NEW n \in Nat, NEW i \in 1..n, NEW regs
    PROVE  Prepared(regs, deployFeature(task, i)) /\ RemovesUnclaimed(deployFeature(task, i))
<1> DEFINE ids == Interfaces(task.feature)
           functions == Signatures[task.feature][task.version]
           target == Target(task)
           sets == [k \in DOMAIN ids |-> [do |-> "interface", registry |-> i, id |-> ids[k]]]
           cut == [do |-> "add", registry |-> i, target |-> target, functions |-> functions]
           adds == CutOf("add", i, target, functions)
           p == deployFeature(task, i)
<1>1. ids \in Seq(STRING)
  BY TargetOfTask, ReleaseAssumption
<1>2. \A k \in DOMAIN ids : ids[k] \in DOMAIN Claims => Claims[ids[k]] \subseteq functions
  BY ClaimsAssumption
<1>3. adds \in Seq(Step(n))
  BY TargetOfTask, CutOfSteps
<1>4. p = Join(adds, sets)
  BY DEF deployFeature, Join
<1> HIDE DEF ids, functions, target
<1>5. DOMAIN ids = 1..Len(ids) /\ Len(ids) \in Nat
  BY <1>1
<1>6. \A k \in 1..Len(ids) : [do |-> "interface", registry |-> i, id |-> ids[k]] \in Step(n)
  BY <1>1 DEF Step, InterfaceStep
<1>7. sets \in [1..Len(ids) -> Step(n)]
  BY <1>5, <1>6
<1>8. sets \in Seq(Step(n)) /\ Len(sets) = Len(ids)
  BY <1>5, <1>7
<1>9. \A k \in 1..Len(sets) : /\ sets[k].do = "interface" /\ sets[k].registry = i
                              /\ sets[k].id = ids[k] /\ k \in DOMAIN ids
  BY <1>5, <1>8
<1>10. Prepared(regs, adds) /\ RemovesUnclaimed(adds)
  BY CutOfPrepared
<1>11. adds = IF functions = {} THEN << >> ELSE <<cut>>
  BY DEF CutOf
<1>12. cut.do = "add" /\ cut.registry = i /\ cut.functions = functions
  OBVIOUS
<1> HIDE DEF sets, adds, cut, p
<1>13. RemovesUnclaimed(p)
  <2>1. RemovesUnclaimed(sets)
    BY <1>9 DEF RemovesUnclaimed
  <2>2. QED
    BY <1>3, <1>4, <1>8, <1>10, <2>1, JoinUnclaimed
<1>14. Prepared(regs, p)
  <2>1. /\ Len(adds) \in Nat /\ Len(sets) \in Nat /\ Len(p) = Len(adds) + Len(sets)
        /\ \A k \in 1..(Len(adds) + Len(sets)) :
              p[k] = IF k <= Len(adds) THEN adds[k] ELSE sets[k - Len(adds)]
    <3>1. p = adds \o sets
      BY <1>4 DEF Join
    <3>2. adds \in Seq(Step(n)) /\ sets \in Seq(Step(n))
      BY <1>3, <1>8
    <3>3. Len(adds) \in Nat /\ Len(sets) \in Nat
      BY <3>2, LenProperties
    <3>4. QED
      BY <3>1, <3>2, <3>3, ConcatProperties
  <2>2. functions # {} => Len(adds) = 1 /\ adds[1] = cut
    BY <1>11
  <2>3. functions = {} => Len(adds) = 0
    BY <1>11
  <2> SUFFICES ASSUME NEW k \in 1..Len(p), p[k].do = "interface", p[k].id \in DOMAIN Claims,
                      NEW s \in Claims[p[k].id]
               PROVE  AddedBefore(p, k, p[k].registry, s)
    BY DEF Prepared
  <2>4. CASE k <= Len(adds)
    <3>1. functions # {} /\ k = 1 /\ p[k] = cut
      BY <2>1, <2>2, <2>3, <2>4
    <3>2. QED
      BY <1>12, <3>1
  <2>5. CASE ~(k <= Len(adds))
    <3> DEFINE m == k - Len(adds)
    <3>1. m \in 1..Len(sets) /\ p[k] = sets[m]
      BY <2>1, <2>5
    <3> HIDE DEF m
    <3>2. s \in functions /\ p[k].registry = i
      BY <1>2, <1>9, <3>1
    <3>3. Len(adds) = 1 /\ adds[1] = cut
      BY <2>2, <3>2
    <3>4. 1 \in 1..(k - 1) /\ p[1] = cut
      BY <2>1, <2>5, <3>3
    <3>5. QED
      BY <1>12, <3>2, <3>4 DEF AddedBefore
  <2>6. QED
    BY <2>4, <2>5
<1>15. QED
  BY <1>13, <1>14 DEF p

LEMMA UpgradeFeaturePrepared ==
    ASSUME NEW task \in Task, task.do = "upgrade", built \in [Feature -> Nat],
           NEW n \in Nat, NEW i \in 1..n, NEW regs
    PROVE  Prepared(regs, upgradeFeature(task, i)) /\ RemovesUnclaimed(upgradeFeature(task, i))
<1> DEFINE from == Signatures[task.feature][task.from]
           into == Signatures[task.feature][task.version]
           target == Target(task)
           new == into \ from
           both == from \cap into
           gone == from \ into
           adds == CutOf("add", i, target, new)
           replaces == CutOf("replace", i, target, both)
           removes == CutOf("remove", i, target, gone)
           report == Report(task, i)
           step == [do |-> "upgraded", registry |-> i, target |-> target,
                    fromWhole |-> Whole(registries[i].route, task.feature, task.from)]
<1>1. /\ target \in Contract /\ into \subseteq Function
      /\ \A s \in into : Implements(target, s)
  BY TargetOfTask
<1>2. from \subseteq Function
  BY TargetOfTask, ReleaseAssumption DEF Function
<1>3. \A id \in DOMAIN Claims : gone \cap Claims[id] = {}
  BY ClaimsAssumption
<1>4. upgradeFeature(task, i) = Join(Join(Join(adds, replaces), removes), report)
  BY DEF upgradeFeature, Join
<1>5. report = <<step>> /\ step.do = "upgraded"
  BY DEF Report
<1>6. step \in Step(n)
  <2>1. Whole(registries[i].route, task.feature, task.from) \in BOOLEAN
    BY DEF Whole
  <2>2. step \in ReportStep(n)
    BY <1>1, <2>1 DEF ReportStep
  <2>3. QED
    BY <2>2 DEF Step
<1> HIDE DEF from, into, target, step, report
<1>7. /\ \A s \in new : Implements(target, s)
      /\ \A s \in both : Implements(target, s)
      /\ new \in SUBSET Function /\ both \in SUBSET Function /\ gone \in SUBSET Function
  BY <1>1, <1>2
<1> HIDE DEF new, both, gone
<1>8. adds \in Seq(Step(n)) /\ replaces \in Seq(Step(n)) /\ removes \in Seq(Step(n))
  BY <1>1, <1>7, CutOfSteps
<1>9. report \in Seq(Step(n)) /\ Prepared(regs, report) /\ RemovesUnclaimed(report)
  BY <1>5, <1>6 DEF Prepared, RemovesUnclaimed
<1>10. /\ Prepared(regs, adds) /\ Prepared(regs, replaces)
       /\ RemovesUnclaimed(adds) /\ RemovesUnclaimed(replaces)
  BY CutOfPrepared
<1>11. Prepared(regs, removes) /\ RemovesUnclaimed(removes)
  BY <1>3, CutOfPrepared
<1> HIDE DEF adds, replaces, removes
<1> DEFINE first == Join(adds, replaces)
           cuts == Join(first, removes)
<1>12. first \in Seq(Step(n)) /\ Prepared(regs, first) /\ RemovesUnclaimed(first)
  BY <1>8, <1>10, JoinIsSeq, JoinPrepared, JoinUnclaimed
<1> HIDE DEF first
<1>13. cuts \in Seq(Step(n)) /\ Prepared(regs, cuts) /\ RemovesUnclaimed(cuts)
  BY <1>8, <1>11, <1>12, JoinIsSeq, JoinPrepared, JoinUnclaimed
<1> HIDE DEF cuts
<1>14. Prepared(regs, Join(cuts, report)) /\ RemovesUnclaimed(Join(cuts, report))
  BY <1>9, <1>13, JoinPrepared, JoinUnclaimed
<1>15. QED
  BY <1>4, <1>14 DEF cuts, first

LEMMA ClaimInitHolds == ReleaseInit => ClaimInv
<1> SUFFICES ASSUME ReleaseInit PROVE ClaimInv
  OBVIOUS
<1>1. registries = << >> /\ todo = << >> /\ DOMAIN registries = {}
  BY DEF ReleaseInit
<1>2. QED
  BY <1>1, NothingPrepared DEF ClaimInv, ClaimedIsRouted

\* A step that is not a cut is done, and the registries route what they did.
LEMMA StepDone ==
    ASSUME IInv, ClaimInv, NEW what, Doing(what), "add" \notin what,
           KeepClaimed(registries, registries', Len(registries)), todo' = Tail(todo)
    PROVE  Prepared(registries', todo') /\ RemovesUnclaimed(todo')
<1>1. /\ Len(registries) \in Nat /\ todo \in Seq(Step(Len(registries))) /\ todo # << >>
      /\ Head(todo).do # "add"
  BY DEF IInv, Doing
<1>2. Prepared(registries, todo) /\ RemovesUnclaimed(todo)
  BY DEF ClaimInv
<1>3. QED
  BY <1>1, <1>2, RestPrepared, RestUnclaimed

LEMMA ClaimNextKeeps == IInv /\ ClaimInv /\ [ReleaseNext]_releaseVars => ClaimInv'
<1> SUFFICES ASSUME IInv, ClaimInv, [ReleaseNext]_releaseVars PROVE ClaimInv'
  OBVIOUS
<1> DEFINE n == Len(registries)
<1>0. n \in Nat /\ todo \in Seq(Step(n)) /\ DOMAIN registries = 1..n
      /\ \A i \in 1..n : registries[i] \in Registry
  BY ElementOfSeq, LenProperties DEF IInv
<1>a. ASSUME registries' = registries, Prepared(registries, todo'), RemovesUnclaimed(todo')
      PROVE  ClaimInv'
  BY <1>a DEF ClaimInv, ClaimedIsRouted
<1>b. ASSUME registries' = registries, NEW what, Doing(what), "add" \notin what,
             todo' = Tail(todo)
      PROVE  ClaimInv'
  <2>1. KeepClaimed(registries, registries', n)
    BY <1>b DEF KeepClaimed
  <2>2. Prepared(registries', todo') /\ RemovesUnclaimed(todo')
    BY <1>b, <2>1, StepDone
  <2>3. QED
    BY <1>a, <1>b, <2>2
<1>1. ASSUME NEW script \in Script, StartScript(script) PROVE ClaimInv'
  BY <1>a, <1>1, ScriptPrepared DEF StartScript
<1>2. CASE DeployFeatureContract
  <2>1. Head(todo) \in Task /\ Head(todo).do \in {"deploy", "upgrade"} /\ todo # << >>
    BY <1>0, <1>2, RestFits, StepKind DEF DeployFeatureContract, Doing
  <2>2. registries' = registries
    BY <1>2 DEF DeployFeatureContract
  <2>3. CASE json.registry = 0
    BY <1>2, <1>a, <2>2, <2>3, NothingPrepared DEF DeployFeatureContract
  <2>4. CASE json.registry # 0
    <3> DEFINE task == Head(todo)
               i == json.registry
               rest == Tail(todo)
               steps == IF task.do = "deploy" THEN deployFeature(task, i)
                        ELSE upgradeFeature(task, i)
    <3>1. i \in 1..n /\ built \in [Feature -> Nat]
      BY <2>4 DEF IInv
    <3>2. todo' = Join(steps, rest)
      BY <1>2, <2>4 DEF DeployFeatureContract, Join
    <3>3. /\ rest \in Seq(Step(n)) /\ Prepared(registries, rest) /\ RemovesUnclaimed(rest)
      <4>1. KeepClaimed(registries, registries, n)
        BY DEF KeepClaimed
      <4>2. task.do # "add"
        BY <2>1
      <4>3. QED
        BY <1>0, <2>1, <4>1, <4>2, RestPrepared, RestUnclaimed, RestFits DEF ClaimInv
    <3> HIDE DEF i, rest
    <3>4. steps \in Seq(Step(n)) /\ Prepared(registries, steps) /\ RemovesUnclaimed(steps)
      <4>1. CASE task.do = "deploy"
        BY <1>0, <2>1, <3>1, <4>1, DeployFeatureSteps, DeployFeaturePrepared
      <4>2. CASE task.do = "upgrade"
        BY <1>0, <2>1, <3>1, <4>2, UpgradeFeatureSteps, UpgradeFeaturePrepared
      <4>3. QED
        BY <2>1, <4>1, <4>2
    <3> HIDE DEF steps
    <3>5. Prepared(registries, todo') /\ RemovesUnclaimed(todo')
      BY <3>2, <3>3, <3>4, JoinPrepared, JoinUnclaimed
    <3>6. QED
      BY <1>a, <2>2, <3>5
  <2>5. QED
    BY <2>3, <2>4
<1>3. CASE diamondCut
  <2> DEFINE cut == Head(todo)
             i == cut.registry
             route == registries[i].route
  <2>1. cut \in CutStep(n) /\ todo # << >>
    BY <1>0, <1>3, RestFits, StepKind DEF diamondCut, Doing
  <2>2. i \in 1..n
    BY <2>1 DEF CutStep
  <2>3. CASE todo' = << >> /\ registries' = registries
    BY <1>a, <2>3, NothingPrepared
  <2>4. CASE /\ todo' = Tail(todo)
             /\ registries' = [registries EXCEPT ![i].route = Cut(@, cut)]
    <3>1. Prepared(registries, todo) /\ RemovesUnclaimed(todo)
      BY DEF ClaimInv
    <3>2. /\ DOMAIN registries' = 1..n
          /\ registries'[i].route = Cut(route, cut)
          /\ \A j \in 1..n : registries'[j].interfaces = registries[j].interfaces
          /\ \A j \in 1..n : j # i => registries'[j] = registries[j]
      <4>1. registries' = [registries EXCEPT ![i] = [registries[i] EXCEPT !.route = Cut(@, cut)]]
        BY <2>4
      <4> HIDE DEF i, cut
      <4>2. QED
        BY <1>0, <2>2, <4>1 DEF Registry
    <3>3. \A id \in DOMAIN Claims : \A s \in Claims[id] :
              s \in DOMAIN route => s \in DOMAIN Cut(route, cut)
      <4>1. CASE cut.do = "remove"
        <5>1. \A id \in DOMAIN Claims : cut.functions \cap Claims[id] = {}
          BY <1>0, <2>1, <3>1, <4>1, RestUnclaimed
        <5>2. DOMAIN Cut(route, cut) = DOMAIN route \ cut.functions
          BY <4>1 DEF Cut
        <5> HIDE DEF cut, route
        <5>3. QED
          BY <5>1, <5>2
      <4>2. CASE cut.do # "remove"
        BY <4>2 DEF Cut
      <4>3. QED
        BY <4>1, <4>2
    <3>4. cut.do = "add" => \A s \in cut.functions : s \in DOMAIN Cut(route, cut)
      BY DEF Cut
    <3> HIDE DEF cut, i
    <3>5. KeepClaimed(registries, registries', n)
      BY <3>2, <3>3 DEF KeepClaimed
    <3>6. cut.do = "add" => \A s \in cut.functions : s \in DOMAIN registries'[i].route
      BY <3>2, <3>4
    <3>7. Prepared(registries', Tail(todo)) /\ RemovesUnclaimed(Tail(todo))
      BY <1>0, <2>1, <3>1, <3>5, <3>6, RestPrepared, RestUnclaimed DEF cut, i
    <3>8. \A j \in 1..n, id \in DOMAIN Claims :
              id \in registries[j].interfaces => Claims[id] \subseteq DOMAIN registries'[j].route
      BY <1>0, <3>5 DEF KeepClaimed, ClaimInv, ClaimedIsRouted
    <3>9. ClaimedIsRouted'
      BY <3>2, <3>8 DEF ClaimedIsRouted
    <3>10. QED
      BY <2>4, <3>7, <3>9 DEF ClaimInv
  <2>5. QED
    BY <1>3, <2>3, <2>4 DEF diamondCut
<1>4. CASE setSupportedInterface
  <2> DEFINE set == Head(todo)
             i == set.registry
  <2>1. /\ set \in InterfaceStep(n) /\ todo # << >> /\ set.do = "interface"
        /\ todo' = Tail(todo) /\ Doing({"interface"})
    BY <1>0, <1>4, RestFits, StepKind DEF setSupportedInterface, Doing
  <2>2. i \in 1..n
    BY <2>1 DEF InterfaceStep
  <2>3. /\ DOMAIN registries' = 1..n
        /\ registries'[i].interfaces = registries[i].interfaces \union {set.id}
        /\ \A j \in 1..n : registries'[j].route = registries[j].route
        /\ \A j \in 1..n : j # i => registries'[j] = registries[j]
    <3>1. registries' = [registries EXCEPT ![i] =
                            [registries[i] EXCEPT !.interfaces = @ \union {set.id}]]
      BY <1>4 DEF setSupportedInterface
    <3> HIDE DEF i, set
    <3>2. QED
      BY <1>0, <2>2, <3>1 DEF Registry
  <2>4. set.id \in DOMAIN Claims => Claims[set.id] \subseteq DOMAIN registries[i].route
    <3>1. 1 \in 1..Len(todo) /\ todo[1] = set
      BY <1>0, <2>1, EmptySeq
    <3>2. Prepared(registries, todo)
      BY DEF ClaimInv
    <3>3. \A s : ~AddedBefore(todo, 1, i, s)
      BY DEF AddedBefore
    <3> HIDE DEF set
    <3>4. QED
      BY <2>1, <3>1, <3>2, <3>3 DEF Prepared
  <2>5. KeepClaimed(registries, registries', n)
    BY <2>3 DEF KeepClaimed
  <2>6. Prepared(registries', todo') /\ RemovesUnclaimed(todo')
    BY <2>1, <2>5, StepDone
  <2> HIDE DEF set, i
  <2>7. \A j \in 1..n, id \in DOMAIN Claims :
            id \in registries'[j].interfaces => Claims[id] \subseteq DOMAIN registries'[j].route
    <3> TAKE j \in 1..n, id \in DOMAIN Claims
    <3> HAVE id \in registries'[j].interfaces
    <3>1. CASE id \in registries[j].interfaces
      BY <1>0, <2>3, <3>1 DEF ClaimInv, ClaimedIsRouted
    <3>2. CASE id \notin registries[j].interfaces
      <4>1. j = i /\ id = set.id
        BY <2>3, <3>2
      <4>2. QED
        BY <2>3, <2>4, <4>1
    <3>3. QED
      BY <3>1, <3>2
  <2>8. ClaimedIsRouted'
    BY <2>3, <2>7 DEF ClaimedIsRouted
  <2>9. QED
    BY <2>6, <2>8 DEF ClaimInv
<1>5. CASE Upgraded
  BY <1>b, <1>5 DEF Upgraded
<1>6. CASE DeployRegistry
  <2>1. registries' = Append(registries, NewRegistry) /\ todo' = Tail(todo) /\ Doing({"registry"})
    BY <1>6 DEF DeployRegistry
  <2>2. /\ DOMAIN registries' = 1..(n + 1)
        /\ \A j \in 1..n : registries'[j] = registries[j]
        /\ registries'[n + 1] = NewRegistry
    BY <1>0, <2>1, NewRegistryFits, AppendProperties DEF IInv
  <2>3. NewRegistry.interfaces = {}
    BY DEF NewRegistry
  <2>4. KeepClaimed(registries, registries', n)
    BY <2>2 DEF KeepClaimed
  <2>5. Prepared(registries', todo') /\ RemovesUnclaimed(todo')
    BY <2>1, <2>4, StepDone
  <2>6. \A j \in 1..(n + 1), id \in DOMAIN Claims :
            id \in registries'[j].interfaces => Claims[id] \subseteq DOMAIN registries'[j].route
    <3> TAKE j \in 1..(n + 1), id \in DOMAIN Claims
    <3>1. CASE j \in 1..n
      BY <1>0, <2>2, <3>1 DEF ClaimInv, ClaimedIsRouted
    <3>2. CASE j = n + 1
      BY <2>2, <2>3, <3>2
    <3>3. QED
      BY <1>0, <3>1, <3>2
  <2>7. ClaimedIsRouted'
    BY <2>2, <2>6 DEF ClaimedIsRouted
  <2>8. QED
    BY <2>5, <2>7 DEF ClaimInv
<1>7. CASE DeployFactory
  BY <1>b, <1>7 DEF DeployFactory
<1>8. CASE updateDeployJSON
  BY <1>b, <1>8 DEF updateDeployJSON
<1>9. CASE setCollectionRegistryOnCollectionFactory
  BY <1>b, <1>9 DEF setCollectionRegistryOnCollectionFactory
<1>10. ASSUME NEW s \in Removable, RemoveSelector(s) PROVE ClaimInv'
  <2>1. \A id \in DOMAIN Claims : {s} \cap Claims[id] = {}
    BY ClaimsAssumption
  <2>2. QED
    BY <1>a, <1>10, <2>1, CutOfPrepared DEF RemoveSelector
<1>11. CASE CutOff
  BY <1>a, <1>11, NothingPrepared DEF CutOff
<1>12. CASE UNCHANGED releaseVars
  BY <1>12 DEF releaseVars, ClaimInv, ClaimedIsRouted
<1>13. CASE RegistrationTask
  BY <1>a, <1>b, <1>13, NothingPrepared DEF RegistrationTask
<1>14. QED
  BY <1>1, <1>2, <1>3, <1>4, <1>5, <1>6, <1>7, <1>8, <1>9, <1>10, <1>11, <1>12, <1>13
     DEF ReleaseNext, ReleaseStep

\* A registry claims an interface only while it routes every function of it, for any
\* scripts, however they are cut off and repeated (ClaimedIsRouted).
THEOREM ClaimedIsRoutedHolds == ReleaseSpec => []ClaimedIsRouted
<1>1. ReleaseInit => IInv /\ ClaimInv
  BY InitHolds, ClaimInitHolds
<1>2. IInv /\ ClaimInv /\ [ReleaseNext]_releaseVars => (IInv /\ ClaimInv)'
  BY NextKeeps, ClaimNextKeeps
<1>3. IInv /\ ClaimInv => ClaimedIsRouted
  BY DEF ClaimInv
<1>4. QED
  BY <1>1, <1>2, <1>3, PTL DEF ReleaseSpec

-----------------------------------------------------------------------------
(* Upgrades reach the collections that are served.  A registry that deploy.json  *)
(* names and the forwarder does not serve routes stray functions only, so that   *)
(* no cut that replaces or removes can succeed there.  The invariant holds a     *)
(* running script to that: in such a registry a step that could change it comes  *)
(* after one that ends the script.  While the core is deployed, the rest of the  *)
(* five tasks is still in front of everything else.                              *)

\* The registry of deploy.json is the one of the collections that are served.
Reached == served # 0 /\ factories[served] = json.registry

IsCut(step) == step.do \in {"add", "replace", "remove"}

\* In a registry with stray functions only, the step ends the script (an upgrade does
\* with its second cut at the latest).
Blocks(step) ==
    \/ step.do = "upgrade"
    \/ step.do \in {"replace", "remove"} /\ ~(step.functions \subseteq Stray)

\* The step could route another function there, or take one away.
Dangerous(step) ==
    \/ step.do \in {"deploy", "replace", "remove"}
    \/ step.do = "add" /\ ~(step.functions \subseteq Stray)

Guarded(q) == \A k \in 1..Len(q) : Dangerous(q[k]) => \E i \in 1..k : Blocks(q[i])

\* No step deploys the core, and the cuts are made where deploy.json says.
Featured(q, registry) ==
    \A k \in 1..Len(q) : /\ q[k].do \notin CoreKinds
                         /\ IsCut(q[k]) => q[k].registry = registry

Settled == Featured(todo, json.registry) /\ (~Reached => Guarded(todo))

\* The core is deployed, and task j of its five is the next.
Front(q, j) ==
    /\ Len(q) >= 6 - j
    /\ \A k \in 1..Len(q) : q[k] \in Task
    /\ \A k \in 1..(6 - j) : q[k].do = CoreTasks[k + j - 1]
    /\ \A k \in (7 - j)..Len(q) : q[k].do \notin CoreKinds

Beginning(j) ==
    LET n == Len(registries)
        m == Len(factories)
    IN  /\ Front(todo, j)
        /\ j >= 2 => n >= 1 /\ DOMAIN registries[n].route \subseteq Stray
        /\ j >= 3 => json.registry = n
        /\ j >= 4 => m >= 1 /\ factories[m] = n

ReachInv ==
    /\ factories \in Seq(Nat) /\ served \in 0..Len(factories)
    /\ json.registry # 0 /\ ~Reached => DOMAIN registries[json.registry].route \subseteq Stray
    /\ Settled \/ \E j \in 1..5 : Beginning(j)

LEMMA CoreTaskFacts ==
    /\ CoreTasks[1] = "registry" /\ CoreTasks[2] = "registryJSON" /\ CoreTasks[3] = "factory"
    /\ CoreTasks[4] = "factoryJSON" /\ CoreTasks[5] = "setCollectionRegistry"
    /\ CoreKinds = {"registry", "registryJSON", "factory", "factoryJSON", "setCollectionRegistry"}
<1>1. /\ CoreTasks[1] = "registry" /\ CoreTasks[2] = "registryJSON" /\ CoreTasks[3] = "factory"
      /\ CoreTasks[4] = "factoryJSON" /\ CoreTasks[5] = "setCollectionRegistry"
  BY DEF CoreTasks
<1>2. 1..5 = {1, 2, 3, 4, 5}
  OBVIOUS
<1>3. CoreKinds = {CoreTasks[1], CoreTasks[2], CoreTasks[3], CoreTasks[4], CoreTasks[5]}
  BY <1>2 DEF CoreKinds
<1>4. QED
  BY <1>1, <1>3

\* Sequences of steps, one after another.
LEMMA JoinFeatured ==
    ASSUME NEW S, NEW p \in Seq(S), NEW q \in Seq(S), NEW i, Featured(p, i), Featured(q, i)
    PROVE  Featured(Join(p, q), i)
<1> DEFINE r == Join(p, q)
<1>1. /\ Len(p) \in Nat /\ Len(q) \in Nat /\ Len(r) = Len(p) + Len(q)
      /\ \A k \in 1..(Len(p) + Len(q)) : r[k] = IF k <= Len(p) THEN p[k] ELSE q[k - Len(p)]
  BY ConcatProperties, LenProperties DEF Join
<1>2. \A k \in 1..Len(r) : \/ \E j \in 1..Len(p) : r[k] = p[j]
                           \/ \E j \in 1..Len(q) : r[k] = q[j]
  <2> TAKE k \in 1..Len(r)
  <2>1. CASE k <= Len(p)
    BY <1>1, <2>1
  <2>2. CASE ~(k <= Len(p))
    <3>1. k - Len(p) \in 1..Len(q) /\ r[k] = q[k - Len(p)]
      BY <1>1, <2>2
    <3>2. QED
      BY <3>1
  <2>3. QED
    BY <2>1, <2>2
<1> HIDE DEF r
<1>3. Featured(r, i)
  BY <1>2 DEF Featured
<1>4. QED
  BY <1>3 DEF r

\* Harmless steps in front of guarded ones.
LEMMA JoinGuarded ==
    ASSUME NEW S, NEW p \in Seq(S), NEW q \in Seq(S),
           \A k \in 1..Len(p) : ~Dangerous(p[k]), Guarded(q)
    PROVE  Guarded(Join(p, q))
<1> DEFINE r == Join(p, q)
           m == Len(p)
<1>1. /\ m \in Nat /\ Len(q) \in Nat /\ Len(r) = m + Len(q)
      /\ \A k \in 1..(m + Len(q)) : r[k] = IF k <= m THEN p[k] ELSE q[k - m]
  BY ConcatProperties, LenProperties DEF Join
<1>2. SUFFICES ASSUME NEW k \in 1..Len(r), Dangerous(r[k])
               PROVE  \E i \in 1..k : Blocks(r[i])
  BY DEF Guarded
<1> HIDE DEF r, m
<1>3. ~(k <= m)
  BY <1>1, <1>2 DEF m
<1>4. k - m \in 1..Len(q) /\ r[k] = q[k - m]
  BY <1>1, <1>3
<1>5. PICK i \in 1..(k - m) : Blocks(q[i])
  BY <1>2, <1>4 DEF Guarded
<1>6. i + m \in 1..k /\ r[i + m] = q[i]
  BY <1>1, <1>3, <1>5
<1>7. QED
  BY <1>5, <1>6

\* What begins with the end of a script is guarded.
LEMMA BlockedGuarded ==
    ASSUME NEW S, NEW q \in Seq(S), q # << >>, Blocks(Head(q))
    PROVE  Guarded(q)
<1>1. Len(q) \in Nat /\ Len(q) >= 1 /\ Head(q) = q[1]
  BY EmptySeq, LenProperties
<1>2. \A k \in 1..Len(q) : 1 \in 1..k
  BY <1>1
<1>3. QED
  BY <1>1, <1>2 DEF Guarded

LEMMA RestGuarded ==
    ASSUME NEW S, NEW q \in Seq(S), q # << >>, Guarded(q)
    PROVE  /\ Blocks(Head(q)) \/ ~Dangerous(Head(q))
           /\ ~Blocks(Head(q)) => Guarded(Tail(q))
<1> DEFINE r == Tail(q)
<1>1. /\ Len(q) \in Nat \ {0} /\ Len(r) = Len(q) - 1 /\ Head(q) = q[1]
      /\ \A k \in 1..Len(r) : r[k] = q[k + 1]
  BY HeadTailProperties, EmptySeq
<1>2. Blocks(Head(q)) \/ ~Dangerous(Head(q))
  <2>1. 1 \in 1..Len(q) /\ \A i \in 1..1 : i = 1
    BY <1>1
  <2>2. QED
    BY <1>1, <2>1 DEF Guarded
<1> HIDE DEF r
<1>3. ASSUME ~Blocks(Head(q)), NEW k \in 1..Len(r), Dangerous(r[k])
      PROVE  \E i \in 1..k : Blocks(r[i])
  <2>1. k + 1 \in 1..Len(q) /\ r[k] = q[k + 1]
    BY <1>1
  <2>2. PICK i \in 1..(k + 1) : Blocks(q[i])
    BY <1>3, <2>1 DEF Guarded
  <2>3. i # 1
    BY <1>1, <1>3, <2>2
  <2>4. i - 1 \in 1..k /\ r[i - 1] = q[i]
    BY <1>1, <2>1, <2>3
  <2>5. QED
    BY <2>2, <2>4
<1>4. ~Blocks(Head(q)) => Guarded(r)
  BY <1>3 DEF Guarded
<1>5. QED
  BY <1>2, <1>4 DEF r

LEMMA RestFeatured ==
    ASSUME NEW S, NEW q \in Seq(S), q # << >>, NEW i, Featured(q, i)
    PROVE  /\ Featured(Tail(q), i)
           /\ Head(q).do \notin CoreKinds
           /\ IsCut(Head(q)) => Head(q).registry = i
<1> DEFINE r == Tail(q)
<1>1. /\ Len(q) \in Nat \ {0} /\ Len(r) = Len(q) - 1 /\ Head(q) = q[1]
      /\ \A k \in 1..Len(r) : r[k] = q[k + 1]
  BY HeadTailProperties, EmptySeq
<1>2. \A k \in 1..Len(r) : \E j \in 1..Len(q) : r[k] = q[j]
  <2> TAKE k \in 1..Len(r)
  <2>1. k + 1 \in 1..Len(q) /\ r[k] = q[k + 1]
    BY <1>1
  <2>2. QED
    BY <2>1
<1>3. 1 \in 1..Len(q)
  BY <1>1
<1> HIDE DEF r
<1>4. QED
  BY <1>1, <1>2, <1>3 DEF Featured, r

LEMMA NothingFeatured == \A i : Featured(<< >>, i) /\ Guarded(<< >>)
BY DEF Featured, Guarded

-----------------------------------------------------------------------------
(* The steps of the tasks. *)

LEMMA CutOfFeatured ==
    ASSUME NEW i, NEW action \in {"add", "replace", "remove"}, NEW target, NEW functions
    PROVE  /\ Featured(CutOf(action, i, target, functions), i)
           /\ action = "add" /\ functions \subseteq Stray =>
                 \A k \in 1..Len(CutOf(action, i, target, functions)) :
                     ~Dangerous(CutOf(action, i, target, functions)[k])
           /\ action # "add" /\ ~(functions \subseteq Stray) =>
                 /\ CutOf(action, i, target, functions) # << >>
                 /\ Blocks(Head(CutOf(action, i, target, functions)))
<1> DEFINE cut == [do |-> action, registry |-> i, target |-> target, functions |-> functions]
           q == CutOf(action, i, target, functions)
<1>1. cut.do = action /\ cut.registry = i /\ cut.functions = functions
  OBVIOUS
<1>2. action \notin CoreKinds
  BY CoreTaskFacts
<1>3. q = IF functions = {} THEN << >> ELSE <<cut>>
  BY DEF CutOf
<1> HIDE DEF cut, q
<1>4. /\ Len(<<cut>>) = 1 /\ <<cut>>[1] = cut /\ Head(<<cut>>) = cut /\ <<cut>> # << >>
      /\ Len(<< >>) = 0
  OBVIOUS
<1>5. \A k \in 1..Len(q) : q[k] = cut
  BY <1>3, <1>4
<1>6. Featured(q, i)
  BY <1>1, <1>2, <1>5 DEF Featured
<1>7. action = "add" /\ functions \subseteq Stray => \A k \in 1..Len(q) : ~Dangerous(q[k])
  BY <1>1, <1>5 DEF Dangerous
<1>8. action # "add" /\ ~(functions \subseteq Stray) => q # << >> /\ Blocks(Head(q))
  BY <1>1, <1>3, <1>4 DEF Blocks
<1>9. QED
  BY <1>6, <1>7, <1>8 DEF q

LEMMA DeployFeatureFeatured ==
    ASSUME NEW task \in Task, task.do = "deploy", built \in [Feature -> Nat],
           NEW n \in Nat, NEW i \in 1..n
    PROVE  Featured(deployFeature(task, i), i)
<1> DEFINE ids == Interfaces(task.feature)
           sets == [k \in DOMAIN ids |->
                      [do |-> "interface", registry |-> i, id |-> ids[k]]]
           adds == CutOf("add", i, Target(task), Signatures[task.feature][task.version])
<1>1. ids \in Seq(STRING)
  BY TargetOfTask, ReleaseAssumption
<1> HIDE DEF ids
<1>2. DOMAIN ids = 1..Len(ids) /\ Len(ids) \in Nat
  BY <1>1
<1>3. \A k \in 1..Len(ids) : [do |-> "interface", registry |-> i, id |-> ids[k]] \in Step(n)
  BY <1>1 DEF Step, InterfaceStep
<1>4. sets \in [1..Len(ids) -> Step(n)]
  BY <1>2, <1>3
<1>5. sets \in Seq(Step(n)) /\ Len(sets) = Len(ids)
  BY <1>2, <1>4
<1>6. \A k \in 1..Len(sets) : sets[k].do = "interface"
  BY <1>2, <1>5
<1>7. Featured(sets, i)
  BY <1>6, CoreTaskFacts DEF Featured, IsCut
<1>8. adds \in Seq(Step(n))
  BY TargetOfTask, CutOfSteps
<1>9. Featured(adds, i)
  BY CutOfFeatured
<1>10. deployFeature(task, i) = adds \o sets
  BY DEF deployFeature, ids
<1> HIDE DEF sets, adds
<1>11. QED
  BY <1>5, <1>7, <1>8, <1>9, <1>10, JoinFeatured DEF Join

\* Whatever follows it, an upgrade is guarded: it replaces something that is no stray
\* function before it takes anything away.
LEMMA UpgradeFeatureGuarded ==
    ASSUME NEW task \in Task, task.do = "upgrade", built \in [Feature -> Nat],
           NEW n \in Nat, NEW i \in 1..n, NEW rest \in Seq(Step(n)), Featured(rest, i)
    PROVE  /\ Featured(Join(upgradeFeature(task, i), rest), i)
           /\ Guarded(Join(upgradeFeature(task, i), rest))
<1> DEFINE f == task.feature
           from == Signatures[f][task.from]
           into == Signatures[f][task.version]
           target == Target(task)
           new == into \ from
           both == from \cap into
           gone == from \ into
           adds == CutOf("add", i, target, new)
           replaces == CutOf("replace", i, target, both)
           removes == CutOf("remove", i, target, gone)
           report == Report(task, i)
           step == [do |-> "upgraded", registry |-> i, target |-> target,
                    fromWhole |-> Whole(registries[i].route, f, task.from)]
<1>1. /\ target \in Contract /\ into \subseteq Function
      /\ \A s \in into : Implements(target, s)
  BY TargetOfTask
<1>2. from \subseteq Function
  BY TargetOfTask, ReleaseAssumption DEF Function
<1>3. new \subseteq Stray /\ ~(both \subseteq Stray)
  <2>1. new \in {Signatures[t.feature][t.version] \ Signatures[t.feature][t.from] :
                   t \in {t \in Task : t.do = "upgrade"}}
    OBVIOUS
  <2>2. new \subseteq Stray
    BY <2>1 DEF Stray
  <2>3. QED
    BY <2>2, OrderAssumption
<1>4. report = <<step>> /\ step.do = "upgraded"
  BY DEF Report
<1>5. step \in Step(n)
  <2>1. Whole(registries[i].route, f, task.from) \in BOOLEAN
    BY DEF Whole
  <2>2. step \in ReportStep(n)
    BY <1>1, <2>1 DEF ReportStep
  <2>3. QED
    BY <2>2 DEF Step
<1>6. upgradeFeature(task, i) = Join(Join(Join(adds, replaces), removes), report)
  BY DEF upgradeFeature, Join
<1> HIDE DEF from, into, target, step, report
<1>7. /\ \A s \in new : Implements(target, s)
      /\ \A s \in both : Implements(target, s)
      /\ new \in SUBSET Function /\ both \in SUBSET Function /\ gone \in SUBSET Function
  BY <1>1, <1>2
<1> HIDE DEF new, both, gone
<1>8. adds \in Seq(Step(n)) /\ replaces \in Seq(Step(n)) /\ removes \in Seq(Step(n))
  BY <1>1, <1>7, CutOfSteps
<1>9. report \in Seq(Step(n)) /\ Featured(report, i)
  <2>1. Len(<<step>>) = 1 /\ <<step>>[1] = step /\ <<step>> \in Seq(Step(n))
    BY <1>5
  <2>2. Featured(<<step>>, i)
    BY <1>4, <2>1, CoreTaskFacts DEF Featured, IsCut
  <2>3. QED
    BY <1>4, <2>1, <2>2
<1>10. Featured(adds, i) /\ Featured(replaces, i) /\ Featured(removes, i)
  BY CutOfFeatured
<1>11. \A k \in 1..Len(adds) : ~Dangerous(adds[k])
  BY <1>3, CutOfFeatured
<1>12. replaces # << >> /\ Blocks(Head(replaces))
  BY <1>3, CutOfFeatured
<1> HIDE DEF adds, replaces, removes
<1> DEFINE q4 == Join(report, rest)
           q3 == Join(removes, q4)
           q2 == Join(replaces, q3)
           q1 == Join(adds, q2)
<1>13. q4 \in Seq(Step(n)) /\ q3 \in Seq(Step(n)) /\ q2 \in Seq(Step(n)) /\ q1 \in Seq(Step(n))
  BY <1>8, <1>9, JoinIsSeq
<1>14. Join(upgradeFeature(task, i), rest) = q1
  BY <1>6, <1>8, <1>9, JoinFive
<1>15. Featured(q4, i)
  BY <1>9, JoinFeatured
<1>16. Featured(q3, i)
  BY <1>8, <1>10, <1>13, <1>15, JoinFeatured
<1>17. Featured(q2, i)
  BY <1>8, <1>10, <1>13, <1>16, JoinFeatured
<1>18. Featured(q1, i)
  BY <1>8, <1>10, <1>13, <1>17, JoinFeatured
<1>19. q2 # << >> /\ Head(q2) = Head(replaces)
  <2> HIDE DEF q3
  <2>1. Len(replaces) \in Nat /\ Len(replaces) >= 1 /\ Len(q3) \in Nat
    BY <1>8, <1>12, <1>13, EmptySeq, LenProperties
  <2>2. Len(q2) = Len(replaces) + Len(q3) /\ q2[1] = replaces[1]
    BY <1>8, <1>13, <2>1, ConcatProperties DEF Join
  <2>3. QED
    BY <1>8, <1>12, <1>13, <2>1, <2>2, EmptySeq
<1>20. Guarded(q2)
  <2> HIDE DEF q2
  <2>1. QED
    BY <1>12, <1>13, <1>19, BlockedGuarded
<1>21. Guarded(q1)
  <2> HIDE DEF q2
  <2>1. QED
    BY <1>8, <1>11, <1>13, <1>20, JoinGuarded
<1>22. QED
  BY <1>14, <1>18, <1>21

-----------------------------------------------------------------------------
(* The invariant. *)

LEMMA FrontRest ==
    ASSUME NEW S, NEW q \in Seq(S), NEW j \in 1..5, Front(q, j)
    PROVE  /\ q # << >> /\ Head(q).do = CoreTasks[j]
           /\ j < 5 => Front(Tail(q), j + 1)
           /\ j = 5 => \A i : Featured(Tail(q), i)
<1> DEFINE r == Tail(q)
<1>1. Len(q) \in Nat /\ Len(q) >= 6 - j /\ Len(q) >= 1
  BY LenProperties DEF Front
<1>2. q # << >>
  BY <1>1, EmptySeq
<1>3. /\ Head(q) = q[1] /\ Len(r) = Len(q) - 1
      /\ \A k \in 1..Len(r) : r[k] = q[k + 1]
  BY <1>2, HeadTailProperties
<1>4. Head(q).do = CoreTasks[j]
  <2>1. 1 \in 1..(6 - j) /\ 1 + j - 1 = j
    OBVIOUS
  <2>2. q[1].do = CoreTasks[1 + j - 1]
    BY <2>1 DEF Front
  <2>3. QED
    BY <1>3, <2>1, <2>2
<1>5. \A k \in 1..Len(r) : k + 1 \in 1..Len(q) /\ r[k] = q[k + 1] /\ r[k] \in Task
  BY <1>1, <1>3 DEF Front
<1> HIDE DEF r
<1>6. ASSUME j < 5 PROVE Front(r, j + 1)
  <2>1. Len(r) >= 6 - (j + 1)
    BY <1>1, <1>3
  <2>2. \A k \in 1..Len(r) : r[k] \in Task
    BY <1>5
  <2>3. ASSUME NEW k \in 1..(6 - (j + 1)) PROVE r[k].do = CoreTasks[k + (j + 1) - 1]
    <3>1. k + 1 \in 1..(6 - j) /\ k \in 1..Len(r)
      BY <2>1, <1>1, <1>3
    <3>2. q[k + 1].do = CoreTasks[k + 1 + j - 1]
      BY <3>1 DEF Front
    <3>3. k + 1 + j - 1 = k + (j + 1) - 1
      OBVIOUS
    <3>4. QED
      BY <1>5, <3>1, <3>2, <3>3
  <2>4. ASSUME NEW k \in (7 - (j + 1))..Len(r) PROVE r[k].do \notin CoreKinds
    <3>1. k + 1 \in (7 - j)..Len(q) /\ k \in 1..Len(r)
      BY <1>1, <1>3, <1>6
    <3>2. QED
      BY <1>5, <3>1 DEF Front
  <2>5. QED
    BY <2>1, <2>2, <2>3, <2>4 DEF Front
<1>7. ASSUME j = 5, NEW i PROVE Featured(r, i)
  <2>1. ASSUME NEW k \in 1..Len(r) PROVE r[k].do \notin CoreKinds /\ ~IsCut(r[k])
    <3>1. k + 1 \in (7 - j)..Len(q)
      BY <1>1, <1>3, <1>7
    <3>2. r[k].do \notin CoreKinds
      BY <1>5, <3>1 DEF Front
    <3>3. ~IsCut(r[k])
      BY <1>5, ReleaseAssumption DEF IsCut
    <3>4. QED
      BY <3>2, <3>3
  <2>2. QED
    BY <2>1 DEF Featured
<1>8. QED
  BY <1>2, <1>4, <1>6, <1>7 DEF r

LEMMA ScriptBegins ==
    ASSUME NEW script \in Script
    PROVE  Front(script, 1) \/ ((\A i : Featured(script, i)) /\ Guarded(script))
<1>1. script \in Seq(Task)
  BY ReleaseAssumption
<1>2. Len(script) \in Nat /\ \A k \in 1..Len(script) : script[k] \in Task
  BY <1>1, ElementOfSeq, LenProperties
<1>3. \A k \in 1..Len(script) : ~IsCut(script[k])
  BY <1>2, ReleaseAssumption DEF IsCut
<1>4. CASE /\ Len(script) >= 5 /\ \A k \in 1..5 : script[k].do = CoreTasks[k]
           /\ \A k \in 6..Len(script) : script[k].do \notin CoreKinds
  <2>1. \A k \in 1..5 : k + 1 - 1 = k
    OBVIOUS
  <2>2. \A k \in 1..(6 - 1) : script[k].do = CoreTasks[k + 1 - 1]
    BY <1>4, <2>1
  <2>3. QED
    BY <1>2, <1>4, <2>2 DEF Front
<1>5. CASE \A k \in 1..Len(script) :
              /\ script[k].do \notin CoreKinds
              /\ script[k].do = "deploy" => \E i \in 1..(k - 1) : script[i].do = "upgrade"
  <2>1. \A i : Featured(script, i)
    BY <1>3, <1>5 DEF Featured
  <2>2. ASSUME NEW k \in 1..Len(script), Dangerous(script[k])
        PROVE  \E i \in 1..k : Blocks(script[i])
    <3>1. script[k].do = "deploy"
      BY <1>3, <2>2 DEF Dangerous, IsCut
    <3>2. PICK i \in 1..(k - 1) : script[i].do = "upgrade"
      BY <1>5, <3>1
    <3>3. QED
      BY <3>2 DEF Blocks
  <2>3. QED
    BY <2>1, <2>2 DEF Guarded
<1>6. QED
  BY <1>4, <1>5, OrderAssumption

\* What is done next tells the two apart.
LEMMA NextTask ==
    ASSUME IInv, ReachInv, NEW what, Doing(what)
    PROVE  /\ what \cap CoreKinds = {} => Settled
           /\ \/ Settled /\ Head(todo).do \notin CoreKinds
              \/ \E j \in 1..5 : Beginning(j) /\ Head(todo).do = CoreTasks[j]
<1>1. todo \in Seq(Step(Len(registries))) /\ todo # << >> /\ Head(todo).do \in what
  BY DEF IInv, Doing
<1>2. Settled => Head(todo).do \notin CoreKinds
  BY <1>1, RestFeatured DEF Settled
<1>3. \A j \in 1..5 : Beginning(j) => Head(todo).do = CoreTasks[j] /\ CoreTasks[j] \in CoreKinds
  BY <1>1, FrontRest DEF Beginning, CoreKinds
<1>4. QED
  BY <1>1, <1>2, <1>3 DEF ReachInv

LEMMA ReachInitHolds == ReleaseInit => ReachInv
<1> SUFFICES ASSUME ReleaseInit PROVE ReachInv
  OBVIOUS
<1>1. todo = << >> /\ factories = << >> /\ served = 0 /\ json.registry = 0
  BY DEF ReleaseInit
<1>2. factories \in Seq(Nat) /\ Len(factories) = 0
  BY <1>1
<1>3. Settled
  BY <1>1, NothingFeatured DEF Settled
<1>4. QED
  BY <1>1, <1>2, <1>3 DEF ReachInv

\* A step that changes neither the routes nor what is served, and leaves a settled
\* rest.
LEMMA StaysReached ==
    ASSUME ReachInv, factories' = factories, served' = served, json' = json,
           json.registry # 0 /\ ~Reached =>
               DOMAIN registries'[json.registry].route \subseteq Stray,
           Featured(todo', json.registry), ~Reached => Guarded(todo')
    PROVE  ReachInv'
<1>1. Reached' = Reached
  BY DEF Reached
<1>2. Settled'
  BY <1>1 DEF Settled
<1>3. QED
  BY <1>1, <1>2 DEF ReachInv

LEMMA ReachNextKeeps == IInv /\ ReachInv /\ [ReleaseNext]_releaseVars => ReachInv'
<1> SUFFICES ASSUME IInv, ReachInv, [ReleaseNext]_releaseVars PROVE ReachInv'
  OBVIOUS
<1> DEFINE n == Len(registries)
           m == Len(factories)
<1>0. /\ n \in Nat /\ m \in Nat /\ todo \in Seq(Step(n)) /\ registries \in Seq(Registry)
      /\ json.registry \in 0..n /\ json \in [registry : 0..n, factory : Nat]
      /\ factories \in Seq(Nat) /\ served \in 0..m
  BY DEF IInv, ReachInv
<1>a. ASSUME registries' = registries, factories' = factories, served' = served, json' = json,
             Featured(todo', json.registry), ~Reached => Guarded(todo')
      PROVE  ReachInv'
  BY <1>a, StaysReached DEF ReachInv
<1>b. ASSUME NEW what, Doing(what), what \cap CoreKinds = {}, todo' = Tail(todo),
             ~Blocks(Head(todo))
      PROVE  Featured(todo', json.registry) /\ (~Reached => Guarded(todo'))
  <2>1. todo # << >> /\ Settled
    BY <1>b, NextTask DEF Doing
  <2>2. QED
    BY <1>0, <1>b, <2>1, RestFeatured, RestGuarded DEF Settled
<1>c. Featured(<< >>, json.registry) /\ Guarded(<< >>)
  BY NothingFeatured
<1>1. ASSUME NEW script \in Script, StartScript(script) PROVE ReachInv'
  <2>1. /\ todo' = script /\ registries' = registries /\ factories' = factories /\ served' = served
        /\ json' = json
    BY <1>1 DEF StartScript
  <2>2. CASE Front(script, 1)
    <3>1. Beginning(1)'
      BY <2>1, <2>2 DEF Beginning
    <3>2. Reached' = Reached
      BY <2>1 DEF Reached
    <3>3. QED
      BY <2>1, <3>1, <3>2 DEF ReachInv
  <2>3. CASE (\A i : Featured(script, i)) /\ Guarded(script)
    BY <1>a, <2>1, <2>3
  <2>4. QED
    BY <2>2, <2>3, ScriptBegins
<1>2. CASE DeployFeatureContract
  <2>1. Head(todo) \in Task /\ Head(todo).do \in {"deploy", "upgrade"} /\ todo # << >>
    BY <1>0, <1>2, RestFits, StepKind DEF DeployFeatureContract, Doing
  <2>2. Settled
    <3>1. {"deploy", "upgrade"} \cap CoreKinds = {}
      BY CoreTaskFacts
    <3>2. QED
      BY <1>2, <3>1, NextTask DEF DeployFeatureContract
  <2>3. /\ registries' = registries /\ factories' = factories /\ served' = served /\ json' = json
    BY <1>2 DEF DeployFeatureContract
  <2>4. CASE json.registry = 0
    BY <1>2, <1>a, <1>c, <2>3, <2>4 DEF DeployFeatureContract
  <2>5. CASE json.registry # 0
    <3> DEFINE task == Head(todo)
               i == json.registry
               rest == Tail(todo)
    <3>1. i \in 1..n /\ built \in [Feature -> Nat]
      BY <2>5 DEF IInv
    <3>2. rest \in Seq(Step(n)) /\ Featured(rest, i)
      BY <1>0, <2>1, <2>2, RestFits, RestFeatured DEF Settled
    <3>3. CASE task.do = "deploy"
      <4>1. todo' = Join(deployFeature(task, i), rest)
        BY <1>2, <2>5, <3>3 DEF DeployFeatureContract, Join
      <4>2. Reached
        <5>1. Dangerous(task) /\ ~Blocks(task)
          BY <3>3 DEF Dangerous, Blocks
        <5>2. QED
          BY <1>0, <2>1, <2>2, <5>1, RestGuarded DEF Settled
      <4> HIDE DEF i, rest
      <4>3. deployFeature(task, i) \in Seq(Step(n)) /\ Featured(deployFeature(task, i), i)
        BY <1>0, <2>1, <3>1, <3>3, DeployFeatureSteps, DeployFeatureFeatured
      <4>4. Featured(todo', i)
        BY <3>2, <4>1, <4>3, JoinFeatured
      <4>5. QED
        BY <1>a, <2>3, <4>2, <4>4 DEF i
    <3>4. CASE task.do = "upgrade"
      <4>1. todo' = Join(upgradeFeature(task, i), rest)
        BY <1>2, <2>5, <3>4 DEF DeployFeatureContract, Join
      <4> HIDE DEF i, rest
      <4>2. Featured(todo', i) /\ Guarded(todo')
        BY <1>0, <2>1, <3>1, <3>2, <3>4, <4>1, UpgradeFeatureGuarded
      <4>3. QED
        BY <1>a, <2>3, <4>2 DEF i
    <3>5. QED
      BY <2>1, <3>3, <3>4
  <2>6. QED
    BY <2>4, <2>5
<1>3. CASE diamondCut
  <2> DEFINE cut == Head(todo)
             i == cut.registry
             route == registries[i].route
  <2>1. cut \in CutStep(n) /\ todo # << >> /\ cut.do \in {"add", "replace", "remove"}
    BY <1>0, <1>3, RestFits, StepKind DEF diamondCut, Doing
  <2>2. Settled
    <3>1. {"add", "replace", "remove"} \cap CoreKinds = {}
      BY CoreTaskFacts
    <3>2. QED
      BY <1>3, <3>1, NextTask DEF diamondCut
  <2>3. i \in 1..n /\ i = json.registry /\ Featured(Tail(todo), i)
    <3>1. i \in 1..n
      BY <2>1 DEF CutStep
    <3>2. QED
      BY <1>0, <2>1, <2>2, <3>1, RestFeatured DEF Settled, IsCut
  <2>4. factories' = factories /\ served' = served /\ json' = json
    BY <1>3 DEF diamondCut
  <2>5. CASE ~CutAllowed(route, cut)
    BY <1>3, <1>a, <1>c, <2>4, <2>5 DEF diamondCut
  <2>6. CASE CutAllowed(route, cut)
    <3>1. todo' = Tail(todo) /\ registries' = [registries EXCEPT ![i].route = Cut(@, cut)]
      BY <1>3, <2>6 DEF diamondCut
    <3>2. CASE Reached
      BY <2>3, <2>4, <3>1, <3>2, StaysReached
    <3>3. CASE ~Reached
      <4>1. DOMAIN route \subseteq Stray /\ Guarded(todo)
        BY <2>2, <2>3, <3>3 DEF ReachInv, Settled
      <4>2. ~Blocks(cut)
        BY <2>1, <2>6, <4>1 DEF Blocks, CutAllowed
      <4>3. ~Dangerous(cut) /\ Guarded(Tail(todo))
        BY <1>0, <2>1, <4>1, <4>2, RestGuarded
      <4>4. cut.do = "add" /\ cut.functions \subseteq Stray
        BY <2>1, <4>3 DEF Dangerous
      <4>5. DOMAIN Cut(route, cut) \subseteq Stray
        BY <4>1, <4>4 DEF Cut
      <4>6. registries'[i].route = Cut(route, cut)
        <5>1. registries[i] \in Registry
          BY <1>0, <2>3, ElementOfSeq
        <5>2. registries' = [registries EXCEPT ![i] = [registries[i] EXCEPT !.route = Cut(@, cut)]]
          BY <3>1
        <5> HIDE DEF cut, i
        <5>3. QED
          BY <1>0, <2>3, <5>1, <5>2 DEF Registry
      <4>7. DOMAIN registries'[json.registry].route \subseteq Stray
        BY <2>3, <4>5, <4>6
      <4>8. QED
        BY <2>3, <2>4, <3>1, <4>3, <4>7, StaysReached
    <3>4. QED
      BY <3>2, <3>3
  <2>7. QED
    BY <2>5, <2>6
<1>4. CASE setSupportedInterface
  <2> DEFINE set == Head(todo)
             i == set.registry
  <2>1. set \in InterfaceStep(n) /\ todo # << >> /\ set.do = "interface"
    BY <1>0, <1>4, RestFits, StepKind DEF setSupportedInterface, Doing
  <2>2. /\ todo' = Tail(todo) /\ factories' = factories /\ served' = served /\ json' = json
        /\ registries' = [registries EXCEPT ![i].interfaces = @ \union {set.id}]
    BY <1>4 DEF setSupportedInterface
  <2>3. \A k \in 1..n : registries'[k].route = registries[k].route
    <3>1. i \in 1..n
      BY <2>1 DEF InterfaceStep
    <3>2. \A k \in 1..n : registries[k] \in Registry
      BY <1>0, ElementOfSeq
    <3>3. registries' = [registries EXCEPT ![i] =
                            [registries[i] EXCEPT !.interfaces = @ \union {set.id}]]
      BY <2>2
    <3> HIDE DEF i, set
    <3>4. QED
      BY <1>0, <3>1, <3>2, <3>3 DEF Registry
  <2>4. ~Blocks(set) /\ {"interface"} \cap CoreKinds = {} /\ Doing({"interface"})
    BY <1>4, <2>1, CoreTaskFacts DEF Blocks, setSupportedInterface
  <2>5. Featured(todo', json.registry) /\ (~Reached => Guarded(todo'))
    BY <1>b, <2>2, <2>4
  <2>6. json.registry # 0 /\ ~Reached => DOMAIN registries'[json.registry].route \subseteq Stray
    BY <1>0, <2>3 DEF ReachInv
  <2>7. QED
    BY <2>2, <2>5, <2>6, StaysReached
<1>5. CASE Upgraded
  <2>1. ~Blocks(Head(todo)) /\ {"upgraded"} \cap CoreKinds = {}
    BY <1>5, CoreTaskFacts DEF Upgraded, Doing, Blocks
  <2>2. QED
    BY <1>5, <1>a, <1>b, <2>1 DEF Upgraded
<1>6. CASE DeployRegistry
  <2>1. /\ registries' = Append(registries, NewRegistry) /\ todo' = Tail(todo)
        /\ factories' = factories /\ served' = served /\ json' = json /\ Doing({"registry"})
    BY <1>6 DEF DeployRegistry
  <2>2. Front(todo, 1)
    <3>1. Head(todo).do = "registry"
      BY <2>1 DEF Doing
    <3>2. PICK j \in 1..5 : Beginning(j) /\ Head(todo).do = CoreTasks[j]
      BY <2>1, <3>1, NextTask, CoreTaskFacts
    <3>3. j = 1
      BY <3>1, <3>2, CoreTaskFacts
    <3>4. QED
      BY <3>2, <3>3 DEF Beginning
  <2>3. Front(todo', 2)
    BY <1>0, <2>1, <2>2, FrontRest
  <2>4. /\ Len(registries') = n + 1 /\ registries'[n + 1] = NewRegistry
        /\ \A k \in 1..n : registries'[k] = registries[k]
    BY <1>0, <2>1, NewRegistryFits, AppendProperties
  <2>5. DOMAIN NewRegistry.route \subseteq Stray
    BY DEF NewRegistry, Stray
  <2>6. Beginning(2)'
    BY <1>0, <2>3, <2>4, <2>5 DEF Beginning
  <2>7. Reached' = Reached
    BY <2>1 DEF Reached
  <2>8. json.registry # 0 => registries'[json.registry] = registries[json.registry]
    BY <1>0, <2>4
  <2>9. json'.registry # 0 /\ ~Reached' =>
            DOMAIN registries'[json'.registry].route \subseteq Stray
    BY <2>1, <2>7, <2>8 DEF ReachInv
  <2>10. \E j \in 1..5 : Beginning(j)'
    BY <2>6
  <2>11. QED
    BY <1>0, <2>1, <2>9, <2>10 DEF ReachInv
<1>7. CASE DeployFactory
  <2>1. /\ factories' = Append(factories, n) /\ todo' = Tail(todo)
        /\ registries' = registries /\ served' = served /\ json' = json /\ Doing({"factory"})
    BY <1>7 DEF DeployFactory
  <2>2. Beginning(3)
    <3>1. Head(todo).do = "factory"
      BY <2>1 DEF Doing
    <3>2. PICK j \in 1..5 : Beginning(j) /\ Head(todo).do = CoreTasks[j]
      BY <2>1, <3>1, NextTask, CoreTaskFacts
    <3>3. j = 3
      BY <3>1, <3>2, CoreTaskFacts
    <3>4. QED
      BY <3>2, <3>3
  <2>3. Front(todo', 4)
    BY <1>0, <2>1, <2>2, FrontRest DEF Beginning
  <2>4. /\ factories' \in Seq(Nat) /\ Len(factories') = m + 1 /\ factories'[m + 1] = n
        /\ \A k \in 1..m : factories'[k] = factories[k]
    BY <1>0, <2>1, AppendProperties
  <2>5. Beginning(4)'
    BY <1>0, <2>1, <2>2, <2>3, <2>4 DEF Beginning
  <2>6. Reached' = Reached
    BY <1>0, <2>1, <2>4 DEF Reached
  <2>7. QED
    BY <1>0, <2>1, <2>4, <2>5, <2>6 DEF ReachInv
<1>8. CASE updateDeployJSON
  <2>1. /\ todo' = Tail(todo) /\ Doing({"registryJSON", "factoryJSON"})
        /\ registries' = registries /\ served' = served /\ factories' = factories
    BY <1>8 DEF updateDeployJSON
  <2>2. CASE Head(todo).do = "registryJSON"
    <3>1. json' = [json EXCEPT !.registry = n]
      BY <1>8, <2>2 DEF updateDeployJSON
    <3>2. json'.registry = n
      BY <1>0, <3>1
    <3>3. Beginning(2)
      <4>1. PICK j \in 1..5 : Beginning(j) /\ Head(todo).do = CoreTasks[j]
        BY <2>1, <2>2, NextTask, CoreTaskFacts
      <4>2. j = 2
        BY <2>2, <4>1, CoreTaskFacts
      <4>3. QED
        BY <4>1, <4>2
    <3>4. Front(todo', 3)
      BY <1>0, <2>1, <3>3, FrontRest DEF Beginning
    <3>5. Beginning(3)'
      BY <2>1, <3>2, <3>3, <3>4 DEF Beginning
    <3>6. DOMAIN registries'[json'.registry].route \subseteq Stray
      BY <2>1, <3>2, <3>3 DEF Beginning
    <3>7. QED
      BY <2>1, <3>5, <3>6 DEF ReachInv
  <2>3. CASE Head(todo).do = "factoryJSON"
    <3>1. json' = [json EXCEPT !.factory = m]
      BY <1>8, <2>3 DEF updateDeployJSON
    <3>2. json'.registry = json.registry
      BY <1>0, <3>1
    <3>3. Beginning(4)
      <4>1. PICK j \in 1..5 : Beginning(j) /\ Head(todo).do = CoreTasks[j]
        BY <2>1, <2>3, NextTask, CoreTaskFacts
      <4>2. j = 4
        BY <2>3, <4>1, CoreTaskFacts
      <4>3. QED
        BY <4>1, <4>2
    <3>4. Front(todo', 5)
      BY <1>0, <2>1, <3>3, FrontRest DEF Beginning
    <3>5. Beginning(5)'
      BY <2>1, <3>2, <3>3, <3>4 DEF Beginning
    <3>6. Reached' = Reached
      BY <2>1, <3>2 DEF Reached
    <3>7. QED
      BY <2>1, <3>2, <3>5, <3>6 DEF ReachInv
  <2>4. QED
    BY <2>1, <2>2, <2>3 DEF Doing
<1>9. CASE setCollectionRegistryOnCollectionFactory
  <2>1. /\ todo' = Tail(todo) /\ Doing({"setCollectionRegistry"}) /\ served' = m
        /\ registries' = registries /\ factories' = factories /\ json' = json
    BY <1>9 DEF setCollectionRegistryOnCollectionFactory
  <2>2. Beginning(5)
    <3>1. Head(todo).do = "setCollectionRegistry"
      BY <2>1 DEF Doing
    <3>2. PICK j \in 1..5 : Beginning(j) /\ Head(todo).do = CoreTasks[j]
      BY <2>1, <3>1, NextTask, CoreTaskFacts
    <3>3. j = 5
      BY <3>1, <3>2, CoreTaskFacts
    <3>4. QED
      BY <3>2, <3>3
  <2>3. Reached'
    BY <1>0, <2>1, <2>2 DEF Beginning, Reached
  <2>4. Featured(todo', json'.registry)
    BY <1>0, <2>1, <2>2, FrontRest DEF Beginning
  <2>5. Settled'
    BY <2>3, <2>4 DEF Settled
  <2>6. QED
    BY <1>0, <2>1, <2>3, <2>5 DEF ReachInv
<1>10. ASSUME NEW s \in Removable, RemoveSelector(s) PROVE ReachInv'
  <2> DEFINE q == CutOf("remove", json.registry, NoTarget, {s})
  <2>1. /\ todo' = q /\ registries' = registries /\ factories' = factories /\ served' = served
        /\ json' = json /\ json.registry # 0
    BY <1>10 DEF RemoveSelector
  <2>2. ~({s} \subseteq Stray)
    BY OrderAssumption
  <2>3. Featured(q, json.registry) /\ q # << >> /\ Blocks(Head(q))
    BY <2>2, CutOfFeatured
  <2>4. q \in Seq(Step(n))
    <3>1. json.registry \in 1..n
      BY <1>0, <2>1
    <3>2. NoTarget \in Contract /\ {s} \in SUBSET Function
      BY DEF Contract, Function
    <3>3. QED
      BY <1>0, <3>1, <3>2, CutOfSteps
  <2> HIDE DEF q
  <2>5. Guarded(q)
    BY <2>3, <2>4, BlockedGuarded
  <2>6. QED
    BY <1>a, <2>1, <2>3, <2>5
<1>11. CASE CutOff
  BY <1>a, <1>c, <1>11 DEF CutOff
<1>12. CASE UNCHANGED releaseVars
  <2>1. \A j \in 1..5 : Beginning(j)' = Beginning(j)
    BY <1>12 DEF releaseVars, Beginning
  <2>2. Settled' = Settled /\ Reached' = Reached
    BY <1>12 DEF releaseVars, Settled, Reached
  <2>3. QED
    BY <1>12, <2>1, <2>2 DEF releaseVars, ReachInv
<1>13. CASE RegistrationTask
  <2>1. ~Blocks(Head(todo)) /\ {"register"} \cap CoreKinds = {}
    BY <1>13, CoreTaskFacts DEF RegistrationTask, Doing, Blocks
  <2>2. QED
    BY <1>13, <1>a, <1>b, <1>c, <2>1 DEF RegistrationTask
<1>14. QED
  BY <1>1, <1>2, <1>3, <1>4, <1>5, <1>6, <1>7, <1>8, <1>9, <1>10, <1>11, <1>12, <1>13
     DEF ReleaseNext, ReleaseStep

LEMMA ReachInvSuffices == IInv /\ ReachInv => UpgradeReachesServed
<1> SUFFICES ASSUME IInv, ReachInv, Doing({"replace", "remove"}),
                    CutAllowed(registries[Head(todo).registry].route, Head(todo))
             PROVE  served # 0 /\ factories[served] = Head(todo).registry
  BY DEF UpgradeReachesServed
<1> DEFINE cut == Head(todo)
<1>1. todo # << >> /\ cut.do \in {"replace", "remove"} /\ todo \in Seq(Step(Len(registries)))
  BY DEF Doing, IInv
<1>2. Settled
  <2>1. {"replace", "remove"} \cap CoreKinds = {}
    BY CoreTaskFacts
  <2>2. QED
    BY <2>1, NextTask
<1>3. cut.registry = json.registry
  BY <1>1, <1>2, RestFeatured DEF Settled, IsCut
<1>4. cut.registry # 0
  <2>1. cut \in CutStep(Len(registries))
    BY <1>1, RestFits, StepKind, LenProperties DEF IInv
  <2>2. QED
    BY <2>1 DEF CutStep
<1>5. ASSUME ~Reached PROVE FALSE
  <2>1. DOMAIN registries[cut.registry].route \subseteq Stray
    BY <1>3, <1>4, <1>5 DEF ReachInv
  <2>2. Blocks(cut)
    <3>1. Dangerous(cut)
      BY <1>1 DEF Dangerous
    <3>2. QED
      BY <1>1, <1>2, <1>5, <3>1, RestGuarded DEF Settled
  <2>3. cut.functions \subseteq DOMAIN registries[cut.registry].route
    BY <1>1 DEF CutAllowed
  <2>4. QED
    BY <1>1, <2>1, <2>2, <2>3 DEF Blocks
<1>6. QED
  BY <1>3, <1>5 DEF Reached

\* A function that is replaced or removed is always one of the collections that are
\* served, for any scripts in that order and any tables, however deployments are cut
\* off and repeated (UpgradeReachesServed).
THEOREM UpgradeReachesServedHolds == ReleaseSpec => []UpgradeReachesServed
<1>1. ReleaseInit => IInv /\ ReachInv
  BY InitHolds, ReachInitHolds
<1>2. IInv /\ ReachInv /\ [ReleaseNext]_releaseVars => (IInv /\ ReachInv)'
  BY NextKeeps, ReachNextKeeps
<1>3. QED
  BY <1>1, <1>2, ReachInvSuffices, PTL DEF ReleaseSpec

-----------------------------------------------------------------------------
(* The composition, and the subgraph's index of the forwarder. *)

LEMMA RequestsStep == [RequestsNext]_requestVars => [ReleaseNext]_releaseVars
<1> SUFFICES ASSUME [RequestsNext]_requestVars PROVE [ReleaseNext]_releaseVars
  OBVIOUS
<1>1. CASE ClientStep /\ UNCHANGED <<releaseVars, collections, creates>>
  BY <1>1
<1>2. ASSUME NEW c \in Caller, Relay(c) PROVE UNCHANGED releaseVars
  BY <1>2 DEF Relay
<1>3. ASSUME NEW types \in TypeLists, RegisterByHand(types) PROVE UNCHANGED releaseVars
  BY <1>3 DEF RegisterByHand
<1>4. CASE RegisterByScript
  BY <1>4 DEF RegisterByScript, ReleaseNext
<1>5. CASE ReleaseStep
  BY <1>5 DEF ReleaseNext
<1>6. CASE UNCHANGED requestVars
  BY <1>6 DEF requestVars
<1>7. QED
  BY <1>1, <1>2, <1>3, <1>4, <1>5, <1>6 DEF RequestsNext

\* The composed system does to the registries, the factories and deploy.json what the
\* release scripts alone may do (RequestsNext, ReleaseNext): what holds of the scripts
\* holds while requests are registered, signed and relayed.
THEOREM RequestsRefineRelease == RequestsSpec => ReleaseSpec
<1>1. RequestsInit => ReleaseInit
  BY DEF RequestsInit
<1>2. QED
  BY <1>1, RequestsStep, PTL DEF RequestsSpec, ReleaseSpec

LEMMA RequestsIInv == RequestsSpec => []IInv
<1>1. ReleaseSpec => []IInv
  BY InitHolds, NextKeeps, PTL DEF ReleaseSpec
<1>2. QED
  BY <1>1, RequestsRefineRelease, PTL

\* The nonces that were spent.
Spent == UNION {{packNonce(c, n) : n \in 0..(nonces[c] - 1)} : c \in Channel}

Kinds == {"RequestTypeRegistered", "RequestTypeUnregistered", "ExecutionSuccess"}

\* What the index knows after an event: the types, the executions.
TypesAfter(types, e) ==
    IF e.event = "RequestTypeRegistered" THEN types \union {e.typeHash}
    ELSE IF e.event = "RequestTypeUnregistered" THEN types \ {e.typeHash}
    ELSE types

ExecutionsAfter(executions, e) ==
    IF e.event = "ExecutionSuccess" THEN executions \union {e.txHash} ELSE executions

\* What the index will have known after each event of the list: it begins with what it
\* knows and ends with what the contract knows.
Foreseen(known, executions, events) ==
    /\ known[0] = DOMAIN db["MetaTxRequestType"]
    /\ executions[0] = DOMAIN db["MetaTxExecution"]
    /\ \A k \in 1..Len(events) :
          /\ known[k] = TypesAfter(known[k - 1], events[k][1])
          /\ executions[k] = ExecutionsAfter(executions[k - 1], events[k][1])
    /\ known[Len(events)] = DOMAIN requestTypes
    /\ executions[Len(events)] = Spent

ForwarderInv ==
    /\ IsList(log)
    /\ \A k \in 1..Len(log) : log[k][1].event \in Kinds
    /\ DOMAIN db = {"MetaTxRequestType", "MetaTxExecution"}
    /\ nonces \in [Channel -> Nat]
    /\ DOMAIN pending = Caller
    /\ \A c \in Caller : pending[c].stage \in {"prepared", "signed"} => pending[c].nonce \in Nat
    /\ \E known, executions : Foreseen(known, executions, log)

LEMMA ForwarderInitHolds == RequestsInit => ForwarderInv
<1> SUFFICES ASSUME RequestsInit PROVE ForwarderInv
  OBVIOUS
<1>1. log = << >> /\ nonces = [c \in Channel |-> 0] /\ requestTypes = << >>
      /\ pending = [c \in Caller |-> Idle] /\ db = EmptyDatabase
  BY DEF RequestsInit, ClientInit, ChainInit
<1>2. Spent = {}
  BY <1>1 DEF Spent
<1> DEFINE nothing == [k \in {0} |-> {}]
<1>3. Foreseen(nothing, nothing, log)
  BY <1>1, <1>2 DEF Foreseen, EmptyDatabase, NoEntities
<1>4. QED
  BY <1>1, <1>3, ListFacts DEF ForwarderInv, EmptyDatabase, Idle

\* A call's events come behind those that wait.
LEMMA EmitFacts ==
    ASSUME IsList(log), NEW events, IsList(events), Emit(events)
    PROVE  /\ IsList(log') /\ Len(log') = Len(log) + Len(events)
           /\ \A k \in 1..Len(log) : log'[k] = log[k]
           /\ \A k \in 1..Len(events) : log'[Len(log) + k][1] = events[k]
<1> DEFINE dated == [i \in 1..Len(events) |-> <<events[i], time>>]
<1>1. Len(log) \in Nat /\ Len(events) \in Nat
  BY ListFacts
<1>2. dated \in Seq({<<events[i], time>> : i \in 1..Len(events)}) /\ Len(dated) = Len(events)
  BY <1>1
<1>3. IsList(dated)
  BY <1>2 DEF IsList
<1>4. log' = log \o dated
  BY DEF Emit
<1> HIDE DEF dated
<1>5. /\ IsList(log') /\ Len(log') = Len(log) + Len(events)
      /\ \A k \in 1..Len(log) : log'[k] = log[k]
      /\ \A k \in (Len(log) + 1)..(Len(log) + Len(events)) : log'[k] = dated[k - Len(log)]
  BY <1>2, <1>3, <1>4, ConcatFacts
<1>6. \A k \in 1..Len(events) : log'[Len(log) + k] = dated[k]
  <2> TAKE k \in 1..Len(events)
  <2>1. Len(log) + k \in (Len(log) + 1)..(Len(log) + Len(events)) /\ (Len(log) + k) - Len(log) = k
    BY <1>1
  <2>2. QED
    BY <1>5, <2>1
<1>7. QED
  BY <1>5, <1>6 DEF dated

LEMMA ForeseenOneMore ==
    ASSUME ForwarderInv, NEW e, e.event \in Kinds, Emit(<<e>>), db' = db,
           DOMAIN requestTypes' = TypesAfter(DOMAIN requestTypes, e),
           Spent' = ExecutionsAfter(Spent, e)
    PROVE  /\ IsList(log') /\ \A k \in 1..Len(log') : log'[k][1].event \in Kinds
           /\ \E known, executions : Foreseen(known, executions, log)'
<1> DEFINE n == Len(log)
<1>1. PICK known, executions : Foreseen(known, executions, log)
  BY DEF ForwarderInv
<1>2. IsList(<<e>>) /\ Len(<<e>>) = 1 /\ <<e>>[1] = e
  BY <<e>> \in Seq({e}) DEF IsList
<1>3. /\ IsList(log') /\ Len(log') = n + 1 /\ log'[n + 1][1] = e /\ n \in Nat
      /\ \A k \in 1..n : log'[k] = log[k]
  BY <1>2, EmitFacts, ListFacts DEF ForwarderInv
<1> DEFINE known2 == [k \in 0..(n + 1) |-> IF k <= n THEN known[k] ELSE TypesAfter(known[n], e)]
           executions2 == [k \in 0..(n + 1) |->
                              IF k <= n THEN executions[k] ELSE ExecutionsAfter(executions[n], e)]
<1> HIDE DEF n
<1>4. \A k \in 1..n + 1 : log'[k][1].event \in Kinds
  BY <1>3 DEF ForwarderInv, n
<1>5. /\ \A k \in 0..n : known2[k] = known[k] /\ executions2[k] = executions[k]
      /\ known2[n + 1] = TypesAfter(known[n], e)
      /\ executions2[n + 1] = ExecutionsAfter(executions[n], e)
  BY <1>3
<1> HIDE DEF known2, executions2
<1>6. /\ known2[0] = DOMAIN (db')["MetaTxRequestType"]
      /\ executions2[0] = DOMAIN (db')["MetaTxExecution"]
  BY <1>1, <1>3, <1>5 DEF Foreseen
<1>7. ASSUME NEW k \in 1..n + 1
      PROVE  /\ known2[k] = TypesAfter(known2[k - 1], log'[k][1])
             /\ executions2[k] = ExecutionsAfter(executions2[k - 1], log'[k][1])
  <2>1. CASE k = n + 1
    <3>1. k - 1 = n /\ n \in 0..n
      BY <1>3, <2>1
    <3>2. QED
      BY <1>3, <1>5, <2>1, <3>1
  <2>2. CASE k \in 1..n
    <3>1. k \in 0..n /\ k - 1 \in 0..n
      BY <1>3, <2>2
    <3>2. QED
      BY <1>1, <1>3, <1>5, <2>2, <3>1 DEF Foreseen, n
  <2>3. QED
    BY <1>3, <2>1, <2>2
<1>8. known[n] = DOMAIN requestTypes /\ executions[n] = Spent
  BY <1>1 DEF Foreseen, n
<1>9. n \in 0..n + 1 /\ n + 1 \in 0..n + 1
  BY <1>3
<1>10. PICK types, spent : types = known2 /\ spent = executions2
  OBVIOUS
<1>11. /\ types[0] = DOMAIN (db')["MetaTxRequestType"]
       /\ spent[0] = DOMAIN (db')["MetaTxExecution"]
       /\ \A k \in 1..n + 1 : /\ types[k] = TypesAfter(types[k - 1], log'[k][1])
                             /\ spent[k] = ExecutionsAfter(spent[k - 1], log'[k][1])
       /\ types[n + 1] = DOMAIN requestTypes' /\ spent[n + 1] = Spent'
  BY <1>5, <1>6, <1>7, <1>8, <1>10
<1>12. Foreseen(types, spent, log)'
  BY <1>3, <1>11 DEF Foreseen, TypesAfter, ExecutionsAfter
<1>13. QED
  BY <1>3, <1>4, <1>12

\* A list of types is registered.
LEMMA ForeseenRegistered ==
    ASSUME ForwarderInv, NEW types \in Seq(RequestType), registerRequestTypes(types)
    PROVE  ForwarderInv'
<1> DEFINE n == Len(log)
           m == Len(types)
           hash(i) == registeredTypeHash(types[i], suffixType(types[i]))
           new == {hash(i) : i \in DOMAIN types}
           events == [i \in DOMAIN types |-> [event |-> "RequestTypeRegistered",
                                              typeHash |-> hash(i), typeStr |-> hash(i)]]
<1>1. PICK known, executions : Foreseen(known, executions, log)
  BY DEF ForwarderInv
<1>2. m \in Nat /\ DOMAIN types = 1..m /\ n \in Nat
  BY ListFacts DEF ForwarderInv
<1>3. IsList(events) /\ Len(events) = m /\ \A i \in 1..m : events[i].typeHash = hash(i)
                                        /\ events[i].event = "RequestTypeRegistered"
  <2>1. events \in Seq({events[i] : i \in 1..m}) /\ Len(events) = m
    BY <1>2
  <2>2. QED
    BY <1>2, <2>1 DEF IsList
<1>4. Emit(events) /\ UNCHANGED <<wallet, nonces, pending, db>>
  BY DEF registerRequestTypes
<1>5. DOMAIN requestTypes' = DOMAIN requestTypes \union new
  BY DEF registerRequestTypes
<1> HIDE DEF events, new, hash
<1>6. /\ IsList(log') /\ Len(log') = n + m
      /\ \A k \in 1..n : log'[k] = log[k]
      /\ \A k \in 1..m : log'[n + k][1] = events[k]
  BY <1>3, <1>4, EmitFacts DEF ForwarderInv
<1> HIDE DEF n, m
<1> DEFINE known2 == [k \in 0..(n + m) |->
                         IF k <= n THEN known[k]
                         ELSE known[n] \union {hash(i) : i \in 1..(k - n)}]
           executions2 == [k \in 0..(n + m) |-> IF k <= n THEN executions[k] ELSE executions[n]]
<1>7. /\ \A k \in 0..n : known2[k] = known[k] /\ executions2[k] = executions[k]
      /\ \A k \in 0..m : known2[n + k] = known[n] \union {hash(i) : i \in 1..k}
      /\ \A k \in 0..m : executions2[n + k] = executions[n]
  <2>1. \A k \in 0..n : k \in 0..n + m /\ k <= n
    BY <1>2
  <2>2. ASSUME NEW k \in 0..m
        PROVE  /\ known2[n + k] = known[n] \union {hash(i) : i \in 1..k}
               /\ executions2[n + k] = executions[n]
    <3>1. n + k \in 0..n + m /\ (n + k) - n = k /\ (n + k <= n <=> k = 0) /\ n + 0 = n
      BY <1>2
    <3>2. CASE k = 0
      <4>1. {hash(i) : i \in 1..0} = {}
        OBVIOUS
      <4>2. known2[n] = known[n] /\ executions2[n] = executions[n]
        BY <1>2
      <4>3. QED
        BY <3>1, <3>2, <4>1, <4>2
    <3>3. CASE k # 0
      BY <3>1, <3>3
    <3>4. QED
      BY <3>2, <3>3
  <2>3. QED
    BY <2>1, <2>2
<1> HIDE DEF known2, executions2
<1>8. \A k \in 1..n + m : k \in 1..n \/ \E i \in 1..m : k = n + i
  <2> TAKE k \in 1..n + m
  <2>1. k \in 1..n \/ (k - n \in 1..m /\ k = n + (k - n))
    BY <1>2
  <2>2. QED
    BY <2>1
<1>9. \A k \in 1..n + m : log'[k][1].event \in Kinds
  <2> TAKE k \in 1..n + m
  <2>1. CASE k \in 1..n
    BY <1>6, <2>1 DEF ForwarderInv, n
  <2>2. ASSUME NEW i \in 1..m, k = n + i PROVE log'[k][1].event \in Kinds
    BY <1>3, <1>6, <2>2 DEF Kinds
  <2>3. QED
    BY <1>8, <2>1, <2>2
<1>10. /\ known2[0] = DOMAIN db["MetaTxRequestType"]
       /\ executions2[0] = DOMAIN db["MetaTxExecution"]
  BY <1>1, <1>2, <1>7 DEF Foreseen
<1>11. ASSUME NEW k \in 1..n + m
       PROVE  /\ known2[k] = TypesAfter(known2[k - 1], log'[k][1])
              /\ executions2[k] = ExecutionsAfter(executions2[k - 1], log'[k][1])
  <2>1. CASE k \in 1..n
    <3>1. k \in 0..n /\ k - 1 \in 0..n
      BY <1>2, <2>1
    <3>2. QED
      BY <1>1, <1>6, <1>7, <2>1, <3>1 DEF Foreseen, n
  <2>2. ASSUME NEW i \in 1..m, k = n + i PROVE <1>11!2
    <3>1. i \in 0..m /\ i - 1 \in 0..m /\ k - 1 = n + (i - 1) /\ 1..i = 1..(i - 1) \union {i}
      BY <1>2, <2>2
    <3>2. log'[k][1].event = "RequestTypeRegistered" /\ log'[k][1].typeHash = hash(i)
      BY <1>3, <1>6, <2>2
    <3>3. known2[k] = known[n] \union {hash(j) : j \in 1..i}
          /\ known2[k - 1] = known[n] \union {hash(j) : j \in 1..(i - 1)}
          /\ executions2[k] = executions[n] /\ executions2[k - 1] = executions[n]
      BY <1>7, <2>2, <3>1
    <3>4. {hash(j) : j \in 1..i} = {hash(j) : j \in 1..(i - 1)} \union {hash(i)}
      BY <3>1
    <3>5. QED
      BY <3>2, <3>3, <3>4 DEF TypesAfter, ExecutionsAfter
  <2>3. QED
    BY <1>8, <2>1, <2>2
<1>12. known2[n + m] = DOMAIN requestTypes' /\ executions2[n + m] = Spent'
  <2>1. known[n] = DOMAIN requestTypes /\ executions[n] = Spent
    BY <1>1 DEF Foreseen, n
  <2>2. Spent' = Spent
    BY <1>4 DEF Spent
  <2>3. {hash(i) : i \in 1..m} = new /\ m \in 0..m
    BY <1>2 DEF new
  <2>4. QED
    BY <1>5, <1>7, <2>1, <2>2, <2>3
<1>13. PICK kinds, spent : kinds = known2 /\ spent = executions2
  OBVIOUS
<1>14. /\ kinds[0] = DOMAIN (db')["MetaTxRequestType"]
       /\ spent[0] = DOMAIN (db')["MetaTxExecution"]
       /\ \A k \in 1..n + m : /\ kinds[k] = TypesAfter(kinds[k - 1], log'[k][1])
                             /\ spent[k] = ExecutionsAfter(spent[k - 1], log'[k][1])
       /\ kinds[n + m] = DOMAIN requestTypes' /\ spent[n + m] = Spent'
  BY <1>4, <1>10, <1>11, <1>12, <1>13
<1>15. Foreseen(kinds, spent, log)'
  BY <1>6, <1>14 DEF Foreseen, TypesAfter, ExecutionsAfter
<1>16. QED
  BY <1>4, <1>6, <1>9, <1>15 DEF ForwarderInv

\* What a handler of mtf-mapping.ts keeps.
LEMMA HandlerKeeps ==
    ASSUME DOMAIN db = {"MetaTxRequestType", "MetaTxExecution"}, NEW e, e.event \in Kinds,
           NEW later, later = HandleForwarderEvent(db, e)
    PROVE  /\ DOMAIN later = DOMAIN db
           /\ DOMAIN later["MetaTxRequestType"] = TypesAfter(DOMAIN db["MetaTxRequestType"], e)
           /\ DOMAIN later["MetaTxExecution"] =
                 ExecutionsAfter(DOMAIN db["MetaTxExecution"], e)
<1>1. CASE e.event = "RequestTypeRegistered"
  <2>1. later = handleRequestTypeRegistered(db, e)
    BY <1>1 DEF HandleForwarderEvent
  <2>2. QED
    BY <1>1, <2>1 DEF handleRequestTypeRegistered, Save, TypesAfter, ExecutionsAfter
<1>2. CASE e.event = "RequestTypeUnregistered"
  <2>1. later = handleRequestTypeUnregistered(db, e)
    BY <1>2 DEF HandleForwarderEvent
  <2>2. QED
    BY <1>2, <2>1 DEF handleRequestTypeUnregistered, IfKnown, Has, Remove, TypesAfter,
                      ExecutionsAfter
<1>3. CASE e.event = "ExecutionSuccess"
  <2>1. later = handleExecutionSuccess(db, e)
    BY <1>3 DEF HandleForwarderEvent
  <2>2. QED
    BY <1>3, <2>1 DEF handleExecutionSuccess, Save, TypesAfter, ExecutionsAfter
<1>4. QED
  BY <1>1, <1>2, <1>3 DEF Kinds

LEMMA ForeseenIndexed == ASSUME ForwarderInv, IndexEvent PROVE ForwarderInv'
<1> DEFINE n == Len(log)
<1>1. PICK known, executions : Foreseen(known, executions, log)
  BY DEF ForwarderInv
<1>2. /\ n \in Nat /\ n >= 1 /\ IsList(log') /\ Len(log') = n - 1
      /\ \A k \in 1..(n - 1) : log'[k] = log[k + 1]
  BY ListFacts DEF ForwarderInv, IndexEvent
<1>3. /\ DOMAIN db' = DOMAIN db
      /\ DOMAIN (db')["MetaTxRequestType"] =
            TypesAfter(DOMAIN db["MetaTxRequestType"], log[1][1])
      /\ DOMAIN (db')["MetaTxExecution"] =
            ExecutionsAfter(DOMAIN db["MetaTxExecution"], log[1][1])
  BY <1>2, HandlerKeeps DEF ForwarderInv, IndexEvent
<1> DEFINE known2 == [k \in 0..(n - 1) |-> known[k + 1]]
           executions2 == [k \in 0..(n - 1) |-> executions[k + 1]]
<1>4. PICK types, spent : types = known2 /\ spent = executions2
  OBVIOUS
<1>5. \A k \in 0..(n - 1) : types[k] = known[k + 1] /\ spent[k] = executions[k + 1]
  BY <1>4
<1> HIDE DEF known2, executions2, n
<1>6. types[0] = DOMAIN (db')["MetaTxRequestType"] /\ spent[0] = DOMAIN (db')["MetaTxExecution"]
  <2>1. 1 \in 1..n /\ 0 \in 0..(n - 1) /\ 1 - 1 = 0
    BY <1>2
  <2>2. QED
    BY <1>1, <1>3, <1>5, <2>1 DEF Foreseen, n
<1>7. ASSUME NEW k \in 1..(n - 1)
      PROVE  /\ types[k] = TypesAfter(types[k - 1], log'[k][1])
             /\ spent[k] = ExecutionsAfter(spent[k - 1], log'[k][1])
  <2>1. k + 1 \in 1..n /\ k \in 0..(n - 1) /\ k - 1 \in 0..(n - 1) /\ (k + 1) - 1 = k
        /\ (k - 1) + 1 = k
    BY <1>2
  <2>2. QED
    BY <1>1, <1>2, <1>5, <2>1 DEF Foreseen, n
<1>8. types[n - 1] = DOMAIN requestTypes' /\ spent[n - 1] = Spent'
  <2>1. n - 1 \in 0..(n - 1) /\ (n - 1) + 1 = n
    BY <1>2
  <2>2. requestTypes' = requestTypes /\ Spent' = Spent
    BY DEF IndexEvent, forwarder, Spent
  <2>3. QED
    BY <1>1, <1>5, <2>1, <2>2 DEF Foreseen, n
<1>9. Foreseen(types, spent, log)'
  BY <1>2, <1>6, <1>7, <1>8 DEF Foreseen, TypesAfter, ExecutionsAfter
<1>10. \A k \in 1..(n - 1) : log'[k][1].event \in Kinds
  <2> TAKE k \in 1..(n - 1)
  <2>1. k + 1 \in 1..n
    BY <1>2
  <2>2. QED
    BY <1>2, <2>1 DEF ForwarderInv, n
<1>11. QED
  BY <1>2, <1>3, <1>9, <1>10 DEF ForwarderInv, IndexEvent, forwarder

\* The client's own steps, and those of others, leave chain and index as they are.
LEMMA ForeseenStays ==
    ASSUME ForwarderInv, UNCHANGED <<nonces, requestTypes, db, log>>, DOMAIN pending' = Caller,
           \A c \in Caller : pending'[c].stage \in {"prepared", "signed"} =>
                                pending'[c].nonce \in Nat
    PROVE  ForwarderInv'
<1>1. PICK known, executions : Foreseen(known, executions, log)
  BY DEF ForwarderInv
<1>2. Foreseen(known, executions, log)'
  BY <1>1 DEF Foreseen, Spent
<1>3. QED
  BY <1>2 DEF ForwarderInv

LEMMA PendingStays ==
    ASSUME ForwarderInv, NEW c \in Caller, NEW r, pending' = [pending EXCEPT ![c] = r],
           r.stage \in {"prepared", "signed"} => r.nonce \in Nat
    PROVE  /\ DOMAIN pending' = Caller
           /\ \A d \in Caller : pending'[d].stage \in {"prepared", "signed"} =>
                                   pending'[d].nonce \in Nat
BY DEF ForwarderInv

\* The nonces within a channel: their number, and what the packing makes of them.
LEMMA DivisionFacts ==
    ASSUME NEW b \in Nat \ {0}, NEW n \in Nat
    PROVE  n = ((n \div b) * b) + (n % b) /\ n \div b \in Nat /\ (n % b) \in 0..(b - 1)
OBVIOUS

LEMMA ChannelSize == 2 ^ BITS_PER_NONCE \in Nat \ {0} /\ Channel \subseteq Nat
<1>1. 2 ^ BITS_PER_NONCE \in Int
  BY ClientAssumption
<1>2. 0 \in 0..(MaxNonce + 1)
  BY ClientAssumption
<1>3. 0 \in 0..(2 ^ BITS_PER_NONCE - 1)
  BY <1>2, ClientAssumption
<1>4. QED
  BY <1>1, <1>3, ClientAssumption

LEMMA PackNonceNatural ==
    ASSUME NEW c \in Channel, NEW n \in Nat
    PROVE  packNonce(c, n) \in Nat
<1> DEFINE b == 2 ^ BITS_PER_NONCE
<1>1. b \in Nat /\ c \in Nat
  BY ChannelSize
<1> HIDE DEF b
<1>2. c * b + n \in Nat
  BY <1>1
<1>3. QED
  BY <1>2 DEF packNonce, b

\* What is unpacked is what was packed.
LEMMA UnpackThenPack ==
    ASSUME NEW n \in Nat
    PROVE  packNonce(unpackNonce(n)[1], unpackNonce(n)[2]) = n
<1> DEFINE b == 2 ^ BITS_PER_NONCE
<1>1. b \in Nat \ {0}
  BY ChannelSize
<1> HIDE DEF b
<1>2. n = ((n \div b) * b) + (n % b)
  BY <1>1, DivisionFacts
<1>3. QED
  BY <1>2 DEF packNonce, unpackNonce, b

\* An execution spends the nonce that it emits, and no other.
LEMMA ExecutionSpends ==
    ASSUME ForwarderInv, NEW c \in Caller, executeTransactionLUW(c)
    PROVE  ForwarderInv'
<1> DEFINE r == pending[c]
           request == Relayed(r)
           channel == unpackNonce(request.nonce)[1]
           e == [event |-> "ExecutionSuccess", txHash |-> request.nonce]
<1>1. /\ r.stage = "signed" /\ Accepts(request, r.signatures)
      /\ nonces' = [nonces EXCEPT ![channel] = @ + 1] /\ Emit(<<e>>)
      /\ pending' = [pending EXCEPT ![c] = Idle] /\ UNCHANGED <<wallet, requestTypes, db>>
  BY DEF executeTransactionLUW
<1>2. request.nonce = r.nonce /\ r.nonce \in Nat
  <2>1. request.nonce = r.nonce
    BY DEF Relayed, encodeExecuteTransactionProps
  <2>2. QED
    BY <1>1, <2>1 DEF ForwarderInv
<1>3. channel \in Channel /\ nonces[channel] = unpackNonce(request.nonce)[2]
  BY <1>1 DEF Accepts
<1>4. packNonce(channel, nonces[channel]) = request.nonce
  BY <1>2, <1>3, UnpackThenPack
<1> HIDE DEF channel, request, r
<1>5. nonces[channel] \in Nat /\ nonces' \in [Channel -> Nat]
  BY <1>1, <1>3 DEF ForwarderInv
<1>6. Spent' = Spent \union {request.nonce}
  <2>1. nonces'[channel] = nonces[channel] + 1
        /\ \A d \in Channel \ {channel} : nonces'[d] = nonces[d]
    BY <1>1, <1>3 DEF ForwarderInv
  <2>2. 0..(nonces'[channel] - 1) = 0..(nonces[channel] - 1) \union {nonces[channel]}
    BY <1>5, <2>1
  <2> DEFINE Of(d) == {packNonce(d, n) : n \in 0..(nonces[d] - 1)}
             Then(d) == {packNonce(d, n) : n \in 0..(nonces'[d] - 1)}
  <2>3. Then(channel) = Of(channel) \union {request.nonce}
    BY <1>4, <2>2
  <2>4. \A d \in Channel \ {channel} : Then(d) = Of(d)
    BY <2>1
  <2> HIDE DEF Of, Then
  <2>5. (UNION {Then(d) : d \in Channel}) = (UNION {Of(d) : d \in Channel}) \union {request.nonce}
    BY <1>3, <2>3, <2>4
  <2>6. QED
    BY <2>5 DEF Spent, Of, Then
<1>7. e.event \in Kinds /\ e.event = "ExecutionSuccess" /\ e.txHash = request.nonce
  BY DEF Kinds
<1> HIDE DEF e
<1>8. /\ IsList(log') /\ \A k \in 1..Len(log') : log'[k][1].event \in Kinds
      /\ \E known, executions : Foreseen(known, executions, log)'
  BY <1>1, <1>6, <1>7, ForeseenOneMore DEF TypesAfter, ExecutionsAfter
<1>9. QED
  BY <1>1, <1>5, <1>8, PendingStays DEF ForwarderInv, Idle

LEMMA ForwarderNextKeeps ==
    IInv /\ ForwarderInv /\ [RequestsNext]_requestVars => ForwarderInv'
<1> SUFFICES ASSUME IInv, ForwarderInv, [RequestsNext]_requestVars PROVE ForwarderInv'
  OBVIOUS
<1>1. ASSUME NEW c \in Caller, Prepare(c) PROVE ForwarderInv'
  <2>1. PICK t \in RequestType, ch \in Channel, backwards \in BOOLEAN, prefixed \in BOOLEAN :
          \E destination \in IF destinationAddressProvided(t) THEN Collection
                             ELSE {NoDestination} :
              getNonce(c, t, ch, RequestData(t, destination, backwards, prefixed))
    BY <1>1 DEF Prepare
  <2>2. PICK data : getNonce(c, t, ch, data)
    BY <2>1
  <2>3. packNonce(ch, nonces[ch]) \in Nat
    BY PackNonceNatural DEF ForwarderInv
  <2>4. QED
    BY <2>2, <2>3, PendingStays, ForeseenStays DEF getNonce, forwarder, chain
<1>2. ASSUME NEW c \in Caller, Sign(c) PROVE ForwarderInv'
  <2>1. PICK signers : signRequest(c, signers)
    BY <1>2 DEF Sign
  <2>2. PICK r : /\ pending' = [pending EXCEPT ![c] = r]
                 /\ r.stage \in {"prepared", "signed"} => r.nonce = pending[c].nonce
    <3>1. \/ pending' = [pending EXCEPT ![c] = Idle]
          \/ pending' = [pending EXCEPT ![c] =
                [stage |-> "signed", type |-> pending[c].type, data |-> pending[c].data,
                 nonce |-> pending[c].nonce,
                 signatures |-> signTypedData(Message(pending[c]), signers)]]
      BY <2>1 DEF signRequest
    <3>2. QED
      BY <3>1 DEF Idle
  <2>3. pending[c].nonce \in Nat
    BY <2>1 DEF signRequest, ForwarderInv
  <2>4. QED
    BY <2>1, <2>2, <2>3, PendingStays, ForeseenStays DEF signRequest, forwarder, chain
<1>3. ASSUME NEW c \in Caller, Abandon(c) PROVE ForwarderInv'
  BY <1>3, PendingStays, ForeseenStays DEF Abandon, Idle, forwarder, chain
<1>4. ASSUME NEW t \in RequestType, unregisterRequestType(eip712TypeHash(t))
      PROVE  ForwarderInv'
  <2> DEFINE h == eip712TypeHash(t)
             e == [event |-> "RequestTypeUnregistered", typeHash |-> h]
  <2>1. /\ DOMAIN requestTypes' = DOMAIN requestTypes \ {h} /\ Emit(<<e>>)
        /\ UNCHANGED <<wallet, nonces, pending, db>>
    BY <1>4 DEF unregisterRequestType
  <2>2. e.event \in Kinds /\ e.event = "RequestTypeUnregistered" /\ e.typeHash = h
    BY DEF Kinds
  <2> HIDE DEF e, h
  <2>3. Spent' = Spent
    BY <2>1 DEF Spent
  <2>4. /\ IsList(log') /\ \A k \in 1..Len(log') : log'[k][1].event \in Kinds
        /\ \E known, executions : Foreseen(known, executions, log)'
    BY <2>1, <2>2, <2>3, ForeseenOneMore DEF TypesAfter, ExecutionsAfter
  <2>5. QED
    BY <2>1, <2>4 DEF ForwarderInv
<1>5. ASSUME NEW newOwners \in SUBSET Owner, NEW n, ChangeOwners(newOwners, n)
      PROVE  ForwarderInv'
  <2>1. UNCHANGED <<nonces, requestTypes, pending, db, log>>
    BY <1>5 DEF ChangeOwners, forwarder, chain
  <2>2. QED
    BY <2>1, ForeseenStays DEF ForwarderInv
<1>6. CASE ClientStep
  BY <1>1, <1>2, <1>3, <1>4, <1>5, <1>6, ForeseenIndexed DEF ClientStep
<1>7. ASSUME NEW c \in Caller, Relay(c) PROVE ForwarderInv'
  BY <1>7, ExecutionSpends DEF Relay
<1>8. ASSUME NEW types \in TypeLists, RegisterByHand(types) PROVE ForwarderInv'
  <2>1. types \in Seq(RequestType)
    BY ClientAssumption
  <2>2. QED
    BY <1>8, <2>1, ForeseenRegistered DEF RegisterByHand, Registered
<1>9. ASSUME UNCHANGED clientVars PROVE ForwarderInv'
  <2>1. UNCHANGED <<nonces, requestTypes, pending, db, log>>
    BY <1>9 DEF clientVars, forwarder, chain
  <2>2. QED
    BY <2>1, ForeseenStays DEF ForwarderInv
<1>10. CASE RegisterByScript
  <2>1. CASE Registered(Head(todo).types)
    <3>1. todo \in Seq(Step(Len(registries))) /\ Len(registries) \in Nat
      BY LenProperties DEF IInv
    <3>2. todo # << >> /\ Head(todo).do = "register"
      BY <1>10 DEF RegisterByScript, RegistrationTask, Doing
    <3>3. Head(todo) \in Task
      BY <3>1, <3>2, RestFits, StepKind
    <3>4. Head(todo).types \in Seq(RequestType)
      BY <3>2, <3>3, RequestsAssumption
    <3>5. QED
      BY <2>1, <3>4, ForeseenRegistered DEF Registered
  <2>2. QED
    BY <1>9, <1>10, <2>1 DEF RegisterByScript
<1>11. QED
  BY <1>6, <1>7, <1>8, <1>9, <1>10 DEF RequestsNext, requestVars

LEMMA ForwarderInvSuffices == ForwarderInv => ForwarderIndexAgrees
<1> SUFFICES ASSUME ForwarderInv, CaughtUp
             PROVE  /\ DOMAIN db["MetaTxRequestType"] = DOMAIN requestTypes
                    /\ DOMAIN db["MetaTxExecution"] = Spent
  BY DEF ForwarderIndexAgrees, Spent
<1>1. PICK known, executions : Foreseen(known, executions, log)
  BY DEF ForwarderInv
<1>2. Len(log) = 0
  BY DEF CaughtUp
<1>3. QED
  BY <1>1, <1>2 DEF Foreseen

\* When the index of the forwarder has caught up, it lists the types that are registered
\* and exactly the nonces that were spent, for any types, scripts, callers and owners
\* (ForwarderIndexAgrees).
THEOREM ForwarderIndexAgreesHolds == RequestsSpec => []ForwarderIndexAgrees
<1>1. RequestsInit => ForwarderInv
  BY ForwarderInitHolds
<1>2. IInv /\ ForwarderInv /\ [RequestsNext]_requestVars => ForwarderInv'
  BY ForwarderNextKeeps
<1>3. QED
  BY <1>1, <1>2, RequestsIInv, ForwarderInvSuffices, PTL DEF RequestsSpec

-----------------------------------------------------------------------------
(* The tables of request types: every type has the fields that its function has     *)
(* parameters, in their order, behind those of every request and, for a collection, *)
(* the destination.                                                                 *)

\* The fields that are not those of every request, nor the destination.
PlainField ==
    {"wallet", "prevOwner", "owner", "threshold", "oldOwner", "newOwner", "name",
     "tokenId", "isPrimaryIssuer", "artistAddress", "metadataDigest", "metadataCID",
     "lockExternalTransfer", "to", "royaltyReceiver", "royaltyBasisPoints",
     "commitment", "historyMetadataDigest", "historyMetadataHash", "customHistoryId",
     "isIntermediary", "tokenIds", "customHistoryIds", "flag", "merkleRoot", "symbol",
     "salt"}
      \X {"address", "bool", "bytes32", "string", "uint16", "uint256", "uint256[]"}

\* The parameters of a function are of the types of the fields, in their order.
Matches(fields, function) ==
    /\ Len(function) = Len(fields) + 1
    /\ \A i \in 1..Len(fields) : SameWord(fields[i][2], function[i + 1])

Tabled(types, function) ==
    \E fields \in Seq(PlainField) :
        fields # << >> /\ types = buildTypeList(fields) /\ Matches(fields, function)

LEMMA TabledBy ==
    ASSUME NEW fields \in Seq(PlainField), fields # << >>, NEW function,
           Matches(fields, function)
    PROVE  Tabled(buildTypeList(fields), function)
BY DEF Tabled

\* The fields that several types have.
LEMMA FieldFacts ==
    /\ tokenId \in PlainField /\ tokenId[2] = "uint256"
    /\ isPrimaryIssuer \in PlainField /\ isPrimaryIssuer[2] = "bool"
    /\ artistAddress \in PlainField /\ artistAddress[2] = "address"
    /\ metadataDigest \in PlainField /\ metadataDigest[2] = "bytes32"
    /\ metadataCID \in PlainField /\ metadataCID[2] = "string"
    /\ lockExternalTransfer \in PlainField /\ lockExternalTransfer[2] = "bool"
    /\ to \in PlainField /\ to[2] = "address"
    /\ royaltyReceiver \in PlainField /\ royaltyReceiver[2] = "address"
    /\ royaltyBasisPoints \in PlainField /\ royaltyBasisPoints[2] = "uint16"
    /\ commitment \in PlainField /\ commitment[2] = "bytes32"
    /\ historyMetadataDigest \in PlainField /\ historyMetadataDigest[2] = "string"
    /\ historyMetadataHash \in PlainField /\ historyMetadataHash[2] = "string"
    /\ customHistoryId \in PlainField /\ customHistoryId[2] = "uint256"
    /\ isIntermediary \in PlainField /\ isIntermediary[2] = "bool"
BY DEF PlainField, tokenId, isPrimaryIssuer, artistAddress, metadataDigest, metadataCID,
       lockExternalTransfer, to, royaltyReceiver, royaltyBasisPoints, commitment,
       historyMetadataDigest, historyMetadataHash, customHistoryId, isIntermediary

LEMMA WalletTable ==
    \A k \in DOMAIN WalletTypes : Tabled(WalletTypes[k], WalletSignatures[k])
<1>1. Tabled(WalletTypes["AddOwner"], WalletSignatures["AddOwner"])
  <2> DEFINE fields == << <<"wallet", "address">>, <<"owner", "address">>,
                        <<"threshold", "uint256">> >>
  <2>1. fields \in Seq(PlainField) /\ fields # << >>
    BY DEF PlainField
  <2>2. Matches(fields, WalletSignatures["AddOwner"])
    BY DEF Matches, SameWord, WalletSignatures
  <2>3. QED
    BY <2>1, <2>2, TabledBy DEF WalletTypes
<1>2. Tabled(WalletTypes["RemoveOwner"], WalletSignatures["RemoveOwner"])
  <2> DEFINE fields == << <<"wallet", "address">>, <<"prevOwner", "address">>,
                        <<"owner", "address">>, <<"threshold", "uint256">> >>
  <2>1. fields \in Seq(PlainField) /\ fields # << >>
    BY DEF PlainField
  <2>2. Matches(fields, WalletSignatures["RemoveOwner"])
    BY DEF Matches, SameWord, WalletSignatures
  <2>3. QED
    BY <2>1, <2>2, TabledBy DEF WalletTypes
<1>3. Tabled(WalletTypes["SwapOwner"], WalletSignatures["SwapOwner"])
  <2> DEFINE fields == << <<"wallet", "address">>, <<"prevOwner", "address">>,
                        <<"oldOwner", "address">>, <<"newOwner", "address">> >>
  <2>1. fields \in Seq(PlainField) /\ fields # << >>
    BY DEF PlainField
  <2>2. Matches(fields, WalletSignatures["SwapOwner"])
    BY DEF Matches, SameWord, WalletSignatures
  <2>3. QED
    BY <2>1, <2>2, TabledBy DEF WalletTypes
<1>4. Tabled(WalletTypes["ChangeThreshold"], WalletSignatures["ChangeThreshold"])
  <2> DEFINE fields == << <<"wallet", "address">>, <<"threshold", "uint256">> >>
  <2>1. fields \in Seq(PlainField) /\ fields # << >>
    BY DEF PlainField
  <2>2. Matches(fields, WalletSignatures["ChangeThreshold"])
    BY DEF Matches, SameWord, WalletSignatures
  <2>3. QED
    BY <2>1, <2>2, TabledBy DEF WalletTypes
<1>5. Tabled(WalletTypes["SetEnglishName"], WalletSignatures["SetEnglishName"])
  <2> DEFINE fields == << <<"wallet", "address">>, <<"name", "string">> >>
  <2>1. fields \in Seq(PlainField) /\ fields # << >>
    BY DEF PlainField
  <2>2. Matches(fields, WalletSignatures["SetEnglishName"])
    BY DEF Matches, SameWord, WalletSignatures
  <2>3. QED
    BY <2>1, <2>2, TabledBy DEF WalletTypes
<1>6. Tabled(WalletTypes["SetOriginalName"], WalletSignatures["SetOriginalName"])
  <2> DEFINE fields == << <<"wallet", "address">>, <<"name", "string">> >>
  <2>1. fields \in Seq(PlainField) /\ fields # << >>
    BY DEF PlainField
  <2>2. Matches(fields, WalletSignatures["SetOriginalName"])
    BY DEF Matches, SameWord, WalletSignatures
  <2>3. QED
    BY <2>1, <2>2, TabledBy DEF WalletTypes
<1>7. QED
  BY <1>1, <1>2, <1>3, <1>4, <1>5, <1>6 DEF WalletTypes

LEMMA RegistryTable ==
    \A k \in DOMAIN StartrailRegistryTypes : Tabled(StartrailRegistryTypes[k], RegistrySignatures[k])
<1>1. Tabled(StartrailRegistryTypes["CreateSRRWithLockExternalTransfer"],
            RegistrySignatures["CreateSRRWithLockExternalTransfer"])
  <2> DEFINE fields == <<isPrimaryIssuer, artistAddress, metadataDigest,
                        lockExternalTransfer>>
  <2>1. fields \in Seq(PlainField) /\ fields # << >>
    BY FieldFacts
  <2>2. Matches(fields, RegistrySignatures["CreateSRRWithLockExternalTransfer"])
    BY FieldFacts DEF Matches, SameWord, RegistrySignatures
  <2>3. QED
    BY <2>1, <2>2, TabledBy DEF StartrailRegistryTypes
<1>2. Tabled(StartrailRegistryTypes["CreateSRRFromLicensedUser"],
            RegistrySignatures["CreateSRRFromLicensedUser"])
  <2> DEFINE fields == <<isPrimaryIssuer, artistAddress, metadataDigest,
                        lockExternalTransfer, to>>
  <2>1. fields \in Seq(PlainField) /\ fields # << >>
    BY FieldFacts
  <2>2. Matches(fields, RegistrySignatures["CreateSRRFromLicensedUser"])
    BY FieldFacts DEF Matches, SameWord, RegistrySignatures
  <2>3. QED
    BY <2>1, <2>2, TabledBy DEF StartrailRegistryTypes
<1>3. Tabled(StartrailRegistryTypes["CreateSRRFromLicensedUserWithCid"],
            RegistrySignatures["CreateSRRFromLicensedUserWithCid"])
  <2> DEFINE fields == <<isPrimaryIssuer, artistAddress, metadataDigest, metadataCID,
                        lockExternalTransfer, to>>
  <2>1. fields \in Seq(PlainField) /\ fields # << >>
    BY FieldFacts
  <2>2. Matches(fields, RegistrySignatures["CreateSRRFromLicensedUserWithCid"])
    BY FieldFacts DEF Matches, SameWord, RegistrySignatures
  <2>3. QED
    BY <2>1, <2>2, TabledBy DEF StartrailRegistryTypes
<1>4. Tabled(StartrailRegistryTypes["CreateSRRFromLicensedUserWithRoyalty"],
            RegistrySignatures["CreateSRRFromLicensedUserWithRoyalty"])
  <2> DEFINE fields == <<isPrimaryIssuer, artistAddress, metadataDigest, metadataCID,
                        lockExternalTransfer, to, royaltyReceiver, royaltyBasisPoints>>
  <2>1. fields \in Seq(PlainField) /\ fields # << >>
    BY FieldFacts
  <2>2. Matches(fields, RegistrySignatures["CreateSRRFromLicensedUserWithRoyalty"])
    BY FieldFacts DEF Matches, SameWord, RegistrySignatures
  <2>3. QED
    BY <2>1, <2>2, TabledBy DEF StartrailRegistryTypes
<1>5. Tabled(StartrailRegistryTypes["CreateSRRFromLicensedUserWithIPFSAndRoyalty"],
            RegistrySignatures["CreateSRRFromLicensedUserWithIPFSAndRoyalty"])
  <2> DEFINE fields == <<isPrimaryIssuer, artistAddress, metadataCID,
                        lockExternalTransfer, to, royaltyReceiver, royaltyBasisPoints>>
  <2>1. fields \in Seq(PlainField) /\ fields # << >>
    BY FieldFacts
  <2>2. Matches(fields, RegistrySignatures["CreateSRRFromLicensedUserWithIPFSAndRoyalty"])
    BY FieldFacts DEF Matches, SameWord, RegistrySignatures
  <2>3. QED
    BY <2>1, <2>2, TabledBy DEF StartrailRegistryTypes
<1>6. Tabled(StartrailRegistryTypes["UpdateSRR"], RegistrySignatures["UpdateSRR"])
  <2> DEFINE fields == <<tokenId, isPrimaryIssuer, artistAddress>>
  <2>1. fields \in Seq(PlainField) /\ fields # << >>
    BY FieldFacts
  <2>2. Matches(fields, RegistrySignatures["UpdateSRR"])
    BY FieldFacts DEF Matches, SameWord, RegistrySignatures
  <2>3. QED
    BY <2>1, <2>2, TabledBy DEF StartrailRegistryTypes
<1>7. Tabled(StartrailRegistryTypes["UpdateSRRMetadata"],
            RegistrySignatures["UpdateSRRMetadata"])
  <2> DEFINE fields == <<tokenId, metadataDigest>>
  <2>1. fields \in Seq(PlainField) /\ fields # << >>
    BY FieldFacts
  <2>2. Matches(fields, RegistrySignatures["UpdateSRRMetadata"])
    BY FieldFacts DEF Matches, SameWord, RegistrySignatures
  <2>3. QED
    BY <2>1, <2>2, TabledBy DEF StartrailRegistryTypes
<1>8. Tabled(StartrailRegistryTypes["UpdateSRRMetadataWithCid"],
            RegistrySignatures["UpdateSRRMetadataWithCid"])
  <2> DEFINE fields == <<tokenId, metadataCID>>
  <2>1. fields \in Seq(PlainField) /\ fields # << >>
    BY FieldFacts
  <2>2. Matches(fields, RegistrySignatures["UpdateSRRMetadataWithCid"])
    BY FieldFacts DEF Matches, SameWord, RegistrySignatures
  <2>3. QED
    BY <2>1, <2>2, TabledBy DEF StartrailRegistryTypes
<1>9. Tabled(StartrailRegistryTypes["UpdateSRRRoyalty"],
            RegistrySignatures["UpdateSRRRoyalty"])
  <2> DEFINE fields == <<tokenId, royaltyReceiver, royaltyBasisPoints>>
  <2>1. fields \in Seq(PlainField) /\ fields # << >>
    BY FieldFacts
  <2>2. Matches(fields, RegistrySignatures["UpdateSRRRoyalty"])
    BY FieldFacts DEF Matches, SameWord, RegistrySignatures
  <2>3. QED
    BY <2>1, <2>2, TabledBy DEF StartrailRegistryTypes
<1>10. Tabled(StartrailRegistryTypes["ApproveSRRByCommitment"],
            RegistrySignatures["ApproveSRRByCommitment"])
  <2> DEFINE fields == <<tokenId, commitment, historyMetadataDigest>>
  <2>1. fields \in Seq(PlainField) /\ fields # << >>
    BY FieldFacts
  <2>2. Matches(fields, RegistrySignatures["ApproveSRRByCommitment"])
    BY FieldFacts DEF Matches, SameWord, RegistrySignatures, approveSRRByCommitment
  <2>3. QED
    BY <2>1, <2>2, TabledBy DEF StartrailRegistryTypes
<1>11. Tabled(StartrailRegistryTypes["ApproveSRRByCommitmentV2"],
            RegistrySignatures["ApproveSRRByCommitmentV2"])
  <2> DEFINE fields == <<tokenId, commitment, historyMetadataHash>>
  <2>1. fields \in Seq(PlainField) /\ fields # << >>
    BY FieldFacts
  <2>2. Matches(fields, RegistrySignatures["ApproveSRRByCommitmentV2"])
    BY FieldFacts DEF Matches, SameWord, RegistrySignatures, approveSRRByCommitment
  <2>3. QED
    BY <2>1, <2>2, TabledBy DEF StartrailRegistryTypes
<1>12. Tabled(StartrailRegistryTypes["ApproveSRRByCommitmentWithCustomHistoryId"],
            RegistrySignatures["ApproveSRRByCommitmentWithCustomHistoryId"])
  <2> DEFINE fields == <<tokenId, commitment, historyMetadataDigest, customHistoryId>>
  <2>1. fields \in Seq(PlainField) /\ fields # << >>
    BY FieldFacts
  <2>2. Matches(fields, RegistrySignatures["ApproveSRRByCommitmentWithCustomHistoryId"])
    BY FieldFacts DEF Matches, SameWord, RegistrySignatures, approveSRRByCommitment
  <2>3. QED
    BY <2>1, <2>2, TabledBy DEF StartrailRegistryTypes
<1>13. Tabled(StartrailRegistryTypes["ApproveSRRByCommitmentWithCustomHistoryIdV2"],
            RegistrySignatures["ApproveSRRByCommitmentWithCustomHistoryIdV2"])
  <2> DEFINE fields == <<tokenId, commitment, historyMetadataHash, customHistoryId>>
  <2>1. fields \in Seq(PlainField) /\ fields # << >>
    BY FieldFacts
  <2>2. Matches(fields, RegistrySignatures["ApproveSRRByCommitmentWithCustomHistoryIdV2"])
    BY FieldFacts DEF Matches, SameWord, RegistrySignatures, approveSRRByCommitment
  <2>3. QED
    BY <2>1, <2>2, TabledBy DEF StartrailRegistryTypes
<1>14. Tabled(StartrailRegistryTypes["CancelSRRCommitment"],
            RegistrySignatures["CancelSRRCommitment"])
  <2> DEFINE fields == <<tokenId>>
  <2>1. fields \in Seq(PlainField) /\ fields # << >>
    BY FieldFacts
  <2>2. Matches(fields, RegistrySignatures["CancelSRRCommitment"])
    BY FieldFacts DEF Matches, SameWord, RegistrySignatures
  <2>3. QED
    BY <2>1, <2>2, TabledBy DEF StartrailRegistryTypes
<1>15. Tabled(StartrailRegistryTypes["AddHistory"], RegistrySignatures["AddHistory"])
  <2> DEFINE fields == << <<"tokenIds", "uint256[]">>, <<"customHistoryIds",
                        "uint256[]">> >>
  <2>1. fields \in Seq(PlainField) /\ fields # << >>
    BY DEF PlainField
  <2>2. Matches(fields, RegistrySignatures["AddHistory"])
    BY DEF Matches, SameWord, RegistrySignatures
  <2>3. QED
    BY <2>1, <2>2, TabledBy DEF StartrailRegistryTypes
<1>16. Tabled(StartrailRegistryTypes["SetLockExternalTransfer"],
            RegistrySignatures["SetLockExternalTransfer"])
  <2> DEFINE fields == <<tokenId, <<"flag", "bool">> >>
  <2>1. fields \in Seq(PlainField) /\ fields # << >>
    BY FieldFacts DEF PlainField
  <2>2. Matches(fields, RegistrySignatures["SetLockExternalTransfer"])
    BY FieldFacts DEF Matches, SameWord, RegistrySignatures
  <2>3. QED
    BY <2>1, <2>2, TabledBy DEF StartrailRegistryTypes
<1>17. Tabled(StartrailRegistryTypes["TransferFromWithProvenance"],
            RegistrySignatures["TransferFromWithProvenance"])
  <2> DEFINE fields == <<to, tokenId, historyMetadataDigest, customHistoryId,
                        isIntermediary>>
  <2>1. fields \in Seq(PlainField) /\ fields # << >>
    BY FieldFacts
  <2>2. Matches(fields, RegistrySignatures["TransferFromWithProvenance"])
    BY FieldFacts DEF Matches, SameWord, RegistrySignatures, transferFromWithProvenance
  <2>3. QED
    BY <2>1, <2>2, TabledBy DEF StartrailRegistryTypes
<1>18. Tabled(StartrailRegistryTypes["TransferFromWithProvenanceV2"],
            RegistrySignatures["TransferFromWithProvenanceV2"])
  <2> DEFINE fields == <<to, tokenId, historyMetadataHash, customHistoryId,
                        isIntermediary>>
  <2>1. fields \in Seq(PlainField) /\ fields # << >>
    BY FieldFacts
  <2>2. Matches(fields, RegistrySignatures["TransferFromWithProvenanceV2"])
    BY FieldFacts DEF Matches, SameWord, RegistrySignatures, transferFromWithProvenance
  <2>3. QED
    BY <2>1, <2>2, TabledBy DEF StartrailRegistryTypes
<1>19. QED
  BY <1>1, <1>2, <1>3, <1>4, <1>5, <1>6, <1>7, <1>8, <1>9, <1>10, <1>11, <1>12, <1>13,
     <1>14, <1>15, <1>16, <1>17, <1>18 DEF StartrailRegistryTypes

\* Joining lists of known lengths.
LEMMA JoinLists ==
    ASSUME NEW L, IsList(L), NEW M, IsList(M)
    PROVE  /\ Len(L) \in Nat /\ Len(M) \in Nat
           /\ IsList(L \o M) /\ Len(L \o M) = Len(L) + Len(M)
           /\ \A i \in 1..Len(L) : (L \o M)[i] = L[i]
           /\ \A i \in 1..Len(M) : (L \o M)[Len(L) + i] = M[i]
<1>1. Len(L) \in Nat /\ Len(M) \in Nat
  BY ListFacts
<1>2. \A i \in 1..Len(M) : /\ Len(L) + i \in Len(L) + 1..Len(L) + Len(M)
                           /\ (Len(L) + i) - Len(L) = i
  BY <1>1
<1>3. \A i \in Len(L) + 1..Len(L) + Len(M) : (L \o M)[i] = M[i - Len(L)]
  BY ConcatFacts
<1>4. \A i \in 1..Len(M) : (L \o M)[Len(L) + i] = M[i]
  BY <1>2, <1>3
<1>5. QED
  BY <1>1, <1>4, ConcatFacts

\* The types of collections, without the destination.
LEMMA CollectionTable ==
    ASSUME NEW k \in DOMAIN CollectionTypes
    PROVE  \E types : /\ CollectionTypes[k] = addDestinationField(types)
                      /\ Tabled(types, functionSignature(<<"Collection", k>>))
<1>1. CASE k = "CreateSRR"
  <2> DEFINE fields == <<isPrimaryIssuer, artistAddress, metadataCID, lockExternalTransfer,
                         to, royaltyReceiver, royaltyBasisPoints>>
  <2>1. fields \in Seq(PlainField) /\ fields # << >>
    BY FieldFacts
  <2>2. functionSignature(<<"Collection", k>>) = CollectionSignatures["CreateSRR"]
    BY <1>1 DEF functionSignature, OfCollections
  <2>3. Matches(fields, functionSignature(<<"Collection", k>>))
    BY <2>2, FieldFacts DEF Matches, SameWord, CollectionSignatures
  <2>4. CollectionTypes[k] = addDestinationField(buildTypeList(fields))
    BY <1>1 DEF CollectionTypes
  <2> HIDE DEF fields
  <2>5. QED
    BY <2>1, <2>3, <2>4, TabledBy
<1>2. CASE k = "TransferOwnership"
  <2> DEFINE fields == << <<"newOwner", "address">> >>
  <2>1. fields \in Seq(PlainField) /\ fields # << >>
    BY DEF PlainField
  <2>2. functionSignature(<<"Collection", k>>) = CollectionSignatures["TransferOwnership"]
    BY <1>2 DEF functionSignature, OfCollections
  <2>3. Matches(fields, functionSignature(<<"Collection", k>>))
    BY <2>2 DEF Matches, SameWord, CollectionSignatures
  <2>4. CollectionTypes[k] = addDestinationField(buildTypeList(fields))
    BY <1>2 DEF CollectionTypes
  <2> HIDE DEF fields
  <2>5. QED
    BY <2>1, <2>3, <2>4, TabledBy
<1>3. CASE k \in OfCollections
  <2>1. k \notin {"CreateSRR", "TransferOwnership"} /\ k \in DOMAIN StartrailRegistryTypes
    BY <1>3 DEF OfCollections, StartrailRegistryTypes
  <2>2. functionSignature(<<"Collection", k>>) = RegistrySignatures[k]
    BY <1>3, <2>1 DEF functionSignature
  <2>3. CollectionTypes[k] = addDestinationField(StartrailRegistryTypes[k])
    BY <1>3, <2>1 DEF CollectionTypes
  <2>4. QED
    BY <2>1, <2>2, <2>3, RegistryTable
<1>4. QED
  BY <1>1, <1>2, <1>3 DEF CollectionTypes

\* A type has the fields of every request, the calldata when one of the others is
\* dynamic, n destinations, and the others.
LaidOut(types, core, n, fields) ==
    /\ core \in {2, 3}
    /\ IsList(types) /\ Len(types) = core + n + Len(fields)
    /\ types[1] = <<"from", "address">> /\ types[2] = <<"nonce", "uint256">>
    /\ core = 3 => types[3] = <<"data", "bytes">>
    /\ core = 3 <=> \E i \in 1..Len(fields) : isDynamicArrayType(fields[i][2])
    /\ n = 1 => types[core + 1] = <<"destination", "address">>
    /\ \A i \in 1..Len(fields) : types[core + n + i] = fields[i]

LEMMA BuiltLayout ==
    ASSUME NEW fields \in Seq(PlainField), fields # << >>
    PROVE  \E core : LaidOut(buildTypeList(fields), core, 0, fields)
<1> DEFINE dynamic == \E i \in 1..Len(fields) : isDynamicArrayType(fields[i][2])
<1>1. PICK data : data = IF \E i \in DOMAIN fields : isDynamicArrayType(fields[i][2])
                         THEN << <<"data", "bytes">> >> ELSE << >>
  OBVIOUS
<1>2. Len(fields) \in Nat /\ DOMAIN fields = 1..Len(fields) /\ IsList(fields)
  BY DEF IsList
<1>3. /\ IsList(GenericParamTypes) /\ Len(GenericParamTypes) = 2
      /\ GenericParamTypes[1] = <<"from", "address">>
      /\ GenericParamTypes[2] = <<"nonce", "uint256">>
  <2>1. GenericParamTypes \in Seq({<<"from", "address">>, <<"nonce", "uint256">>})
    BY DEF GenericParamTypes
  <2>2. QED
    BY <2>1 DEF IsList, GenericParamTypes
<1>4. /\ IsList(data)
      /\ \/ Len(data) = 0 /\ ~dynamic
         \/ Len(data) = 1 /\ data[1] = <<"data", "bytes">> /\ dynamic
  <2>1. IsList(<< >>) /\ IsList(<< <<"data", "bytes">> >>)
    <3>1. << <<"data", "bytes">> >> \in Seq({<<"data", "bytes">>})
      OBVIOUS
    <3>2. QED
      BY <3>1, ListFacts DEF IsList
  <2>2. CASE dynamic
    <3>1. data = << <<"data", "bytes">> >>
      BY <1>1, <1>2, <2>2
    <3>2. QED
      BY <2>1, <2>2, <3>1
  <2>3. CASE ~dynamic
    <3>1. data = << >>
      BY <1>1, <1>2, <2>3
    <3>2. QED
      BY <2>1, <2>3, <3>1
  <2>4. QED
    BY <2>2, <2>3
<1> DEFINE front == GenericParamTypes \o data
           types == front \o fields
           core == Len(front)
<1>7. buildTypeList(fields) = types
  BY <1>1 DEF buildTypeList
<1>9. /\ IsList(front) /\ core = 2 + Len(data)
      /\ \A i \in 1..2 : front[i] = GenericParamTypes[i]
      /\ \A i \in 1..Len(data) : front[2 + i] = data[i]
  <2>1. /\ IsList(front) /\ Len(front) = Len(GenericParamTypes) + Len(data)
        /\ \A i \in 1..Len(GenericParamTypes) : front[i] = GenericParamTypes[i]
        /\ \A i \in 1..Len(data) : front[Len(GenericParamTypes) + i] = data[i]
    <3>1. IsList(GenericParamTypes) /\ IsList(data)
      BY <1>3, <1>4
    <3>2. QED
      BY <3>1, JoinLists
  <2> HIDE DEF front
  <2>2. QED
    BY <1>3, <2>1
<1> HIDE DEF dynamic, front
<1>10. /\ core \in Nat /\ IsList(types) /\ Len(types) = core + Len(fields)
       /\ \A i \in 1..core : types[i] = front[i]
       /\ \A i \in 1..Len(fields) : types[core + i] = fields[i]
  <2>1. /\ Len(front) \in Nat
        /\ IsList(types) /\ Len(types) = Len(front) + Len(fields)
        /\ \A i \in 1..Len(front) : types[i] = front[i]
        /\ \A i \in 1..Len(fields) : types[Len(front) + i] = fields[i]
    <3>1. IsList(front) /\ IsList(fields)
      BY <1>2, <1>9
    <3>2. QED
      BY <3>1, JoinLists
  <2> HIDE DEF types
  <2>2. QED
    BY <2>1
<1> HIDE DEF types, core
<1>11. core \in {2, 3} /\ (core = 3 <=> dynamic)
  BY <1>4, <1>9
<1>12. types[1] = <<"from", "address">> /\ types[2] = <<"nonce", "uint256">>
  BY <1>3, <1>9, <1>10, <1>11
<1>13. core = 3 => types[3] = <<"data", "bytes">>
  <2>1. core = 3 => Len(data) = 1 /\ data[1] = <<"data", "bytes">>
    BY <1>4, <1>9
  <2>2. core = 3 => 1 \in 1..Len(data) /\ 3 \in 1..core /\ 2 + 1 = 3
    BY <2>1
  <2>3. QED
    BY <1>9, <1>10, <2>1, <2>2
<1>14. core + 0 = core
  BY <1>10
<1>15. LaidOut(types, core, 0, fields)
  BY <1>10, <1>11, <1>12, <1>13, <1>14 DEF LaidOut, dynamic
<1>16. QED
  BY <1>7, <1>15 DEF types

LEMMA AddedLayout ==
    ASSUME NEW fields \in Seq(PlainField), fields # << >>, NEW types, NEW core,
           LaidOut(types, core, 0, fields)
    PROVE  LaidOut(addDestinationField(types), core, 1, fields)
<1> DEFINE n == Len(types)
           m == Len(fields)
           front == SubSeq(types, 1, core)
           dest == << <<"destination", "address">> >>
           back == SubSeq(types, core + 1, n)
           added == addDestinationField(types)
<1>1. m \in Nat /\ m >= 1 /\ n = core + m /\ core \in {2, 3}
  BY DEF LaidOut
<1>2. (types[3][1] = "data") <=> core = 3
  <2>1. core = 2 => types[3] = fields[1] /\ fields[1] \in PlainField
    <3>1. core = 2 => types[core + 0 + 1] = fields[1] /\ core + 0 + 1 = 3
      BY <1>1 DEF LaidOut
    <3>2. QED
      BY <1>1, <3>1
  <2>2. \A f \in PlainField : f[1] # "data"
    BY DEF PlainField
  <2>3. core = 3 => types[3][1] = "data"
    BY DEF LaidOut
  <2>4. QED
    BY <1>1, <2>1, <2>2, <2>3
<1>3. added = (front \o dest) \o back
  BY <1>1, <1>2 DEF addDestinationField
<1>4. PICK E : types \in Seq(E)
  BY DEF LaidOut, IsList
<1>5. /\ front \in Seq(E) /\ Len(front) = core /\ \A i \in 1..core : front[i] = types[i]
      /\ back \in Seq(E) /\ Len(back) = m /\ \A i \in 1..m : back[i] = types[core + i]
  <2>1. \A i \in 1..core : types[i] \in E
    BY <1>1, <1>4
  <2>2. \A i \in (core + 1)..n : types[i] \in E
    BY <1>1, <1>4
  <2>3. /\ front \in Seq(E) /\ Len(front) = core /\ \A i \in 1..core : front[i] = types[i]
    BY <1>1, <2>1, SubSeqProperties
  <2>4. /\ back \in Seq(E) /\ Len(back) = m
        /\ \A i \in 1..m : back[i] = types[(core + 1) + i - 1]
    BY <1>1, <2>2, SubSeqProperties
  <2>5. QED
    BY <1>1, <2>3, <2>4
<1>6. IsList(front) /\ IsList(back) /\ IsList(dest) /\ Len(dest) = 1
  <2>1. dest \in Seq({<<"destination", "address">>})
    OBVIOUS
  <2>2. QED
    BY <1>5, <2>1 DEF IsList
<1> HIDE DEF front, back
<1> DEFINE head == front \o dest
<1>8. /\ IsList(head) /\ Len(head) = core + 1
      /\ \A i \in 1..core : head[i] = types[i]
      /\ head[core + 1] = <<"destination", "address">>
  <2>1. /\ IsList(head) /\ Len(head) = core + 1 /\ \A i \in 1..core : head[i] = front[i]
        /\ \A i \in 1..1 : head[core + i] = dest[i]
    <3> HIDE DEF dest
    <3>1. /\ IsList(head) /\ Len(head) = Len(front) + Len(dest)
          /\ \A i \in 1..Len(front) : head[i] = front[i]
          /\ \A i \in 1..Len(dest) : head[Len(front) + i] = dest[i]
      <4>1. IsList(front) /\ IsList(dest)
        BY <1>6
      <4>2. QED
        BY <4>1, JoinLists
    <3> HIDE DEF head
    <3>2. QED
      BY <1>5, <1>6, <3>1
  <2>2. QED
    BY <1>5, <2>1
<1> DEFINE list == head \o back
<1>10. added = list
  BY <1>3
<1> HIDE DEF dest, head
<1>11. /\ IsList(list) /\ Len(list) = (core + 1) + m
       /\ \A i \in 1..core + 1 : list[i] = head[i]
       /\ \A i \in 1..m : list[(core + 1) + i] = back[i]
  <2> HIDE DEF added, m
  <2>1. /\ IsList(list) /\ Len(list) = Len(head) + Len(back)
        /\ \A i \in 1..Len(head) : list[i] = head[i]
        /\ \A i \in 1..Len(back) : list[Len(head) + i] = back[i]
    <3>1. IsList(head) /\ IsList(back)
      BY <1>6, <1>8
    <3>2. QED
      BY <3>1, JoinLists
  <2> HIDE DEF list
  <2>2. Len(back) = m /\ Len(head) = core + 1
    BY <1>5, <1>8
  <2>3. QED
    BY <2>1, <2>2
<1> HIDE DEF added, m, list
<1>12. /\ \A i \in 1..core : list[i] = types[i]
       /\ list[core + 1] = <<"destination", "address">>
  <2>1. core + 1 \in 1..core + 1 /\ \A i \in 1..core : i \in 1..core + 1
    BY <1>1
  <2>2. QED
    BY <1>8, <1>11, <2>1
<1>13. \A i \in 1..m : list[core + 1 + i] = fields[i]
  <2> TAKE i \in 1..m
  <2>1. (core + 1) + i = core + 1 + i /\ core + 0 + i = core + i
    BY <1>1
  <2>2. types[core + 0 + i] = fields[i]
    BY DEF LaidOut, m
  <2>3. QED
    BY <1>5, <1>11, <2>1, <2>2
<1>14. list[1] = types[1] /\ list[2] = types[2] /\ (core = 3 => list[3] = types[3])
  BY <1>1, <1>12
<1>15. LaidOut(list, core, 1, fields)
  BY <1>11, <1>12, <1>13, <1>14 DEF LaidOut, m
<1>16. QED
  BY <1>10, <1>15 DEF added

Destinations(requestType) == IF requestType[1] = "Collection" THEN 1 ELSE 0

\* A request type laid out so, with the parameters of its function in the same order.
Laid(requestType, core, fields) ==
    /\ fields \in Seq(PlainField) /\ fields # << >>
    /\ LaidOut(TypesOf(requestType), core, Destinations(requestType), fields)
    /\ Matches(fields, functionSignature(requestType))

LEMMA TabledIsLaid ==
    ASSUME NEW t, Destinations(t) = 0, Tabled(TypesOf(t), functionSignature(t))
    PROVE  \E core, fields : Laid(t, core, fields)
<1>1. PICK fields \in Seq(PlainField) :
          fields # << >> /\ TypesOf(t) = buildTypeList(fields) /\ Matches(fields, functionSignature(t))
  BY DEF Tabled
<1>2. PICK core : LaidOut(buildTypeList(fields), core, 0, fields)
  BY <1>1, BuiltLayout
<1>3. Laid(t, core, fields)
  BY <1>1, <1>2 DEF Laid
<1>4. QED
  BY <1>3

LEMMA TypeLayout ==
    ASSUME NEW t \in MetaTxRequestType
    PROVE  \E core, fields : Laid(t, core, fields)
<1>1. CASE t \in With("Wallet", DOMAIN WalletTypes)
  <2>1. PICK k \in DOMAIN WalletTypes : t = <<"Wallet", k>>
    BY <1>1 DEF With
  <2>2. TypesOf(t) = WalletTypes[k] /\ functionSignature(t) = WalletSignatures[k]
    BY <2>1 DEF TypesOf, functionSignature
  <2>3. Destinations(t) = 0
    BY <2>1 DEF Destinations
  <2>4. QED
    BY <2>2, <2>3, WalletTable, TabledIsLaid
<1>2. CASE t \in With("StartrailRegistry", DOMAIN StartrailRegistryTypes)
  <2>1. PICK k \in DOMAIN StartrailRegistryTypes : t = <<"StartrailRegistry", k>>
    BY <1>2 DEF With
  <2>2. TypesOf(t) = StartrailRegistryTypes[k] /\ functionSignature(t) = RegistrySignatures[k]
    BY <2>1 DEF TypesOf, functionSignature
  <2>3. Destinations(t) = 0
    BY <2>1 DEF Destinations
  <2>4. QED
    BY <2>2, <2>3, RegistryTable, TabledIsLaid
<1>3. CASE t \in {<<"BulkIssue", "SendBatch">>, <<"BulkTransfer", "SendBatch">>,
                  <<"Bulk", "SendBatch">>}
  <2> DEFINE fields == << <<"merkleRoot", "bytes32">> >>
  <2>1. fields \in Seq(PlainField) /\ fields # << >>
    BY DEF PlainField
  <2>2. Matches(fields, BatchSignatures["SendBatch"])
    BY DEF Matches, SameWord, BatchSignatures
  <2>3. TypesOf(t) = SendBatchTypes /\ functionSignature(t) = BatchSignatures["SendBatch"]
    BY <1>3 DEF TypesOf, functionSignature
  <2>4. Destinations(t) = 0
    BY <1>3 DEF Destinations
  <2>5. SendBatchTypes = buildTypeList(fields)
    BY DEF SendBatchTypes
  <2> HIDE DEF fields
  <2>6. Tabled(TypesOf(t), functionSignature(t))
    BY <2>1, <2>2, <2>3, <2>5, TabledBy
  <2>7. QED
    BY <2>4, <2>6, TabledIsLaid
<1>4. CASE t = <<"CollectionFactory", "CreateCollection">>
  <2> DEFINE fields == << <<"name", "string">>, <<"symbol", "string">>, <<"salt", "bytes32">> >>
  <2>1. fields \in Seq(PlainField) /\ fields # << >>
    BY DEF PlainField
  <2>2. Matches(fields, FactorySignatures["CreateCollection"])
    BY DEF Matches, SameWord, FactorySignatures
  <2>3. /\ TypesOf(t) = CollectionFactoryCreateCollectionTypes
        /\ functionSignature(t) = FactorySignatures["CreateCollection"]
    BY <1>4 DEF TypesOf, functionSignature
  <2>4. Destinations(t) = 0
    BY <1>4 DEF Destinations
  <2>5. CollectionFactoryCreateCollectionTypes = buildTypeList(fields)
    BY DEF CollectionFactoryCreateCollectionTypes
  <2> HIDE DEF fields
  <2>6. Tabled(TypesOf(t), functionSignature(t))
    BY <2>1, <2>2, <2>3, <2>5, TabledBy
  <2>7. QED
    BY <2>4, <2>6, TabledIsLaid
<1>5. CASE t \in With("Collection", DOMAIN CollectionTypes)
  <2>1. PICK k \in DOMAIN CollectionTypes : t = <<"Collection", k>>
    BY <1>5 DEF With
  <2>2. TypesOf(t) = CollectionTypes[k]
    BY <2>1 DEF TypesOf
  <2>3. PICK types : /\ CollectionTypes[k] = addDestinationField(types)
                     /\ Tabled(types, functionSignature(t))
    BY <2>1, CollectionTable
  <2>4. PICK fields \in Seq(PlainField) :
            fields # << >> /\ types = buildTypeList(fields) /\ Matches(fields, functionSignature(t))
    BY <2>3 DEF Tabled
  <2>5. PICK core : LaidOut(types, core, 0, fields)
    BY <2>4, BuiltLayout
  <2>6. LaidOut(TypesOf(t), core, 1, fields)
    BY <2>2, <2>3, <2>4, <2>5, AddedLayout
  <2>7. Destinations(t) = 1
    BY <2>1 DEF Destinations
  <2>8. Laid(t, core, fields)
    BY <2>4, <2>6, <2>7 DEF Laid
  <2>9. QED
    BY <2>8
<1>6. QED
  BY <1>1, <1>2, <1>3, <1>4, <1>5 DEF MetaTxRequestType

LEMMA DestinationFacts ==
    ASSUME NEW t \in MetaTxRequestType
    PROVE  /\ destinationAddressProvided(t) <=> Destinations(t) = 1
           /\ Destinations(t) \in {0, 1}
           /\ destinationContract(t) # NoDestination
           /\ (getDestinationAddress(t) = NoDestination) <=> Destinations(t) = 1
<1>1. t[1] \in {"Wallet", "StartrailRegistry", "BulkIssue", "BulkTransfer", "Bulk",
                "CollectionFactory", "Collection"}
  BY DEF MetaTxRequestType, With
<1>2. QED
  BY <1>1 DEF destinationAddressProvided, destinationContract, Destinations, NoDestination,
              getDestinationAddress

\* What the layout says of the fields of a type.
LEMMA LaidFacts ==
    ASSUME NEW t, NEW core, NEW fields, Laid(t, core, fields)
    PROVE  /\ core \in {2, 3} /\ Destinations(t) \in {0, 1} /\ Len(fields) \in Nat
           /\ Len(fields) >= 1
           /\ IsList(TypesOf(t)) /\ DOMAIN TypesOf(t) = 1..Len(TypesOf(t))
           /\ Len(TypesOf(t)) = core + Destinations(t) + Len(fields)
           /\ \A i \in 1..Len(fields) :
                 /\ fields[i] \in PlainField
                 /\ TypesOf(t)[core + Destinations(t) + i] = fields[i]
           /\ requiresDataField(t) <=> core = 3
<1>1. core \in {2, 3} /\ Destinations(t) \in {0, 1} /\ Len(fields) \in Nat /\ Len(fields) >= 1
  BY DEF Laid, LaidOut, Destinations
<1>2. /\ IsList(TypesOf(t))
      /\ Len(TypesOf(t)) = core + Destinations(t) + Len(fields)
      /\ \A i \in 1..Len(fields) : TypesOf(t)[core + Destinations(t) + i] = fields[i]
  BY DEF Laid, LaidOut
<1>3. \A i \in 1..Len(fields) : fields[i] \in PlainField
  BY DEF Laid
<1>4. DOMAIN TypesOf(t) = 1..Len(TypesOf(t))
  BY <1>2 DEF IsList
<1>5. core = 3 => requiresDataField(t)
  <2>1. core = 3 => 3 \in DOMAIN TypesOf(t) /\ TypesOf(t)[3] = <<"data", "bytes">>
    BY <1>1, <1>2, <1>4 DEF Laid, LaidOut
  <2>2. QED
    BY <2>1 DEF requiresDataField
<1>6. ASSUME core = 2 PROVE ~requiresDataField(t)
  <2>1. SUFFICES ASSUME NEW i \in 1..Len(TypesOf(t)) PROVE TypesOf(t)[i][1] # "data"
    BY <1>4 DEF requiresDataField
  <2>2. CASE i = 1
    BY <2>2 DEF Laid, LaidOut
  <2>3. CASE i = 2
    BY <2>3 DEF Laid, LaidOut
  <2>4. CASE i = 3 /\ Destinations(t) = 1
    BY <1>6, <2>4 DEF Laid, LaidOut
  <2>5. CASE i > 2 + Destinations(t)
    <3>1. PICK j \in 1..Len(fields) : i = core + Destinations(t) + j
      <4>1. i - (core + Destinations(t)) \in 1..Len(fields)
        BY <1>1, <1>2, <1>6, <2>1, <2>5
      <4>2. i = core + Destinations(t) + (i - (core + Destinations(t)))
        BY <1>1, <2>1
      <4>3. QED
        BY <4>1, <4>2
    <3>2. TypesOf(t)[i] \in PlainField
      BY <1>2, <1>3, <3>1
    <3>3. QED
      BY <3>2 DEF PlainField
  <2>6. QED
    BY <1>1, <2>1, <2>2, <2>3, <2>4, <2>5
<1>7. QED
  BY <1>1, <1>2, <1>3, <1>4, <1>5, <1>6

-----------------------------------------------------------------------------
(* The data of a request. *)

LEMMA FunctionIsList ==
    ASSUME NEW n \in Nat, NEW f, f = [i \in 1..n |-> f[i]]
    PROVE  IsList(f) /\ Len(f) = n
<1>1. f \in [1..n -> {f[i] : i \in 1..n}]
  OBVIOUS
<1>2. f \in Seq({f[i] : i \in 1..n}) /\ Len(f) = n
  BY <1>1
<1>3. QED
  BY <1>2 DEF IsList

LEMMA SameLists ==
    ASSUME NEW L, IsList(L), NEW M, IsList(M), Len(L) = Len(M),
           \A i \in 1..Len(L) : L[i] = M[i]
    PROVE  L = M
<1>1. PICK E : L \in Seq(E)
  BY DEF IsList
<1>2. PICK F : M \in Seq(F)
  BY DEF IsList
<1> DEFINE n == Len(L)
<1>3. n \in Nat /\ L = [i \in 1..n |-> L[i]] /\ M = [i \in 1..n |-> M[i]]
  BY <1>1, <1>2
<1> HIDE DEF n
<1>4. QED
  BY <1>3 DEF n

\* A part of a list.
LEMMA PartOfList ==
    ASSUME NEW L, IsList(L), NEW a \in Nat, NEW b \in Nat, 1 <= a, b <= Len(L), a <= b + 1
    PROVE  /\ IsList(SubSeq(L, a, b)) /\ Len(SubSeq(L, a, b)) = (b - a) + 1
           /\ \A i \in 1..(b - a) + 1 : SubSeq(L, a, b)[i] = L[(a + i) - 1]
<1>1. PICK E : L \in Seq(E)
  BY DEF IsList
<1>2. \A i \in a..b : L[i] \in E
  BY <1>1
<1>3. /\ SubSeq(L, a, b) \in Seq(E)
      /\ Len(SubSeq(L, a, b)) = IF a <= b THEN b - a + 1 ELSE 0
      /\ \A i \in 1..b - a + 1 : SubSeq(L, a, b)[i] = L[a + i - 1]
  BY <1>2, SubSeqProperties
<1>4. QED
  BY <1>3 DEF IsList

LEMMA DataFieldsFacts ==
    ASSUME NEW t, NEW core, NEW fields, Laid(t, core, fields)
    PROVE  /\ IsList(DataFields(t)) /\ Len(DataFields(t)) = Destinations(t) + Len(fields)
           /\ DOMAIN DataFields(t) = 1..Destinations(t) + Len(fields)
           /\ \A i \in 1..Destinations(t) + Len(fields) :
                 /\ DataFields(t)[i] = TypesOf(t)[core + i]
                 /\ DataFields(t)[i][1] \notin {"from", "nonce", "data"}
                 /\ DataFields(t)[i][1] = "destination" <=> i <= Destinations(t)
           /\ \A i \in 1..Len(fields) : DataFields(t)[Destinations(t) + i] = fields[i]
           /\ Destinations(t) = 1 => DataFields(t)[1] = <<"destination", "address">>
<1> DEFINE n == Destinations(t)
           m == Len(fields)
           T == TypesOf(t)
           D == SubSeq(T, core + 1, Len(T))
<1>1. /\ core \in {2, 3} /\ n \in {0, 1} /\ m \in Nat /\ m >= 1
      /\ IsList(T) /\ Len(T) = core + n + m
      /\ \A i \in 1..m : fields[i] \in PlainField /\ T[core + n + i] = fields[i]
      /\ requiresDataField(t) <=> core = 3
  BY LaidFacts
<1>2. DataFields(t) = D
  BY <1>1 DEF DataFields
<1>3. /\ core + 1 \in Nat /\ Len(T) \in Nat /\ 1 <= core + 1 /\ core + 1 <= Len(T) + 1
      /\ (Len(T) - (core + 1)) + 1 = n + m /\ Len(T) <= Len(T)
  BY <1>1
<1>4. /\ IsList(D) /\ Len(D) = n + m
      /\ \A i \in 1..n + m : D[i] = T[((core + 1) + i) - 1]
  <2>1. /\ IsList(D) /\ Len(D) = (Len(T) - (core + 1)) + 1
        /\ \A i \in 1..(Len(T) - (core + 1)) + 1 : D[i] = T[((core + 1) + i) - 1]
    <3> HIDE DEF T
    <3>1. IsList(T)
      BY <1>1
    <3>2. QED
      BY <1>3, <3>1, PartOfList
  <2>2. QED
    BY <1>3, <2>1
<1> HIDE DEF D
<1>5. \A i \in 1..n + m : D[i] = T[core + i]
  <2> TAKE i \in 1..n + m
  <2>1. ((core + 1) + i) - 1 = core + i
    BY <1>1
  <2>2. QED
    BY <1>4, <2>1
<1>6. \A i \in 1..m : D[n + i] = fields[i]
  <2> TAKE i \in 1..m
  <2>1. n + i \in 1..n + m /\ core + (n + i) = core + n + i
    BY <1>1
  <2>2. QED
    BY <1>1, <1>5, <2>1
<1>7. n = 1 => D[1] = <<"destination", "address">>
  <2>1. n = 1 => T[core + 1] = <<"destination", "address">> /\ 1 \in 1..n + m
    BY <1>1 DEF Laid, LaidOut
  <2>2. QED
    BY <1>5, <2>1
<1>8. ASSUME NEW i \in 1..n + m
      PROVE  D[i][1] \notin {"from", "nonce", "data"} /\ (D[i][1] = "destination" <=> i <= n)
  <2>1. CASE i <= n
    <3>1. n = 1 /\ i = 1
      BY <1>1, <2>1
    <3>2. QED
      BY <1>7, <3>1
  <2>2. CASE i > n
    <3>1. i - n \in 1..m /\ n + (i - n) = i
      BY <1>1, <2>2
    <3>2. D[i] \in PlainField
      BY <1>1, <1>6, <3>1
    <3>3. QED
      BY <1>1, <2>2, <3>2 DEF PlainField
  <2>3. QED
    BY <1>1, <2>1, <2>2
<1>9. DOMAIN D = 1..n + m
  BY <1>4 DEF IsList
<1>10. QED
  BY <1>2, <1>4, <1>5, <1>6, <1>7, <1>8, <1>9

\* The value an owner is shown for a field.
ShownValue(destination, name) ==
    IF name = "destination" THEN destination ELSE <<"of", name>>

\* A pair for every field, and of no other; in the order of the type when the type has
\* calldata.
Entry(field, destination, prefixed) ==
    << <<prefixed, field[1]>>, ShownValue(destination, field[1]) >>

Shows(data, shown, core, destination, prefixed) ==
    /\ IsList(data) /\ Len(data) = Len(shown)
    /\ \A i \in 1..Len(shown) : \E k \in 1..Len(shown) :
          data[i] = Entry(shown[k], destination, prefixed)
    /\ \A k \in 1..Len(shown) : \E i \in 1..Len(shown) :
          data[i] = Entry(shown[k], destination, prefixed)
    /\ core = 3 => \A i \in 1..Len(shown) : data[i] = Entry(shown[i], destination, prefixed)

LEMMA RequestDataShows ==
    ASSUME NEW t, NEW core, NEW fields, Laid(t, core, fields),
           NEW destination, NEW backwards, NEW prefixed
    PROVE  Shows(RequestData(t, destination, backwards, prefixed), DataFields(t), core,
                 destination, prefixed)
<1> DEFINE D == DataFields(t)
           n == Len(D)
           turned == backwards /\ ~requiresDataField(t)
           ordered == IF turned THEN Ext!Reverse(D) ELSE D
           data == [i \in DOMAIN ordered |-> Entry(ordered[i], destination, prefixed)]
<1>1. n \in Nat /\ DOMAIN D = 1..n /\ IsList(D)
  BY DataFieldsFacts, LaidFacts
<1>2. requiresDataField(t) <=> core = 3
  BY LaidFacts
<1>3. RequestData(t, destination, backwards, prefixed) = data
  BY DEF RequestData, Entry, ShownValue
<1>4. turned => ordered = [i \in 1..n |-> D[(n - i) + 1]]
  BY DEF Ext!Reverse
<1>5. ~turned => ordered = D
  OBVIOUS
<1>6. DOMAIN ordered = 1..n
  BY <1>1, <1>4, <1>5
<1>7. \A i \in 1..n : \E k \in 1..n : ordered[i] = D[k]
  <2> TAKE i \in 1..n
  <2>1. CASE turned
    <3>1. (n - i) + 1 \in 1..n
      BY <1>1
    <3>2. QED
      BY <1>4, <2>1, <3>1
  <2>2. QED
    BY <1>5, <2>1
<1>8. \A k \in 1..n : \E i \in 1..n : ordered[i] = D[k]
  <2> TAKE k \in 1..n
  <2>1. CASE turned
    <3>1. (n - k) + 1 \in 1..n /\ (n - ((n - k) + 1)) + 1 = k
      BY <1>1
    <3>2. ordered[(n - k) + 1] = D[k]
      BY <1>4, <2>1, <3>1
    <3>3. QED
      BY <3>1, <3>2
  <2>2. QED
    BY <1>5, <2>1
<1>9. core = 3 => ordered = D
  BY <1>2, <1>5
<1> HIDE DEF turned, ordered
<1>10. \A i \in 1..n : data[i] = Entry(ordered[i], destination, prefixed)
  BY <1>6
<1>11. IsList(data) /\ Len(data) = n
  <2>1. data = [i \in 1..n |-> data[i]]
    BY <1>6
  <2> HIDE DEF data, n
  <2>2. QED
    BY <1>1, <2>1, FunctionIsList
<1> HIDE DEF data, n, D
<1>12. Shows(data, D, core, destination, prefixed)
  <2>1. ASSUME NEW i \in 1..n
        PROVE  \E k \in 1..n : data[i] = Entry(D[k], destination, prefixed)
    BY <1>7, <1>10
  <2>2. ASSUME NEW k \in 1..n
        PROVE  \E i \in 1..n : data[i] = Entry(D[k], destination, prefixed)
    BY <1>8, <1>10
  <2>3. core = 3 => \A i \in 1..n : data[i] = Entry(D[i], destination, prefixed)
    BY <1>9, <1>10
  <2>4. QED
    BY <1>11, <2>1, <2>2, <2>3, Zenon DEF Shows, n
<1>13. QED
  BY <1>3, <1>12 DEF D

LEMMA PlainShows ==
    ASSUME NEW data, NEW shown, NEW core, NEW destination, NEW prefixed,
           Shows(data, shown, core, destination, prefixed), NEW mark, mark = FALSE
    PROVE  Shows(_removeUnderscoreFromKeys(data), shown, core, destination, mark)
<1> DEFINE n == Len(shown)
           plain == [i \in DOMAIN data |-> << <<mark, data[i][1][2]>>, data[i][2]>>]
<1>1. IsList(data) /\ n \in Nat /\ DOMAIN data = 1..n
  <2>1. IsList(data) /\ Len(data) = n
    BY DEF Shows
  <2>2. QED
    BY <2>1, ListFacts DEF IsList
<1>2. \A i \in 1..n : plain[i] = << <<mark, data[i][1][2]>>, data[i][2]>>
  BY <1>1
<1>3. \A i \in 1..n : \A field :
          data[i] = Entry(field, destination, prefixed)
            => plain[i] = Entry(field, destination, mark)
  <2> HIDE DEF n, plain
  <2>1. SUFFICES ASSUME NEW i \in 1..n, NEW field,
                        data[i] = Entry(field, destination, prefixed)
                 PROVE  plain[i] = Entry(field, destination, mark)
    OBVIOUS
  <2>2. data[i][1][2] = field[1] /\ data[i][2] = ShownValue(destination, field[1])
    BY <2>1 DEF Entry
  <2>3. QED
    BY <1>2, <2>2 DEF Entry
<1>4. IsList(plain) /\ Len(plain) = n
  <2>1. plain = [i \in 1..n |-> plain[i]]
    BY <1>1
  <2> HIDE DEF plain, n
  <2>2. QED
    BY <1>1, <2>1, FunctionIsList
<1> HIDE DEF plain
<1>5. Shows(plain, shown, core, destination, mark)
  BY <1>3, <1>4 DEF Shows
<1>6. QED
  BY <1>5, Zenon DEF plain, _removeUnderscoreFromKeys

LEMMA ValueShown ==
    ASSUME NEW data, NEW shown, NEW core, NEW destination, NEW prefixed,
           Shows(data, shown, core, destination, prefixed), NEW k \in 1..Len(shown)
    PROVE  ValueOf(data, shown[k][1]) = ShownValue(destination, shown[k][1])
<1> DEFINE name == shown[k][1]
           place == CHOOSE i \in DOMAIN data : data[i][1][2] = name
<1>1. DOMAIN data = 1..Len(shown)
  <2>1. IsList(data) /\ Len(data) = Len(shown)
    BY DEF Shows
  <2>2. QED
    BY <2>1 DEF IsList
<1>2. \E i \in DOMAIN data : data[i][1][2] = name
  <2>1. PICK i \in 1..Len(shown) : data[i] = Entry(shown[k], destination, prefixed)
    BY DEF Shows
  <2>2. data[i][1][2] = name
    BY <2>1 DEF Entry
  <2>3. QED
    BY <1>1, <2>1, <2>2
<1>3. place \in DOMAIN data /\ data[place][1][2] = name
  <2> HIDE DEF name
  <2>1. QED
    BY <1>2
<1> HIDE DEF place
<1>4. PICK j \in 1..Len(shown) : data[place] = Entry(shown[j], destination, prefixed)
  BY <1>1, <1>3 DEF Shows
<1>5. shown[j][1] = name
  BY <1>3, <1>4 DEF Entry
<1>6. data[place][2] = ShownValue(destination, name)
  BY <1>4, <1>5 DEF Entry
<1>7. QED
  BY <1>6 DEF ValueOf, place

LEMMA EntryParts ==
    ASSUME NEW field, NEW destination, NEW prefixed
    PROVE  /\ Entry(field, destination, prefixed)[1] = <<prefixed, field[1]>>
           /\ Entry(field, destination, prefixed)[1][2] = field[1]
           /\ Entry(field, destination, prefixed)[2] = ShownValue(destination, field[1])
BY DEF Entry

\* The arguments of a call: the data without the destination.
Args(data) == Without(data, {i \in DOMAIN data : data[i][1] = <<FALSE, "destination">>})

LEMMA WithoutFirst ==
    ASSUME NEW L, IsList(L), NEW n \in Nat, Len(L) = 1 + n
    PROVE  /\ IsList(Without(L, {1})) /\ Len(Without(L, {1})) = n
           /\ \A i \in 1..n : Without(L, {1})[i] = L[1 + i]
<1> DEFINE front == SubSeq(L, 1, 0)
           back == SubSeq(L, 2, Len(L))
<1>1. Without(L, {1}) = front \o back
  <2>1. (CHOOSE i \in {1} : TRUE) = 1 /\ {1} # {}
    OBVIOUS
  <2>2. Without(L, {1}) = Ext!RemoveAt(L, 1)
    BY <2>1 DEF Without
  <2>3. 1 - 1 = 0 /\ 1 + 1 = 2
    OBVIOUS
  <2>4. Ext!RemoveAt(L, 1) = SubSeq(L, 1, 1 - 1) \o SubSeq(L, 1 + 1, Len(L))
    BY DEF Ext!RemoveAt
  <2>5. QED
    BY <2>2, <2>3, <2>4
<1>2. IsList(front) /\ Len(front) = 0
  <2>1. IsList(front) /\ Len(front) = (0 - 1) + 1
    BY PartOfList
  <2>2. QED
    BY <2>1
<1>3. IsList(back) /\ Len(back) = n /\ \A i \in 1..n : back[i] = L[1 + i]
  <2>1. Len(L) \in Nat /\ (Len(L) - 2) + 1 = n /\ 2 <= Len(L) + 1
    OBVIOUS
  <2>2. /\ IsList(back) /\ Len(back) = (Len(L) - 2) + 1
        /\ \A i \in 1..(Len(L) - 2) + 1 : back[i] = L[(2 + i) - 1]
    BY <2>1, PartOfList
  <2> HIDE DEF back
  <2>3. \A i \in 1..n : (2 + i) - 1 = 1 + i
    OBVIOUS
  <2>4. QED
    BY <2>1, <2>2, <2>3
<1> HIDE DEF front, back
<1>4. /\ IsList(front \o back) /\ Len(front \o back) = Len(front) + Len(back)
      /\ \A i \in 1..Len(back) : (front \o back)[Len(front) + i] = back[i]
  <2>1. IsList(front) /\ IsList(back)
    BY <1>2, <1>3
  <2>2. QED
    BY <2>1, JoinLists
<1>5. Len(front) + Len(back) = n /\ \A i \in 1..n : Len(front) + i = i
  BY <1>2, <1>3
<1>6. QED
  BY <1>1, <1>3, <1>4, <1>5

\* Whether the client finds the destination by its name, if there is one.
Found(t, prefixed) == Destinations(t) = 0 \/ prefixed = FALSE

LEMMA ArgsOfCall ==
    ASSUME NEW t, NEW fields, Laid(t, 3, fields), NEW data, NEW destination, NEW prefixed,
           Shows(data, DataFields(t), 3, destination, prefixed),
           Found(t, prefixed)
    PROVE  /\ IsList(Args(data)) /\ Len(Args(data)) = Len(fields)
           /\ DOMAIN Args(data) = 1..Len(fields)
           /\ \A i \in 1..Len(fields) : Args(data)[i] = Entry(fields[i], destination, prefixed)
<1> DEFINE n == Destinations(t)
           m == Len(fields)
           D == DataFields(t)
           Named(i) == data[i][1] = <<FALSE, "destination">>
           places == {i \in DOMAIN data : Named(i)}
<1>1. /\ n \in {0, 1} /\ m \in Nat /\ m >= 1
      /\ IsList(D) /\ Len(D) = n + m /\ DOMAIN D = 1..n + m
      /\ \A i \in 1..n + m : D[i][1] = "destination" <=> i <= n
      /\ \A i \in 1..m : D[n + i] = fields[i]
  BY LaidFacts, DataFieldsFacts
<1>2. /\ IsList(data) /\ Len(data) = n + m
      /\ \A i \in 1..n + m : data[i] = Entry(D[i], destination, prefixed)
  BY <1>1 DEF Shows
<1>3. DOMAIN data = 1..n + m
  BY <1>2 DEF IsList
<1>4. \A i \in 1..n + m : data[i][1] = <<prefixed, D[i][1]>>
  BY <1>2 DEF Entry
<1>5. \A i \in 1..n + m : Named(i) => i <= n
  BY <1>1, <1>4
<1>6. CASE n = 0
  <2>1. \A i \in 1..n + m : ~Named(i)
    <3> HIDE DEF Named
    <3>1. QED
      BY <1>1, <1>5, <1>6
  <2>2. Args(data) = data
    <3>1. places = {}
      <4> HIDE DEF Named
      <4>1. QED
        BY <1>3, <2>1
    <3>2. QED
      BY <3>1 DEF Args, Without
  <2>3. \A i \in 1..m : n + i = i /\ i \in 1..n + m
    BY <1>1, <1>6
  <2>4. n + m = m
    BY <1>1, <1>6
  <2>5. QED
    BY <1>1, <1>2, <1>3, <2>2, <2>3, <2>4
<1>7. CASE n = 1
  <2>1. prefixed = FALSE
    BY <1>7 DEF Found
  <2>2. Named(1)
    <3>1. 1 \in 1..n + m /\ D[1][1] = "destination"
      BY <1>1, <1>7
    <3>2. data[1][1] = <<prefixed, D[1][1]>>
      BY <1>4, <3>1
    <3>3. QED
      BY <2>1, <3>1, <3>2
  <2>3. 1 \in places /\ \A i \in places : i = 1
    <3> HIDE DEF Named
    <3>1. 1 \in 1..n + m
      BY <1>1, <1>7
    <3>2. \A i \in 1..n + m : Named(i) => i = 1
      BY <1>1, <1>5, <1>7
    <3>3. QED
      BY <1>3, <2>2, <3>1, <3>2
  <2>4. places = {1}
    BY <2>3
  <2>5. Args(data) = Without(data, {1})
    BY <2>4 DEF Args
  <2>6. Len(data) = 1 + m
    BY <1>2, <1>7
  <2>7. /\ IsList(Args(data)) /\ Len(Args(data)) = m
        /\ \A i \in 1..m : Args(data)[i] = data[1 + i]
    <3> HIDE DEF m
    <3>1. QED
      BY <1>1, <1>2, <2>5, <2>6, WithoutFirst
  <2>8. \A i \in 1..m : data[1 + i] = Entry(fields[i], destination, prefixed)
    <3> TAKE i \in 1..m
    <3>1. 1 + i \in 1..n + m /\ n + i = 1 + i
      BY <1>1, <1>7
    <3>2. QED
      BY <1>1, <1>2, <3>1
  <2>9. DOMAIN Args(data) = 1..m
    BY <2>7 DEF IsList
  <2>10. QED
    BY <2>7, <2>8, <2>9
<1>8. QED
  BY <1>1, <1>6, <1>7

\* A prefixed destination is not left out.
LEMMA ArgsTooMany ==
    ASSUME NEW t, NEW fields, Laid(t, 3, fields), NEW data, NEW destination, NEW prefixed,
           Shows(data, DataFields(t), 3, destination, prefixed), ~Found(t, prefixed)
    PROVE  Len(Args(data)) = Len(fields) + 1
<1> DEFINE m == Len(fields)
           Named(i) == data[i][1] = <<FALSE, "destination">>
           places == {i \in DOMAIN data : Named(i)}
<1>1. m \in Nat /\ Destinations(t) = 1 /\ Len(DataFields(t)) = 1 + m
  BY LaidFacts, DataFieldsFacts DEF Found
<1>2. /\ IsList(data) /\ Len(data) = 1 + m
      /\ \A i \in 1..1 + m : data[i] = Entry(DataFields(t)[i], destination, prefixed)
  BY <1>1 DEF Shows
<1>3. DOMAIN data = 1..1 + m
  BY <1>2 DEF IsList
<1>4. ASSUME NEW i \in 1..1 + m PROVE ~Named(i)
  <2>1. data[i][1] = <<prefixed, DataFields(t)[i][1]>>
    BY <1>2, EntryParts
  <2>2. prefixed # FALSE
    BY DEF Found
  <2>3. data[i][1][1] = prefixed
    BY <2>1
  <2>4. Named(i) => data[i][1][1] = FALSE
    OBVIOUS
  <2>5. QED
    BY <2>2, <2>3, <2>4
<1> HIDE DEF Named
<1>5. places = {}
  BY <1>3, <1>4
<1>6. Args(data) = data
  BY <1>5 DEF Args, Without, Named
<1>7. QED
  BY <1>1, <1>2, <1>6

\* The calldata are the function and the values shown for its parameters, and those
\* that the signers were shown.
LEMMA CallDataFacts ==
    ASSUME NEW t, NEW fields, Laid(t, 3, fields), NEW data, NEW destination, NEW prefixed,
           Shows(data, DataFields(t), 3, destination, prefixed), CallDataOf(t, data) # Failed
    PROVE  /\ \E words :
                 /\ CallDataOf(t, data) = <<functionSignature(t), words>>
                 /\ Len(words) = Len(fields)
                 /\ \A i \in 1..Len(fields) : words[i] = <<"word", <<"of", fields[i][1]>> >>
           /\ CallDataOf(t, _removeUnderscoreFromKeys(data)) = CallDataOf(t, data)
<1> DEFINE m == Len(fields)
           function == functionSignature(t)
           T == TypesOf(t)
           plain == _removeUnderscoreFromKeys(data)
           TypeOf(name) == T[CHOOSE i \in DOMAIN T : T[i][1] = name][2]
           Fits(args) == /\ Len(args) = Len(function) - 1
                         /\ \A i \in DOMAIN args : Encodes(TypeOf(args[i][1][2]), function[i + 1])
           Words(args) == [i \in DOMAIN args |-> <<"word", args[i][2]>>]
<1>1. m \in Nat /\ Len(function) = m + 1 /\ Len(function) - 1 = m
  BY LaidFacts DEF Laid, Matches
<1>2. \A list : CallDataOf(t, list) =
          IF Fits(Args(list)) THEN <<function, Words(Args(list))>> ELSE Failed
  BY DEF CallDataOf, encodeContractFunctionCalldata, Args
<1> HIDE DEF Fits, Words, function, T, TypeOf
<1>3. Fits(Args(data)) /\ CallDataOf(t, data) = <<function, Words(Args(data))>>
  BY <1>2
<1>4. Len(Args(data)) = m
  BY <1>1, <1>3 DEF Fits
<1>5. Found(t, prefixed)
  <2> SUFFICES ASSUME ~Found(t, prefixed) PROVE FALSE
    OBVIOUS
  <2>1. Len(Args(data)) = m + 1
    BY ArgsTooMany
  <2> HIDE DEF m
  <2>2. QED
    BY <1>1, <1>4, <2>1
<1>6. /\ DOMAIN Args(data) = 1..m
      /\ \A i \in 1..m : Args(data)[i] = Entry(fields[i], destination, prefixed)
  <2> HIDE DEF m
  <2>1. QED
    BY <1>5, ArgsOfCall DEF m
<1>7. PICK mark : mark = FALSE
  OBVIOUS
<1>8. /\ Len(Args(plain)) = m /\ DOMAIN Args(plain) = 1..m
      /\ \A i \in 1..m : Args(plain)[i] = Entry(fields[i], destination, mark)
  <2>1. Shows(plain, DataFields(t), 3, destination, mark)
    BY <1>7, PlainShows
  <2>2. Found(t, mark)
    BY <1>7 DEF Found
  <2> HIDE DEF plain
  <2>3. QED
    BY <2>1, <2>2, ArgsOfCall
<1> HIDE DEF plain
<1>9. ASSUME NEW i \in 1..m
      PROVE  /\ Args(plain)[i][1][2] = Args(data)[i][1][2]
             /\ Args(plain)[i][2] = Args(data)[i][2]
  BY <1>6, <1>8, EntryParts
<1>10. Fits(Args(plain))
  BY <1>1, <1>3, <1>6, <1>8, <1>9 DEF Fits
<1>11. Words(Args(plain)) = Words(Args(data))
  BY <1>6, <1>8, <1>9 DEF Words
<1>12. CallDataOf(t, plain) = CallDataOf(t, data)
  BY <1>2, <1>3, <1>10, <1>11
<1>13. \A i \in 1..m : Args(data)[i][2] = <<"of", fields[i][1]>>
  <2> TAKE i \in 1..m
  <2>1. fields[i] \in PlainField
    BY LaidFacts
  <2>2. fields[i][1] # "destination"
    BY <2>1 DEF PlainField
  <2>3. QED
    BY <1>6, <2>2 DEF Entry, ShownValue
<1>14. Words(Args(data)) = [i \in 1..m |-> <<"word", <<"of", fields[i][1]>> >>]
  BY <1>6, <1>13 DEF Words
<1>15. Len(Words(Args(data))) = m
  <2> DEFINE words == [i \in 1..m |-> <<"word", <<"of", fields[i][1]>> >>]
  <2>1. words = [i \in 1..m |-> words[i]]
    OBVIOUS
  <2> HIDE DEF words, m
  <2>2. Len(words) = m
    BY <1>1, <2>1, FunctionIsList
  <2>3. QED
    BY <1>14, <2>2 DEF words
<1>16. QED
  BY <1>3, <1>12, <1>14, <1>15 DEF plain, function

-----------------------------------------------------------------------------
(* What is signed, and what is relayed. *)

LEMMA EncodedLayout ==
    ASSUME NEW t, IsList(TypesOf(t)), NEW value
    PROVE  /\ IsList(encodeData(t, value)) /\ Len(encodeData(t, value)) = 1 + Len(TypesOf(t))
           /\ encodeData(t, value)[1] = eip712TypeHash(t)
           /\ \A i \in 1..Len(TypesOf(t)) :
                 encodeData(t, value)[1 + i]
                    = EncodedField(TypesOf(t)[i], value[TypesOf(t)[i][1]])
<1> DEFINE T == TypesOf(t)
           n == Len(T)
           front == <<eip712TypeHash(t)>>
           back == [i \in DOMAIN T |-> EncodedField(T[i], value[T[i][1]])]
<1>1. DOMAIN T = 1..n /\ n \in Nat
  BY ListFacts DEF IsList
<1>2. IsList(back) /\ Len(back) = n
  <2>1. back = [i \in 1..n |-> back[i]]
    BY <1>1
  <2> HIDE DEF back, n
  <2>2. QED
    BY <1>1, <2>1, FunctionIsList
<1>3. \A i \in 1..n : back[i] = EncodedField(T[i], value[T[i][1]])
  BY <1>1
<1>4. IsList(front) /\ Len(front) = 1 /\ front[1] = eip712TypeHash(t)
  <2>1. front \in Seq({eip712TypeHash(t)})
    OBVIOUS
  <2>2. QED
    BY <2>1 DEF IsList
<1>5. encodeData(t, value) = front \o back
  BY DEF encodeData
<1> HIDE DEF front, back
<1>6. /\ IsList(front \o back) /\ Len(front \o back) = Len(front) + Len(back)
      /\ \A i \in 1..Len(front) : (front \o back)[i] = front[i]
      /\ \A i \in 1..Len(back) : (front \o back)[Len(front) + i] = back[i]
  <2>1. IsList(front) /\ IsList(back)
    BY <1>2, <1>4
  <2>2. QED
    BY <2>1, JoinLists
<1> HIDE DEF n, T
<1>7. /\ IsList(encodeData(t, value)) /\ Len(encodeData(t, value)) = 1 + n
      /\ encodeData(t, value)[1] = eip712TypeHash(t)
      /\ \A i \in 1..n : encodeData(t, value)[1 + i] = EncodedField(T[i], value[T[i][1]])
  BY <1>2, <1>3, <1>4, <1>5, <1>6
<1>8. QED
  BY <1>7 DEF n, T

\* A field, encoded with the value its signer is shown.
ShownWord(field, destination) == EncodedField(field, ShownValue(destination, field[1]))

LEMMA MessageFacts ==
    ASSUME NEW t, NEW core, NEW fields, Laid(t, core, fields), NEW nonce, NEW data,
           NEW destination, NEW prefixed,
           Shows(data, DataFields(t), core, destination, prefixed)
    PROVE  /\ IsList(build(t, nonce, data))
           /\ Len(build(t, nonce, data)) = 1 + core + Len(DataFields(t))
           /\ build(t, nonce, data)[1] = eip712TypeHash(t)
           /\ build(t, nonce, data)[2] = <<"word", Wallet>>
           /\ build(t, nonce, data)[3] = <<"word", nonce>>
           /\ core = 3 => build(t, nonce, data)[4]
                            = <<"hash", CallDataOf(t, _removeUnderscoreFromKeys(data))>>
           /\ \A i \in 1..Len(DataFields(t)) :
                 build(t, nonce, data)[1 + core + i] = ShownWord(DataFields(t)[i], destination)
<1> DEFINE T == TypesOf(t)
           D == DataFields(t)
           d == Len(D)
           plain == _removeUnderscoreFromKeys(data)
           value == [name \in FieldNames(t) |->
                       CASE name = "from" -> Wallet
                         [] name = "nonce" -> nonce
                         [] name = "data" -> CallDataOf(t, plain)
                         [] OTHER -> ValueOf(plain, name)]
           M == encodeData(t, value)
<1>1. build(t, nonce, data) = M
  BY DEF build
<1>2. /\ core \in {2, 3} /\ IsList(T) /\ DOMAIN T = 1..Len(T) /\ d \in Nat
      /\ Len(T) = core + d
      /\ \A i \in 1..d : D[i] = T[core + i] /\ D[i][1] \notin {"from", "nonce", "data"}
      /\ T[1] = <<"from", "address">> /\ T[2] = <<"nonce", "uint256">>
      /\ core = 3 => T[3] = <<"data", "bytes">>
  <2>1. /\ core \in {2, 3} /\ Destinations(t) \in {0, 1} /\ Len(fields) \in Nat
        /\ IsList(T) /\ DOMAIN T = 1..Len(T) /\ Len(T) = core + Destinations(t) + Len(fields)
    BY LaidFacts
  <2>2. /\ d = Destinations(t) + Len(fields)
        /\ \A i \in 1..Destinations(t) + Len(fields) :
              D[i] = T[core + i] /\ D[i][1] \notin {"from", "nonce", "data"}
    BY DataFieldsFacts
  <2>3. /\ T[1] = <<"from", "address">> /\ T[2] = <<"nonce", "uint256">>
        /\ core = 3 => T[3] = <<"data", "bytes">>
    BY DEF Laid, LaidOut
  <2> HIDE DEF d
  <2>4. QED
    BY <2>1, <2>2, <2>3
<1>3. \A i \in 1..Len(T) : T[i][1] \in FieldNames(t)
  BY <1>2 DEF FieldNames
<1>4. /\ "from" \in FieldNames(t) => value["from"] = Wallet
      /\ "nonce" \in FieldNames(t) => value["nonce"] = nonce
      /\ "data" \in FieldNames(t) => value["data"] = CallDataOf(t, plain)
      /\ \A name \in FieldNames(t) :
            name \notin {"from", "nonce", "data"} => value[name] = ValueOf(plain, name)
  <2> HIDE DEF plain
  <2>1. QED
    OBVIOUS
<1>5. PICK mark : mark = FALSE
  OBVIOUS
<1>6. Shows(plain, D, core, destination, mark)
  BY <1>5, PlainShows
<1> HIDE DEF value, plain
<1>7. \A i \in 1..d : ValueOf(plain, D[i][1]) = ShownValue(destination, D[i][1])
  BY <1>6, ValueShown
<1>8. /\ IsList(M) /\ Len(M) = 1 + Len(T) /\ M[1] = eip712TypeHash(t)
      /\ \A i \in 1..Len(T) : M[1 + i] = EncodedField(T[i], value[T[i][1]])
  BY <1>2, EncodedLayout
<1> HIDE DEF M, T, D, d
<1>9. M[2] = <<"word", Wallet>>
  <2>1. 1 \in 1..Len(T) /\ 1 + 1 = 2 /\ T[1] = <<"from", "address">>
    BY <1>2
  <2>2. T[1][1] = "from" /\ T[1][1] \in FieldNames(t)
    BY <1>3, <2>1
  <2>3. value["from"] = Wallet
    BY <1>4, <2>2
  <2>4. M[2] = EncodedField(T[1], value["from"])
    BY <1>8, <2>1, <2>2
  <2>5. QED
    BY <2>1, <2>3, <2>4 DEF EncodedField, isDynamicArrayType
<1>10. M[3] = <<"word", nonce>>
  <2>1. 2 \in 1..Len(T) /\ 1 + 2 = 3 /\ T[2] = <<"nonce", "uint256">>
    BY <1>2
  <2>2. T[2][1] = "nonce" /\ T[2][1] \in FieldNames(t)
    BY <1>3, <2>1
  <2>3. value["nonce"] = nonce
    BY <1>4, <2>2
  <2>4. M[3] = EncodedField(T[2], value["nonce"])
    BY <1>8, <2>1, <2>2
  <2>5. QED
    BY <2>1, <2>3, <2>4 DEF EncodedField, isDynamicArrayType
<1>11. core = 3 => M[4] = <<"hash", CallDataOf(t, plain)>>
  <2> SUFFICES ASSUME core = 3 PROVE M[4] = <<"hash", CallDataOf(t, plain)>>
    OBVIOUS
  <2>1. 3 \in 1..Len(T) /\ 1 + 3 = 4 /\ T[3] = <<"data", "bytes">>
    BY <1>2
  <2>2. T[3][1] = "data" /\ T[3][1] \in FieldNames(t)
    BY <1>3, <2>1
  <2>3. value["data"] = CallDataOf(t, plain)
    BY <1>4, <2>2
  <2>4. M[4] = EncodedField(T[3], value["data"])
    BY <1>8, <2>1, <2>2
  <2>5. QED
    BY <2>1, <2>3, <2>4 DEF EncodedField, isDynamicArrayType
<1>12. \A i \in 1..d : M[1 + core + i] = ShownWord(D[i], destination)
  <2> TAKE i \in 1..d
  <2>1. core + i \in 1..Len(T) /\ 1 + (core + i) = 1 + core + i
    BY <1>2
  <2>2. M[1 + core + i] = EncodedField(T[core + i], value[T[core + i][1]])
    BY <1>8, <2>1
  <2>3. D[i] = T[core + i] /\ D[i][1] \in FieldNames(t)
    BY <1>2, <1>3, <2>1
  <2>4. value[D[i][1]] = ShownValue(destination, D[i][1])
    BY <1>2, <1>4, <1>7, <2>3
  <2>5. QED
    BY <2>2, <2>3, <2>4 DEF ShownWord
<1>13. Len(M) = 1 + core + d
  BY <1>2, <1>8
<1>14. QED
  BY <1>1, <1>8, <1>9, <1>10, <1>11, <1>12, <1>13 DEF plain, D, d

LEMMA SuffixFacts ==
    ASSUME NEW t, NEW core, NEW fields, Laid(t, core, fields), NEW data,
           NEW destination, NEW prefixed,
           Shows(data, DataFields(t), core, destination, prefixed)
    PROVE  /\ IsList(encodeSuffixData(t, data))
           /\ Len(encodeSuffixData(t, data)) = Len(DataFields(t))
           /\ \A i \in 1..Len(DataFields(t)) :
                 encodeSuffixData(t, data)[i] = ShownWord(DataFields(t)[i], destination)
<1> DEFINE T == TypesOf(t)
           D == DataFields(t)
           d == Len(D)
           plain == _removeUnderscoreFromKeys(data)
           value == [name \in FieldNames(t) |->
                       IF name \in {"from", "nonce", "data"} THEN "dummy"
                       ELSE ValueOf(plain, name)]
           M == encodeData(t, value)
           first == core + 2
           suffix == SubSeq(M, first, Len(T) + 1)
<1>1. /\ core \in {2, 3} /\ IsList(T) /\ DOMAIN T = 1..Len(T) /\ d \in Nat
      /\ Len(T) = core + d
      /\ \A i \in 1..d : D[i] = T[core + i] /\ D[i][1] \notin {"from", "nonce", "data"}
      /\ requiresDataField(t) <=> core = 3
  <2>1. /\ core \in {2, 3} /\ Destinations(t) \in {0, 1} /\ Len(fields) \in Nat
        /\ IsList(T) /\ DOMAIN T = 1..Len(T) /\ Len(T) = core + Destinations(t) + Len(fields)
        /\ requiresDataField(t) <=> core = 3
    BY LaidFacts
  <2>2. /\ d = Destinations(t) + Len(fields)
        /\ \A i \in 1..Destinations(t) + Len(fields) :
              D[i] = T[core + i] /\ D[i][1] \notin {"from", "nonce", "data"}
    BY DataFieldsFacts
  <2> HIDE DEF d
  <2>3. QED
    BY <2>1, <2>2
<1>2. encodeSuffixData(t, data) = suffix
  <2>1. (IF requiresDataField(t) THEN 4 ELSE 3) + 1 = core + 2
    BY <1>1
  <2>2. encodeSuffixData(t, data)
          = SubSeq(M, (IF requiresDataField(t) THEN 4 ELSE 3) + 1, Len(T) + 1)
    BY DEF encodeSuffixData
  <2> HIDE DEF M
  <2>3. QED
    BY <2>1, <2>2
<1>3. PICK mark : mark = FALSE
  OBVIOUS
<1>4. Shows(plain, D, core, destination, mark)
  BY <1>3, PlainShows
<1> HIDE DEF plain
<1>5. \A name \in FieldNames(t) :
          name \notin {"from", "nonce", "data"} => value[name] = ValueOf(plain, name)
  OBVIOUS
<1> HIDE DEF value
<1>6. \A i \in 1..d : ValueOf(plain, D[i][1]) = ShownValue(destination, D[i][1])
  BY <1>4, ValueShown
<1>7. /\ IsList(M) /\ Len(M) = 1 + Len(T)
      /\ \A i \in 1..Len(T) : M[1 + i] = EncodedField(T[i], value[T[i][1]])
  BY <1>1, EncodedLayout
<1> HIDE DEF M
<1>8. /\ first \in Nat /\ Len(T) + 1 \in Nat /\ 1 <= first /\ Len(T) + 1 <= Len(M)
      /\ first <= (Len(T) + 1) + 1 /\ ((Len(T) + 1) - first) + 1 = d
  BY <1>1, <1>7
<1> HIDE DEF first
<1>9. /\ IsList(suffix) /\ Len(suffix) = ((Len(T) + 1) - first) + 1
      /\ \A i \in 1..((Len(T) + 1) - first) + 1 : suffix[i] = M[(first + i) - 1]
  <2>1. IsList(M)
    BY <1>7
  <2> HIDE DEF T
  <2>2. QED
    BY <1>8, <2>1, PartOfList
<1> HIDE DEF suffix, T, D, d
<1>10. \A i \in 1..d : suffix[i] = ShownWord(D[i], destination)
  <2> TAKE i \in 1..d
  <2>1. core + i \in 1..Len(T) /\ (first + i) - 1 = 1 + (core + i)
    BY <1>1 DEF first
  <2>2. suffix[i] = EncodedField(T[core + i], value[T[core + i][1]])
    BY <1>7, <1>8, <1>9, <2>1
  <2>3. D[i] = T[core + i] /\ D[i][1] \in FieldNames(t)
    BY <1>1, <2>1 DEF FieldNames, T
  <2>4. value[D[i][1]] = ShownValue(destination, D[i][1])
    BY <1>1, <1>5, <1>6, <2>3
  <2>5. QED
    BY <2>2, <2>3, <2>4 DEF ShownWord
<1>11. QED
  BY <1>2, <1>8, <1>9, <1>10 DEF D, d

-----------------------------------------------------------------------------
(* The order of the signatures. *)

\* The first m of the places of s in the order of their numbers.
SortedPrefix(p, s, n, m) ==
    /\ p \in [1..m -> 1..n]
    /\ \A i, j \in 1..m : i < j => p[i] # p[j] /\ s[p[i]] <= s[p[j]]
    /\ \A i \in 1..m, k \in 1..n : (\A j \in 1..m : p[j] # k) => s[p[i]] <= s[k]

\* There is a place that is not among fewer of them.
LEMMA PlaceLeft ==
    ASSUME NEW n \in Nat, NEW m \in Nat, m < n, NEW p \in [1..m -> 1..n]
    PROVE  \E k \in 1..n : \A j \in 1..m : p[j] # k
<1> SUFFICES ASSUME \A k \in 1..n : \E j \in 1..m : p[j] = k PROVE FALSE
  OBVIOUS
<1> DEFINE f == [k \in 1..n |-> CHOOSE j \in 1..m : p[j] = k]
<1>1. \A k \in 1..n : f[k] \in 1..m /\ p[f[k]] = k
  OBVIOUS
<1>2. f \in [1..n -> 1..m]
  BY <1>1
<1>3. /\ IsFiniteSet(1..n) /\ IsFiniteSet(1..m)
      /\ Cardinality(1..m) < Cardinality(1..n)
  BY FS_Interval
<1> HIDE DEF f
<1>4. PICK x, y \in 1..n : x # y /\ f[x] = f[y]
  <2> DEFINE All == 1..n
             Few == 1..m
  <2>1. /\ f \in [All -> Few] /\ IsFiniteSet(All) /\ IsFiniteSet(Few)
        /\ Cardinality(Few) < Cardinality(All)
    BY <1>2, <1>3
  <2> HIDE DEF All, Few
  <2>2. \E x, y \in All : x # y /\ f[x] = f[y]
    BY <2>1, FS_PigeonHole
  <2>3. QED
    BY <2>2 DEF All
<1>5. QED
  BY <1>1, <1>4

LEMMA PrefixGrows ==
    ASSUME NEW n \in Nat, NEW s, \A k \in 1..n : s[k] \in Nat, NEW m \in Nat, m < n,
           NEW p, SortedPrefix(p, s, n, m)
    PROVE  \E q : SortedPrefix(q, s, n, m + 1)
<1> DEFINE Left == {k \in 1..n : \A j \in 1..m : p[j] # k}
           Values == {s[k] : k \in Left}
<1>1. p \in [1..m -> 1..n]
  BY DEF SortedPrefix
<1>2. Left # {} /\ Values \in SUBSET Nat /\ Values # {}
  <2>1. \E k \in 1..n : \A j \in 1..m : p[j] # k
    BY <1>1, PlaceLeft
  <2>2. QED
    BY <2>1
<1>3. PICK least \in Values : \A v \in Values : least <= v
  BY <1>2, LeastNatural
<1>4. PICK next \in Left : least = s[next]
  BY <1>3
<1>5. \A k \in 1..n : (\A j \in 1..m : p[j] # k) => s[next] <= s[k]
  BY <1>3, <1>4
<1>6. next \in 1..n /\ \A j \in 1..m : p[j] # next
  BY <1>4
<1> HIDE DEF Left, Values
<1> DEFINE q == [i \in 1..m + 1 |-> IF i = m + 1 THEN next ELSE p[i]]
<1>7. /\ q \in [1..m + 1 -> 1..n] /\ q[m + 1] = next
      /\ \A i \in 1..m : q[i] = p[i] /\ i \in 1..m + 1
  BY <1>1, <1>6
<1> HIDE DEF q
<1>8. \A i \in 1..m : s[p[i]] <= s[next]
  BY <1>6 DEF SortedPrefix
<1>9. ASSUME NEW i \in 1..m + 1, NEW j \in 1..m + 1, i < j
      PROVE  q[i] # q[j] /\ s[q[i]] <= s[q[j]]
  <2>1. i \in 1..m
    BY <1>9
  <2>2. CASE j = m + 1
    BY <1>6, <1>7, <1>8, <2>1, <2>2
  <2>3. CASE j # m + 1
    <3>1. j \in 1..m
      BY <2>3
    <3>2. QED
      BY <1>7, <1>9, <2>1, <3>1 DEF SortedPrefix
  <2>4. QED
    BY <2>2, <2>3
<1>10. ASSUME NEW i \in 1..m + 1, NEW k \in 1..n, \A j \in 1..m + 1 : q[j] # k
       PROVE  s[q[i]] <= s[k]
  <2>1. \A j \in 1..m : p[j] # k
    BY <1>7, <1>10
  <2>2. CASE i = m + 1
    BY <1>5, <1>7, <2>1, <2>2
  <2>3. CASE i # m + 1
    <3>1. i \in 1..m
      BY <2>3
    <3>2. QED
      BY <1>7, <2>1, <3>1 DEF SortedPrefix
  <2>4. QED
    BY <2>2, <2>3
<1>11. SortedPrefix(q, s, n, m + 1)
  BY <1>7, <1>9, <1>10 DEF SortedPrefix
<1>12. QED
  BY <1>11

LEMMA SortExists ==
    ASSUME NEW n \in Nat, NEW s, \A k \in 1..n : s[k] \in Nat
    PROVE  \E p \in [1..n -> 1..n] :
               \A i, j \in 1..n : i < j => p[i] # p[j] /\ s[p[i]] <= s[p[j]]
<1> DEFINE Short == {m \in 0..n : ~\E p : SortedPrefix(p, s, n, m)}
<1>1. Short = {}
  <2>1. SUFFICES ASSUME Short # {} PROVE FALSE
    OBVIOUS
  <2>2. Short \in SUBSET Nat
    OBVIOUS
  <2>3. PICK m \in Short : \A k \in Short : m <= k
    BY <2>1, <2>2, LeastNatural
  <2>4. m # 0
    <3>1. SortedPrefix([i \in 1..0 |-> 1], s, n, 0)
      BY DEF SortedPrefix
    <3>2. QED
      BY <2>3, <3>1
  <2>5. m - 1 \in Nat /\ m - 1 < n /\ m - 1 \notin Short /\ m = (m - 1) + 1
    BY <2>3, <2>4
  <2>6. PICK p : SortedPrefix(p, s, n, m - 1)
    BY <2>5
  <2>7. \E q : SortedPrefix(q, s, n, (m - 1) + 1)
    <3> HIDE DEF Short
    <3>1. QED
      BY <2>5, <2>6, PrefixGrows
  <2>8. \E q : SortedPrefix(q, s, n, m)
    BY <2>5, <2>7
  <2>9. QED
    BY <2>3, <2>8
<1>2. \E p : SortedPrefix(p, s, n, n)
  BY <1>1
<1>3. QED
  BY <1>2 DEF SortedPrefix

\* Signatures of one message by different accounts, in ascending order.
SignedBy(signatures, message) ==
    /\ IsList(signatures)
    /\ \A i \in 1..Len(signatures) :
          /\ signatures[i].hash = message
          /\ signatures[i].by \in Nat /\ signatures[i].by > 0
    /\ \A i, j \in 1..Len(signatures) : i < j => signatures[i].by < signatures[j].by

LEMMA SignaturesAscend ==
    ASSUME NEW n \in Nat, NEW signers \in [1..n -> Owner],
           \A i, j \in 1..n : i # j => signers[i] # signers[j], NEW message
    PROVE  SignedBy(signTypedData(message, signers), message)
<1> DEFINE Order(p) == \A i, j \in DOMAIN signers :
                           i < j => p[i] # p[j] /\ signers[p[i]] <= signers[p[j]]
           order == CHOOSE p \in [DOMAIN signers -> DOMAIN signers] : Order(p)
           signatures == [i \in 1..n |-> [by |-> signers[order[i]], hash |-> message]]
<1>1. DOMAIN signers = 1..n /\ \A i \in 1..n : signers[i] \in Nat /\ signers[i] > 0
  <2>1. \A o \in Owner : o \in Nat /\ o > 0
    BY ClientAssumption
  <2>2. QED
    BY <2>1
<1>2. \E p \in [DOMAIN signers -> DOMAIN signers] : Order(p)
  BY <1>1, SortExists
<1>3. order \in [DOMAIN signers -> DOMAIN signers] /\ Order(order)
  <2> HIDE DEF Order
  <2>1. QED
    BY <1>2
<1>4. signTypedData(message, signers) = signatures
  BY <1>1 DEF signTypedData
<1> HIDE DEF order
<1>5. /\ \A i \in 1..n : order[i] \in 1..n
      /\ \A i, j \in 1..n :
            i < j => order[i] # order[j] /\ signers[order[i]] <= signers[order[j]]
  BY <1>1, <1>3
<1>6. signatures \in Seq([by : Owner, hash : {message}]) /\ Len(signatures) = n
  BY <1>5
<1>7. /\ IsList(signatures)
      /\ \A i \in 1..n : /\ signatures[i].hash = message
                         /\ signatures[i].by = signers[order[i]]
  BY <1>6 DEF IsList
<1> HIDE DEF signatures
<1>8. \A i, j \in 1..n : i < j => signatures[i].by < signatures[j].by
  <2> SUFFICES ASSUME NEW i \in 1..n, NEW j \in 1..n, i < j
               PROVE  signers[order[i]] < signers[order[j]]
    BY <1>7
  <2>1. signers[order[i]] # signers[order[j]] /\ signers[order[i]] <= signers[order[j]]
    BY <1>5
  <2>2. signers[order[i]] \in Nat /\ signers[order[j]] \in Nat
    BY <1>1, <1>5
  <2>3. QED
    BY <2>1, <2>2
<1>9. \A i \in 1..n : signatures[i].by \in Nat /\ signatures[i].by > 0
  BY <1>1, <1>5, <1>7
<1>10. SignedBy(signatures, message)
  BY <1>6, <1>7, <1>8, <1>9 DEF SignedBy
<1>11. QED
  BY <1>4, <1>10

\* Such signatures, enough and by present owners, pass the check of the forwarder.
LEMMA SignedIsValid ==
    ASSUME NEW signatures, NEW message, SignedBy(signatures, message),
           threshold \in Nat, Len(signatures) >= threshold,
           \A i \in DOMAIN signatures : signatures[i].by \in owners
    PROVE  isValidSignatureSet(message, signatures)
<1> DEFINE Signer(j) == IF j = 0 THEN 0 ELSE Recovered(signatures[j], message)
<1>1. Len(signatures) \in Nat /\ DOMAIN signatures = 1..Len(signatures)
  BY DEF SignedBy, IsList
<1>2. ASSUME NEW i \in 1..threshold
      PROVE  Signer(i) > Signer(i - 1) /\ Signer(i) \in owners
  <2>1. i \in 1..Len(signatures) /\ i # 0
    BY <1>1
  <2>2. Signer(i) = signatures[i].by
    BY <2>1 DEF SignedBy, Recovered
  <2>3. CASE i = 1
    <3>1. Signer(i - 1) = 0
      BY <2>3
    <3> HIDE DEF Signer
    <3>2. QED
      BY <1>1, <2>1, <2>2, <3>1 DEF SignedBy
  <2>4. CASE i # 1
    <3>1. i - 1 \in 1..Len(signatures) /\ i - 1 # 0 /\ i - 1 < i
      BY <1>1, <2>1, <2>4
    <3>2. Signer(i - 1) = signatures[i - 1].by
      BY <3>1 DEF SignedBy, Recovered
    <3> HIDE DEF Signer
    <3>3. signatures[i - 1].by < signatures[i].by
      BY <2>1, <3>1 DEF SignedBy
    <3>4. signatures[i - 1].by \in Nat /\ signatures[i].by \in Nat
      BY <2>1, <3>1 DEF SignedBy
    <3>5. QED
      BY <1>1, <2>1, <2>2, <3>2, <3>3, <3>4
  <2>5. QED
    BY <2>3, <2>4
<1>3. QED
  BY <1>2 DEF isValidSignatureSet

\* The type hash of the forwarder is that of the client.
LEMMA HashesAgree ==
    ASSUME NEW t \in MetaTxRequestType
    PROVE  registeredTypeHash(t, suffixType(t)) = eip712TypeHash(t)
<1> DEFINE T == TypesOf(t)
           suffix == SubSeq(T, 3, Len(T))
           whole == GenericParamTypes \o suffix
<1>1. PICK core, fields : Laid(t, core, fields)
  BY TypeLayout
<1>2. /\ IsList(T) /\ Len(T) \in Nat /\ Len(T) >= 3
      /\ T[1] = <<"from", "address">> /\ T[2] = <<"nonce", "uint256">>
  <2>1. /\ core \in {2, 3} /\ Destinations(t) \in {0, 1} /\ Len(fields) \in Nat
        /\ Len(fields) >= 1 /\ IsList(T) /\ Len(T) = core + Destinations(t) + Len(fields)
    BY <1>1, LaidFacts
  <2>2. T[1] = <<"from", "address">> /\ T[2] = <<"nonce", "uint256">>
    BY <1>1 DEF Laid, LaidOut
  <2>3. QED
    BY <2>1, <2>2
<1>3. /\ IsList(GenericParamTypes) /\ Len(GenericParamTypes) = 2
      /\ GenericParamTypes[1] = <<"from", "address">>
      /\ GenericParamTypes[2] = <<"nonce", "uint256">>
  <2>1. GenericParamTypes \in Seq({<<"from", "address">>, <<"nonce", "uint256">>})
    BY DEF GenericParamTypes
  <2>2. QED
    BY <2>1 DEF IsList, GenericParamTypes
<1>4. suffixType(t) = suffix
  <2>1. Len(GenericParamTypes) + 1 = 3
    BY <1>3
  <2>2. suffixType(t) = SubSeq(T, Len(GenericParamTypes) + 1, Len(T))
    BY DEF suffixType
  <2>3. QED
    BY <2>1, <2>2
<1> HIDE DEF T
<1>5. /\ IsList(suffix) /\ Len(suffix) = (Len(T) - 3) + 1
      /\ \A i \in 1..(Len(T) - 3) + 1 : suffix[i] = T[(3 + i) - 1]
  <2>1. IsList(T) /\ 3 \in Nat /\ Len(T) \in Nat /\ 1 <= 3 /\ Len(T) <= Len(T)
        /\ 3 <= Len(T) + 1
    BY <1>2
  <2>2. QED
    BY <2>1, PartOfList
<1> HIDE DEF suffix
<1>6. /\ IsList(whole) /\ Len(whole) = Len(GenericParamTypes) + Len(suffix)
      /\ \A i \in 1..Len(GenericParamTypes) : whole[i] = GenericParamTypes[i]
      /\ \A i \in 1..Len(suffix) : whole[Len(GenericParamTypes) + i] = suffix[i]
  <2>1. IsList(GenericParamTypes) /\ IsList(suffix)
    BY <1>3, <1>5
  <2>2. QED
    BY <2>1, JoinLists
<1> HIDE DEF whole
<1>7. ASSUME NEW i \in 1..Len(T) PROVE whole[i] = T[i]
  <2>1. CASE i \in {1, 2}
    BY <1>2, <1>3, <1>6, <2>1
  <2>2. CASE i \notin {1, 2}
    <3>1. i - 2 \in 1..Len(suffix) /\ 2 + (i - 2) = i /\ (3 + (i - 2)) - 1 = i
          /\ i - 2 \in 1..(Len(T) - 3) + 1
      BY <1>2, <1>5, <2>2
    <3>2. whole[i] = suffix[i - 2]
      BY <1>3, <1>6, <3>1
    <3>3. suffix[i - 2] = T[i]
      BY <1>5, <3>1
    <3>4. QED
      BY <3>2, <3>3
  <2>3. QED
    BY <2>1, <2>2
<1>8. Len(whole) = Len(T)
  BY <1>2, <1>3, <1>5, <1>6
<1>9. whole = T
  BY <1>2, <1>6, <1>7, <1>8, SameLists
<1>10. QED
  BY <1>4, <1>9 DEF registeredTypeHash, eip712TypeHash, whole, T

\* The hash that the forwarder builds from what is relayed is the message that was
\* signed.
LEMMA RebuiltHash ==
    ASSUME NEW t, NEW core, NEW fields, Laid(t, core, fields), NEW nonce, NEW data,
           NEW destination, NEW prefixed,
           Shows(data, DataFields(t), core, destination, prefixed),
           encodeExecuteTransactionProps(t, nonce, data).callData # Failed
    PROVE  encodeRequest(encodeExecuteTransactionProps(t, nonce, data)) = build(t, nonce, data)
<1> DEFINE d == Len(DataFields(t))
           M == build(t, nonce, data)
           suffix == encodeSuffixData(t, data)
           callData == IF requiresDataField(t) THEN CallDataOf(t, data) ELSE << >>
           head == <<eip712TypeHash(t), <<"word", Wallet>>, <<"word", nonce>> >>
           calls == IF callData = << >> THEN << >> ELSE << <<"hash", callData>> >>
           front == head \o calls
           whole == front \o suffix
<1>1. encodeRequest(encodeExecuteTransactionProps(t, nonce, data)) = whole
  BY DEF encodeRequest, encodeExecuteTransactionProps
<1>2. callData # Failed
  BY DEF encodeExecuteTransactionProps
<1>3. /\ core \in {2, 3} /\ d \in Nat
      /\ requiresDataField(t) <=> core = 3
  <2>1. IsList(DataFields(t))
    BY DataFieldsFacts
  <2>2. QED
    BY <2>1, LaidFacts, ListFacts
<1>4. /\ IsList(M) /\ Len(M) = 1 + core + d
      /\ M[1] = eip712TypeHash(t) /\ M[2] = <<"word", Wallet>> /\ M[3] = <<"word", nonce>>
      /\ core = 3 => M[4] = <<"hash", CallDataOf(t, _removeUnderscoreFromKeys(data))>>
      /\ \A i \in 1..d : M[1 + core + i] = ShownWord(DataFields(t)[i], destination)
  BY MessageFacts
<1>5. /\ IsList(suffix) /\ Len(suffix) = d
      /\ \A i \in 1..d : suffix[i] = ShownWord(DataFields(t)[i], destination)
  BY SuffixFacts
<1>6. IsList(head) /\ Len(head) = 3
      /\ head[1] = M[1] /\ head[2] = M[2] /\ head[3] = M[3]
  <2>1. head \in Seq({eip712TypeHash(t), <<"word", Wallet>>, <<"word", nonce>>})
    OBVIOUS
  <2> HIDE DEF M
  <2>2. QED
    BY <1>4, <2>1 DEF IsList
<1>7. IsList(calls) /\ Len(calls) = core - 2 /\ (core = 3 => calls[1] = M[4])
  <2>1. IsList(<< >>) /\ IsList(<< <<"hash", callData>> >>)
    <3>1. << <<"hash", callData>> >> \in Seq({<<"hash", callData>>})
      OBVIOUS
    <3>2. QED
      BY <3>1, ListFacts DEF IsList
  <2>2. CASE core = 2
    <3>1. callData = << >>
      BY <1>3, <2>2
    <3>2. calls = << >>
      BY <3>1
    <3>3. QED
      BY <2>1, <2>2, <3>2
  <2>3. CASE core = 3
    <3>1. callData = CallDataOf(t, data)
      BY <1>3, <2>3
    <3>2. /\ \E words : CallDataOf(t, data) = <<functionSignature(t), words>>
          /\ CallDataOf(t, _removeUnderscoreFromKeys(data)) = CallDataOf(t, data)
      <4>1. CallDataOf(t, data) # Failed
        BY <1>2, <3>1
      <4>2. Laid(t, 3, fields) /\ Shows(data, DataFields(t), 3, destination, prefixed)
        BY <2>3
      <4>3. QED
        BY <4>1, <4>2, CallDataFacts
    <3>3. callData # << >>
      <4>1. PICK words : callData = <<functionSignature(t), words>>
        BY <3>1, <3>2
      <4> HIDE DEF callData
      <4>2. QED
        BY <4>1
    <3>4. calls = << <<"hash", callData>> >>
      BY <3>3
    <3> HIDE DEF calls, callData
    <3>5. Len(calls) = 1 /\ calls[1] = <<"hash", callData>>
      BY <3>4
    <3>6. calls[1] = M[4]
      BY <1>4, <2>3, <3>1, <3>2, <3>5
    <3>7. QED
      BY <2>1, <2>3, <3>4, <3>5, <3>6
  <2>4. QED
    BY <1>3, <2>2, <2>3
<1> HIDE DEF head, calls, M, suffix, d
<1>8. /\ IsList(front) /\ Len(front) = Len(head) + Len(calls)
      /\ \A i \in 1..Len(head) : front[i] = head[i]
      /\ \A i \in 1..Len(calls) : front[Len(head) + i] = calls[i]
  <2>1. IsList(head) /\ IsList(calls)
    BY <1>6, <1>7
  <2>2. QED
    BY <2>1, JoinLists
<1> HIDE DEF front
<1>9. /\ Len(front) = 1 + core
      /\ \A i \in 1..1 + core : front[i] = M[i]
  <2>1. Len(front) = 1 + core
    BY <1>3, <1>6, <1>7, <1>8
  <2>2. \A i \in 1..3 : front[i] = M[i]
    BY <1>6, <1>8
  <2>3. core = 3 => front[4] = M[4]
    <3>1. core = 3 => 1 \in 1..Len(calls) /\ Len(head) + 1 = 4
      BY <1>6, <1>7
    <3>2. QED
      BY <1>7, <1>8, <3>1
  <2>4. QED
    BY <1>3, <2>1, <2>2, <2>3
<1>10. /\ IsList(whole) /\ Len(whole) = Len(front) + Len(suffix)
       /\ \A i \in 1..Len(front) : whole[i] = front[i]
       /\ \A i \in 1..Len(suffix) : whole[Len(front) + i] = suffix[i]
  <2>1. IsList(front) /\ IsList(suffix)
    BY <1>5, <1>8
  <2>2. QED
    BY <2>1, JoinLists
<1> HIDE DEF whole
<1>11. ASSUME NEW i \in 1..Len(M) PROVE whole[i] = M[i]
  <2>1. CASE i <= 1 + core
    BY <1>3, <1>9, <1>10, <2>1
  <2>2. CASE i > 1 + core
    <3>1. i - (1 + core) \in 1..d /\ 1 + core + (i - (1 + core)) = i
      BY <1>3, <1>4, <2>2
    <3>2. whole[i] = suffix[i - (1 + core)]
      BY <1>5, <1>9, <1>10, <3>1
    <3>3. suffix[i - (1 + core)] = M[i]
      BY <1>4, <1>5, <3>1
    <3>4. QED
      BY <3>2, <3>3
  <2>3. QED
    BY <1>3, <1>4, <2>1, <2>2
<1>12. Len(whole) = Len(M)
  BY <1>3, <1>4, <1>5, <1>9, <1>10
<1>13. whole = M
  BY <1>4, <1>10, <1>11, <1>12, SameLists
<1>14. QED
  BY <1>1, <1>13 DEF M

-----------------------------------------------------------------------------
(* A request that is signed is accepted, and executed as signed. *)

\* A request as Prepare makes it.
RequestMade(r) ==
    /\ r.type \in RequestType
    /\ \E destination, backwards, prefixed :
          /\ destinationAddressProvided(r.type) => destination \in Collection
          /\ r.data = RequestData(r.type, destination, backwards, prefixed)

\* A type is registered under its hash, with its destination and its function; what an
\* owner signs is the message of the request that is pending.
RequestInv ==
    /\ threshold \in Nat
    /\ nonces \in [Channel -> 0..MaxNonce]
    /\ \A h \in DOMAIN requestTypes : \E t \in RequestType :
          /\ h = eip712TypeHash(t)
          /\ requestTypes[h] = [destination |-> getDestinationAddress(t),
                                functionSignature |-> functionSignature(t)]
    /\ DOMAIN pending = Caller
    /\ \A c \in Caller : pending[c].stage \in {"prepared", "signed"} => RequestMade(pending[c])
    /\ \A c \in Caller : pending[c].stage = "signed" =>
                            SignedBy(pending[c].signatures, Message(pending[c]))

\* What is known of a request that is signed.
LEMMA MadeShows ==
    ASSUME NEW r, RequestMade(r)
    PROVE  \E core, fields, destination, prefixed :
              /\ r.type \in MetaTxRequestType
              /\ Laid(r.type, core, fields)
              /\ Shows(r.data, DataFields(r.type), core, destination, prefixed)
              /\ Destinations(r.type) = 1 => destination \in Collection
<1>1. PICK destination, backwards, prefixed :
          /\ destinationAddressProvided(r.type) => destination \in Collection
          /\ r.data = RequestData(r.type, destination, backwards, prefixed)
  BY DEF RequestMade
<1>2. r.type \in MetaTxRequestType
  BY ClientAssumption DEF RequestMade
<1>3. PICK core, fields : Laid(r.type, core, fields)
  BY <1>2, TypeLayout
<1>4. Shows(r.data, DataFields(r.type), core, destination, prefixed)
  BY <1>1, <1>3, RequestDataShows
<1>5. Destinations(r.type) = 1 => destination \in Collection
  BY <1>1, <1>2, DestinationFacts
<1>6. QED
  BY <1>2, <1>3, <1>4, <1>5

LEMMA RequestInitHolds == RequestsInit => RequestInv
<1> SUFFICES ASSUME RequestsInit PROVE RequestInv
  OBVIOUS
<1>1. /\ threshold = 1 /\ nonces = [c \in Channel |-> 0] /\ requestTypes = << >>
      /\ pending = [c \in Caller |-> Idle]
  BY DEF RequestsInit, ClientInit
<1>2. 0 \in 0..MaxNonce
  BY ClientAssumption
<1>3. QED
  BY <1>1, <1>2 DEF RequestInv, Idle

\* A step that changes the request of one caller, and nothing else that matters here.
LEMMA RequestStays ==
    ASSUME RequestInv, NEW c \in Caller, NEW r, pending' = [pending EXCEPT ![c] = r],
           UNCHANGED requestTypes, threshold' \in Nat, nonces' \in [Channel -> 0..MaxNonce],
           r.stage \in {"prepared", "signed"} => RequestMade(r),
           r.stage = "signed" => SignedBy(r.signatures, Message(r))
    PROVE  RequestInv'
<1>1. DOMAIN pending' = Caller /\ \A d \in Caller : pending'[d] = IF d = c THEN r ELSE pending[d]
  BY DEF RequestInv
<1>2. ASSUME NEW d \in Caller
      PROVE  /\ pending'[d].stage \in {"prepared", "signed"} => RequestMade(pending'[d])
             /\ pending'[d].stage = "signed" =>
                   SignedBy(pending'[d].signatures, Message(pending'[d]))
  <2>1. CASE d = c
    BY <1>1, <2>1
  <2>2. CASE d # c
    BY <1>1, <2>2 DEF RequestInv
  <2>3. QED
    BY <2>1, <2>2
<1>3. QED
  BY <1>1, <1>2 DEF RequestInv, RequestMade, Message

LEMMA RequestRegistered ==
    ASSUME RequestInv, NEW types \in Seq(RequestType), registerRequestTypes(types)
    PROVE  RequestInv'
<1> DEFINE hash(i) == registeredTypeHash(types[i], suffixType(types[i]))
           new == {hash(i) : i \in DOMAIN types}
           typeOf(h) == types[CHOOSE i \in DOMAIN types : hash(i) = h]
<1>1. /\ requestTypes' = [h \in DOMAIN requestTypes \union new |->
              IF h \notin new THEN requestTypes[h]
              ELSE [destination |-> getDestinationAddress(typeOf(h)),
                    functionSignature |-> functionSignature(typeOf(h))]]
      /\ UNCHANGED <<wallet, nonces, pending>>
  BY DEF registerRequestTypes
<1>2. \A i \in DOMAIN types : types[i] \in RequestType /\ hash(i) = eip712TypeHash(types[i])
  BY HashesAgree, ClientAssumption
<1>3. ASSUME NEW h \in new
      PROVE  typeOf(h) \in RequestType /\ h = eip712TypeHash(typeOf(h))
  <2>1. \E i \in DOMAIN types : hash(i) = h
    OBVIOUS
  <2> DEFINE place == CHOOSE i \in DOMAIN types : hash(i) = h
  <2>2. place \in DOMAIN types /\ hash(place) = h
    <3> HIDE DEF hash
    <3>1. QED
      BY <2>1
  <2>3. typeOf(h) = types[place]
    OBVIOUS
  <2> HIDE DEF place, hash, typeOf, new
  <2>4. QED
    BY <1>2, <2>2, <2>3
<1> HIDE DEF hash, new, typeOf
<1>4. ASSUME NEW h \in DOMAIN requestTypes'
      PROVE  \E t \in RequestType :
                /\ h = eip712TypeHash(t)
                /\ requestTypes'[h] = [destination |-> getDestinationAddress(t),
                                       functionSignature |-> functionSignature(t)]
  <2>1. CASE h \in new
    <3>1. requestTypes'[h] = [destination |-> getDestinationAddress(typeOf(h)),
                              functionSignature |-> functionSignature(typeOf(h))]
      BY <1>1, <2>1
    <3>2. QED
      BY <1>3, <2>1, <3>1
  <2>2. CASE h \notin new
    <3>1. h \in DOMAIN requestTypes /\ requestTypes'[h] = requestTypes[h]
      BY <1>1, <2>2
    <3>2. QED
      BY <3>1 DEF RequestInv
  <2>3. QED
    BY <2>1, <2>2
<1>5. UNCHANGED <<threshold, nonces, pending>>
  BY <1>1 DEF wallet
<1>6. \A c \in Caller :
          /\ pending'[c].stage \in {"prepared", "signed"} => RequestMade(pending'[c])
          /\ pending'[c].stage = "signed" =>
                SignedBy(pending'[c].signatures, Message(pending'[c]))
  BY <1>5 DEF RequestInv, RequestMade, Message
<1>7. threshold' \in Nat /\ nonces' \in [Channel -> 0..MaxNonce] /\ DOMAIN pending' = Caller
  BY <1>5 DEF RequestInv
<1>8. QED
  BY <1>4, <1>6, <1>7 DEF RequestInv, RequestMade, Message

LEMMA RequestNextKeeps ==
    IInv /\ RequestInv /\ [RequestsNext]_requestVars => RequestInv'
<1> SUFFICES ASSUME IInv, RequestInv, [RequestsNext]_requestVars PROVE RequestInv'
  OBVIOUS
<1>1. ASSUME NEW c \in Caller, Prepare(c) PROVE RequestInv'
  <2>1. PICK t \in RequestType, ch \in Channel, backwards \in BOOLEAN, prefixed \in BOOLEAN :
          \E destination \in IF destinationAddressProvided(t) THEN Collection
                             ELSE {NoDestination} :
              getNonce(c, t, ch, RequestData(t, destination, backwards, prefixed))
    BY <1>1 DEF Prepare
  <2>2. PICK destination : /\ destinationAddressProvided(t) => destination \in Collection
                           /\ getNonce(c, t, ch,
                                       RequestData(t, destination, backwards, prefixed))
    BY <2>1
  <2> DEFINE data == RequestData(t, destination, backwards, prefixed)
             r == [stage |-> "prepared", type |-> t, data |-> data,
                   nonce |-> packNonce(ch, nonces[ch])]
  <2>3. /\ pending' = [pending EXCEPT ![c] = r]
        /\ UNCHANGED <<requestTypes, threshold, nonces>>
    BY <2>2 DEF getNonce, wallet, forwarder
  <2>4. r.stage = "prepared" /\ r.type = t /\ r.data = data
    OBVIOUS
  <2> HIDE DEF r
  <2>5. RequestMade(r)
    BY <2>2, <2>4 DEF RequestMade
  <2> HIDE DEF data
  <2>6. threshold' \in Nat /\ nonces' \in [Channel -> 0..MaxNonce]
    BY <2>3 DEF RequestInv
  <2>7. QED
    BY <2>3, <2>4, <2>5, <2>6, RequestStays
<1>2. ASSUME NEW c \in Caller, Sign(c) PROVE RequestInv'
  <2> DEFINE p == pending[c]
  <2>1. PICK n \in 1..Cardinality(Owner) : \E signers \in [1..n -> Owner] :
          /\ \A i, j \in 1..n : i # j => signers[i] # signers[j]
          /\ signRequest(c, signers)
    BY <1>2 DEF Sign
  <2>2. PICK signers \in [1..n -> Owner] :
          /\ \A i, j \in 1..n : i # j => signers[i] # signers[j]
          /\ signRequest(c, signers)
    BY <2>1
  <2> DEFINE r == [stage |-> "signed", type |-> p.type, data |-> p.data, nonce |-> p.nonce,
                   signatures |-> signTypedData(Message(p), signers)]
  <2>3. /\ p.stage = "prepared"
        /\ \/ pending' = [pending EXCEPT ![c] = Idle]
           \/ pending' = [pending EXCEPT ![c] = r]
        /\ UNCHANGED <<requestTypes, threshold, nonces>>
    BY <2>2 DEF signRequest, wallet, forwarder
  <2>4. threshold' \in Nat /\ nonces' \in [Channel -> 0..MaxNonce]
    BY <2>3 DEF RequestInv
  <2>5. n \in Nat
    BY <2>1
  <2>6. /\ r.type = p.type /\ r.data = p.data /\ r.nonce = p.nonce
        /\ r.signatures = signTypedData(Message(p), signers)
    OBVIOUS
  <2>7. RequestMade(p)
    BY <2>3 DEF RequestInv
  <2> HIDE DEF r, p
  <2>8. Message(r) = Message(p) /\ RequestMade(r)
    BY <2>6, <2>7 DEF Message, RequestMade
  <2>9. SignedBy(r.signatures, Message(r))
    BY <2>2, <2>5, <2>6, <2>8, SignaturesAscend
  <2>10. CASE pending' = [pending EXCEPT ![c] = r]
    BY <2>3, <2>4, <2>8, <2>9, <2>10, RequestStays
  <2>11. CASE pending' = [pending EXCEPT ![c] = Idle]
    BY <2>3, <2>4, <2>11, RequestStays DEF Idle
  <2>12. QED
    BY <2>3, <2>10, <2>11
<1>3. ASSUME NEW c \in Caller, Abandon(c) PROVE RequestInv'
  <2>1. /\ pending' = [pending EXCEPT ![c] = Idle]
        /\ UNCHANGED <<requestTypes, threshold, nonces>>
    BY <1>3 DEF Abandon, wallet, forwarder
  <2>2. threshold' \in Nat /\ nonces' \in [Channel -> 0..MaxNonce]
    BY <2>1 DEF RequestInv
  <2>3. QED
    BY <2>1, <2>2, RequestStays DEF Idle
<1>4. ASSUME NEW t \in RequestType, unregisterRequestType(eip712TypeHash(t))
      PROVE  RequestInv'
  <2>1. PICK h : /\ requestTypes' = [x \in DOMAIN requestTypes \ {h} |-> requestTypes[x]]
                 /\ UNCHANGED <<threshold, nonces, pending>>
    BY <1>4 DEF unregisterRequestType, wallet
  <2>2. \A x \in DOMAIN requestTypes' : x \in DOMAIN requestTypes
                                        /\ requestTypes'[x] = requestTypes[x]
    BY <2>1
  <2>3. QED
    BY <2>1, <2>2 DEF RequestInv, RequestMade, Message
<1>5. ASSUME UNCHANGED <<requestTypes, nonces, pending>>, threshold' \in Nat
      PROVE  RequestInv'
  BY <1>5 DEF RequestInv, RequestMade, Message
<1>6. ASSUME NEW newOwners \in SUBSET Owner, NEW n \in 1..Cardinality(Owner),
             ChangeOwners(newOwners, n)
      PROVE  RequestInv'
  <2>1. UNCHANGED <<requestTypes, nonces, pending>> /\ threshold' = n /\ n \in Nat
    BY <1>6 DEF ChangeOwners, forwarder
  <2>2. QED
    BY <1>5, <2>1
<1>7. ASSUME UNCHANGED <<wallet, forwarder, pending>> PROVE RequestInv'
  BY <1>5, <1>7 DEF wallet, forwarder, RequestInv
<1>8. CASE ClientStep
  BY <1>1, <1>2, <1>3, <1>4, <1>6, <1>7, <1>8 DEF ClientStep, IndexEvent
<1>9. ASSUME NEW c \in Caller, Relay(c) PROVE RequestInv'
  <2> DEFINE channel == unpackNonce(Relayed(pending[c]).nonce)[1]
  <2>1. /\ channel \in Channel /\ nonces[channel] < MaxNonce
        /\ nonces' = [nonces EXCEPT ![channel] = @ + 1]
        /\ pending' = [pending EXCEPT ![c] = Idle]
        /\ UNCHANGED <<requestTypes, threshold>>
    BY <1>9 DEF Relay, executeTransactionLUW, Accepts, wallet
  <2> HIDE DEF channel
  <2>2. nonces' \in [Channel -> 0..MaxNonce]
    <3>1. nonces \in [Channel -> 0..MaxNonce] /\ MaxNonce \in Nat
      BY ClientAssumption DEF RequestInv
    <3>2. nonces[channel] + 1 \in 0..MaxNonce
      BY <2>1, <3>1
    <3>3. QED
      BY <2>1, <3>1, <3>2
  <2>3. threshold' \in Nat
    BY <2>1 DEF RequestInv
  <2>4. QED
    BY <2>1, <2>2, <2>3, RequestStays DEF Idle
<1>10. ASSUME NEW types \in TypeLists, RegisterByHand(types) PROVE RequestInv'
  <2>1. types \in Seq(RequestType)
    BY ClientAssumption
  <2>2. QED
    BY <1>10, <2>1, RequestRegistered DEF RegisterByHand, Registered
<1>11. ASSUME UNCHANGED clientVars PROVE RequestInv'
  BY <1>7, <1>11 DEF clientVars
<1>12. CASE RegisterByScript
  <2>1. CASE Registered(Head(todo).types)
    <3>1. todo \in Seq(Step(Len(registries))) /\ Len(registries) \in Nat
      BY LenProperties DEF IInv
    <3>2. todo # << >> /\ Head(todo).do = "register"
      BY <1>12 DEF RegisterByScript, RegistrationTask, Doing
    <3>3. Head(todo) \in Task
      BY <3>1, <3>2, RestFits, StepKind
    <3>4. Head(todo).types \in Seq(RequestType)
      BY <3>2, <3>3, RequestsAssumption
    <3>5. QED
      BY <2>1, <3>4, RequestRegistered DEF Registered
  <2>2. QED
    BY <1>11, <1>12, <2>1 DEF RegisterByScript
<1>13. QED
  BY <1>8, <1>9, <1>10, <1>11, <1>12 DEF RequestsNext, requestVars

LEMMA RegisteredAs ==
    ASSUME RequestInv, NEW t \in RequestType, eip712TypeHash(t) \in DOMAIN requestTypes
    PROVE  requestTypes[eip712TypeHash(t)]
             = [destination |-> getDestinationAddress(t), functionSignature |-> functionSignature(t)]
<1>1. PICK u \in RequestType :
          /\ eip712TypeHash(t) = eip712TypeHash(u)
          /\ requestTypes[eip712TypeHash(t)]
               = [destination |-> getDestinationAddress(u),
                  functionSignature |-> functionSignature(u)]
  BY DEF RequestInv
<1>2. t = u
  BY <1>1 DEF eip712TypeHash
<1>3. QED
  BY <1>1, <1>2

LEMMA DivisionOfSum ==
    ASSUME NEW b \in Nat \ {0}, NEW c \in Nat, NEW n \in 0..(b - 1)
    PROVE  (c * b + n) \div b = c /\ ((c * b + n) % b) = n
<1> DEFINE x == c * b + n
           d == x \div b
           rest == x % b
<1>1. x \in Nat
  OBVIOUS
<1> HIDE DEF x
<1>2. x = (d * b) + rest /\ d \in Nat /\ rest \in 0..(b - 1)
  BY <1>1, DivisionFacts
<1>3. c * b + n = (d * b) + rest
  BY <1>2 DEF x
<1> HIDE DEF d, rest
<1>4. d = c
  <2>1. CASE d < c
    <3>1. (c - d) * b >= b
      BY <1>2, <2>1
    <3>2. QED
      BY <1>2, <1>3, <3>1
  <2>2. CASE d > c
    <3>1. (d - c) * b >= b
      BY <1>2, <2>2
    <3>2. QED
      BY <1>2, <1>3, <3>1
  <2>3. QED
    BY <1>2, <2>1, <2>2
<1>5. rest = n
  BY <1>2, <1>3, <1>4
<1>6. QED
  BY <1>4, <1>5 DEF x, d, rest

\* What was packed is unpacked: the nonces of a channel fit in their bits.
LEMMA PackThenUnpack ==
    ASSUME NEW c \in Channel, NEW n \in 0..MaxNonce
    PROVE  unpackNonce(packNonce(c, n)) = <<c, n>>
<1> DEFINE b == 2 ^ BITS_PER_NONCE
<1>1. b \in Nat \ {0} /\ c \in Nat
  BY ChannelSize
<1>2. n \in 0..(b - 1)
  <2>1. n \in 0..(MaxNonce + 1)
    BY ClientAssumption
  <2>2. QED
    BY <2>1, ClientAssumption
<1> HIDE DEF b
<1>3. (c * b + n) \div b = c /\ ((c * b + n) % b) = n
  BY <1>1, <1>2, DivisionOfSum
<1>4. QED
  BY <1>3 DEF packNonce, unpackNonce, b

\* What the forwarder reads from the suffix of a request with a destination.
LEMMA DestinationRead ==
    ASSUME NEW t, NEW core, NEW fields, Laid(t, core, fields), NEW data,
           NEW destination, NEW prefixed,
           Shows(data, DataFields(t), core, destination, prefixed), Destinations(t) = 1
    PROVE  encodeSuffixData(t, data)[1][2] = destination
<1> DEFINE D == DataFields(t)
<1>1. D[1] = <<"destination", "address">> /\ 1 \in 1..Len(D)
  BY DataFieldsFacts, LaidFacts
<1>2. encodeSuffixData(t, data)[1] = ShownWord(D[1], destination)
  <2> HIDE DEF D
  <2>1. QED
    BY <1>1, SuffixFacts DEF D
<1> HIDE DEF D
<1>3. QED
  BY <1>1, <1>2 DEF ShownWord, ShownValue, EncodedField, isDynamicArrayType

LEMMA RequestInvAccepts == RequestInv => SignedRequestIsAccepted
<1> SUFFICES ASSUME RequestInv PROVE SignedRequestIsAccepted
  OBVIOUS
<1> SUFFICES ASSUME NEW c \in Caller, pending[c].stage = "signed", ~CannotEncode(pending[c]),
                    \E channel \in Channel :
                        pending[c].nonce = packNonce(channel, nonces[channel]),
                    \E h \in DOMAIN requestTypes : h[1] = pending[c].type,
                    Len(pending[c].signatures) >= threshold,
                    \A i \in DOMAIN pending[c].signatures : pending[c].signatures[i].by \in owners
             PROVE  Accepts(Relayed(pending[c]), pending[c].signatures)
  BY DEF SignedRequestIsAccepted
<1> DEFINE r == pending[c]
           t == r.type
           request == Relayed(r)
<1>1. RequestMade(r) /\ SignedBy(r.signatures, Message(r))
  BY DEF RequestInv
<1>2. PICK core, fields, destination, prefixed :
          /\ t \in MetaTxRequestType
          /\ Laid(t, core, fields)
          /\ Shows(r.data, DataFields(t), core, destination, prefixed)
          /\ Destinations(t) = 1 => destination \in Collection
  BY <1>1, MadeShows
<1>3. t \in RequestType
  BY <1>1 DEF RequestMade
<1>4. /\ request = encodeExecuteTransactionProps(t, r.nonce, r.data)
      /\ Message(r) = build(t, r.nonce, r.data)
  BY DEF Relayed, Message
<1>5. /\ request.typeHash = eip712TypeHash(t) /\ request.nonce = r.nonce
      /\ request.suffixData = encodeSuffixData(t, r.data)
  BY <1>4 DEF encodeExecuteTransactionProps
<1>6. request.callData # Failed
  BY DEF CannotEncode
<1> HIDE DEF request
<1>7. encodeRequest(request) = Message(r)
  <2>1. encodeExecuteTransactionProps(t, r.nonce, r.data).callData # Failed
    BY <1>4, <1>6
  <2> HIDE DEF r, t
  <2>2. QED
    BY <1>2, <1>4, <2>1, RebuiltHash
<1>8. isValidSignatureSet(encodeRequest(request), r.signatures)
  <2>1. threshold \in Nat
    BY DEF RequestInv
  <2>2. /\ Len(r.signatures) >= threshold
        /\ \A i \in DOMAIN r.signatures : r.signatures[i].by \in owners
    OBVIOUS
  <2> HIDE DEF r
  <2>3. QED
    BY <1>1, <1>7, <2>1, <2>2, SignedIsValid
<1>9. request.typeHash \in DOMAIN requestTypes
  <2>1. PICK h \in DOMAIN requestTypes : h[1] = t
    OBVIOUS
  <2>2. PICK u : h = eip712TypeHash(u)
    BY DEF RequestInv
  <2>3. u = t
    BY <2>1, <2>2 DEF eip712TypeHash
  <2>4. QED
    BY <1>5, <2>2, <2>3
<1>10. /\ unpackNonce(request.nonce)[1] \in Channel
       /\ nonces[unpackNonce(request.nonce)[1]] = unpackNonce(request.nonce)[2]
  <2>1. PICK channel \in Channel : r.nonce = packNonce(channel, nonces[channel])
    OBVIOUS
  <2>2. nonces[channel] \in 0..MaxNonce
    BY DEF RequestInv
  <2>3. unpackNonce(request.nonce) = <<channel, nonces[channel]>>
    BY <1>5, <2>1, <2>2, PackThenUnpack
  <2>4. QED
    BY <2>1, <2>3
<1>11. destinationInRequest(request) => Destination(request) \in Collection
  <2>1. SUFFICES ASSUME destinationInRequest(request)
                 PROVE  Destination(request) \in Collection
    OBVIOUS
  <2>2. requestTypes[request.typeHash].destination = getDestinationAddress(t)
    <3>1. requestTypes[eip712TypeHash(t)]
            = [destination |-> getDestinationAddress(t), functionSignature |-> functionSignature(t)]
      BY <1>3, <1>5, <1>9, RegisteredAs
    <3>2. QED
      BY <1>5, <3>1
  <2>3. Destinations(t) = 1
    BY <1>2, <2>1, <2>2, DestinationFacts DEF destinationInRequest
  <2>4. request.suffixData[1][2] = destination
    <3> HIDE DEF r, t
    <3>1. QED
      BY <1>2, <1>5, <2>3, DestinationRead
  <2>5. QED
    BY <1>2, <2>1, <2>3, <2>4 DEF Destination
<1>12. Accepts(request, r.signatures)
  BY <1>8, <1>9, <1>10, <1>11, Zenon DEF Accepts
<1>13. QED
  BY <1>12 DEF request

\* A request that enough of the wallet's present owners signed, with the next nonce of
\* its channel and a registered type, is accepted, for any types, owners, channels and
\* collections, whatever happened in between (SignedRequestIsAccepted).
THEOREM SignedRequestIsAcceptedHolds == RequestsSpec => []SignedRequestIsAccepted
<1>1. RequestsInit => RequestInv
  BY RequestInitHolds
<1>2. IInv /\ RequestInv /\ [RequestsNext]_requestVars => RequestInv'
  BY RequestNextKeeps
<1>3. QED
  BY <1>1, <1>2, RequestsIInv, RequestInvAccepts, PTL DEF RequestsSpec

LEMMA ParameterFieldsFacts ==
    ASSUME NEW t, NEW core, NEW fields, Laid(t, core, fields)
    PROVE  /\ Len(ParameterFields(t)) = Len(fields)
           /\ DOMAIN ParameterFields(t) = 1..Len(fields)
           /\ \A i \in 1..Len(fields) : ParameterFields(t)[i] = fields[i]
<1> DEFINE n == Destinations(t)
           m == Len(fields)
           D == DataFields(t)
           places == {i \in DOMAIN D : D[i][1] = "destination"}
<1>1. /\ n \in {0, 1} /\ m \in Nat
      /\ IsList(D) /\ Len(D) = n + m /\ DOMAIN D = 1..n + m
      /\ \A i \in 1..n + m : D[i][1] = "destination" <=> i <= n
      /\ \A i \in 1..m : D[n + i] = fields[i]
  BY LaidFacts, DataFieldsFacts
<1>2. ParameterFields(t) = Without(D, places)
  BY DEF ParameterFields
<1> HIDE DEF n, m, D
<1>3. CASE n = 0
  <2>1. places = {}
    BY <1>1, <1>3
  <2>2. ParameterFields(t) = D
    BY <1>2, <2>1 DEF Without
  <2>3. n + m = m /\ \A i \in 1..m : n + i = i
    BY <1>1, <1>3
  <2>4. QED
    BY <1>1, <2>2, <2>3 DEF m
<1>4. CASE n = 1
  <2>1. places = {1}
    BY <1>1, <1>4
  <2>2. Len(D) = 1 + m
    BY <1>1, <1>4
  <2>3. /\ IsList(ParameterFields(t)) /\ Len(ParameterFields(t)) = m
        /\ \A i \in 1..m : ParameterFields(t)[i] = D[1 + i]
    <3>1. ParameterFields(t) = Without(D, {1})
      BY <1>2, <2>1
    <3>2. IsList(D) /\ m \in Nat
      BY <1>1
    <3>3. QED
      BY <2>2, <3>1, <3>2, WithoutFirst
  <2>4. DOMAIN ParameterFields(t) = 1..m
    BY <2>3 DEF IsList
  <2>5. QED
    BY <1>1, <1>4, <2>3, <2>4 DEF m
<1>5. QED
  BY <1>1, <1>3, <1>4

\* A request without calldata: its suffix is the values of the parameters, behind the
\* destination.
LEMMA SuffixWords ==
    ASSUME NEW t, NEW fields, Laid(t, 2, fields), NEW data, NEW destination, NEW prefixed,
           Shows(data, DataFields(t), 2, destination, prefixed), NEW words,
           words = IF Destinations(t) = 1 THEN Tail(encodeSuffixData(t, data))
                   ELSE encodeSuffixData(t, data)
    PROVE  /\ Len(words) = Len(fields)
           /\ \A i \in 1..Len(fields) : words[i] = <<"word", <<"of", fields[i][1]>> >>
<1> DEFINE n == Destinations(t)
           m == Len(fields)
           D == DataFields(t)
           S == encodeSuffixData(t, data)
<1>1. /\ n \in {0, 1} /\ m \in Nat /\ m >= 1 /\ Len(D) = n + m
      /\ \A i \in 1..m : D[n + i] = fields[i] /\ fields[i] \in PlainField
  BY LaidFacts, DataFieldsFacts
<1>2. \A i \in 1..m : ~isDynamicArrayType(fields[i][2])
  BY DEF Laid, LaidOut
<1> HIDE DEF D
<1>3. /\ IsList(S) /\ Len(S) = n + m
      /\ \A i \in 1..n + m : S[i] = ShownWord(D[i], destination)
  <2>1. /\ IsList(S) /\ Len(S) = Len(D)
        /\ \A i \in 1..Len(D) : S[i] = ShownWord(D[i], destination)
    BY SuffixFacts DEF D
  <2> HIDE DEF S, n, m
  <2>2. QED
    BY <1>1, <2>1
<1> HIDE DEF S, n, m
<1>4. ASSUME NEW i \in 1..m PROVE S[n + i] = <<"word", <<"of", fields[i][1]>> >>
  <2>1. S[n + i] = ShownWord(fields[i], destination)
    <3>1. n + i \in 1..n + m
      BY <1>1
    <3>2. QED
      BY <1>1, <1>3, <3>1
  <2>2. fields[i][1] # "destination"
    BY <1>1 DEF PlainField
  <2>3. QED
    BY <1>2, <2>1, <2>2 DEF ShownWord, ShownValue, EncodedField
<1>5. CASE n = 0
  <2>1. words = S
    BY <1>5 DEF n, S
  <2>2. n + m = m /\ \A i \in 1..m : n + i = i
    BY <1>1, <1>5
  <2>3. QED
    BY <1>3, <1>4, <2>1, <2>2 DEF m
<1>6. CASE n = 1
  <2>1. words = Tail(S)
    BY <1>6 DEF n, S
  <2>2. S # << >>
    BY <1>1, <1>3, <1>6
  <2>3. Len(Tail(S)) = m /\ \A i \in 1..m : Tail(S)[i] = S[n + i]
    <3>1. Len(S) - 1 = m /\ \A i \in 1..m : n + i = i + 1
      BY <1>1, <1>3, <1>6
    <3>2. Len(Tail(S)) = Len(S) - 1 /\ \A i \in 1..Len(S) - 1 : Tail(S)[i] = S[i + 1]
      BY <1>3, <2>2, ListFacts
    <3>3. QED
      BY <3>1, <3>2
  <2>4. QED
    BY <1>4, <2>1, <2>3 DEF m
<1>7. QED
  BY <1>1, <1>5, <1>6

LEMMA RequestInvExecutes == RequestInv => ExecutedAsSigned
<1> SUFFICES ASSUME RequestInv, NEW c \in Caller, pending[c].stage = "signed",
                    ~CannotEncode(pending[c]),
                    Accepts(Relayed(pending[c]), pending[c].signatures),
                    NEW request, request = Relayed(pending[c]),
                    NEW t, t = pending[c].type, NEW shown, shown = ParameterFields(t),
                    NEW function, function = CallOf(request)[1],
                    NEW words, words = CallOf(request)[2]
             PROVE  /\ function = functionSignature(t)
                    /\ Len(words) = Len(shown) /\ Len(function) = Len(shown) + 1
                    /\ \A i \in DOMAIN shown :
                          /\ words[i] = <<"word", ValueOf(pending[c].data, shown[i][1])>>
                          /\ SameWord(shown[i][2], function[i + 1])
                    /\ Destination(request) =
                          IF destinationAddressProvided(t)
                          THEN ValueOf(pending[c].data, "destination")
                          ELSE destinationContract(t)
  BY DEF ExecutedAsSigned
<1> DEFINE r == pending[c]
<1>1. RequestMade(r)
  BY DEF RequestInv
<1>2. PICK core, fields, destination, prefixed :
          /\ t \in MetaTxRequestType
          /\ Laid(t, core, fields)
          /\ Shows(r.data, DataFields(t), core, destination, prefixed)
          /\ Destinations(t) = 1 => destination \in Collection
  BY <1>1, MadeShows
<1>3. t \in RequestType
  BY <1>1 DEF RequestMade
<1>4. /\ request.typeHash = eip712TypeHash(t)
      /\ request.suffixData = encodeSuffixData(t, r.data)
      /\ request.callData = IF requiresDataField(t) THEN CallDataOf(t, r.data) ELSE << >>
  BY DEF Relayed, encodeExecuteTransactionProps
<1>5. request.callData # Failed
  BY DEF CannotEncode
<1>6. /\ requestTypes[request.typeHash].destination = getDestinationAddress(t)
      /\ requestTypes[request.typeHash].functionSignature = functionSignature(t)
  <2>1. request.typeHash \in DOMAIN requestTypes
    BY DEF Accepts
  <2>2. requestTypes[eip712TypeHash(t)]
          = [destination |-> getDestinationAddress(t), functionSignature |-> functionSignature(t)]
    BY <1>3, <1>4, <2>1, RegisteredAs
  <2>3. QED
    BY <1>4, <2>2
<1>7. destinationInRequest(request) <=> Destinations(t) = 1
  BY <1>2, <1>6, DestinationFacts DEF destinationInRequest
<1> HIDE DEF r
<1>8. /\ core \in {2, 3} /\ Len(fields) \in Nat
      /\ Len(functionSignature(t)) = Len(fields) + 1
      /\ \A i \in 1..Len(fields) :
            /\ SameWord(fields[i][2], functionSignature(t)[i + 1])
            /\ fields[i] \in PlainField
      /\ requiresDataField(t) <=> core = 3
  BY <1>2, LaidFacts DEF Laid, Matches
<1>9. /\ Len(shown) = Len(fields) /\ DOMAIN shown = 1..Len(fields)
      /\ \A i \in 1..Len(fields) : shown[i] = fields[i]
  BY <1>2, ParameterFieldsFacts
<1>10. /\ function = functionSignature(t)
       /\ Len(words) = Len(fields)
       /\ \A i \in 1..Len(fields) : words[i] = <<"word", <<"of", fields[i][1]>> >>
  <2>1. CASE core = 3
    <3>1. request.callData = CallDataOf(t, r.data)
      BY <1>4, <1>8, <2>1
    <3>2. PICK list :
            /\ CallDataOf(t, r.data) = <<functionSignature(t), list>>
            /\ Len(list) = Len(fields)
            /\ \A i \in 1..Len(fields) : list[i] = <<"word", <<"of", fields[i][1]>> >>
      <4>1. CallDataOf(t, r.data) # Failed
        BY <1>5, <3>1
      <4>2. Laid(t, 3, fields) /\ Shows(r.data, DataFields(t), 3, destination, prefixed)
        BY <1>2, <2>1
      <4>3. QED
        BY <4>1, <4>2, CallDataFacts
    <3>3. request.callData = <<functionSignature(t), list>>
      BY <3>1, <3>2
    <3>4. request.callData # << >>
      BY <3>3
    <3>5. CallOf(request) = <<functionSignature(t), list>>
      BY <3>3, <3>4 DEF CallOf
    <3>6. function = functionSignature(t) /\ words = list
      BY <3>5
    <3>7. QED
      BY <3>2, <3>6
  <2>2. CASE core = 2
    <3>1. request.callData = << >>
      BY <1>4, <1>8, <2>2
    <3> DEFINE list == IF Destinations(t) = 1 THEN Tail(encodeSuffixData(t, r.data))
                       ELSE encodeSuffixData(t, r.data)
    <3>2. CallOf(request) = <<functionSignature(t), list>>
      BY <1>4, <1>6, <1>7, <3>1 DEF CallOf
    <3>3. Len(list) = Len(fields)
          /\ \A i \in 1..Len(fields) : list[i] = <<"word", <<"of", fields[i][1]>> >>
      <4>1. Laid(t, 2, fields) /\ Shows(r.data, DataFields(t), 2, destination, prefixed)
        BY <1>2, <2>2
      <4>2. PICK other : other = list
        OBVIOUS
      <4>3. Len(other) = Len(fields)
            /\ \A i \in 1..Len(fields) : other[i] = <<"word", <<"of", fields[i][1]>> >>
        BY <4>1, <4>2, SuffixWords
      <4>4. QED
        BY <4>2, <4>3
    <3> HIDE DEF list
    <3>4. function = functionSignature(t) /\ words = list
      BY <3>2
    <3>5. QED
      BY <3>3, <3>4
  <2>3. QED
    BY <1>8, <2>1, <2>2
<1>11. ASSUME NEW i \in 1..Len(fields)
       PROVE  ValueOf(r.data, fields[i][1]) = <<"of", fields[i][1]>>
  <2> DEFINE k == Destinations(t) + i
  <2>1. k \in 1..Len(DataFields(t)) /\ DataFields(t)[k] = fields[i]
    BY <1>2, <1>8, DataFieldsFacts, LaidFacts
  <2> HIDE DEF k
  <2>2. ValueOf(r.data, DataFields(t)[k][1]) = ShownValue(destination, DataFields(t)[k][1])
    BY <1>2, <2>1, ValueShown
  <2>3. fields[i][1] # "destination"
    BY <1>8 DEF PlainField
  <2>4. QED
    BY <2>1, <2>2, <2>3 DEF ShownValue
<1>12. Destination(request) = IF destinationAddressProvided(t)
                              THEN ValueOf(r.data, "destination")
                              ELSE destinationContract(t)
  <2>1. CASE Destinations(t) = 1
    <3>1. destinationInRequest(request) /\ destinationAddressProvided(t)
      BY <1>2, <1>7, <2>1, DestinationFacts
    <3>2. Destination(request) = destination
      <4>1. encodeSuffixData(t, r.data)[1][2] = destination
        BY <1>2, <2>1, DestinationRead
      <4>2. QED
        BY <1>4, <3>1, <4>1 DEF Destination
    <3>3. ValueOf(r.data, "destination") = destination
      <4>1. DataFields(t)[1] = <<"destination", "address">> /\ 1 \in 1..Len(DataFields(t))
        BY <1>2, <1>8, <2>1, DataFieldsFacts
      <4>2. ValueOf(r.data, DataFields(t)[1][1]) = ShownValue(destination, DataFields(t)[1][1])
        BY <1>2, <4>1, ValueShown
      <4>3. QED
        BY <4>1, <4>2 DEF ShownValue
    <3>4. QED
      BY <3>1, <3>2, <3>3
  <2>2. CASE Destinations(t) # 1
    <3>1. ~destinationInRequest(request) /\ ~destinationAddressProvided(t)
      BY <1>2, <1>7, <2>2, DestinationFacts
    <3>2. Destination(request) = getDestinationAddress(t)
      BY <1>6, <3>1 DEF Destination
    <3>3. QED
      BY <3>1, <3>2 DEF getDestinationAddress
  <2>3. QED
    BY <2>1, <2>2
<1>13. \A i \in DOMAIN shown :
          /\ words[i] = <<"word", ValueOf(r.data, shown[i][1])>>
          /\ SameWord(shown[i][2], function[i + 1])
  <2> TAKE i \in DOMAIN shown
  <2>1. i \in 1..Len(fields) /\ shown[i] = fields[i]
    BY <1>9
  <2>2. words[i] = <<"word", ValueOf(r.data, shown[i][1])>>
    BY <1>10, <1>11, <2>1
  <2>3. SameWord(shown[i][2], function[i + 1])
    BY <1>8, <1>10, <2>1
  <2>4. QED
    BY <2>2, <2>3
<1>14. Len(words) = Len(shown) /\ Len(function) = Len(shown) + 1
  BY <1>8, <1>9, <1>10
<1>15. QED
  BY <1>10, <1>12, <1>13, <1>14 DEF r

\* What the forwarder executes is what the owners were shown, for every type of the
\* tables and any registration of them: the function of the type, on its contract, every
\* parameter with the value of the field of its place (ExecutedAsSigned).
THEOREM ExecutedAsSignedHolds == RequestsSpec => []ExecutedAsSigned
<1>1. RequestsInit => RequestInv
  BY RequestInitHolds
<1>2. IInv /\ RequestInv /\ [RequestsNext]_requestVars => RequestInv'
  BY RequestNextKeeps
<1>3. QED
  BY <1>1, <1>2, RequestsIInv, RequestInvExecutes, PTL DEF RequestsSpec

-----------------------------------------------------------------------------
(* A function is routed before its type is registered.  The invariant says of     *)
(* every registration that waits in todo that the functions of its types are      *)
(* routed where deploy.json says, or are routed there by a step that waits before *)
(* it, and that deploy.json names a factory with that registry, or will, because  *)
(* the five tasks of the core still wait in front.                                *)

\* The functions of the requests to collections.
Requested == {functionSignature(t) : t \in CollectionType}

\* Those whose types a step registers.
Needs(step) ==
    IF step.do = "register"
    THEN {functionSignature(step.types[i]) :
             i \in {j \in DOMAIN step.types : step.types[j] \in CollectionType}}
    ELSE {}

\* A step before the k-th routes the function.
Comes(q, k, s) ==
    \E j \in 1..(k - 1) :
        \/ q[j].do = "deploy" /\ s \in Signatures[q[j].feature][q[j].version]
        \/ q[j].do = "add" /\ s \in q[j].functions

\* Where the functions in have are routed, the steps register a type after its function
\* is routed.
Ready(have, q) ==
    \A k \in 1..Len(q) : \A s \in Needs(q[k]) : s \in have \/ Comes(q, k, s)

Registers(q) == \E k \in 1..Len(q) : Needs(q[k]) # {}

\* The step takes no function of a request to collections away.
Spares(step) == step.do = "remove" => step.functions \cap Requested = {}

AllSpare(q) == \A k \in 1..Len(q) : Spares(q[k])

\* The functions that are routed where deploy.json says.
Routed == IF json.registry = 0 THEN {} ELSE DOMAIN registries[json.registry].route

\* The core is deployed, and task j of its five is the next.
Deploying(j) ==
    LET n == Len(registries)
        m == Len(factories)
    IN  /\ Front(todo, j)
        /\ Ready(Ownable, todo)
        /\ j >= 2 => n >= 1 /\ Ownable \subseteq DOMAIN registries[n].route
        /\ j >= 3 => json.registry = n
        /\ j >= 4 => m >= 1 /\ factories[m] = n
        /\ j = 5 => json.factory = m

Deployed ==
    /\ Featured(todo, json.registry)
    /\ Ready(Routed, todo)
    /\ Registers(todo) => /\ json.registry # 0
                          /\ json.factory \in 1..Len(factories)
                          /\ factories[json.factory] = json.registry

ScriptInv ==
    /\ factories \in Seq(Nat)
    /\ AllSpare(todo)
    /\ Deployed \/ \E j \in 1..5 : Deploying(j)

LEMMA NeedsRequested ==
    ASSUME NEW step
    PROVE  /\ Needs(step) \subseteq Requested
           /\ step.do # "register" => Needs(step) = {}
BY DEF Needs, Requested

LEMMA NothingReady ==
    ASSUME NEW have
    PROVE  Ready(have, << >>) /\ ~Registers(<< >>) /\ AllSpare(<< >>)
BY DEF Ready, Registers, AllSpare

\* A step is done: what it routed, if it does, is there.
LEMMA RestReady ==
    ASSUME NEW S, NEW q \in Seq(S), q # << >>, NEW have, NEW later,
           Ready(have, q), have \cap Requested \subseteq later,
           Head(q).do = "deploy" => Signatures[Head(q).feature][Head(q).version] \subseteq later,
           Head(q).do = "add" => Head(q).functions \subseteq later
    PROVE  Ready(later, Tail(q))
<1> DEFINE r == Tail(q)
<1>1. /\ Len(q) \in Nat \ {0} /\ Len(r) = Len(q) - 1 /\ Head(q) = q[1]
      /\ \A k \in 1..Len(r) : r[k] = q[k + 1]
  BY HeadTailProperties, EmptySeq
<1> HIDE DEF r
<1> SUFFICES ASSUME NEW k \in 1..Len(r), NEW s \in Needs(r[k])
             PROVE  s \in later \/ Comes(r, k, s)
  BY DEF Ready, r
<1> DEFINE m == k + 1
<1>2. m \in 1..Len(q) /\ r[k] = q[m]
  BY <1>1
<1>3. \A j \in 2..(m - 1) : j - 1 \in 1..(k - 1) /\ r[j - 1] = q[j]
  BY <1>1, <1>2
<1>4. \A j \in 1..(m - 1) : j = 1 \/ j \in 2..(m - 1)
  OBVIOUS
<1> HIDE DEF m
<1>5. s \in have \/ Comes(q, m, s)
  BY <1>2 DEF Ready
<1>6. CASE s \in have
  BY <1>6, NeedsRequested
<1>7. CASE Comes(q, m, s)
  <2>1. PICK j \in 1..(m - 1) :
            \/ q[j].do = "deploy" /\ s \in Signatures[q[j].feature][q[j].version]
            \/ q[j].do = "add" /\ s \in q[j].functions
    BY <1>7 DEF Comes
  <2>2. CASE j = 1
    BY <1>1, <2>1, <2>2
  <2>3. CASE j \in 2..(m - 1)
    <3> DEFINE l == j - 1
    <3>1. l \in 1..(k - 1) /\ r[l] = q[j]
      BY <1>3, <2>3
    <3> HIDE DEF l
    <3>2. QED
      BY <2>1, <3>1 DEF Comes
  <2>4. QED
    BY <1>4, <2>2, <2>3
<1>8. QED
  BY <1>5, <1>6, <1>7

LEMMA RestSpares ==
    ASSUME NEW S, NEW q \in Seq(S), q # << >>
    PROVE  /\ Registers(Tail(q)) => Registers(q)
           /\ AllSpare(q) => AllSpare(Tail(q)) /\ Spares(Head(q))
<1> DEFINE r == Tail(q)
<1>1. /\ Len(q) \in Nat \ {0} /\ Len(r) = Len(q) - 1 /\ Head(q) = q[1]
      /\ \A k \in 1..Len(r) : r[k] = q[k + 1]
  BY HeadTailProperties, EmptySeq
<1>2. \A k \in 1..Len(r) : \E j \in 1..Len(q) : r[k] = q[j]
  <2> TAKE k \in 1..Len(r)
  <2>1. k + 1 \in 1..Len(q) /\ r[k] = q[k + 1]
    BY <1>1
  <2>2. QED
    BY <2>1
<1>3. 1 \in 1..Len(q)
  BY <1>1
<1> HIDE DEF r
<1>4. QED
  BY <1>1, <1>2, <1>3 DEF Registers, AllSpare, r

\* The step registers nothing and takes none of those functions away.
Quiet(q) == \A k \in 1..Len(q) : q[k].do # "register" /\ Spares(q[k])

LEMMA JoinQuiet ==
    ASSUME NEW S, NEW p \in Seq(S), NEW q \in Seq(S), Quiet(p)
    PROVE  /\ Quiet(q) => Quiet(Join(p, q))
           /\ AllSpare(q) => AllSpare(Join(p, q))
           /\ Registers(Join(p, q)) => Registers(q)
<1> DEFINE r == Join(p, q)
<1>1. /\ Len(p) \in Nat /\ Len(q) \in Nat /\ Len(r) = Len(p) + Len(q)
      /\ \A k \in 1..(Len(p) + Len(q)) : r[k] = IF k <= Len(p) THEN p[k] ELSE q[k - Len(p)]
  BY ConcatProperties, LenProperties DEF Join
<1>2. \A k \in 1..Len(r) : \/ \E j \in 1..Len(p) : r[k] = p[j]
                           \/ \E j \in 1..Len(q) : r[k] = q[j]
  <2> TAKE k \in 1..Len(r)
  <2>1. CASE k <= Len(p)
    BY <1>1, <2>1
  <2>2. CASE ~(k <= Len(p))
    <3>1. k - Len(p) \in 1..Len(q) /\ r[k] = q[k - Len(p)]
      BY <1>1, <2>2
    <3>2. QED
      BY <3>1
  <2>3. QED
    BY <2>1, <2>2
<1> HIDE DEF r
<1>3. \A j \in 1..Len(p) : Needs(p[j]) = {} /\ Spares(p[j])
  BY NeedsRequested DEF Quiet
<1>4. /\ Quiet(q) => Quiet(r)
      /\ AllSpare(q) => AllSpare(r)
      /\ Registers(r) => Registers(q)
  <2>1. Quiet(q) => Quiet(r)
    BY <1>2 DEF Quiet
  <2>2. AllSpare(q) => AllSpare(r)
    BY <1>2, <1>3 DEF AllSpare
  <2>3. Registers(r) => Registers(q)
    BY <1>2, <1>3 DEF Registers
  <2>4. QED
    BY <2>1, <2>2, <2>3
<1>5. QED
  BY <1>4 DEF r

\* Steps that register nothing, before the others: what they add is there then.
LEMMA JoinReady ==
    ASSUME NEW S, NEW p \in Seq(S), NEW q \in Seq(S), Quiet(p), NEW have, NEW new,
           Ready(have \union new, q),
           \A s \in new : \E j \in 1..Len(p) : p[j].do = "add" /\ s \in p[j].functions
    PROVE  Ready(have, Join(p, q))
<1> DEFINE r == Join(p, q)
<1>1. /\ Len(p) \in Nat /\ Len(q) \in Nat /\ Len(r) = Len(p) + Len(q)
      /\ \A k \in 1..(Len(p) + Len(q)) : r[k] = IF k <= Len(p) THEN p[k] ELSE q[k - Len(p)]
  BY ConcatProperties, LenProperties DEF Join
<1> HIDE DEF r
<1> SUFFICES ASSUME NEW k \in 1..Len(r), NEW s \in Needs(r[k])
             PROVE  s \in have \/ Comes(r, k, s)
  BY DEF Ready, r
<1>2. CASE k <= Len(p)
  <2>1. k \in 1..Len(p) /\ r[k] = p[k]
    BY <1>1, <1>2
  <2>2. QED
    BY <2>1, NeedsRequested DEF Quiet
<1>3. CASE ~(k <= Len(p))
  <2> DEFINE m == k - Len(p)
  <2>1. m \in 1..Len(q) /\ r[k] = q[m]
    BY <1>1, <1>3
  <2>2. ASSUME NEW j \in 1..(m - 1)
        PROVE  Len(p) + j \in 1..(k - 1) /\ r[Len(p) + j] = q[j]
    <3> DEFINE l == Len(p) + j
    <3>1. /\ l \in 1..(k - 1) /\ l \in 1..(Len(p) + Len(q)) /\ ~(l <= Len(p))
          /\ l - Len(p) = j
      BY <1>1, <1>3, <2>1
    <3> HIDE DEF l
    <3>2. r[l] = q[l - Len(p)]
      BY <1>1, <3>1
    <3>3. QED
      BY <3>1, <3>2 DEF l
  <2>3. ASSUME NEW j \in 1..Len(p) PROVE j \in 1..(k - 1) /\ r[j] = p[j]
    <3>1. j <= Len(p) /\ j \in 1..(Len(p) + Len(q)) /\ Len(p) < k
      BY <1>1, <1>3
    <3>2. j \in 1..(k - 1)
      BY <1>1, <3>1
    <3>3. QED
      BY <1>1, <3>1, <3>2
  <2> HIDE DEF m
  <2>4. s \in have \/ s \in new \/ Comes(q, m, s)
    BY <2>1 DEF Ready
  <2>5. CASE s \in new
    BY <2>3, <2>5 DEF Comes
  <2>6. CASE Comes(q, m, s)
    <3>1. PICK j \in 1..(m - 1) :
              \/ q[j].do = "deploy" /\ s \in Signatures[q[j].feature][q[j].version]
              \/ q[j].do = "add" /\ s \in q[j].functions
      BY <2>6 DEF Comes
    <3> DEFINE l == Len(p) + j
    <3>2. l \in 1..(k - 1) /\ r[l] = q[j]
      BY <2>2
    <3> HIDE DEF l
    <3>3. QED
      BY <3>1, <3>2 DEF Comes
  <2>7. QED
    BY <2>4, <2>5, <2>6
<1>4. QED
  BY <1>2, <1>3

LEMMA CutOfQuiet ==
    ASSUME NEW i, NEW action \in {"add", "replace", "remove"}, NEW target, NEW functions,
           action = "remove" => functions \cap Requested = {}
    PROVE  Quiet(CutOf(action, i, target, functions))
<1> DEFINE cut == [do |-> action, registry |-> i, target |-> target, functions |-> functions]
<1>1. cut.do = action /\ cut.functions = functions
  OBVIOUS
<1> HIDE DEF cut
<1>2. Quiet(<<cut>>) /\ Quiet(<< >>)
  BY <1>1 DEF Quiet, Spares
<1>3. QED
  BY <1>2 DEF CutOf, cut

LEMMA DeployFeatureQuiet ==
    ASSUME NEW task \in Task, task.do = "deploy", built \in [Feature -> Nat],
           NEW n \in Nat, NEW i \in 1..n
    PROVE  /\ Quiet(deployFeature(task, i))
           /\ \A s \in Signatures[task.feature][task.version] :
                 \E j \in 1..Len(deployFeature(task, i)) :
                     /\ deployFeature(task, i)[j].do = "add"
                     /\ s \in deployFeature(task, i)[j].functions
<1> DEFINE ids == Interfaces(task.feature)
           functions == Signatures[task.feature][task.version]
           target == Target(task)
           sets == [k \in DOMAIN ids |-> [do |-> "interface", registry |-> i, id |-> ids[k]]]
           cut == [do |-> "add", registry |-> i, target |-> target, functions |-> functions]
           adds == CutOf("add", i, target, functions)
           p == deployFeature(task, i)
<1>1. ids \in Seq(STRING)
  BY TargetOfTask, ReleaseAssumption
<1>2. adds \in Seq(Step(n))
  BY TargetOfTask, CutOfSteps
<1>3. p = Join(adds, sets)
  BY DEF deployFeature, Join
<1> HIDE DEF ids, functions, target
<1>4. DOMAIN ids = 1..Len(ids) /\ Len(ids) \in Nat
  BY <1>1
<1>5. \A k \in 1..Len(ids) : [do |-> "interface", registry |-> i, id |-> ids[k]] \in Step(n)
  BY <1>1 DEF Step, InterfaceStep
<1>6. sets \in [1..Len(ids) -> Step(n)]
  BY <1>4, <1>5
<1>7. sets \in Seq(Step(n)) /\ Len(sets) = Len(ids)
  BY <1>4, <1>6
<1>8. \A k \in 1..Len(sets) : sets[k].do = "interface"
  BY <1>4, <1>7
<1>9. Quiet(adds)
  BY CutOfQuiet
<1>10. adds = IF functions = {} THEN << >> ELSE <<cut>>
  BY DEF CutOf
<1>11. cut.do = "add" /\ cut.functions = functions
  OBVIOUS
<1> HIDE DEF sets, adds, cut, p
<1>12. Quiet(p)
  <2>1. Quiet(sets)
    BY <1>8 DEF Quiet, Spares
  <2>2. QED
    BY <1>2, <1>3, <1>7, <1>9, <2>1, JoinQuiet
<1>13. ASSUME NEW s \in functions PROVE \E j \in 1..Len(p) : p[j].do = "add" /\ s \in p[j].functions
  <2>1. Len(adds) = 1 /\ adds[1] = cut
    BY <1>10, <1>13
  <2>2. /\ Len(p) = Len(adds) + Len(sets) /\ Len(sets) \in Nat
        /\ \A k \in 1..(Len(adds) + Len(sets)) :
              p[k] = IF k <= Len(adds) THEN adds[k] ELSE sets[k - Len(adds)]
    <3>1. p = adds \o sets
      BY <1>3 DEF Join
    <3>2. adds \in Seq(Step(n)) /\ sets \in Seq(Step(n))
      BY <1>2, <1>7
    <3>3. Len(adds) \in Nat /\ Len(sets) \in Nat
      BY <3>2, LenProperties
    <3>4. QED
      BY <3>1, <3>2, <3>3, ConcatProperties
  <2>3. 1 \in 1..Len(p) /\ p[1] = cut
    BY <2>1, <2>2
  <2>4. QED
    BY <1>11, <1>13, <2>3
<1>14. QED
  BY <1>12, <1>13 DEF p, functions

LEMMA UpgradeFeatureQuiet ==
    ASSUME NEW task \in Task, task.do = "upgrade", built \in [Feature -> Nat],
           NEW n \in Nat, NEW i \in 1..n
    PROVE  Quiet(upgradeFeature(task, i))
<1> DEFINE from == Signatures[task.feature][task.from]
           into == Signatures[task.feature][task.version]
           target == Target(task)
           new == into \ from
           both == from \cap into
           gone == from \ into
           adds == CutOf("add", i, target, new)
           replaces == CutOf("replace", i, target, both)
           removes == CutOf("remove", i, target, gone)
           report == Report(task, i)
           step == [do |-> "upgraded", registry |-> i, target |-> target,
                    fromWhole |-> Whole(registries[i].route, task.feature, task.from)]
<1>1. /\ target \in Contract /\ into \subseteq Function
      /\ \A s \in into : Implements(target, s)
  BY TargetOfTask
<1>2. from \subseteq Function
  BY TargetOfTask, ReleaseAssumption DEF Function
<1>3. gone \cap Requested = {}
  BY RegistrationAssumption DEF Requested
<1>4. upgradeFeature(task, i) = Join(Join(Join(adds, replaces), removes), report)
  BY DEF upgradeFeature, Join
<1>5. report = <<step>> /\ step.do = "upgraded"
  BY DEF Report
<1>6. step \in Step(n)
  <2>1. Whole(registries[i].route, task.feature, task.from) \in BOOLEAN
    BY DEF Whole
  <2>2. step \in ReportStep(n)
    BY <1>1, <2>1 DEF ReportStep
  <2>3. QED
    BY <2>2 DEF Step
<1> HIDE DEF from, into, target, step, report
<1>7. /\ \A s \in new : Implements(target, s)
      /\ \A s \in both : Implements(target, s)
      /\ new \in SUBSET Function /\ both \in SUBSET Function /\ gone \in SUBSET Function
  BY <1>1, <1>2
<1> HIDE DEF new, both, gone
<1>8. adds \in Seq(Step(n)) /\ replaces \in Seq(Step(n)) /\ removes \in Seq(Step(n))
  BY <1>1, <1>7, CutOfSteps
<1>9. report \in Seq(Step(n)) /\ Quiet(report)
  BY <1>5, <1>6 DEF Quiet, Spares
<1>10. Quiet(adds) /\ Quiet(replaces) /\ Quiet(removes)
  BY <1>3, CutOfQuiet
<1> HIDE DEF adds, replaces, removes
<1> DEFINE first == Join(adds, replaces)
           cuts == Join(first, removes)
<1>11. first \in Seq(Step(n)) /\ Quiet(first)
  BY <1>8, <1>10, JoinIsSeq, JoinQuiet
<1> HIDE DEF first
<1>12. cuts \in Seq(Step(n)) /\ Quiet(cuts)
  BY <1>8, <1>10, <1>11, JoinIsSeq, JoinQuiet
<1> HIDE DEF cuts
<1>13. Quiet(Join(cuts, report))
  BY <1>9, <1>12, JoinQuiet
<1>14. QED
  BY <1>4, <1>13 DEF cuts, first

\* A script registers what it has deployed, or nothing.
LEMMA ScriptReady ==
    ASSUME NEW script \in Script
    PROVE  /\ AllSpare(script)
           /\ Ready(Ownable, script)
           /\ Registers(script) => Front(script, 1)
<1>1. script \in Seq(Task)
  BY ReleaseAssumption
<1>2. Len(script) \in Nat /\ \A k \in 1..Len(script) : script[k] \in Task
  BY <1>1, ElementOfSeq, LenProperties
<1>3. AllSpare(script)
  BY <1>2, ReleaseAssumption DEF AllSpare, Spares
<1>4. ASSUME NEW k \in 1..Len(script), NEW s \in Needs(script[k])
      PROVE  /\ script[1].do = "registry"
             /\ s \in Ownable \/ Comes(script, k, s)
  <2>1. script[k].do = "register"
    BY <1>4 DEF Needs
  <2>2. PICK i \in DOMAIN script[k].types : /\ script[k].types[i] \in CollectionType
                                            /\ s = functionSignature(script[k].types[i])
    BY <1>4, <2>1 DEF Needs
  <2>3. /\ script[1].do = "registry"
        /\ \/ functionSignature(script[k].types[i]) \in Ownable
           \/ \E j \in 1..(k - 1) :
                 /\ script[j].do = "deploy"
                 /\ functionSignature(script[k].types[i])
                       \in Signatures[script[j].feature][script[j].version]
    BY <2>1, <2>2, RegistrationAssumption
  <2>4. QED
    BY <2>2, <2>3 DEF Comes
<1>5. ASSUME Registers(script) PROVE Front(script, 1)
  <2>1. Len(script) >= 1 /\ script[1].do = "registry"
    <3>1. PICK k \in 1..Len(script) : Needs(script[k]) # {}
      BY <1>5 DEF Registers
    <3>2. PICK s : s \in Needs(script[k])
      BY <3>1
    <3>3. script[1].do = "registry"
      BY <1>4, <3>2
    <3>4. QED
      BY <1>2, <3>1, <3>3
  <2>2. "registry" \in CoreKinds
    BY CoreTaskFacts
  <2>3. ~Featured(script, 0)
    BY <1>2, <2>1, <2>2 DEF Featured
  <2>4. QED
    BY <2>3, ScriptBegins
<1>6. QED
  BY <1>3, <1>4, <1>5 DEF Ready

\* No step takes a function of a request to collections away from a registry that has
\* it, or changes a registry or a factory for another.
LEMMA RoutesStay ==
    ASSUME IInv, ScriptInv, [ReleaseNext]_releaseVars
    PROVE  /\ Len(registries) <= Len(registries')
           /\ \A i \in 1..Len(registries) :
                 DOMAIN registries[i].route \cap Requested \subseteq DOMAIN registries'[i].route
           /\ Len(factories) <= Len(factories')
           /\ \A k \in 1..Len(factories) : factories'[k] = factories[k]
<1> DEFINE n == Len(registries)
           m == Len(factories)
<1>0. /\ n \in Nat /\ m \in Nat /\ todo \in Seq(Step(n)) /\ registries \in Seq(Registry)
      /\ \A i \in 1..n : registries[i] \in Registry
      /\ factories \in Seq(Nat) /\ AllSpare(todo)
  BY ElementOfSeq DEF IInv, ScriptInv
<1>1. CASE diamondCut
  <2> DEFINE cut == Head(todo)
             i == cut.registry
             route == registries[i].route
  <2>1. cut \in CutStep(n) /\ todo # << >>
    BY <1>0, <1>1, RestFits, StepKind DEF diamondCut, Doing
  <2>2. i \in 1..n /\ factories' = factories
    BY <1>1, <2>1 DEF CutStep, diamondCut
  <2>3. CASE registries' = registries
    BY <1>0, <2>2, <2>3
  <2>4. CASE registries' = [registries EXCEPT ![i].route = Cut(@, cut)]
    <3>1. /\ registries' \in Seq(Registry) /\ Len(registries') = n
          /\ registries'[i].route = Cut(route, cut)
          /\ \A j \in 1..n : j # i => registries'[j] = registries[j]
      <4>1. registries' = [registries EXCEPT ![i] = [registries[i] EXCEPT !.route = Cut(@, cut)]]
        BY <2>4
      <4>2. IInv'
        BY NextKeeps
      <4>3. registries[i] \in Registry
        BY <1>0, <2>2
      <4> HIDE DEF i, cut
      <4>4. registries'[i].route = Cut(route, cut)
        BY <1>0, <2>2, <4>1, <4>3 DEF Registry
      <4>5. /\ Len(registries') = n
            /\ \A j \in 1..n : j # i => registries'[j] = registries[j]
        BY <1>0, <2>2, <4>1
      <4>6. QED
        BY <4>2, <4>4, <4>5 DEF IInv
    <3>2. DOMAIN route \cap Requested \subseteq DOMAIN Cut(route, cut)
      <4>1. CASE cut.do = "remove"
        <5>1. cut.functions \cap Requested = {}
          BY <1>0, <2>1, <4>1, RestSpares DEF Spares
        <5>2. DOMAIN Cut(route, cut) = DOMAIN route \ cut.functions
          BY <4>1 DEF Cut
        <5> HIDE DEF cut, route
        <5>3. QED
          BY <5>1, <5>2
      <4>2. CASE cut.do # "remove"
        BY <4>2 DEF Cut
      <4>3. QED
        BY <4>1, <4>2
    <3> HIDE DEF cut, i
    <3>3. QED
      BY <1>0, <2>2, <3>1, <3>2
  <2>5. QED
    BY <1>1, <2>3, <2>4 DEF diamondCut
<1>2. CASE setSupportedInterface
  <2> DEFINE set == Head(todo)
             i == set.registry
  <2>1. set \in InterfaceStep(n)
    BY <1>0, <1>2, RestFits, StepKind DEF setSupportedInterface, Doing
  <2>2. i \in 1..n /\ factories' = factories
    BY <1>2, <2>1 DEF InterfaceStep, setSupportedInterface
  <2>3. registries' = [registries EXCEPT ![i] =
                          [registries[i] EXCEPT !.interfaces = @ \union {set.id}]]
    BY <1>2 DEF setSupportedInterface
  <2> HIDE DEF i, set
  <2>4. Len(registries') = n /\ \A j \in 1..n : registries'[j].route = registries[j].route
    BY <1>0, <2>2, <2>3 DEF Registry
  <2>5. QED
    BY <1>0, <2>2, <2>4
<1>3. CASE DeployRegistry
  <2>1. registries' = Append(registries, NewRegistry) /\ factories' = factories
    BY <1>3 DEF DeployRegistry
  <2>2. /\ Len(registries') = n + 1
        /\ \A k \in 1..n : registries'[k] = registries[k]
    BY <1>0, <2>1, NewRegistryFits, AppendProperties
  <2>3. QED
    BY <1>0, <2>1, <2>2
<1>4. CASE DeployFactory
  <2>1. factories' = Append(factories, n) /\ registries' = registries
    BY <1>4 DEF DeployFactory
  <2>2. Len(factories') = m + 1 /\ \A k \in 1..m : factories'[k] = factories[k]
    BY <1>0, <2>1, AppendProperties
  <2>3. QED
    BY <1>0, <2>1, <2>2
<1>5. CASE registries' = registries /\ factories' = factories
  BY <1>0, <1>5
<1>6. ASSUME NEW script \in Script, StartScript(script)
      PROVE  registries' = registries /\ factories' = factories
  BY <1>6 DEF StartScript
<1>7. ASSUME NEW s \in Removable, RemoveSelector(s)
      PROVE  registries' = registries /\ factories' = factories
  BY <1>7 DEF RemoveSelector
<1>8. ASSUME \/ DeployFeatureContract \/ Upgraded \/ updateDeployJSON
             \/ setCollectionRegistryOnCollectionFactory \/ CutOff \/ RegistrationTask
             \/ UNCHANGED releaseVars
      PROVE  registries' = registries /\ factories' = factories
  BY <1>8 DEF DeployFeatureContract, Upgraded, updateDeployJSON, CutOff, RegistrationTask,
     setCollectionRegistryOnCollectionFactory, releaseVars
<1>9. QED
  BY <1>1, <1>2, <1>3, <1>4, <1>5, <1>6, <1>7, <1>8 DEF ReleaseNext, ReleaseStep

LEMMA ScriptInitHolds == ReleaseInit => ScriptInv
<1> SUFFICES ASSUME ReleaseInit PROVE ScriptInv
  OBVIOUS
<1>1. todo = << >> /\ factories = << >>
  BY DEF ReleaseInit
<1>2. Deployed
  BY <1>1, NothingFeatured, NothingReady DEF Deployed
<1>3. QED
  BY <1>1, <1>2, NothingReady DEF ScriptInv

\* What is done next tells whether the core is being deployed.
LEMMA NextDeployed ==
    ASSUME IInv, ScriptInv, NEW what, Doing(what)
    PROVE  /\ what \cap CoreKinds = {} => Deployed
           /\ \/ Deployed /\ Head(todo).do \notin CoreKinds
              \/ \E j \in 1..5 : Deploying(j) /\ Head(todo).do = CoreTasks[j]
<1>1. todo \in Seq(Step(Len(registries))) /\ todo # << >> /\ Head(todo).do \in what
  BY DEF IInv, Doing
<1>2. Deployed => Head(todo).do \notin CoreKinds
  BY <1>1, RestFeatured DEF Deployed
<1>3. \A j \in 1..5 : Deploying(j) => Head(todo).do = CoreTasks[j] /\ CoreTasks[j] \in CoreKinds
  BY <1>1, FrontRest DEF Deploying, CoreKinds
<1>4. QED
  BY <1>1, <1>2, <1>3 DEF ScriptInv

LEMMA ScriptNextKeeps == IInv /\ ScriptInv /\ [ReleaseNext]_releaseVars => ScriptInv'
<1> SUFFICES ASSUME IInv, ScriptInv, [ReleaseNext]_releaseVars PROVE ScriptInv'
  OBVIOUS
<1> DEFINE n == Len(registries)
           m == Len(factories)
<1>0. /\ n \in Nat /\ m \in Nat /\ todo \in Seq(Step(n)) /\ registries \in Seq(Registry)
      /\ json.registry \in 0..n /\ json \in [registry : 0..n, factory : Nat]
      /\ factories \in Seq(Nat) /\ AllSpare(todo)
  BY DEF IInv, ScriptInv
<1>a. ASSUME factories' = factories, json' = json, AllSpare(todo'),
             Featured(todo', json.registry), Ready(Routed', todo'),
             Registers(todo') => Deployed /\ Registers(todo)
      PROVE  ScriptInv'
  <2>1. Deployed'
    BY <1>a DEF Deployed
  <2>2. QED
    BY <1>0, <1>a, <2>1 DEF ScriptInv
<1>b. ASSUME json' = json PROVE Routed \cap Requested \subseteq Routed'
  BY <1>0, <1>b, RoutesStay DEF Routed
<1>c. ASSUME NEW what, Doing(what), what \cap CoreKinds = {}, todo' = Tail(todo),
             factories' = factories, json' = json, Head(todo).do # "deploy",
             Head(todo).do = "add" => Head(todo).functions \subseteq Routed'
      PROVE  ScriptInv'
  <2>1. todo # << >> /\ Deployed
    BY <1>c, NextDeployed DEF Doing
  <2>2. /\ Featured(todo', json.registry) /\ AllSpare(todo')
        /\ Registers(todo') => Registers(todo)
    BY <1>0, <1>c, <2>1, RestFeatured, RestSpares DEF Deployed
  <2>3. Ready(Routed, todo) /\ Routed \cap Requested \subseteq Routed'
    BY <1>b, <1>c, <2>1 DEF Deployed
  <2>4. Ready(Routed', Tail(todo))
    <3> DEFINE have == Routed
               later == Routed'
    <3>1. Ready(have, todo) /\ have \cap Requested \subseteq later
          /\ (Head(todo).do = "add" => Head(todo).functions \subseteq later)
      BY <1>c, <2>3
    <3> HIDE DEF have, later
    <3>2. Ready(later, Tail(todo))
      BY <1>0, <1>c, <2>1, <3>1, RestReady
    <3>3. QED
      BY <3>2 DEF later
  <2>5. QED
    BY <1>a, <1>c, <2>1, <2>2, <2>4
<1>d. ASSUME todo' = << >>, factories' = factories, json' = json PROVE ScriptInv'
  <2>1. Featured(<< >>, json.registry) /\ Ready(Routed', << >>) /\ ~Registers(<< >>)
        /\ AllSpare(<< >>)
    BY NothingFeatured, NothingReady
  <2>2. QED
    BY <1>a, <1>d, <2>1
<1>1. ASSUME NEW script \in Script, StartScript(script) PROVE ScriptInv'
  <2>1. /\ todo' = script /\ registries' = registries /\ factories' = factories
        /\ json' = json
    BY <1>1 DEF StartScript
  <2>2. AllSpare(script) /\ Ready(Ownable, script)
    BY ScriptReady
  <2>3. CASE Front(script, 1)
    <3>1. Deploying(1)'
      BY <2>1, <2>2, <2>3 DEF Deploying
    <3>2. QED
      BY <1>0, <2>1, <2>2, <3>1 DEF ScriptInv
  <2>4. CASE ~Front(script, 1)
    <3>1. Featured(script, json.registry) /\ ~Registers(script)
      BY <2>4, ScriptBegins, ScriptReady
    <3>2. Ready(Routed', script)
      BY <3>1 DEF Ready, Registers
    <3>3. QED
      BY <1>a, <2>1, <2>2, <3>1, <3>2
  <2>5. QED
    BY <2>3, <2>4
<1>2. CASE DeployFeatureContract
  <2>1. Head(todo) \in Task /\ Head(todo).do \in {"deploy", "upgrade"} /\ todo # << >>
    BY <1>0, <1>2, RestFits, StepKind DEF DeployFeatureContract, Doing
  <2>2. Deployed
    <3>1. {"deploy", "upgrade"} \cap CoreKinds = {}
      BY CoreTaskFacts
    <3>2. QED
      BY <1>2, <3>1, NextDeployed DEF DeployFeatureContract
  <2>3. registries' = registries /\ factories' = factories /\ json' = json
    BY <1>2 DEF DeployFeatureContract
  <2>4. CASE json.registry = 0
    BY <1>2, <1>d, <2>3, <2>4 DEF DeployFeatureContract
  <2>5. CASE json.registry # 0
    <3> DEFINE task == Head(todo)
               i == json.registry
               rest == Tail(todo)
               have == Routed
               functions == Signatures[task.feature][task.version]
               new == IF task.do = "deploy" THEN functions ELSE {}
               steps == IF task.do = "deploy" THEN deployFeature(task, i)
                        ELSE upgradeFeature(task, i)
    <3>1. i \in 1..n /\ built \in [Feature -> Nat]
      BY <2>5 DEF IInv
    <3>2. /\ rest \in Seq(Step(n)) /\ Featured(rest, i) /\ AllSpare(rest)
          /\ Registers(rest) => Registers(todo)
      BY <1>0, <2>1, <2>2, RestFits, RestFeatured, RestSpares DEF Deployed
    <3>3. todo' = Join(steps, rest)
      BY <1>2, <2>5 DEF DeployFeatureContract, Join
    <3>4. Ready(have \union new, rest)
      <4>1. Ready(have, todo) /\ task.do # "add"
        BY <2>1, <2>2 DEF Deployed
      <4>2. /\ have \cap Requested \subseteq have \union new
            /\ task.do = "deploy" => functions \subseteq have \union new
        OBVIOUS
      <4> HIDE DEF have, new
      <4>3. QED
        BY <1>0, <2>1, <4>1, <4>2, RestReady
    <3> HIDE DEF i, rest, have
    <3>5. /\ steps \in Seq(Step(n)) /\ Quiet(steps)
          /\ \A s \in new : \E j \in 1..Len(steps) : steps[j].do = "add" /\ s \in steps[j].functions
      <4>1. CASE task.do = "deploy"
        <5>1. steps = deployFeature(task, i) /\ new = functions
          BY <4>1
        <5>2. deployFeature(task, i) \in Seq(Step(n)) /\ Quiet(deployFeature(task, i))
          BY <1>0, <2>1, <3>1, <4>1, DeployFeatureSteps, DeployFeatureQuiet
        <5>3. \A s \in functions : \E j \in 1..Len(deployFeature(task, i)) :
                  /\ deployFeature(task, i)[j].do = "add"
                  /\ s \in deployFeature(task, i)[j].functions
          BY <1>0, <2>1, <3>1, <4>1, DeployFeatureQuiet
        <5> HIDE DEF steps, new, functions
        <5>4. QED
          BY <5>1, <5>2, <5>3
      <4>2. CASE task.do = "upgrade"
        BY <1>0, <2>1, <3>1, <4>2, UpgradeFeatureSteps, UpgradeFeatureQuiet
      <4>3. QED
        BY <2>1, <4>1, <4>2
    <3>6. Featured(todo', i)
      <4>1. CASE task.do = "deploy"
        <5>1. Featured(deployFeature(task, i), i)
          BY <1>0, <2>1, <3>1, <4>1, DeployFeatureFeatured
        <5>2. steps = deployFeature(task, i)
          BY <4>1
        <5> HIDE DEF steps
        <5>3. QED
          BY <3>2, <3>3, <3>5, <5>1, <5>2, JoinFeatured
      <4>2. CASE task.do = "upgrade"
        <5>1. steps = upgradeFeature(task, i)
          BY <4>2
        <5>2. QED
          BY <1>0, <2>1, <3>1, <3>2, <3>3, <4>2, <5>1, UpgradeFeatureGuarded
      <4>3. QED
        BY <2>1, <4>1, <4>2
    <3> HIDE DEF steps, new
    <3>7. AllSpare(todo') /\ (Registers(todo') => Registers(rest))
      BY <3>2, <3>3, <3>5, JoinQuiet
    <3>8. Ready(have, todo')
      BY <3>2, <3>3, <3>4, <3>5, JoinReady
    <3>9. Routed' = have
      BY <2>3 DEF Routed, have
    <3>10. QED
      BY <1>a, <2>2, <2>3, <3>2, <3>6, <3>7, <3>8, <3>9 DEF i
  <2>6. QED
    BY <2>4, <2>5
<1>3. CASE diamondCut
  <2> DEFINE cut == Head(todo)
             i == cut.registry
             route == registries[i].route
  <2>1. /\ cut \in CutStep(n) /\ todo # << >> /\ cut.do \in {"add", "replace", "remove"}
        /\ Doing({"add", "replace", "remove"})
    BY <1>0, <1>3, RestFits, StepKind DEF diamondCut, Doing
  <2>2. {"add", "replace", "remove"} \cap CoreKinds = {} /\ Deployed
    <3>1. {"add", "replace", "remove"} \cap CoreKinds = {}
      BY CoreTaskFacts
    <3>2. QED
      BY <2>1, <3>1, NextDeployed
  <2>3. i \in 1..n /\ i = json.registry
    <3>1. i \in 1..n
      BY <2>1 DEF CutStep
    <3>2. QED
      BY <1>0, <2>1, <2>2, <3>1, RestFeatured DEF Deployed, IsCut
  <2>4. factories' = factories /\ json' = json
    BY <1>3 DEF diamondCut
  <2>5. CASE ~CutAllowed(route, cut)
    BY <1>3, <1>d, <2>4, <2>5 DEF diamondCut
  <2>6. CASE CutAllowed(route, cut)
    <3>1. todo' = Tail(todo) /\ registries' = [registries EXCEPT ![i].route = Cut(@, cut)]
      BY <1>3, <2>6 DEF diamondCut
    <3>2. registries'[i].route = Cut(route, cut)
      <4>1. registries[i] \in Registry
        BY <1>0, <2>3, ElementOfSeq
      <4>2. registries' = [registries EXCEPT ![i] = [registries[i] EXCEPT !.route = Cut(@, cut)]]
        BY <3>1
      <4> HIDE DEF cut, i
      <4>3. QED
        BY <1>0, <2>3, <4>1, <4>2 DEF Registry
    <3>3. cut.do = "add" => cut.functions \subseteq DOMAIN Cut(route, cut)
      BY DEF Cut
    <3>4. Routed' = DOMAIN registries'[i].route
      BY <2>3, <2>4 DEF Routed
    <3>5. cut.do = "add" => cut.functions \subseteq Routed'
      BY <3>2, <3>3, <3>4
    <3>6. cut.do # "deploy"
      BY <2>1
    <3>7. QED
      BY <1>c, <2>1, <2>2, <2>4, <3>1, <3>5, <3>6
  <2>7. QED
    BY <2>5, <2>6
<1>4. CASE setSupportedInterface
  <2>1. /\ Doing({"interface"}) /\ Head(todo).do = "interface" /\ todo' = Tail(todo)
        /\ factories' = factories /\ json' = json
    BY <1>4 DEF setSupportedInterface, Doing
  <2>2. {"interface"} \cap CoreKinds = {}
    BY CoreTaskFacts
  <2>3. QED
    BY <1>c, <2>1, <2>2
<1>5. CASE Upgraded
  <2>1. /\ Doing({"upgraded"}) /\ Head(todo).do = "upgraded" /\ todo' = Tail(todo)
        /\ factories' = factories /\ json' = json
    BY <1>5 DEF Upgraded, Doing
  <2>2. {"upgraded"} \cap CoreKinds = {}
    BY CoreTaskFacts
  <2>3. QED
    BY <1>c, <2>1, <2>2
<1>e. ASSUME NEW j \in 1..5, NEW what, Doing(what), Head(todo).do = CoreTasks[j],
             todo' = Tail(todo)
      PROVE  /\ Deploying(j) /\ AllSpare(todo')
             /\ j < 5 => Front(todo', j + 1)
             /\ j = 5 => \A i : Featured(todo', i)
             /\ Ready(Ownable, todo')
  <2>1. todo # << >>
    BY <1>e DEF Doing
  <2>2. PICK k \in 1..5 : Deploying(k) /\ Head(todo).do = CoreTasks[k]
    BY <1>e, NextDeployed DEF CoreKinds
  <2>3. k = j
    BY <1>e, <2>2, CoreTaskFacts
  <2>4. Head(todo).do \notin {"deploy", "add"}
    BY <1>e, CoreTaskFacts
  <2>5. Front(todo, j) /\ Ready(Ownable, todo)
    BY <2>2, <2>3 DEF Deploying
  <2>6. Ready(Ownable, Tail(todo))
    BY <1>0, <2>1, <2>4, <2>5, RestReady
  <2>7. QED
    BY <1>0, <1>e, <2>1, <2>2, <2>3, <2>5, <2>6, FrontRest, RestSpares
<1>6. CASE DeployRegistry
  <2>1. /\ registries' = Append(registries, NewRegistry) /\ todo' = Tail(todo)
        /\ factories' = factories /\ json' = json /\ Doing({"registry"})
        /\ Head(todo).do = CoreTasks[1]
    BY <1>6, CoreTaskFacts DEF DeployRegistry, Doing
  <2>2. AllSpare(todo') /\ Front(todo', 2) /\ Ready(Ownable, todo')
    BY <1>e, <2>1
  <2>3. Len(registries') = n + 1 /\ registries'[n + 1] = NewRegistry
    BY <1>0, <2>1, NewRegistryFits, AppendProperties
  <2>4. Ownable \subseteq DOMAIN NewRegistry.route
    BY DEF NewRegistry
  <2>5. Deploying(2)'
    BY <1>0, <2>2, <2>3, <2>4 DEF Deploying
  <2>6. QED
    BY <1>0, <2>1, <2>2, <2>5 DEF ScriptInv
<1>7. CASE DeployFactory
  <2>1. /\ factories' = Append(factories, n) /\ todo' = Tail(todo)
        /\ registries' = registries /\ json' = json /\ Doing({"factory"})
        /\ Head(todo).do = CoreTasks[3]
    BY <1>7, CoreTaskFacts DEF DeployFactory, Doing
  <2>2. Deploying(3) /\ AllSpare(todo') /\ Front(todo', 4) /\ Ready(Ownable, todo')
    BY <1>e, <2>1
  <2>3. factories' \in Seq(Nat) /\ Len(factories') = m + 1 /\ factories'[m + 1] = n
    BY <1>0, <2>1, AppendProperties
  <2>4. Deploying(4)'
    BY <1>0, <2>1, <2>2, <2>3 DEF Deploying
  <2>5. QED
    BY <2>2, <2>3, <2>4 DEF ScriptInv
<1>8. CASE updateDeployJSON
  <2>1. /\ todo' = Tail(todo) /\ Doing({"registryJSON", "factoryJSON"})
        /\ registries' = registries /\ factories' = factories
    BY <1>8 DEF updateDeployJSON
  <2>2. CASE Head(todo).do = "registryJSON"
    <3>1. json' = [json EXCEPT !.registry = n]
      BY <1>8, <2>2 DEF updateDeployJSON
    <3>2. json'.registry = n
      BY <1>0, <3>1
    <3>3. Deploying(2) /\ AllSpare(todo') /\ Front(todo', 3) /\ Ready(Ownable, todo')
      BY <1>e, <2>1, <2>2, CoreTaskFacts
    <3>4. Deploying(3)'
      BY <2>1, <3>2, <3>3 DEF Deploying
    <3>5. QED
      BY <1>0, <2>1, <3>3, <3>4 DEF ScriptInv
  <2>3. CASE Head(todo).do = "factoryJSON"
    <3>1. json' = [json EXCEPT !.factory = m]
      BY <1>8, <2>3 DEF updateDeployJSON
    <3>2. json'.registry = json.registry /\ json'.factory = m
      BY <1>0, <3>1
    <3>3. Deploying(4) /\ AllSpare(todo') /\ Front(todo', 5) /\ Ready(Ownable, todo')
      BY <1>e, <2>1, <2>3, CoreTaskFacts
    <3>4. Deploying(5)'
      BY <2>1, <3>2, <3>3 DEF Deploying
    <3>5. QED
      BY <1>0, <2>1, <3>3, <3>4 DEF ScriptInv
  <2>4. QED
    BY <2>1, <2>2, <2>3 DEF Doing
<1>9. CASE setCollectionRegistryOnCollectionFactory
  <2>1. /\ todo' = Tail(todo) /\ Doing({"setCollectionRegistry"})
        /\ registries' = registries /\ factories' = factories /\ json' = json
        /\ Head(todo).do = CoreTasks[5]
    BY <1>9, CoreTaskFacts DEF setCollectionRegistryOnCollectionFactory, Doing
  <2>2. /\ Deploying(5) /\ AllSpare(todo') /\ Featured(todo', json.registry)
        /\ Ready(Ownable, todo')
    BY <1>e, <2>1
  <2>3. /\ json.registry = n /\ n >= 1 /\ Ownable \subseteq DOMAIN registries[n].route
        /\ m >= 1 /\ json.factory = m /\ factories[m] = n
    BY <2>2 DEF Deploying
  <2>4. Ready(Routed', todo')
    <3>1. Ownable \subseteq Routed'
      BY <1>0, <2>1, <2>3 DEF Routed
    <3>2. QED
      BY <2>2, <3>1 DEF Ready
  <2>5. Deployed'
    BY <1>0, <2>1, <2>2, <2>3, <2>4 DEF Deployed
  <2>6. QED
    BY <1>0, <2>1, <2>2, <2>5 DEF ScriptInv
<1>10. ASSUME NEW s \in Removable, RemoveSelector(s) PROVE ScriptInv'
  <2> DEFINE q == CutOf("remove", json.registry, NoTarget, {s})
  <2>1. /\ todo' = q /\ registries' = registries /\ factories' = factories
        /\ json' = json
    BY <1>10 DEF RemoveSelector
  <2>2. {s} \cap Requested = {}
    BY RegistrationAssumption DEF Requested
  <2>3. Featured(q, json.registry) /\ Quiet(q)
    BY <2>2, CutOfFeatured, CutOfQuiet
  <2> HIDE DEF q
  <2>4. AllSpare(q) /\ ~Registers(q) /\ Ready(Routed', q)
    BY <2>3, NeedsRequested DEF Quiet, AllSpare, Registers, Ready
  <2>5. QED
    BY <1>a, <2>1, <2>3, <2>4
<1>11. CASE CutOff
  BY <1>d, <1>11 DEF CutOff
<1>12. CASE UNCHANGED releaseVars
  <2>1. Routed' = Routed
    BY <1>12 DEF releaseVars, Routed
  <2>2. \A j \in 1..5 : Deploying(j)' = Deploying(j)
    BY <1>12 DEF releaseVars, Deploying
  <2>3. Deployed' = Deployed
    BY <1>12, <2>1 DEF releaseVars, Deployed
  <2>4. QED
    BY <1>12, <2>2, <2>3 DEF releaseVars, ScriptInv
<1>13. CASE RegistrationTask
  <2>1. /\ Doing({"register"}) /\ Head(todo).do = "register"
        /\ factories' = factories /\ json' = json /\ todo' \in {Tail(todo), << >>}
    BY <1>13 DEF RegistrationTask, Doing
  <2>2. {"register"} \cap CoreKinds = {}
    BY CoreTaskFacts
  <2>3. QED
    BY <1>c, <1>d, <2>1, <2>2
<1>14. QED
  BY <1>1, <1>2, <1>3, <1>4, <1>5, <1>6, <1>7, <1>8, <1>9, <1>10, <1>11, <1>12, <1>13
     DEF ReleaseNext, ReleaseStep

\* A type is registered.
Known(t) == eip712TypeHash(t) \in DOMAIN requestTypes

\* The collections there are were made by the factory that the type for creating them
\* was registered with, and that factory's registry has the function of every type.
ServedInv ==
    /\ ScriptInv
    /\ (\E t \in CollectionType : Known(t)) => Known(CreateCollection)
    /\ ~Known(CreateCollection) => DOMAIN collections = {}
    /\ \A c \in DOMAIN collections : collections[c] = creates
    /\ \A t \in CollectionType : Known(t) =>
          /\ creates \in 1..Len(factories) /\ factories[creates] \in 1..Len(registries)
          /\ functionSignature(t) \in DOMAIN registries[factories[creates]].route

LEMMA ServedInitHolds == RequestsInit => ServedInv
<1> SUFFICES ASSUME RequestsInit PROVE ServedInv
  OBVIOUS
<1>1. ReleaseInit /\ collections = << >> /\ requestTypes = << >>
  BY DEF RequestsInit, ClientInit
<1>2. DOMAIN collections = {} /\ \A t : ~Known(t)
  BY <1>1 DEF Known
<1>3. QED
  BY <1>1, <1>2, ScriptInitHolds DEF ServedInv

\* A list of types is registered.
LEMMA RegisteredKnown ==
    ASSUME NEW types \in Seq(RequestType), registerRequestTypes(types), NEW t
    PROVE  /\ Known(t)' <=> Known(t) \/ \E i \in DOMAIN types : types[i] = t
           /\ (\E i \in DOMAIN types : types[i] = t) => ~Known(t)
<1> DEFINE hash(i) == registeredTypeHash(types[i], suffixType(types[i]))
           new == {hash(i) : i \in DOMAIN types}
           typeOf(h) == types[CHOOSE i \in DOMAIN types : hash(i) = h]
<1>1. /\ requestTypes' = [h \in DOMAIN requestTypes \union new |->
              IF h \notin new THEN requestTypes[h]
              ELSE [destination |-> getDestinationAddress(typeOf(h)),
                    functionSignature |-> functionSignature(typeOf(h))]]
      /\ new \cap DOMAIN requestTypes = {}
  BY DEF registerRequestTypes
<1>2. DOMAIN requestTypes' = DOMAIN requestTypes \union new
  BY <1>1
<1>3. \A i \in DOMAIN types : hash(i) = eip712TypeHash(types[i])
  <2>1. \A i \in DOMAIN types : types[i] \in MetaTxRequestType
    BY ClientAssumption
  <2>2. QED
    BY <2>1, HashesAgree
<1>4. \A i \in DOMAIN types : eip712TypeHash(types[i]) = eip712TypeHash(t) <=> types[i] = t
  BY DEF eip712TypeHash
<1>5. eip712TypeHash(t) \in new <=> \E i \in DOMAIN types : types[i] = t
  BY <1>3, <1>4
<1> HIDE DEF new, hash, typeOf
<1>6. Known(t)' <=> eip712TypeHash(t) \in DOMAIN requestTypes'
  BY DEF Known, eip712TypeHash
<1>7. QED
  BY <1>1, <1>2, <1>5, <1>6 DEF Known

\* A step that registers no such type and changes no collection.
LEMMA ServedStays ==
    ASSUME IInv, ServedInv, [ReleaseNext]_releaseVars, creates' = creates,
           \A t \in CollectionType \union {CreateCollection} : Known(t)' => Known(t),
           Known(CreateCollection) => Known(CreateCollection)',
           \A c \in DOMAIN collections' :
               \/ c \in DOMAIN collections /\ collections'[c] = collections[c]
               \/ collections'[c] = creates /\ Known(CreateCollection)
    PROVE  ServedInv'
<1>0. /\ Len(registries) \in Nat /\ Len(factories) \in Nat
      /\ Len(registries') \in Nat /\ Len(factories') \in Nat
  BY ScriptNextKeeps, NextKeeps DEF ServedInv, ScriptInv, IInv
<1>1. ScriptInv'
  BY ScriptNextKeeps DEF ServedInv
<1>2. ~Known(CreateCollection)' => DOMAIN collections' = {}
  BY DEF ServedInv
<1>3. \A c \in DOMAIN collections' : collections'[c] = creates'
  BY DEF ServedInv
<1>4. ASSUME NEW t \in CollectionType, Known(t)'
      PROVE  /\ creates' \in 1..Len(factories') /\ factories'[creates'] \in 1..Len(registries')
             /\ functionSignature(t) \in DOMAIN registries'[factories'[creates']].route
  <2>1. /\ creates \in 1..Len(factories) /\ factories[creates] \in 1..Len(registries)
        /\ functionSignature(t) \in DOMAIN registries[factories[creates]].route
    BY <1>4 DEF ServedInv
  <2>2. functionSignature(t) \in Requested
    BY DEF Requested
  <2>3. /\ Len(registries) <= Len(registries') /\ Len(factories) <= Len(factories')
        /\ factories'[creates] = factories[creates]
        /\ functionSignature(t) \in DOMAIN registries'[factories[creates]].route
    BY <2>1, <2>2, RoutesStay DEF ServedInv
  <2>4. QED
    BY <1>0, <2>1, <2>3
<1>5. (\E t \in CollectionType : Known(t)') => Known(CreateCollection)'
  BY DEF ServedInv
<1>6. QED
  BY <1>1, <1>2, <1>3, <1>4, <1>5 DEF ServedInv

\* Registering a list with such types: a script does it, after the features.
LEMMA ServedRegistered ==
    ASSUME IInv, ServedInv, [ReleaseNext]_releaseVars, RegistrationTask,
           Registered(Head(todo).types), collections' = collections
    PROVE  ServedInv'
<1> DEFINE n == Len(registries)
           task == Head(todo)
           types == task.types
<1>1. /\ todo \in Seq(Step(n)) /\ todo # << >> /\ task.do = "register" /\ n \in Nat
      /\ registries' = registries /\ factories' = factories /\ json' = json
  BY DEF IInv, RegistrationTask, Doing
<1>2. task \in Task
  BY <1>1, RestFits, StepKind
<1>3. types \in Seq(RequestType)
  BY <1>1, <1>2, RequestsAssumption
<1>4. /\ registerRequestTypes(types)
      /\ creates' = IF \E i \in DOMAIN types : types[i] = CreateCollection THEN json.factory
                    ELSE creates
  BY DEF Registered
<1>5. \A t : /\ Known(t)' <=> Known(t) \/ \E i \in DOMAIN types : types[i] = t
             /\ (\E i \in DOMAIN types : types[i] = t) => ~Known(t)
  BY <1>3, <1>4, RegisteredKnown
<1>6. (\E i \in DOMAIN types : types[i] \in CollectionType) =>
          \E i \in DOMAIN types : types[i] = CreateCollection
  <2>1. PICK script \in Script : \E k \in DOMAIN script : task = script[k]
    BY <1>2 DEF Task
  <2>2. script \in Seq(Task)
    BY ReleaseAssumption
  <2>3. PICK k \in 1..Len(script) : task = script[k]
    BY <2>1, <2>2
  <2> HIDE DEF task
  <2>4. QED
    BY <1>1, <2>3, RegistrationAssumption DEF types
<1> HIDE DEF types
<1>7. CASE ~\E i \in DOMAIN types : types[i] = CreateCollection
  <2>1. creates' = creates
    BY <1>4, <1>7
  <2>2. \A t \in CollectionType \union {CreateCollection} : Known(t)' => Known(t)
    BY <1>5, <1>6, <1>7
  <2>3. Known(CreateCollection) => Known(CreateCollection)'
    BY <1>5
  <2>4. QED
    BY <2>1, <2>2, <2>3, ServedStays
<1>8. CASE \E i \in DOMAIN types : types[i] = CreateCollection
  <2>1. ~Known(CreateCollection) /\ Known(CreateCollection)'
    BY <1>5, <1>8
  <2>2. DOMAIN collections = {} /\ \A t \in CollectionType : ~Known(t)
    BY <2>1 DEF ServedInv
  <2>3. ASSUME NEW t \in CollectionType, Known(t)'
        PROVE  /\ creates' \in 1..Len(factories') /\ factories'[creates'] \in 1..Len(registries')
               /\ functionSignature(t) \in DOMAIN registries'[factories'[creates']].route
    <3>1. PICK i \in DOMAIN types : types[i] = t
      BY <1>5, <2>2, <2>3
    <3>2. functionSignature(t) \in Needs(task)
      BY <1>1, <3>1 DEF Needs, types
    <3>3. 1 \in 1..Len(todo) /\ todo[1] = task
      BY <1>1, EmptySeq
    <3>4. Registers(todo)
      BY <3>2, <3>3 DEF Registers
    <3>5. Deployed
      <4>1. {"register"} \cap CoreKinds = {} /\ Doing({"register"})
        BY CoreTaskFacts DEF RegistrationTask
      <4>2. QED
        BY <4>1, NextDeployed DEF ServedInv
    <3>6. /\ json.registry # 0 /\ json.factory \in 1..Len(factories)
          /\ factories[json.factory] = json.registry
      BY <3>4, <3>5 DEF Deployed
    <3>7. functionSignature(t) \in Routed
      <4>1. ~Comes(todo, 1, functionSignature(t))
        BY DEF Comes
      <4>2. QED
        BY <3>2, <3>3, <3>5, <4>1 DEF Deployed, Ready
    <3>8. json.registry \in 1..n /\ functionSignature(t) \in DOMAIN registries[json.registry].route
      BY <3>6, <3>7 DEF Routed, IInv
    <3>9. creates' = json.factory
      BY <1>4, <1>8
    <3>10. QED
      BY <1>1, <3>6, <3>8, <3>9
  <2>4. ScriptInv'
    BY ScriptNextKeeps DEF ServedInv
  <2>5. QED
    BY <2>1, <2>2, <2>3, <2>4 DEF ServedInv
<1>9. QED
  BY <1>7, <1>8

LEMMA ServedNextKeeps ==
    IInv /\ ServedInv /\ [RequestsNext /\ TypesByScripts]_requestVars => ServedInv'
<1> SUFFICES ASSUME IInv, ServedInv, [RequestsNext /\ TypesByScripts]_requestVars
             PROVE  ServedInv'
  OBVIOUS
<1>1. [ReleaseNext]_releaseVars
  <2>1. [RequestsNext]_requestVars
    OBVIOUS
  <2>2. QED
    BY <2>1, RequestsStep
<1>2. ASSUME TypesByScripts, todo' = todo
      PROVE  /\ \A t \in CollectionType \union {CreateCollection} : Known(t)' => Known(t)
             /\ Known(CreateCollection) => Known(CreateCollection)'
  BY <1>2 DEF TypesByScripts, Known, eip712TypeHash
<1>3. ASSUME TypesByScripts, ClientStep, UNCHANGED <<releaseVars, collections, creates>>
      PROVE  ServedInv'
  <2>1. todo' = todo
    BY <1>3 DEF releaseVars
  <2>2. QED
    BY <1>1, <1>2, <1>3, <2>1, ServedStays
<1>4. ASSUME TypesByScripts, NEW c \in Caller, Relay(c) PROVE ServedInv'
  <2>1. todo' = todo /\ creates' = creates /\ executeTransactionLUW(c)
    BY <1>4 DEF Relay, releaseVars
  <2>2. Known(pending[c].type)
    BY <2>1 DEF executeTransactionLUW, Accepts, Relayed, encodeExecuteTransactionProps, Known
  <2>3. CASE pending[c].type = CreateCollection
    <3>1. PICK new \in Collection : createCollectionContract(new)
      BY <1>4, <2>3 DEF Relay
    <3>2. collections' = [d \in DOMAIN collections \union {new} |->
                             IF d = new THEN creates ELSE collections[d]]
      BY <3>1 DEF createCollectionContract
    <3>3. \A d \in DOMAIN collections' :
              \/ d \in DOMAIN collections /\ collections'[d] = collections[d]
              \/ collections'[d] = creates /\ Known(CreateCollection)
      BY <2>2, <2>3, <3>2
    <3>4. QED
      BY <1>1, <1>2, <1>4, <2>1, <3>3, ServedStays
  <2>4. CASE pending[c].type # CreateCollection
    <3>1. collections' = collections
      BY <1>4, <2>4 DEF Relay, CallCollection
    <3>2. QED
      BY <1>1, <1>2, <1>4, <2>1, <3>1, ServedStays
  <2>5. QED
    BY <2>3, <2>4
<1>5. ASSUME TypesByScripts, NEW types \in TypeLists, RegisterByHand(types) PROVE ServedInv'
  <2>1. todo' = todo /\ collections' = collections /\ Registered(types)
    BY <1>5 DEF RegisterByHand, releaseVars
  <2>2. types \in Seq(RequestType) /\ registerRequestTypes(types)
    BY <2>1, ClientAssumption DEF Registered
  <2>3. ~\E i \in DOMAIN types : types[i] = CreateCollection
    BY <1>2, <1>5, <2>1, <2>2, RegisteredKnown
  <2>4. creates' = creates
    BY <2>1, <2>3 DEF Registered
  <2>5. QED
    BY <1>1, <1>2, <1>5, <2>1, <2>4, ServedStays
<1>6. CASE RegisterByScript
  <2>1. RegistrationTask /\ collections' = collections
    BY <1>6 DEF RegisterByScript
  <2>2. CASE Registered(Head(todo).types)
    BY <1>1, <2>1, <2>2, ServedRegistered
  <2>3. CASE UNCHANGED <<clientVars, creates>>
    <3>1. creates' = creates /\ requestTypes' = requestTypes
      BY <2>3 DEF clientVars, forwarder
    <3>2. \A t : Known(t)' <=> Known(t)
      BY <3>1 DEF Known, eip712TypeHash
    <3>3. QED
      BY <1>1, <2>1, <3>1, <3>2, ServedStays
  <2>4. QED
    BY <1>6, <2>2, <2>3 DEF RegisterByScript
<1>7. CASE ReleaseStep /\ UNCHANGED <<clientVars, collections, creates>>
  <2>1. creates' = creates /\ requestTypes' = requestTypes /\ collections' = collections
    BY <1>7 DEF clientVars, forwarder
  <2>2. \A t : Known(t)' <=> Known(t)
    BY <2>1 DEF Known, eip712TypeHash
  <2>3. QED
    BY <1>1, <2>1, <2>2, ServedStays
<1>8. CASE UNCHANGED requestVars
  <2>1. creates' = creates /\ requestTypes' = requestTypes /\ collections' = collections
    BY <1>8 DEF requestVars, clientVars, forwarder
  <2>2. \A t : Known(t)' <=> Known(t)
    BY <2>1 DEF Known, eip712TypeHash
  <2>3. QED
    BY <1>1, <2>1, <2>2, ServedStays
<1>9. QED
  BY <1>3, <1>4, <1>5, <1>6, <1>7, <1>8 DEF RequestsNext

LEMMA ServedInvSuffices == ServedInv => RequestReachesFeature
<1> SUFFICES ASSUME ServedInv, NEW c \in DOMAIN collections, NEW t \in RequestType,
                    destinationAddressProvided(t), eip712TypeHash(t) \in DOMAIN requestTypes
             PROVE  functionSignature(t) \in DOMAIN featureRegistry(c).route
  BY DEF RequestReachesFeature
<1>1. t \in CollectionType /\ Known(t)
  BY DEF CollectionType, Known
<1>2. collections[c] = creates
  BY DEF ServedInv
<1>3. functionSignature(t) \in DOMAIN registries[factories[creates]].route
  BY <1>1 DEF ServedInv
<1>4. QED
  BY <1>2, <1>3 DEF featureRegistry

\* While scripts alone register the types of collections, a request to a collection finds
\* a contract for its function, for any tables and scripts of that kind, whatever is cut
\* off, repeated, upgraded or unregistered (RequestReachesFeature).
THEOREM RequestReachesFeatureHolds == ScriptedSpec => []RequestReachesFeature
<1>1. ScriptedSpec => RequestsSpec
  BY PTL DEF ScriptedSpec, RequestsSpec
<1>2. ScriptedSpec => []IInv
  BY <1>1, RequestsIInv, PTL
<1>3. RequestsInit => ServedInv
  BY ServedInitHolds
<1>4. IInv /\ ServedInv /\ [RequestsNext /\ TypesByScripts]_requestVars => ServedInv'
  BY ServedNextKeeps
<1>5. QED
  BY <1>2, <1>3, <1>4, ServedInvSuffices, PTL DEF ScriptedSpec
=============================================================================
