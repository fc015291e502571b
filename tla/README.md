# A TLA+ model of Startrail

Startrail registers works of art on Ethereum.  A *Startrail Registry Record* (SRR)
is an ERC-721 token that an artist or gallery issues and that then changes hands,
with a provenance entry for each sale.  The galleries and artists ("licensed
users") act through wallets with one or several owners; their owners sign meta
transactions off the chain, and anybody may relay them.

This directory models the system in TLA+, from the client library that
builds a request to the subgraph that shows what became of it, checks the model with TLC
on small instances and proves theorems about it, for every value of the constants, with
TLAPS.

## 1. Inventory

| Component | State | Operations | What makes it correct |
|---|---|---|---|
| Licensed user wallets: `licensedUser/OwnerManager.sol`, `LicensedUserManagerV02.sol`, `SignatureChecker.sol` | per wallet a linked list of owners, `ownerCount`, `threshold` (both uint8); per licensed user the single owner, names, `active` | create a wallet (or migrate one), add, remove and swap owners, change the threshold, set names, check a signature set | one storage of owners at a time; the list is one ring without an owner who was removed; the threshold can always be met; a signature set is accepted exactly when it is a quorum |
| Meta transaction forwarder: `metaTx/*` | a nonce per sender and channel; request types with their destinations | register and unregister request types, relay a request signed by an account or by a wallet's owners | a signed request executes at most once, in the order of its channel; nobody acts for a wallet without a quorum of its present owners |
| Meta transaction client: `startrail-common-js/`, `utils/meta-tx-send.ts`, `utils/register-request-types.ts` | the tables of request types; a request from the reading of its nonce to its relay | register and unregister types, read the nonce, build the message, sign, encode, relay | what is executed is what was signed, for every type; a request that nothing overtook is accepted |
| Startrail registry: `startrailregistry/StartrailRegistryV25.sol`, `ERC721.sol` | owners, balances, approvals; issuer, artist, metadata, lock, royalty and commitment of each record; custom histories | create and update records, approve by commitment, transfer by reveal, transfer with provenance, the ERC-721 calls, locks, custom histories, kill switch | a record always has an owner; a locked record does not move without provenance; provenance is true; approvals end with ownership |
| Collection features: `collection/features/*` | like the registry, in diamond storage, with an owner of the collection | like the registry, and transfer of the collection's ownership | like the registry, though a record can be sent to the zero address and issued again |
| Bulk: `bulk/BulkV6.sol`, and the contracts it replaced, `BulkIssueV1..V5`, `BulkTransferV2` | batches by Merkle root, the leaves processed, their count (uint8), the signer | prepare a batch (or migrate one), process one leaf or several | each leaf at most once, for the signer of a prepared batch; a failing leaf takes back its transaction |
| Collection factory, registries and proxies: `CollectionFactoryV01.sol`, `CollectionRegistry.sol`, `CollectionProxy.sol`, `registry/` | the collections, the feature registry each one asks, routes from functions to contracts, interfaces | create a collection, cut a diamond, set an interface, look a function up | every function of a served collection is found, in a contract that has it |
| Feature release scripts: `utils/collection/*`, `utils/deployment/02[4-9]*`, `030*`, `deploy.json` | what is left of a script, `deploy.json` | deploy the core, deploy and upgrade features, remove a function | an upgrade that is cut off leaves no function without a contract; a finished one leaves one whole version |
| Subgraph: `src/subgraph` | an index of wallets, records, commitments, provenance, batches, collections and request types, built from events | one handler per event | the index agrees with the contracts; a record that is issued is shown; provenance is final |
| Migration from the first chain: `srr-migration-handlers.ts`, `StartrailRegistryV1/V2`, `fix-prov-created-at.js` | a record there, here and in the index | live there, move, replay of the events, later fix of the dates | the moved record is shown as it was |
| OpenSea meta transactions: `OpenSeaMetaTransactionLibrary.sol` | a nonce per user | execute a signed call on the registry | at most once, in order |
| Name registry: `name/NameRegistry.sol` | addresses by key | set, get | none beyond the assignment |
| Administrator client: `contracts/administrator`, `lib/MultiSend.sol` | the nonce of a safe outside the repository | sign and send calls | one nonce, one call |
| Upgrade proxies, contract deployment scripts, manifest generator | third-party code; linear scripts run by hand | | outside the model |

**How they interact.**  The client reads a nonce, builds the EIP-712 message of a request
and has the owners of a wallet sign it.  Whoever relays it
calls `MetaTxForwarderV3`, which spends the nonce, asks `LicensedUserManagerV02`
whether the signatures are a quorum (or recovers the one account that signed),
and calls the destination with the sender's address appended (EIP-2771).  The
destination is fixed per request type (the registry, the bulk contract, the collection factory, the
licensed user manager itself) or, for types registered without one, the
collection named in the request, which must be in the collection registry.  A collection is a proxy
that asks its feature registry for the contract of each function; release scripts change
those routes while requests go on.  Bulk calls the registry and the collections for the
signer of a batch.  The registry and the collections call the recipients of tokens,
so that control leaves the system in the middle of a transaction.  The subgraph
follows the events of all of them, some blocks later, and reads nothing else.

**What is hard.**  On the chain everything is one sequence of transactions, so interleaving
means *nesting*: a call-out that comes back in before the outer call is done, and
a failure that takes back everything nested in it.  Between transactions the
order is anybody's: signed requests are delayed, repeated and overtaken, while
owners, thresholds, locks, request types and the contracts behind a collection change.  Release scripts
are many transactions long and stop in the middle.  The subgraph sees the events alone, where their
order and their keys decide what is kept.  Within a component the
danger is a long sequence of legal calls that drifts apart two pieces of state
(list and count, balance and ownership, stored and announced commitment), and
the narrow integers.  `PROJECT.json` lists the hazards at their lines with the
properties that would catch them.

## 2. Modules

| Module | Models | Built on |
|---|---|---|
| `OwnerManager`, `LicensedUserManager` | owner lists; wallets, names, the signature check | |
| `MetaTxForwarder` | request types, nonces, signatures, destinations, nested and reverting calls | `INSTANCE LicensedUserManager` as `LUM` |
| `RequestLedger` | abstract: what the forwarder promises to those who sign | implemented by `MetaTxForwarder` |
| `ERC721`, `CustomHistories`, `StartrailRegistry` | the registry | |
| `SRRTitle` | abstract: what a record promises to those who trade in it | implemented by `StartrailRegistry` |
| `ChainLog`, `EntityStore` | the events not yet indexed; the subgraph's database | |
| `LUWIndex`, `SRRIndex`, `CollectionIndex`, `BulkIndex`, `MigrationIndex` | the handlers of the subgraph, as operators on a database and an event | `EntityStore` |
| `IndexedWallets`, `IndexedRegistry` | a contract that emits its events, and its index | the contract's module, `ChainLog`, the index |
| `Collection`, `IndexedCollection` | a collection over its storage, emitting its events; its index | `ChainLog`, `CollectionIndex` |
| `Bulk`, `IndexedBulk` | the three bulk contracts; their index | `ChainLog`, `BulkIndex` |
| `MovedRecord` | one record on its first chain, its move, its index | `ChainLog`, `MigrationIndex` |
| `MetaTxTypes` | the tables of the client: fields, types, functions and destinations of the 39 request types | |
| `MetaTxClient` | the client, the forwarder as far as it concerns encodings, the index of requests | `MetaTxTypes`, `EntityStore`, `ChainLog` |
| `FeatureSignatures` | the functions of every version of every feature; the release scripts as sequences of tasks | `MetaTxTypes` |
| `FeatureUpgrade` | running the scripts: diamond cuts, interfaces, `deploy.json`, cut-offs | |
| `CollectionRequests` | factory, collection registry and proxies; requests while features are released | `MetaTxClient`, `FeatureUpgrade` |
| `MC*` | the constants and the parts of the runs | |
| `SequenceFacts` | lemmas on sequences that the proofs share | `TLAPS` |
| `*_proofs` | theorems | the component, `SequenceFacts` and `TLAPS` |

**Conventions.**  Operators keep the names of the source's functions (Solidity's without the
leading underscore).  A call that reverts is a step that is not taken: `require`s,
modifiers and checked arithmetic are the conjuncts of its guard.  An operation is
an action with its arguments as parameters, and `Next` chooses caller and
arguments, the invalid ones (the zero address, the sentinel, empty names, royalty
rates over 100 %) included.  `caller` is the account the operation is for:
`msgSender()`, which for a forwarded request is the sender who signed.  The registry and the wallets
say what changes; the `Indexed*` modules add to each operation the events it emits, in the contract's order.

**Seeded faults.**  Operators marked "Seeded fault" are variants of an operation
with a plausible bug (a missing check, a swapped order, a stale copy).  No
specification uses them.  `PROJECT.json` ("mutants") names, for each property
of each passing run, one that, put in the place of the operation, makes
TLC find the property violated: each property can fail, on the bounds it is checked with.

### 2.1 Wallets

`wallets[w]` is the struct of `OwnerManager` (the mapping `owners`, where an
absent entry is `ZERO`, the count and the threshold), `luws[w]` the struct of
`LicensedUserManager`.  Addresses are numbers, because `SignatureChecker` wants
signers in ascending order; 0 is the zero address and 1 the sentinel.
`MaxUint8` stands for 255 so that a run can reach it: `uint8(_owners.length)` is
`% (MaxUint8 + 1)`, `ownerCount++` and `ownerCount - 1` have the guard of checked
arithmetic.  `SetupAccepts` follows the loop of `setupOwners` precisely: iteration
*i* sees the entries written for `list[1] .. list[i - 2]` only.  `Visit` is the
loop of `getOwners`; it panics (`~GetOwnersReturns`) when the list is longer than
the array of `ownerCount` entries, which also makes a creation revert.  A
signature is the account it recovers to.  `createWallet` and `createWalletFromMigration` differ in how the address is
computed and in their events; salts and user types are left out.

### 2.2 Forwarder

A request is what the owners sign: its type, sender, channel, nonce, the contract
named in its first parameter and the operation on the wallets if it has one.
Signatures are collected off the chain and stay good for ever, so the model keeps no
record of who signed: when a request is relayed any list of accounts may be
the signers.  `executeTransaction` is the forwarder up to the call of
the destination; it pushes the call, with the state to restore, on `stack`.
`CallSucceeds` is the destination's work and the return (`ExecutionSuccess`),
`CallReverts` the failure: it restores what the call started from, for any reason
of the destination's or for want of gas, and the nested calls with it.  Between
the push and the return, further requests may be relayed when the destination
calls out (all but the licensed user manager).  Operations on wallets are those of
`LicensedUserManager`, carried out for the sender.  Request types come and go between
transactions; the collection registry may be replaced.  `MaxNonce` is the
largest uint128.  A request that fails nested in one that goes on is one that returns to its predecessor's
state, so "caught" failures need no action of their own.

### 2.3 Registry

Token ids are `generate[<<metadata, artist>>]` for any function `generate`, so that
hash collisions (`% 10**12`) are included.  `commitments[t]` holds the stored commitment and
custom history id; a commitment is known by its reveal, and any caller may know any
reveal.  `announced[t]` is the custom history in the last `SRRCommitment` event
and `emitted` the `Provenance` event of the last step.  The OpenSea proxy is an account
that `isApprovedForAll` accepts for every owner unless the kill switch is on.

A safe transfer calls a contract recipient after everything is written and does
nothing after it but check the answer.  Calls that the recipient makes meanwhile are
therefore calls that follow the transfer, and a recipient that rejects takes
everything back: safe transfers are single steps that are taken or not.
Bulk contracts call `createSRRFromBulk`, `approveSRRByCommitmentFromBulk` and
`transferFromWithProvenanceFromBulk` for the signer of a batch; in this module any account may be
the signer.

### 2.4 Collections

`Collection` has the nine features over the one storage they share.  The differences from the registry are
those of the code: tokens have an owner of the collection as issuer, `_transferFrom` writes the new owner without looking at
the zero address on the routes by reveal and with provenance, creation writes the lock
and the royalty only when they are set, events carry the sender.  Creation of the collection itself, with its
three events, is one step.

### 2.5 Bulk

A root stands for the set of leaves that have a proof for it, a leaf for the arguments it is the
hash of; a leaf may be in several trees.  Of the destinations the model keeps the owners of the
tokens, which decide what they accept, and tokens also move by other routes.
`createSRRWithProofMulti` processes a list in one step: all of it or nothing.  `COUNT_MAX` is
the largest uint8.  `BulkIssue` stands for its five versions, whose first can take over a batch from
another chain.

### 2.6 Subgraph

Each handler is an operator from a database, an event and its block's timestamp to the
next database, with every save it makes; an id that the code hashes is the tuple of what it
hashes, so that what collides in the code collides in the model.  A handler that casts a missing entity and saves it *stops* the
subgraph, as graph-node does.  The contract's call appends its events to `log`; `IndexEvent` handles the oldest at any time after
its block.  `Backlog` bounds how many events may wait when a call is made, `MaxTime` the timestamps
of blocks; `NextBlock` is a step of its own, so several calls may share a block.

`MovedRecord` begins on the other chain, with the handlers' legacy events; the move is
one transaction that stores the record and replays its history; provenances with a wrong timestamp get their
dates from a later event.

### 2.7 Requests and releases

`MetaTxTypes` carries the client's tables field by field, so that `buildTypeList`, `addDestinationField` and the rest compute
the types as the code does.  Values are the fields they belong to, hashes the tuples they hash.  A caller reads the
nonce (`getNonce`), has it signed (`signRequest`) and relays it (`executeTransactionLUW`), or gives it up; between
any two of those steps other callers, owners and the administrator act.  The forwarder's hash and
call are rebuilt from what was relayed alone (`encodeRequest`, `CallOf`).

A release script is a sequence of tasks; a task that deploys a feature becomes the transactions it consists of
when the contract is deployed.  `todo` is what is left of the running script, `CutOff` drops
it.  What survives is the chain and `deploy.json`.  A diamond cut that adds a
function that is there, or replaces or removes one that is not, reverts, and ends the script.  One script runs at a time:
they are run by hand by the one holder of the administrator's key.

## 3. Runs

| Run | Instance | Shows |
|---|---|---|
| `wallet_ops` | one wallet, owners 2..4, `MaxUint8` = 3, every list of up to 3 addresses (invalid ones too) and every list of up to 5 owners, with the index | `TypeOK`, `OneStorage`, `ThresholdInRange`, `ListIsRing`, `OwnersReadable`, `SignatureSetIsQuorum`, `DriftOnlyAtSetup`, `IndexAgrees` |
| `wallet_duplicates` | one wallet, owners 2..5 | `NoDuplicateOwners` fails (finding 1) |
| `forwarder` | seven requests of one wallet and one account on two channels, nonces up to 2, two nested calls, two signatures | `NonceAccounting`, `OwnersChangeByConsent`, and that the forwarder implements `RequestLedger` (`CommitsInOrder`) |
| `registry` | one record with three accounts (administrator, artist, and a buyer who is also OpenSea's proxy), one history, rates of 100 % and above; and two records beside each other | `TypeOK`, `BalancesCountTokens`, `RoyaltyOnlyFromCreation`, `ApprovalEndsWithOwnership`, and that the registry implements `SRRTitle` (`KeepsTitle`) |
| `registry_commitment` | the same accounts | `CommitmentIsAsAnnounced` fails (finding 2) |
| `registry_artwork` | two records | `CreatesNewArtwork` fails (finding 3) |
| `registry_index` | one record, a gallery with a wallet and an administrator without, two blocks, the index | `NeverStops`, `RecordsAgree`, `PeopleAgree`, `OpenCommitmentIsLive`, `ProvenanceKeepsHistory`, `ProvenanceIsFinal`, and, by liveness, `RecordIsIndexed` |
| `collection` | one collection with one record, two accounts, the zero address as recipient, the index | `CollectionAgrees`, `ShownIsInForce`, `BalancesCountTokens`, `LockedMovesWithProvenance` |
| `collection_lock` | the same, without histories and royalties | `LockedAsCreated` fails (finding 4) |
| `bulk` | two batches with two leaves in common, five leaves, two destinations, the index | `LeavesTakeEffectOnce`, `IssuedByOneLeaf`, `BulkAgrees` |
| `moved_record` | a life of up to five events on the first chain, two accounts, two blocks there, the move, the index | `MovedRecordAgrees`, `ProvenanceIsDated` |
| `requests` | all request types in all forms of their data; two racing callers; eight scripts, up to four runs with one cut-off | `ExecutedAsSigned`, `SignedRequestIsAccepted`, `ForwarderIndexAgrees`, `RoutedIsImplemented`, `UpgradedIsWhole`, `UpgradeReachesServed`, `ClaimedIsRouted`, `RequestReachesFeature` |

Several runs consist of *parts*: the initial state chooses one, and a part keeps still what the others vary, so that the
states add up instead of multiplying (`registry`: one record with everything, two records
with less; `requests`: tables, race, release; and so on).  A part restricts which steps are taken, never what a step does.

Deadlock checking is on, except in `bulk`, `moved_record` and `requests`, which can run out of
work: every leaf processed and every token where it belongs, the record moved and indexed, every nonce used.

**Why the bounds suffice.**

* Wallets do not touch one another (every operation reads and writes one `w`), so one wallet is
  enough.  `MaxUint8` = 3 lets a list be longer than the counter, exactly as long, and shorter; the list operations touch at most three
  neighbours.  Five-element lists wrap the counter.
* In the forwarder the seven requests contain every pair that can interfere: two that
  want the same nonce (`AddSecondOwner`, `Rival`), two successors that change the
  signing rule in different ways (`LowerThreshold`, `DropFirst`), a request on another channel
  that can be nested in the first (`Parallel`, then `SwapFirst`) and an account's own.
  Two nonces exist to be used, and the third use is refused by the uint128 limit.
  Depth two nests a request in another; a third level repeats the step from the first
  to the second, and the theorem of section 5 covers every depth.
* In the registry one record, seen alone, reaches every combination of lock, approval, operator, royalty
  and commitment.  Three accounts give an owner, an approved
  account or operator, and a third; the OpenSea proxy is an account that also buys.
  `Issuer`, `Operator` and `Receiver` only reduce symmetric choices.  `MaxHistories` = 1 leaves histories of an empty name,
  of a name, and none.  A second record can only disturb the first through the shared balances and operators, which is what the second part has.
* In the indexed runs `Backlog` = 0 lets the index be behind by the events of one call, handled one
  by one.  More would show nothing new: handlers read no contract, so the database is a function of the
  events and of their blocks, and the properties compare it when it has caught up or, for the provenance, from one of its steps to the
  next.  `MaxTime` = 2 has calls in one block and in different ones.
* In `bulk` a leaf is in both trees, so each can be processed twice, in one batch or in two; `COUNT_MAX` = 2 with four
  leaves reaches the limit of the count; `MaxMulti` = 2 has lists that fail at the first and at the second leaf.
* In `requests` the tables are the code's, complete.  Two callers race for a nonce while owners, threshold and registrations
  change; a third would race one of them.  `MaxScripts` = 4 runs of eight scripts (the six of the repository and two upgrades by hand, one of them back to an
  older version) and one cut-off put every script after and before every other with a half-done one between; two registries
  are the one that is served and its successor.  Callers are symmetric: no definition tells them apart.

**Fairness.**  The contracts act only when they are called and nobody has to
call; client, administrator and scripts may stop for good.  None of those has a fairness condition, and the code promises
no progress for them (a request that always reverts keeps its channel blocked until the owners sign another).
graph-node, though, goes on to handle the events there are: `IndexedRegistry` has weak fairness of
`IndexEvent`, and only of it, and under it a record that was issued is indexed in the end (`RecordIsIndexed`).

## 4. What the properties say

*Wallets.*  `OneStorage`: the single owner and the list never both hold owners, and
a list has a threshold.  `ThresholdInRange`: although `addOwner` and
`removeOwner` skip the threshold's check when it stays the same, no sequence gets it past
the count.  `ListIsRing`: what `getOwners` lists is what `isOwner` and the signature check
accept, each once; an owner removed or swapped out is gone from both.
`OwnersReadable`: the array of `getOwners` never overflows, even when the length of
the first list is cut to its low bits.  `DriftOnlyAtSetup`: what `ownerCount`
counts beyond the owners on the list is fixed at setup.  `SignatureSetIsQuorum`: lists of threshold
length are accepted exactly when they are ascending and the signers are a quorum.
`IndexAgrees`: the index, built from additions and removals that carry no position, has the wallet's owners, threshold and names.

*Forwarder.*  `NonceAccounting`: the nonces below each counter were
each used by one request that has executed once or is executing; nothing else was
used.  `OwnersChangeByConsent`: a wallet's owners and threshold change only by the
administrator, or when a quorum of the owners *at that moment* signed the
very request, although other requests may have changed the owners since it was
signed or even since it was checked (a nested one).  `CommitsInOrder`: seen by whole
transactions the forwarder is a `RequestLedger`.

*Registry.*  `KeepsTitle`: the registry implements `SRRTitle`: once issued a record has an owner
and one issuer for good, moves without provenance only while it is unlocked, and its
provenance entries name the true former and new owner.  `ApprovalEndsWithOwnership`,
`BalancesCountTokens` (on every route, to oneself too), `RoyaltyOnlyFromCreation`.

*Index of the registry.*  `NeverStops`: no handler finds what it relies on missing.  `RecordsAgree`, `PeopleAgree`: a record that is
indexed has the owner, artist, lock, royalty and histories that the registry has; the licensed users it names are those.
`OpenCommitmentIsLive`: a commitment that is shown as open can be revealed (the converse does not hold: the contract keeps commitments
over transfers, and the index does not show them).  `ProvenanceIsFinal` and `ProvenanceKeepsHistory`: the two events of one transfer write
one entity; their order in the contract is what makes it keep the custom history, and
nothing overwrites it later.  It is about the first transfer of a record in a block: a
second one of that record shares its key and is not recorded.

*Collections.*  `ShownIsInForce`: what is shown of a record that exists, also of one issued again, is what the collection acts on.
`LockedMovesWithProvenance`: a locked record moves only with a `Provenance` event of that call that names the true parties.

*Bulk.*  `LeavesTakeEffectOnce`: a leaf of a batch takes effect at most once and only after the batch was prepared; the count is that of the leaves
that did.  `IssuedByOneLeaf`: a record is issued by one leaf of one batch, whoever processes whichever first.  `BulkAgrees`: so says the index.

*Moved records.*  `MovedRecordAgrees`: owner, metadata, licensed users, origin and date of issue are shown as on the first chain, and a commitment that is shown can
be revealed.  `ProvenanceIsDated`: the first change of hands has the time it had over there, also when the move gave it a wrong one and the fix came later.

*Requests.*  `ExecutedAsSigned`: the function and arguments that a destination gets are, field by field, those of the message
the owners saw.  `SignedRequestIsAccepted`: a request that enough present owners signed, whose nonce is still the next and whose type is still
registered, is accepted, in whatever order signers and fields were given.  `ForwarderIndexAgrees`: the index lists the registered types and exactly the nonces that were spent.
`RequestReachesFeature`: while scripts run, stop and are run again, a
served collection routes the function of every registered request type.  `RoutedIsImplemented`: to a contract that has it.
`UpgradedIsWhole`: a feature that was whole before an upgrade is whole after it.  `UpgradeReachesServed`: a cut that replaces or removes functions
succeeds only in the registry that the served collections ask.  `ClaimedIsRouted`: an interface is claimed only when its functions are there.

**Findings.**

1. `setupOwners` misses neighbours (`OwnerManager.sol:194`).  The check for duplicates looks up
   `owners[list[i]]` before the entry of `list[i]` is written, which happens one
   iteration later; `[2, 2]` is accepted.  The comment two lines above says "No duplicate owners
   allowed."  The wallet then has one owner and a count of 2, and with a threshold of 2
   nobody can ever sign for it.
2. A second approval inherits the custom history of the first
   (`StartrailRegistryV25.sol:974`).  The comment above says the prior approval is cancelled; its custom
   history id stays and ends up in the `Provenance` event of the reveal.
3. An existing record may have the artist and metadata of a new one
   (`StartrailRegistryV25.sol:903`).  The id is compared, and it was computed from data that updates
   may have changed; the error message is about artist and metadata.
4. A collection's record that was sent to the zero address and issued again unlocked is still
   locked (`LibSRRCreate.sol:78`).  The lock flag is written "only if true - save gas as
   false already be set", and a record's former life set it.  Its `CreateSRR` event says it is not locked.

Some things the model shows are disagreements with no text of the repository, and have no run: the second
provenance of a block that is not recorded (`srr-handlers.ts:299`); an upgrade that, cut off after its first
diamond cut, can never be run again, because adding functions that are there reverts (`collection/utils.ts:236`);
the type of `CreateCollection`, which keeps the destination of a former factory when the core is
deployed again; a request whose destination is given under a key with an underscore, which is signed and then cannot be encoded.

## 5. Proofs

`tlapm` checks eight proof modules.  Assumptions are the named `ASSUME`s of the modules:
owners are finitely many numbers above the sentinel, `MaxUint8 >= 2`, lists are sequences of
addresses, the empty string is no name, requests are well-formed, the administrator is neither a wallet nor an
account that signs, token ids are finitely
many, the zero address is no account and no licensed user, `Null` is no number, no licensed user and no record, the bulk contracts are among the three that exist,
whoever may come to own a record of a batch is not the mark
of a record that is not issued, scripts are sequences of tasks on known features and versions; a feature that adds an interface has the interface's functions, no
later version of it lacks them and nobody removes them by hand; the tasks of the scripts come in the order of `OrderAssumption`, and the lists
they register are lists of request types; a script that registers request types of collections deploys the core itself, has
deployed the feature with the function of each before, and registers with them the type that creates collections, and no upgrade
of a script takes such a function away (`RegistrationAssumption`); channels and nonces fit the bits they are packed into.  TLC evaluates them in the runs.

**`SequenceFacts`.**  What the other modules need to know of sequences of any length: appending, taking the head off,
joining, and lists that show each member of a set once.  Where induction would be the natural argument, which the installed provers cannot
instantiate, the lemma takes the *least* counterexample (`LeastNatural`, from the well-foundedness of the naturals).

**`LicensedUserManager_proofs`.**  `TypeCorrect`, `OneStorageHolds`,
`ThresholdInRangeHolds`, `OwnersReadableHolds`, `DriftOnlyAtSetupHolds`.  None but the first two is
inductive by itself: that a removal keeps the count at or above the owners
on the list needs the removed owner to be one of them and the others to stay, and that depends on
the list being well linked.  The inductive invariant therefore says that the
successor function is injective on the ring, that the sentinel is on it and
that the zero address links to nothing; the drift between count and owners follows
from the cardinalities of the linked set before and after each operation.
`ListIsRingHolds` follows the loop of `getOwners` turn by turn: the list it has collected is a path without repetition from the sentinel
(a first turn at which it were not would have a predecessor), and a path that ends must have passed every owner because a rank grows along the ring.
`SignatureSetIsQuorumHolds` does the same with the loop of `checkSignatures`: neighbours that ascend make a list that ascends.
`IndexAgreesHolds` is the composition with the index, by the argument below.

**`IndexedRegistry_proofs`, the registry itself.**  For any accounts, tokens, royalty rates and
histories: `TypeCorrect`, `BalancesCountTokensHolds`, `ApprovalEndsWithOwnershipHolds`,
`RoyaltyOnlyFromCreationHolds`, `HistoriesStayHolds`, and the refinement `KeepsTitleHolds`.  The inductive
invariant joins types, balances (a sender's balance stays a natural number because it
counts the token that leaves) and `Unapproved`: nobody is approved for a
token that does not exist, without which minting could hand the new owner an old approval, since
`_mint` does not clear it.  The action properties and the refinement then go through
the operations one by one (`NextCases`, `WhoMoves`).

**Indexes** (the second part of `IndexedRegistry_proofs`, and in the same way `Bulk_proofs`, the second half of `Collection_proofs` and the last part of
`LicensedUserManager_proofs`).
The index may be any number of events behind.  But a handler reads only its database and the event, so the database that the waiting events will make is
determined when they are emitted.  `Leads(db, log, later)` says that the log turns `db` into `later`; the invariant says that this `later` agrees with what the
contract has *now* (`Follows`).  A call appends its events and changes the contract, and the step to prove is that handling just these events changes
`later` the same way; `IndexEvent` takes the head off the log and leaves `later` alone; a log that is empty has `later = db`.
So `RecordsAgreeHolds`, `PeopleAgreeHolds`, `OpenCommitmentIsLiveHolds`, `BulkAgreesHolds`, `CollectionAgreesHolds`, `ShownIsInForceHolds`
and `IndexAgreesHolds` hold for any backlog.
`NeverStopsHolds` needs that `later` is reached without a stop, and a stopped database stays stopped.  For `ProvenanceIsFinalHolds` every database on
the way is compared with the next.  `ProvenanceKeepsHistoryHolds` also needs the order of the log (`OrderInv`): it never ends with a `Provenance`, none follows another, and one that comes
after a transfer of the same record is from whom that one went to, so no `Provenance` stands beside a `Transfer` it does not belong to.

**`MovedRecord_proofs`.**  `MovedRecordAgreesHolds` and `ProvenanceIsDatedHolds`, for a history of any length.  Here the argument on indexes needs one thing more: nothing is in the log until
the move, which emits the whole history of the record at once.  So before the move the invariant (`Awaited`) speaks of a replay that has not happened: it says what the events of the history up to now *would* make of the database,
once with their own timestamps and once with the wrong ones.  A call over there adds its events to the end of that replay (`ReplayConcat`, `CallFollows`), so it is enough that handling just these keeps the claim.
The move puts the replay it was spoken of in the log, and from there on `Told` says what the log leads to.  The claim about provenance is about the *first* change of hands (`FirstDated`): there is no entity before it, because
a replayed transfer makes none, and the later ones that fall on the same identifier leave it be; so under the wrong timestamp, which they all share, it is the one that the fix then finds and dates.

**`MetaTxForwarder_proofs`.**  `NonceAccountingHolds`, for any number of requests, channels and nested
calls.  `NonceAccounting` alone is not inductive: a reverting call restores a saved
state, so the accounting must also be right for every saved state with
respect to the calls that were in progress when it was saved.  The invariant says that
of each level of the stack.  The action of relaying
extends a correct accounting by one request (`CallAccounted`), a return moves the request from
the calls to the executions (`ReturnAccounted`), and a revert takes the saved level's.
`CommitsInOrderHolds` is the refinement of `RequestLedger`, step by step: steps inside a transaction are stutters, the return of the outermost call commits
what was executed in it.  The accounting at its start and at its end gives the nonces of the new requests; that none fell back in between is the
invariant `LedgerInv`: no state that a level of the stack saved is older than that of the outermost level.
`OwnersChangeByConsentHolds` rests on `ConsentInv`: the signatures of the innermost call, if it is one on the wallets, are valid in the wallets as they are *now*.
A call on the wallets calls nothing itself, so it is the innermost as long as it lasts, and between the check of its signatures and its effect only the administrator
could change the owners, who sends transactions of his own.

**`Collection_proofs`.**  `BalancesCountTokensHolds`: here a token may go to the zero address and come back, so
a move is one of four kinds, and the cardinality of what an account owns is followed through each.
`LockedMovesWithProvenanceHolds`: every operation that changes the owner of a locked record appends, in the same step, a
`Provenance` event with that owner and the next.
`CollectionAgreesHolds` and `ShownIsInForceHolds` need more than what they say.  A record that was sent to the zero address exists no longer, but its royalty
and what is shown of its commitment stay until it is issued again under its number, so the invariant says those two of every record that is indexed, and owner, metadata, issuer
and lock only of records that exist (`ShowsRecord`).  A lock may be shown as open that is closed, for the reason of finding 4, but not the other way round.  A call may emit several events (an issue: `Transfer`, the record, its royalty, and the transfer to its first
owner); `Makes` follows the entity through them one by one.

**`Bulk_proofs`.**  `LeavesTakeEffectOnceHolds`, for any trees, lists and limit.  The invariant adds that a batch that is not
prepared has no processed leaf, and that, outside a migrated `BulkIssue` batch, which brings a count along, the leaves that are marked are
those that took effect.  `IssuedByOneLeafHolds`, for two batches that name one record and for one list that names
it twice.  What it rests on (`IssueInv`): a record that a leaf issued is owned, and no call of the model leaves an owned
record without an owner, so a second leaf for it finds it owned and its whole transaction reverts.
`BulkAgreesHolds`: a list of leaves emits as many events as it has leaves, and each of them turns the entity of its own leaf and no other.

**`CollectionRequests_proofs`.**  `RoutedIsImplementedHolds`, for any tables, scripts, restarts and cut-offs.  What is routed is
decided by cuts that were computed earlier and wait in `todo`, so the invariant says of every waiting cut what
the property says of a route: it gives functions only to a contract that has them.  `UpgradedIsWholeHolds` follows the route through the cuts
that wait, at most three, up to the report of the upgrade (`UpgradeInv`).  `ClaimedIsRoutedHolds` says of an interface that waits that its functions are routed or are added by a
cut that waits before it, and that no waiting cut takes a function of a claimed interface away (`ClaimInv`).
`UpgradeReachesServedHolds` is about the time between the moment `deploy.json` names a new registry and the moment the forwarder serves its collections.
Its invariant (`ReachInv`) follows the five tasks a deployment of the core begins with, each of which may be the last before a cut-off; until the fifth is done the
new registry has no function but its own and those that an upgrade adds before it fails (`Stray`), and every removal that waits stands behind a replacement that cannot succeed there.
That is so because of how the scripts are written (`OrderAssumption`): the tasks come in that order, other scripts deploy nothing before they upgrade
something, and each upgrade replaces a function that no upgrade adds.
`RequestsRefineRelease`: the composition with the client and the forwarder implements the release scripts alone, so all four hold while requests are
registered, signed and relayed.  `ForwarderIndexAgreesHolds` is about the other half of the composition: along the events that wait, there is a sequence of
sets that starts with what the index knows, follows the handlers, and ends with what the contract knows (`Foreseen`); registering a list of
types makes it longer by the list, handling an event makes it shorter by one.  That a relayed request spends the nonce it emits needs that packing undoes unpacking.

`SignedRequestIsAcceptedHolds` and `ExecutedAsSignedHolds` have one invariant (`RequestInv`): a type is registered under its own hash with its destination and its function,
and a request that waits to be signed or relayed holds data with every field of its type, once and in an order the client allows, and signatures of the message
built from that data.  The rest is about the encodings, for all 39 types together.  The tables of types and of functions match
(`Laid`: first the fields of every request, then, for a collection, the destination, then a field for each parameter in its place); so the calldata has one word for each field shown,
the client's message and the hash that the forwarder rebuilds from nonce, calldata or suffix are the same list, and a sort of the signers always exists and ascends.
That the destination and the parameters are read back from the right places, and the nonce from its channel and number, is arithmetic on the assumption about the widths (`ClientAssumption`).

`RequestReachesFeatureHolds` is about both halves.  The invariant (`ServedInv`) says of a registration that waits in `todo` that the functions of its types are routed
where `deploy.json` says, or are by a step that waits before it, and that `deploy.json` names a factory with that registry unless the tasks that see to it still wait in
front (`ScriptInv`).  The type that creates collections is registered in the same transaction and only once, so every collection there is was made by that factory, and no
cut takes a function of such a request away.  It needs the scripts to be written so (`RegistrationAssumption`, which TLC evaluates on the tables of this commit), and it is stated of
`ScriptedSpec`: an administrator who registered a type of collections by hand, before its feature is released, or unregistered the type that creates them and registered it again
for a newer factory, would break the property, and nothing in the contracts prevents it.  The run's part with the scripts keeps to the same (`TypesByScripts`).

**Only model-checked.**  `RecordIsIndexed` is liveness, which the prover does not reach.  The four properties that fail are shown by their counterexamples.

## 6. What is not modelled, and why

* *Registry and collection settings* (name registry address, trusted forwarder, URIs, contract owner): assignments by
  the administrator that nothing else in the model reads.
* *OpenSea meta transactions*: a nonce per user of the forwarder's kind; its signers are callers of the registry like any other.
* *Name registry*: a key-value store only the administrator writes; its addresses are constants here.
* *Proxies, the administrator's safe and its client, multi-send*: the safe's contract is outside the repository; an
  administrator's call is a transaction by one account.  An upgrade of a contract replaces the program that is modelled.
* *Deployment scripts of the other contracts, migration exports, the manifest generator*: linear scripts run once by hand.
* *Subgraph*: entities written once and never read by a handler, dates as strings, and
  handlers of events whose contract versions were replaced, except those of the migration.
* *Hashing, gas*: a hash is the tuple of what it hashes; running out of gas is a call that reverts.

## 7. Plan

1. Done: wallets, forwarder, client, registry, collections, bulk, releases, subgraph, migration.
2. `OpenSeaMetaTx`: nonces and the self call; the administrator's client, with two scripts that sign the same nonce.
