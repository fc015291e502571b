--------------------------- MODULE MetaTxForwarder ---------------------------
(***************************************************************************)
(* contracts/metaTx: MetaTxForwarderV3 with the contracts it inherits      *)
(* (ReplayProtection, MetaTxRequestManager, TransactionExecutor), composed *)
(* with LicensedUserManager.                                               *)
(*                                                                         *)
(* Owners sign requests off the chain, at any time and for good, so that   *)
(* at any later time any accounts may be those that signed.  Anybody may   *)
(* relay a signed request, late, twice or out of order.  The forwarder     *)
(* checks and bumps the nonce, checks the signatures, calls the            *)
(* destination and logs ExecutionSuccess; a failing call reverts all of    *)
(* it.  The destination may call out (an ERC-721 receiver) and so re-enter *)
(* the forwarder: `stack` holds the calls in progress, innermost last,     *)
(* each with the state to restore when it reverts.                         *)
(*                                                                         *)
(* A request type is known by its hash and its registered destination; a   *)
(* request is its type, the sender, the channel and the nonce, the         *)
(* contract named in its first parameter and its operation.  Calls on      *)
(* LicensedUserManager are carried out; what other destinations do to      *)
(* their own state is theirs.                                              *)
(***************************************************************************)
EXTENDS Integers, Sequences, FiniteSets

CONSTANTS
    Wallet, Owner, OwnerLists, MaxUint8, Administrator, Name,
    TypeHash,       \* hashes of the request types
    TypeTargets,    \* pairs of a type and a destination that may be registered
    Channel,        \* channels of the two-dimensional nonce
    MaxNonce,       \* the largest uint128
    Collection,     \* addresses of collection proxies
    Registry,       \* the StartrailRegistry, a fixed destination
    Manager,        \* the LicensedUserManager, a fixed destination
    Request,        \* the requests that may be signed
    MaxSignatures,  \* bound: signatures relayed with one request
    MaxDepth        \* bound: calls of the forwarder in progress

VARIABLES
    wallets, luws,          \* LicensedUserManager
    nonces,                 \* nonces[from][channel]: next nonce
    typeHashes,             \* the registered request types
    requestTypes,           \* their destinations
    collectionRegistry,     \* what the CollectionRegistry answers TRUE for
    stack,                  \* calls in progress
    executions              \* executions[r]: ExecutionSuccess events of r

LUM == INSTANCE LicensedUserManager

ZeroAddress == "0x0"
Destination == Collection \union {Registry, Manager}
Sender == Wallet \union Owner
\* A call that a request may make on the LicensedUserManager, or "other".
Operation ==
    [call: {"other"}]
      \union [call: {"addOwner"}, wallet: Wallet, owner: LUM!Addr, threshold: LUM!Uint8]
      \union [call: {"removeOwner"}, wallet: Wallet, prevOwner: LUM!Addr, owner: LUM!Addr,
              threshold: LUM!Uint8]
      \union [call: {"swapOwner"}, wallet: Wallet, prevOwner: LUM!Addr,
              oldOwner: LUM!Addr, newOwner: LUM!Addr]
      \union [call: {"changeThreshold"}, wallet: Wallet, threshold: LUM!Uint8]

ASSUME RequestAssumption ==
    Request \subseteq [typeHash: TypeHash, from: Sender, channel: Channel,
                       nonce: 0..MaxNonce, first: Destination, operation: Operation]
ASSUME TargetAssumption ==
    TypeTargets \subseteq TypeHash \X (Destination \union {ZeroAddress})
ASSUME BoundAssumption ==
    MaxNonce \in Nat /\ MaxSignatures \in Nat /\ MaxDepth \in Nat
\* The administrator is a contract of its own, neither a wallet nor an account.
ASSUME AddressAssumption ==
    /\ Wallet \cap Owner = {}
    /\ Administrator \notin Sender
    /\ ZeroAddress \notin Destination
\* What LicensedUserManager assumes of its constants.
ASSUME ManagerAssumption ==
    /\ Owner \subseteq Nat \ {LUM!ZERO, LUM!SENTINEL_OWNERS}
    /\ MaxUint8 \in Nat

walletVars == <<wallets, luws>>
typeVars == <<typeHashes, requestTypes, collectionRegistry>>
vars == <<wallets, luws, nonces, typeHashes, requestTypes, collectionRegistry,
          stack, executions>>

\* The state a reverting call restores.
Journal == [wallets |-> wallets, luws |-> luws, nonces |-> nonces, executions |-> executions]

Nonces == [Sender -> [Channel -> 0..MaxNonce]]

Init ==
    /\ LUM!Init
    /\ nonces = [f \in Sender |-> [c \in Channel |-> 0]]
    /\ typeHashes = {}
    /\ requestTypes = [h \in TypeHash |-> ZeroAddress]
    /\ collectionRegistry = {}
    /\ stack = << >>
    /\ executions = [r \in Request |-> 0]

-----------------------------------------------------------------------------
(* Transactions of the administrator and of the collection factory. *)

registerRequestType(typeHash, destination) ==
    /\ stack = << >>
    /\ typeHash \notin typeHashes
    /\ typeHashes' = typeHashes \union {typeHash}
    /\ requestTypes' = [requestTypes EXCEPT ![typeHash] = destination]
    /\ UNCHANGED <<walletVars, nonces, collectionRegistry, stack, executions>>

unregisterRequestType(typeHash) ==
    /\ stack = << >>
    /\ typeHash \in typeHashes
    /\ typeHashes' = typeHashes \ {typeHash}
    /\ requestTypes' = [requestTypes EXCEPT ![typeHash] = ZeroAddress]
    /\ UNCHANGED <<walletVars, nonces, collectionRegistry, stack, executions>>

\* The administrator points the forwarder at a CollectionRegistry, with what it holds.
setCollectionRegistry(registered) ==
    /\ stack = << >>
    /\ collectionRegistry' = registered
    /\ UNCHANGED <<walletVars, nonces, typeHashes, requestTypes, stack, executions>>

\* A wallet operation called by the administrator itself.
AdministerWallet ==
    /\ stack = << >>
    /\ \E w \in Wallet : LUM!WalletCall(Administrator, w)
    /\ UNCHANGED <<nonces, typeVars, stack, executions>>

-----------------------------------------------------------------------------
(* Relaying. *)

\* Seeded fault: a later nonce may overtake an earlier one.
checkAndUpdateNonceSkips(from, channel, nonce) ==
    /\ nonce >= nonces[from][channel]
    /\ nonce < MaxNonce
    /\ nonces' = [nonces EXCEPT ![from][channel] = nonce + 1]

\* checkAndUpdateNonce; currentNonce + 1 is a checked uint128 addition.
checkAndUpdateNonce(from, channel, nonce) ==
    /\ nonce = nonces[from][channel]
    /\ nonce < MaxNonce
    /\ nonces' = [nonces EXCEPT ![from][channel] = @ + 1]

\* executeTransactionEOA: the signature recovers to the sender.
ValidEOASignature(r, signers) == signers # << >> /\ signers[1] = r.from

\* Seeded fault: one owner's signature is enough.
ValidLUWSignaturesAnyOwner(r, signers) ==
    /\ r.from \in Wallet /\ luws[r.from].active
    /\ \E i \in DOMAIN signers : signers[i] \in LUM!OwnersOf(r.from)

\* executeTransactionLUW: the LicensedUserManager accepts the signatures.
ValidLUWSignatures(r, signers) == r.from \in Wallet /\ LUM!isValidSignatureSet(r.from, signers)

\* The registered destination, or the contract the request names when the type
\* was registered without one.
DestinationOf(r) ==
    IF requestTypes[r.typeHash] = ZeroAddress THEN r.first ELSE requestTypes[r.typeHash]

\* executeTransactionInternal up to the call of the destination.
executeTransaction(r, signers) ==
    /\ Len(stack) < MaxDepth
    \* only a destination that calls out can be followed by a nested call
    /\ stack # << >> => stack[Len(stack)].destination # Manager
    /\ r.typeHash \in typeHashes
    /\ checkAndUpdateNonce(r.from, r.channel, r.nonce)
    /\ ValidEOASignature(r, signers) \/ ValidLUWSignatures(r, signers)
    /\ requestTypes[r.typeHash] = ZeroAddress => r.first \in collectionRegistry
    /\ stack' = Append(stack, [request |-> r, signers |-> signers,
                               destination |-> DestinationOf(r), saved |-> Journal])
    /\ UNCHANGED <<walletVars, typeVars, executions>>

\* Any accounts may have signed the request, at any time before it is relayed.
Relay(r) ==
    \E n \in 0..MaxSignatures : \E signers \in [1..n -> Owner] :
        executeTransaction(r, signers)

Top == stack[Len(stack)]
Pop == SubSeq(stack, 1, Len(stack) - 1)

\* The LicensedUserManager carries out the operation.  It knows who asks from the
\* sender's address, which the forwarder appended to the call.
CallManager(from, op) ==
    \/ op.call = "addOwner" /\ LUM!addOwner(from, op.wallet, op.owner, op.threshold)
    \/ /\ op.call = "removeOwner"
       /\ LUM!removeOwner(from, op.wallet, op.prevOwner, op.owner, op.threshold)
       /\ UNCHANGED luws
    \/ /\ op.call = "swapOwner"
       /\ LUM!swapOwner(from, op.wallet, op.prevOwner, op.oldOwner, op.newOwner)
       /\ UNCHANGED luws
    \/ /\ op.call = "changeThreshold"
       /\ LUM!changeThreshold(from, op.wallet, op.threshold)
       /\ UNCHANGED luws

\* The call of the destination succeeds: executeCall logs ExecutionSuccess.
CallSucceeds ==
    /\ stack # << >>
    /\ IF Top.destination = Manager
       THEN CallManager(Top.request.from, Top.request.operation)
       ELSE UNCHANGED walletVars
    /\ executions' = [executions EXCEPT ![Top.request] = @ + 1]
    /\ stack' = Pop
    /\ UNCHANGED <<nonces, typeVars>>

\* Seeded fault: the nonce stays used when the call reverts.
CallRevertsKeepsNonce ==
    /\ stack # << >>
    /\ wallets' = Top.saved.wallets
    /\ luws' = Top.saved.luws
    /\ executions' = Top.saved.executions
    /\ stack' = Pop
    /\ UNCHANGED <<nonces, typeVars>>

\* The call fails, for a reason of the destination's or for want of gas:
\* executeCall reverts, and with it everything since the forwarder was called.
CallReverts ==
    /\ stack # << >>
    /\ wallets' = Top.saved.wallets
    /\ luws' = Top.saved.luws
    /\ nonces' = Top.saved.nonces
    /\ executions' = Top.saved.executions
    /\ stack' = Pop
    /\ UNCHANGED <<typeVars>>

Next ==
    \/ \E target \in TypeTargets : registerRequestType(target[1], target[2])
    \/ \E h \in TypeHash : unregisterRequestType(h)
    \/ \E registered \in SUBSET Collection : setCollectionRegistry(registered)
    \/ AdministerWallet
    \/ \E r \in Request : Relay(r)
    \/ CallSucceeds
    \/ CallReverts

Spec == Init /\ [][Next]_vars

-----------------------------------------------------------------------------
(* Properties. *)

Slot(r) == <<r.from, r.channel, r.nonce>>

\* The requests of the d outermost calls in progress.
Calls(d) == [i \in 1..d |-> stack[i].request]

\* The requests that were executed, or are being executed by one of `calls`.
Used(ex, calls) == {r \in Request : ex[r] > 0} \union {calls[i] : i \in DOMAIN calls}

\* What the counters nn say is what happened: requests in use are executed at most
\* once, no two have the same slot, and the slots in use are those below the counters.
Accounted(nn, ex, calls) ==
    /\ \A r \in Request : ex[r] <= 1
    /\ \A i \in DOMAIN calls : ex[calls[i]] = 0
    /\ \A i, j \in DOMAIN calls : calls[i] = calls[j] => i = j
    /\ \A r, s \in Used(ex, calls) : Slot(r) = Slot(s) => r = s
    /\ \A r \in Used(ex, calls) : r.nonce < nn[r.from][r.channel]
    /\ \A from \in Sender, channel \in Channel : \A nonce \in 0..(nn[from][channel] - 1) :
          \E r \in Used(ex, calls) : Slot(r) = <<from, channel, nonce>>

\* Every nonce below the counter of its channel was used by exactly one request,
\* which has been executed once or is being executed, and no other nonce was used:
\* however requests are delayed, repeated, reordered or nested, and whatever a
\* reverting call takes back with it (checkAndUpdateNonce, executeCall).
NonceAccounting == Accounted(nonces, executions, Calls(Len(stack)))

\* Nobody but the administrator changes who may sign for a wallet, or how many must,
\* without the signatures, on this very request, of a quorum of the owners that
\* the wallet has at that moment: not of owners removed since they signed, and not
\* of the wallet's owners at the time of signing (isValidSignatureSet at execution,
\* onlyWalletOrAdministrator).
SigningRule(w) == <<LUM!OwnersOf(w), LUM!getThreshold(w)>>
Consented(w) ==
    /\ stack # << >>
    /\ Top.request.from = w
    /\ \E S \in SUBSET {Top.signers[i] : i \in DOMAIN Top.signers} : LUM!QuorumOf(w, S)
OwnersChangeByConsent ==
    [][\A w \in Wallet :
          SigningRule(w)' # SigningRule(w) => AdministerWallet \/ CallReverts \/ Consented(w)]_vars

\* The wallets of a whole transaction, seen from outside, are those of its end or
\* of its start: the state that is committed when the stack is empty.
Committed == IF stack = << >> THEN Journal ELSE stack[1].saved

\* Outside observers see whole transactions: each executes new requests, every one
\* once, with the next nonces of their channels and no gap (RequestLedger).
Ledger == INSTANCE RequestLedger WITH
    next <- Committed.nonces,
    done <- {r \in Request : Committed.executions[r] > 0}
CommitsInOrder == Ledger!Spec
=============================================================================
