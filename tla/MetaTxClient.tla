---------------------------- MODULE MetaTxClient ----------------------------
(***************************************************************************)
(* The client of the forwarder (startrail-common-js): it reads the nonce,  *)
(* builds the EIP-712 message of a request, has owners sign it and encodes *)
(* the transaction that relays it.  The three happen one after another,    *)
(* while other callers, the owners and the administrator go on.  The       *)
(* forwarder builds the hash and the call again from what is relayed, and  *)
(* the subgraph keeps its request types and executions (mtf-mapping.ts).   *)
(*                                                                         *)
(* An encoded value is <<"word", v>>, or <<"hash", v>> where EIP-712 puts  *)
(* the hash of a dynamic value.  A caller's value for a field is           *)
(* <<"of", field>>, except for the destination; what matters is where each *)
(* value ends up.  A contract's address is its name.                       *)
(***************************************************************************)
EXTENDS MetaTxTypes, FiniteSets, TLC, EntityStore, ChainLog

Ext == INSTANCE SequencesExt

CONSTANTS
    Caller,             \* programs that use the client
    Owner,              \* accounts, numbered in the order of their addresses
    Wallet,             \* the licensed user's wallet that sends the requests
    Collection,         \* registered collection proxies
    RequestType,        \* the types of meta transaction used
    TypeLists,          \* lists of types that are registered together
    Channel,            \* a set of naturals
    MaxNonce,           \* bound: nonces within a channel
    BITS_PER_NONCE

VARIABLES
    owners, threshold,  \* of the wallet
    nonces,             \* nonces[channel] of the wallet
    requestTypes,       \* the registered types, by type hash
    pending,            \* pending[c]: the request c works on
    db                  \* MetaTxRequestType and MetaTxExecution of the subgraph

ASSUME ClientAssumption ==
    /\ RequestType \subseteq MetaTxRequestType /\ TypeLists \subseteq Seq(RequestType)
    /\ Owner \subseteq Nat \ {0}
    /\ MaxNonce \in Nat /\ BITS_PER_NONCE \in Nat
    /\ Channel \union 0..(MaxNonce + 1) \subseteq 0..(2 ^ BITS_PER_NONCE - 1)

forwarder == <<nonces, requestTypes>>
wallet == <<owners, threshold>>
clientVars == <<wallet, forwarder, pending, db, chain>>

-----------------------------------------------------------------------------
(* nonce.ts *)

packNonce(channel, nonce) == channel * 2 ^ BITS_PER_NONCE + nonce

\* ReplayProtection unpacks in the same way.
unpackNonce(nonce) == <<nonce \div 2 ^ BITS_PER_NONCE, nonce % 2 ^ BITS_PER_NONCE>>

-----------------------------------------------------------------------------
(* The data of a request: pairs of a key and a value, in the order in which the  *)
(* object was written.  A key is a pair too: whether it starts with "_", and the *)
(* name of the field.                                                            *)

ValueOf(data, name) == data[CHOOSE i \in DOMAIN data : data[i][1][2] = name][2]

\* _removeUnderscoreFromKeys
_removeUnderscoreFromKeys(data) ==
    [i \in DOMAIN data |-> << <<FALSE, data[i][1][2]>>, data[i][2]>>]

\* Whether ethers encodes a value of type t as a parameter of type p.
Encodes(t, p) ==
    \/ p = "bool"
    \/ p = "string" /\ t \notin {"uint256[]", "bool"}
    \/ p \in {"uint8", "uint16", "uint256"}
         /\ t \in {"uint8", "uint16", "uint256", "address", "bytes32"}
    \/ t = p

Failed == <<"failed">>

\* omit: the list without the element at the place that the set holds.  It holds one at
\* most, because an object and a type name a field once.
Without(list, places) ==
    IF places = {} THEN list ELSE Ext!RemoveAt(list, CHOOSE i \in places : TRUE)

\* encodeContractFunctionCalldata: the values in the order of the object, the
\* destination left out.
encodeContractFunctionCalldata(function, fields, data) ==
    LET args == Without(data, {i \in DOMAIN data : data[i][1] = <<FALSE, "destination">>})
        typeOf(name) == fields[CHOOSE i \in DOMAIN fields : fields[i][1] = name][2]
    IN  IF /\ Len(args) = Len(function) - 1
           /\ \A i \in DOMAIN args : Encodes(typeOf(args[i][1][2]), function[i + 1])
        THEN <<function, [i \in DOMAIN args |-> <<"word", args[i][2]>>]>>
        ELSE Failed

-----------------------------------------------------------------------------
(* eip712-typed-data-builder.ts, sign.ts *)

FieldNames(requestType) ==
    LET fields == TypesOf(requestType) IN {fields[i][1] : i \in DOMAIN fields}

EncodedField(field, value) == <<IF isDynamicArrayType(field[2]) THEN "hash" ELSE "word", value>>

\* TypedDataEncoder.encodeData: the type hash, then the fields in the type's order.
encodeData(requestType, value) ==
    LET fields == TypesOf(requestType)
    IN  <<eip712TypeHash(requestType)>>
          \o [i \in DOMAIN fields |-> EncodedField(fields[i], value[fields[i][1]])]

CallDataOf(requestType, data) ==
    encodeContractFunctionCalldata(functionSignature(requestType), TypesOf(requestType), data)

\* build: what an owner is shown and signs.
build(requestType, nonce, requestData) ==
    LET messageData == _removeUnderscoreFromKeys(requestData)
        value == [name \in FieldNames(requestType) |->
                    CASE name = "from" -> Wallet
                      [] name = "nonce" -> nonce
                      [] name = "data" -> CallDataOf(requestType, messageData)
                      [] OTHER -> ValueOf(messageData, name)]
    IN  encodeData(requestType, value)

\* Seeded fault: the signatures are in the order in which the signers were given.
signTypedDataUnsorted(message, signers) ==
    [i \in DOMAIN signers |-> [by |-> signers[i], hash |-> message]]

\* signTypedData: the signatures in the order of the signers' addresses.
signTypedData(message, signers) ==
    LET order == CHOOSE p \in [DOMAIN signers -> DOMAIN signers] :
                    \A i, j \in DOMAIN signers :
                        i < j => p[i] # p[j] /\ signers[p[i]] <= signers[p[j]]
    IN  [i \in DOMAIN signers |-> [by |-> signers[order[i]], hash |-> message]]

\* encodeSuffixData: encoded with dummies, which are skipped.
encodeSuffixData(requestType, requestData) ==
    LET messageData == _removeUnderscoreFromKeys(requestData)
        value == [name \in FieldNames(requestType) |->
                    IF name \in {"from", "nonce", "data"} THEN "dummy"
                    ELSE ValueOf(messageData, name)]
        skip == IF requiresDataField(requestType) THEN 4 ELSE 3
    IN  SubSeq(encodeData(requestType, value), skip + 1, Len(TypesOf(requestType)) + 1)

\* encodeExecuteTransactionProps; the calldata come from the caller's object as it is.
encodeExecuteTransactionProps(requestType, nonce, requestData) ==
    [typeHash |-> eip712TypeHash(requestType), from |-> Wallet, nonce |-> nonce,
     suffixData |-> encodeSuffixData(requestType, requestData),
     callData |-> IF requiresDataField(requestType) THEN CallDataOf(requestType, requestData)
                  ELSE << >>]

-----------------------------------------------------------------------------
(* MetaTxForwarderV3, MetaTxRequestManager, SignatureChecker *)

NoDestination == "0x0"

\* The type hash of registerRequestType, from a name and the fields of the suffix.
registeredTypeHash(name, suffix) == <<name, GenericParamTypes \o suffix>>

\* encodeRequest
encodeRequest(request) ==
    <<request.typeHash, <<"word", request.from>>, <<"word", request.nonce>> >>
      \o (IF request.callData = << >> THEN << >> ELSE << <<"hash", request.callData>> >>)
      \o request.suffixData

\* The account a signature recovers to: another one when it was made on another hash.
Recovered(signature, hash) == IF signature.hash = hash THEN signature.by ELSE 0

isValidSignatureSet(hash, signatures) ==
    /\ Len(signatures) >= threshold
    /\ \A i \in 1..threshold :
          LET signer(j) == IF j = 0 THEN 0 ELSE Recovered(signatures[j], hash)
          IN  signer(i) > signer(i - 1) /\ signer(i) \in owners

\* The destination the request names, in its first word.
destinationInRequest(request) == requestTypes[request.typeHash].destination = NoDestination

Destination(request) ==
    IF destinationInRequest(request) THEN request.suffixData[1][2]
    ELSE requestTypes[request.typeHash].destination

\* Every condition of executeTransactionInternal.
Accepts(request, signatures) ==
    LET nonce == unpackNonce(request.nonce) IN
    /\ request.typeHash \in DOMAIN requestTypes
    /\ nonce[1] \in Channel /\ nonces[nonce[1]] = nonce[2]
    /\ isValidSignatureSet(encodeRequest(request), signatures)
    /\ destinationInRequest(request) => Destination(request) \in Collection

\* The function that is called and the words its parameters are decoded from.
CallOf(request) ==
    IF request.callData # << >> THEN request.callData
    ELSE <<requestTypes[request.typeHash].functionSignature,
           IF destinationInRequest(request) THEN Tail(request.suffixData)
           ELSE request.suffixData>>

-----------------------------------------------------------------------------
(* subgraph/src/mtf-mapping.ts *)

EmptyDatabase == [MetaTxRequestType |-> NoEntities, MetaTxExecution |-> NoEntities]

handleRequestTypeRegistered(store, e) ==
    Save(store, "MetaTxRequestType", e.typeHash, [typeString |-> e.typeStr])

\* Seeded fault: the type is looked up, and kept.
handleRequestTypeUnregisteredKeeps(store, e) ==
    IfKnown(store, "MetaTxRequestType", e.typeHash,
            Save(store, "MetaTxRequestType", e.typeHash, store["MetaTxRequestType"][e.typeHash]))

handleRequestTypeUnregistered(store, e) ==
    IfKnown(store, "MetaTxRequestType", e.typeHash,
            Remove(store, "MetaTxRequestType", e.typeHash))

handleExecutionSuccess(store, e) ==
    Save(store, "MetaTxExecution", e.txHash, [txHash |-> e.txHash])

HandleForwarderEvent(store, e) ==
    CASE e.event = "RequestTypeRegistered" -> handleRequestTypeRegistered(store, e)
      [] e.event = "RequestTypeUnregistered" -> handleRequestTypeUnregistered(store, e)
      [] e.event = "ExecutionSuccess" -> handleExecutionSuccess(store, e)

IndexEvent ==
    /\ log # << >>
    /\ db' = HandleForwarderEvent(db, log[1][1])
    /\ log' = Tail(log)
    /\ UNCHANGED <<wallet, forwarder, pending, time>>

-----------------------------------------------------------------------------
(* The administrator (register-request-types.ts) and the owners. *)

getDestinationAddress(requestType) ==
    IF destinationAddressProvided(requestType) THEN NoDestination
    ELSE destinationContract(requestType)

\* registerRequestTypes: one transaction, so that all types of the list are
\* registered or, when one of them is registered already, none.
registerRequestTypes(types) ==
    LET hash(i) == registeredTypeHash(types[i], suffixType(types[i]))
        new == {hash(i) : i \in DOMAIN types}
        typeOf(h) == types[CHOOSE i \in DOMAIN types : hash(i) = h]
    IN  /\ new \cap DOMAIN requestTypes = {}
        /\ Cardinality(new) = Len(types)
        /\ requestTypes' = [h \in DOMAIN requestTypes \union new |->
              IF h \notin new THEN requestTypes[h]
              ELSE [destination |-> getDestinationAddress(typeOf(h)),
                    functionSignature |-> functionSignature(typeOf(h))]]
        /\ Emit([i \in DOMAIN types |-> [event |-> "RequestTypeRegistered", typeHash |-> hash(i),
                                         typeStr |-> hash(i)]])
        /\ UNCHANGED <<wallet, nonces, pending, db>>

\* unregisterRequestTypeCallByAdmin; the list form stops at the first that fails.
unregisterRequestType(typeHash) ==
    /\ typeHash \in DOMAIN requestTypes
    /\ requestTypes' = [h \in DOMAIN requestTypes \ {typeHash} |-> requestTypes[h]]
    /\ Emit(<<[event |-> "RequestTypeUnregistered", typeHash |-> typeHash]>>)
    /\ UNCHANGED <<wallet, nonces, pending, db>>

\* The wallet's owners change (LicensedUserManager).
ChangeOwners(newOwners, newThreshold) ==
    /\ newThreshold \in 1..Cardinality(newOwners)
    /\ owners' = newOwners
    /\ threshold' = newThreshold
    /\ UNCHANGED <<forwarder, pending, db, chain>>

-----------------------------------------------------------------------------
(* The client. *)

Idle == [stage |-> "idle"]

\* The fields a caller fills in, in the order of the type.
DataFields(requestType) ==
    LET core == IF requiresDataField(requestType) THEN 3 ELSE 2
    IN  SubSeq(TypesOf(requestType), core + 1, Len(TypesOf(requestType)))

\* An object with every field of the type.  Callers write the fields of a type with
\* calldata in the order of the function's parameters: the client relies on it, and
\* nothing checks it.  The others are encoded by name, in any order.
RequestData(requestType, destination, backwards, prefixed) ==
    LET fields == DataFields(requestType)
        ordered == IF backwards /\ ~requiresDataField(requestType) THEN Ext!Reverse(fields)
                   ELSE fields
    IN  [i \in DOMAIN ordered |->
            << <<prefixed, ordered[i][1]>>,
               IF ordered[i][1] = "destination" THEN destination
               ELSE <<"of", ordered[i][1]>> >>]

\* getNonce
getNonce(c, requestType, channel, requestData) ==
    /\ pending[c] = Idle
    /\ pending' = [pending EXCEPT ![c] =
          [stage |-> "prepared", type |-> requestType, data |-> requestData,
           nonce |-> packNonce(channel, nonces[channel])]]
    /\ UNCHANGED <<wallet, forwarder, db, chain>>

Prepare(c) ==
    \E t \in RequestType, channel \in Channel, backwards, prefixed \in BOOLEAN :
        \E destination \in IF destinationAddressProvided(t) THEN Collection ELSE {NoDestination} :
            getNonce(c, t, channel, RequestData(t, destination, backwards, prefixed))

Message(r) == build(r.type, r.nonce, r.data)

\* signRequest; fails when the calldata cannot be encoded.
signRequest(c, signers) ==
    LET r == pending[c] IN
    /\ r.stage = "prepared"
    /\ pending' = [pending EXCEPT ![c] =
          IF /\ requiresDataField(r.type)
             /\ CallDataOf(r.type, _removeUnderscoreFromKeys(r.data)) = Failed
          THEN Idle
          ELSE [stage |-> "signed", type |-> r.type, data |-> r.data, nonce |-> r.nonce,
                signatures |-> signTypedData(Message(r), signers)]]
    /\ UNCHANGED <<wallet, forwarder, db, chain>>

Sign(c) ==
    \E n \in 1..Cardinality(Owner) : \E signers \in [1..n -> Owner] :
        /\ \A i, j \in 1..n : i # j => signers[i] # signers[j]
        /\ signRequest(c, signers)

Relayed(r) == encodeExecuteTransactionProps(r.type, r.nonce, r.data)
CannotEncode(r) == Relayed(r).callData = Failed

\* executeTransactionLUW: the transaction is sent, and the forwarder accepts it.  Of
\* one wallet, no two executions have the same nonce, which stands for the hash.
executeTransactionLUW(c) ==
    LET r == pending[c]
        request == Relayed(r)
        channel == unpackNonce(request.nonce)[1]
    IN  /\ r.stage = "signed" /\ ~CannotEncode(r)
        /\ Accepts(request, r.signatures)
        /\ nonces[channel] < MaxNonce
        /\ nonces' = [nonces EXCEPT ![channel] = @ + 1]
        /\ Emit(<<[event |-> "ExecutionSuccess", txHash |-> request.nonce]>>)
        /\ pending' = [pending EXCEPT ![c] = Idle]
        /\ UNCHANGED <<wallet, requestTypes, db>>

\* The client throws, the forwarder or the destination reverts, or the caller gives up.
Abandon(c) ==
    /\ pending[c] # Idle
    /\ pending' = [pending EXCEPT ![c] = Idle]
    /\ UNCHANGED <<wallet, forwarder, db, chain>>

ClientInit ==
    /\ ChainInit
    /\ owners = {CHOOSE o \in Owner : TRUE}
    /\ threshold = 1
    /\ nonces = [c \in Channel |-> 0]
    /\ requestTypes = << >>
    /\ pending = [c \in Caller |-> Idle]
    /\ db = EmptyDatabase

\* The steps but for the execution and the registration of types, which other parts
\* of the system join (CollectionRequests).
ClientStep ==
    \/ \E c \in Caller : Prepare(c)
    \/ \E c \in Caller : Sign(c)
    \/ \E c \in Caller : Abandon(c)
    \/ \E t \in RequestType : unregisterRequestType(eip712TypeHash(t))
    \/ \E newOwners \in SUBSET Owner, n \in 1..Cardinality(Owner) : ChangeOwners(newOwners, n)
    \/ IndexEvent

-----------------------------------------------------------------------------
(* Properties. *)

\* Types that decode from the same word.
SameWord(t, p) == t = p \/ {t, p} \subseteq {"uint8", "uint16", "uint256"}

\* The fields of a type that are parameters of its function.
ParameterFields(requestType) ==
    LET fields == DataFields(requestType)
    IN  Without(fields, {i \in DOMAIN fields : fields[i][1] = "destination"})

\* What the forwarder would execute is what was signed: the function of the request
\* type, on the contract the type or the request names, every parameter with the value
\* that the message shows in the field of its place (encodeSuffixData,
\* encodeExecuteTransactionProps, the two ways of executeTransactionInternal to make
\* the call, and the tables of types and of function signatures).
ExecutedAsSigned ==
    \A c \in Caller :
        LET r == pending[c]
            request == Relayed(r)
            shown == ParameterFields(r.type)
            function == CallOf(request)[1]
            words == CallOf(request)[2]
        IN  r.stage = "signed" /\ ~CannotEncode(r) /\ Accepts(request, r.signatures) =>
                /\ function = functionSignature(r.type)
                /\ Len(words) = Len(shown) /\ Len(function) = Len(shown) + 1
                /\ \A i \in DOMAIN shown :
                      /\ words[i] = <<"word", ValueOf(r.data, shown[i][1])>>
                      /\ SameWord(shown[i][2], function[i + 1])
                /\ Destination(request) =
                      IF destinationAddressProvided(r.type) THEN ValueOf(r.data, "destination")
                      ELSE destinationContract(r.type)

\* A request that enough of the wallet's present owners signed, whose nonce is still
\* the next of its channel and whose type is registered, is accepted, in whatever
\* order the signers were given and the fields written: the hash the forwarder
\* rebuilds is the one they signed.
SignedRequestIsAccepted ==
    \A c \in Caller :
        LET r == pending[c] IN
        /\ r.stage = "signed" /\ ~CannotEncode(r)
        /\ \E channel \in Channel : r.nonce = packNonce(channel, nonces[channel])
        /\ \E h \in DOMAIN requestTypes : h[1] = r.type
        /\ Len(r.signatures) >= threshold
        /\ \A i \in DOMAIN r.signatures : r.signatures[i].by \in owners
        => Accepts(Relayed(r), r.signatures)

\* The subgraph lists the types that are registered, no type that was unregistered,
\* and an execution for every nonce that was spent and for no other
\* (registerRequestTypes, unregisterRequestType and executeTransactionLUW emit what the
\* handlers of mtf-mapping.ts keep).
ForwarderIndexAgrees ==
    CaughtUp =>
        /\ DOMAIN db["MetaTxRequestType"] = DOMAIN requestTypes
        /\ DOMAIN db["MetaTxExecution"] =
              UNION {{packNonce(c, n) : n \in 0..(nonces[c] - 1)} : c \in Channel}
=============================================================================
