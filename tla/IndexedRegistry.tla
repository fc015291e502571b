--------------------------- MODULE IndexedRegistry ---------------------------
(***************************************************************************)
(* StartrailRegistryV25 and the index of its records: every call of        *)
(* StartrailRegistry emits its events, in the order in which the contract  *)
(* emits them, and the index of SRRIndex handles them some blocks later.   *)
(*                                                                         *)
(* The wallets of the LicensedUsers are indexed already (IndexedWallets is *)
(* about how).  The ERC-721 approvals, which the index takes no notice of, *)
(* and the kill switch are not given: they only add to who may call        *)
(* transferFrom.                                                           *)
(***************************************************************************)
EXTENDS StartrailRegistry, ChainLog

CONSTANTS
    LicensedUser,   \* the accounts that are licensed users' wallets
    RegistryAddress,
    HereChain,
    Null

VARIABLE db         \* the database of the subgraph

ASSUME LicensedUserAssumption == LicensedUser \subseteq Account
ASSUME NullAssumption == Null \notin Nat \union LicensedUser   \* null is not a value

Index == INSTANCE SRRIndex WITH ZERO_ADDRESS <- ZERO

composed == <<vars, time, log, db>>

IndexedInit ==
    /\ Init
    /\ ChainInit
    /\ db = [Index!EmptyDatabase EXCEPT
                !["LicensedUserWallet"] = [a \in LicensedUser |-> [walletAddress |-> a]]]

-----------------------------------------------------------------------------
(* The events. *)

Of(t, event) == [event |-> event, address |-> RegistryAddress, tokenId |-> t]

Transfer(from, to, t) ==
    [event |-> "Transfer", address |-> RegistryAddress, tokenId |-> t, from |-> from, to |-> to]

CreateSRR(t, issuer, artist, cid, lock) ==
    [event |-> "CreateSRR", address |-> RegistryAddress, tokenId |-> t,
     issuer |-> issuer, artist |-> artist, metadataDigest |-> cid, lock |-> lock]

RoyaltiesSet(t, receiver, basisPoints) ==
    [event |-> "RoyaltiesSet", address |-> RegistryAddress, tokenId |-> t,
     receiver |-> receiver, basisPoints |-> basisPoints]

IdOrNull(customHistory) == IF customHistory = NO_CUSTOM_HISTORY THEN Null ELSE customHistory

SRRCommitment(t, commitment, customHistory) ==
    [event |-> "SRRCommitment", address |-> RegistryAddress, tokenId |-> t,
     commitment |-> commitment, customHistory |-> IdOrNull(customHistory)]

SRRCommitmentCancelled(t) == Of(t, "SRRCommitmentCancelled")

ProvenanceEvent(p) ==
    [event |-> "Provenance", address |-> RegistryAddress, tokenId |-> p.token,
     from |-> p.from, to |-> p.to, customHistory |-> IdOrNull(p.customHistory), digest |-> "digest"]

HistoryEvent(event, id, name) ==
    [event |-> event, id |-> id, name |-> name, type |-> 1, digest |-> "digest"]

-----------------------------------------------------------------------------
(* The calls. *)

\* Seeded fault: CreateSRR is emitted ahead of the mint.
IssueEventsEarly(t, issuer, cid, artist, lock, to, receiver, basisPoints) ==
    <<CreateSRR(t, issuer, artist, cid, lock), Transfer(ZERO, issuer, t)>>
    \o (IF receiver = ZERO THEN << >> ELSE <<RoyaltiesSet(t, receiver, basisPoints)>>)
    \o (IF to = ZERO THEN << >> ELSE <<Transfer(issuer, to, t)>>)

\* createSRRFromLicensedUser and createSRRFromBulk: mint, record, royalty, transfer.
IssueEvents(t, issuer, cid, artist, lock, to, receiver, basisPoints) ==
    <<Transfer(ZERO, issuer, t), CreateSRR(t, issuer, artist, cid, lock)>>
    \o (IF receiver = ZERO THEN << >> ELSE <<RoyaltiesSet(t, receiver, basisPoints)>>)
    \o (IF to = ZERO THEN << >> ELSE <<Transfer(issuer, to, t)>>)

IndexedIssue(issuer) ==
    \E cid \in MetadataCID, artist \in Artist, lock \in BOOLEAN,
       to \in Address, receiver \in Receiver \union {ZERO}, basisPoints \in BasisPoints :
        /\ createSRR(issuer, cid, artist, lock, to, receiver, basisPoints)
        /\ Emit(IssueEvents(generate[<<cid, artist>>], issuer, cid, artist, lock, to,
                            receiver, basisPoints))

IndexedUpdate(caller, t) ==
    \/ \E artist \in Artist :
          /\ updateSRR(caller, t, artist)
          /\ Emit(<<[artist |-> artist, event |-> "UpdateSRR",
                     address |-> RegistryAddress, tokenId |-> t]>>)
    \/ \E cid \in MetadataCID \union {NoMetadata} :
          /\ updateSRRMetadata(caller, t, cid)
          /\ Emit(<<[metadataDigest |-> cid, event |-> "UpdateSRRMetadataCID",
                     address |-> RegistryAddress, tokenId |-> t]>>)
    \/ \E receiver \in Receiver \union {ZERO}, basisPoints \in BasisPoints :
          /\ updateSRRRoyalty(caller, t, receiver, basisPoints)
          /\ Emit(IF royalties[t].receiver = ZERO THEN << >>
                  ELSE <<RoyaltiesSet(t, receiver, basisPoints)>>)
    \/ \E lock \in BOOLEAN :
          /\ setLockExternalTransfer(caller, t, lock)
          /\ Emit(<<[flag |-> lock, event |-> "LockExternalTransfer",
                     address |-> RegistryAddress, tokenId |-> t]>>)

\* updateSRRRoyaltyReceiverMulti for a list of one record.
IndexedRoyaltyReceiver(caller, t, receiver) ==
    /\ updateSRRRoyaltyReceiverMulti(caller, {t}, receiver)
    /\ Emit(IF royalties[t].receiver = ZERO THEN << >>
            ELSE <<RoyaltiesSet(t, receiver, royalties[t].basisPoints)>>)

\* _approveSRRByCommitment: a commitment that is replaced is cancelled first.
CommitEvents(t, commitment, id) ==
    (IF commitments[t].commitment = NoCommitment THEN << >> ELSE <<SRRCommitmentCancelled(t)>>)
    \o <<SRRCommitment(t, commitment, id)>>

IndexedCommitment(caller, t) ==
    \/ \E commitment \in Reveal, id \in HistoryId :
          /\ \/ approveSRRByCommitment(caller, t, commitment, id)
             \/ approveSRRByCommitmentFromBulk(caller, t, commitment, id)
          /\ Emit(CommitEvents(t, commitment, id))
    \/ /\ cancelSRRCommitment(caller, t)
       /\ Emit(<<SRRCommitmentCancelled(t)>>)

\* Seeded fault: the ERC-721 event is emitted ahead of the provenance.
TransferThenProvenance(p) == <<Transfer(p.from, p.to, p.token), ProvenanceEvent(p)>>

\* _historyProvenance and then the ERC-721 transfer.
ProvenanceThenTransfer(p) == <<ProvenanceEvent(p), Transfer(p.from, p.to, p.token)>>

IndexedProvenance(caller, t) ==
    \E to \in Address :
        /\ \/ \E reveal \in Reveal : transferSRRByReveal(to, reveal, t)
           \/ \E id \in HistoryId :
                 \/ transferFromWithProvenance(caller, to, t, id)
                 \/ transferFromWithProvenanceFromBulk(caller, to, t, id)
        /\ \E p \in emitted' : Emit(ProvenanceThenTransfer(p))

IndexedTransfer(caller, t) ==
    \E from \in Account, to \in Address :
        /\ transferFrom(caller, from, to, t)
        /\ Emit(<<Transfer(from, to, t)>>)

addHistory(caller, t, id) ==
    /\ exists(t)
    /\ onlyIssuerOrArtistOrAdministrator(caller, t)
    /\ customHistoryIdExists(id)
    /\ emitted' = {}
    /\ UNCHANGED <<erc721, customHistories, records, commitments, announced>>
    /\ Emit(<<[event |-> "History", address |-> RegistryAddress,
               tokenIds |-> {t}, customHistoryIds |-> {id}]>>)

IndexedHistories ==
    /\ \/ \E name \in NameOrEmpty :
             /\ addCustomHistoryType(name)
             /\ Emit(<<HistoryEvent("CreateCustomHistoryType", Len(historyTypeNames'), name)>>)
       \/ \E name \in NameOrEmpty :
             /\ writeCustomHistory(name, 1)
             /\ Emit(<<HistoryEvent("CreateCustomHistory", Len(historyNames'), name)>>)
       \/ \E name \in NameOrEmpty, id \in HistoryId :
             /\ updateCustomHistory(id, name)
             /\ Emit(<<HistoryEvent("UpdateCustomHistory", id, name)>>)
    /\ emitted' = {}
    /\ UNCHANGED <<erc721, records, commitments, announced>>

RegistryCall ==
    /\ \/ \E issuer \in Issuer : IndexedIssue(issuer)
       \/ \E caller \in Account, t \in TokenId :
             \/ IndexedUpdate(caller, t)
             \/ \E receiver \in Receiver : IndexedRoyaltyReceiver(caller, t, receiver)
             \/ IndexedCommitment(caller, t)
             \/ IndexedProvenance(caller, t)
             \/ IndexedTransfer(caller, t)
             \/ \E id \in HistoryId : addHistory(caller, t, id)
       \/ IndexedHistories
    /\ UNCHANGED db

IndexEvent ==
    /\ log # << >>
    /\ ~db["stopped"]
    /\ db' = Index!HandleRegistryEvent(db, log[1][1], log[1][2])
    /\ log' = Tail(log)
    /\ UNCHANGED <<vars, time>>

IndexedNext ==
    \/ RegistryCall
    \/ NextBlock /\ UNCHANGED <<vars, db>>
    \/ IndexEvent

\* graph-node goes on handling events as long as there are any.
IndexedSpec == IndexedInit /\ [][IndexedNext]_composed /\ WF_composed(IndexEvent)

-----------------------------------------------------------------------------
(* Properties. *)

IdOf(t) == <<RegistryAddress, t>>
Indexed(t) == IdOf(t) \in DOMAIN db["SRR"]
Shown(t) == db["SRR"][IdOf(t)]

\* The owner, the lock, the metadata and the royalty that an index shows once it
\* has handled every event are the contract's, for exactly the records that exist.
RecordsAgree ==
    CaughtUp =>
        \A t \in TokenId :
            /\ exists(t) <=> Indexed(t)
            /\ exists(t) =>
                 /\ Shown(t).ownerAddress = tokenOwner[t]
                 /\ Shown(t).lockExternalTransfer = srrs[t].locked
                 /\ Shown(t).metadataDigest = srrs[t].metadata
                 /\ IF royalties[t].receiver = ZERO THEN Shown(t).royaltyReceiver = Null
                    ELSE /\ Shown(t).royaltyReceiver = royalties[t].receiver
                         /\ Shown(t).royaltyBasisPoints = royalties[t].basisPoints

\* The issuer and the artist of a record are shown as far as they are licensed
\* users; the artist may be another account in the contract, never another licensed
\* user (handleUpdateSRRInternal drops the update to an account without a wallet).
PeopleAgree ==
    CaughtUp =>
        \A t \in TokenId : exists(t) =>
            /\ srrs[t].issuer \in LicensedUser => Shown(t).issuer = srrs[t].issuer
            /\ srrs[t].artist \in LicensedUser => Shown(t).artist = srrs[t].artist

\* A commitment that the index shows as open can be revealed: it is the one stored
\* in the contract, on the record and in its SRRTransferCommit alike.  (The
\* contract may hold one that the index has taken as cleared: see the registry.)
OpenCommitmentIsLive ==
    CaughtUp =>
        \A t \in TokenId : exists(t) =>
            LET open == Shown(t).transferCommitment IN
            /\ open # Null => open = commitments[t].commitment
            /\ IdOf(t) \in DOMAIN db["SRRTransferCommit"] =>
                  db["SRRTransferCommit"][IdOf(t)].commitment = open

\* A transfer by reveal or with provenance that is the first of its record in the
\* block is indexed as the contract announced it, with its custom history, and not
\* as the plain transfer that is emitted beside it and makes the same entity.
ProvenanceKeepsHistory ==
    [][log # << >> /\ db' # db /\ log[1][1].event \in {"Provenance", "Transfer"} =>
        LET e == log[1][1]
            id == <<IdOf(e.tokenId), 1000 * log[1][2]>>
            announces(i) == /\ log[i][1].event = "Provenance" /\ log[i][1].tokenId = e.tokenId
                            /\ log[i][1].from = e.from /\ log[i][1].to = e.to
        IN  id \in DOMAIN db'["SRRProvenance"] \ DOMAIN db["SRRProvenance"] /\ e.from # e.to =>
                \A i \in DOMAIN log : i <= 2 /\ announces(i) =>
                    db'["SRRProvenance"][id].customHistory = log[i][1].customHistory]_composed

\* A provenance entity is final: no later event changes what was recorded.
ProvenanceIsFinal ==
    [][\A id \in DOMAIN db["SRRProvenance"] :
          /\ id \in DOMAIN db'["SRRProvenance"]
          /\ db'["SRRProvenance"][id] = db["SRRProvenance"][id]]_composed

\* No handler traps or saves a record without its required fields: graph-node
\* would stop indexing Startrail for good.
NeverStops == ~db["stopped"]

\* A record that is issued appears in the index in the end.
RecordIsIndexed == \A t \in TokenId : exists(t) ~> Indexed(t)
=============================================================================
