-------------------------- MODULE IndexedCollection --------------------------
(***************************************************************************)
(* A collection and the index of its records: CollectionIndex handles the  *)
(* events of Collection some blocks later, in their order.  graph-node     *)
(* follows a collection from its CollectionCreated event on.               *)
(***************************************************************************)
EXTENDS Collection

CONSTANTS
    LicensedUser,   \* the accounts that are licensed users' wallets
    HereChain

VARIABLE db         \* the database of the subgraph

ASSUME NullAssumption == Null \notin Nat   \* null is not a value

Index == INSTANCE CollectionIndex WITH ZERO_ADDRESS <- ZERO

composed == <<collection, time, log, db>>

IndexedInit ==
    /\ CollectionInit
    /\ ChainInit
    /\ db = [Index!EmptyDatabase EXCEPT
                !["LicensedUserWallet"] = [a \in LicensedUser |-> [walletAddress |-> a]]]

IndexEvent ==
    /\ log # << >>
    /\ ~db["stopped"]
    /\ db' = Index!HandleCollectionEvent(db, log[1][1], log[1][2])
    /\ log' = Tail(log)
    /\ UNCHANGED <<collection, time>>

IndexedNext ==
    \/ CollectionCall /\ UNCHANGED db
    \/ NextBlock /\ UNCHANGED <<collection, db>>
    \/ IndexEvent

IndexedSpec == IndexedInit /\ [][IndexedNext]_composed

-----------------------------------------------------------------------------
(* Properties. *)

IdOf(t) == <<CollectionAddress, t>>
Indexed(t) == IdOf(t) \in DOMAIN db["SRR"]
Shown(t) == db["SRR"][IdOf(t)]

\* An owner's balance is the number of records it owns, although the storage
\* library moves them without looking at who owns what.
BalancesCountTokens ==
    \A a \in Account : balanceOf[a] = Cardinality({t \in TokenId : ownerOf[t] = a})

\* A locked record changes hands only with an announced provenance that tells from
\* whom and to whom (transfers by reveal and with provenance pass the lock).
LockedMovesWithProvenance ==
    [][\A t \in TokenId :
          tokenIdToLockFlag[t] /\ exists(t) /\ ownerOf'[t] # ownerOf[t] =>
            \E i \in Len(log) + 1..Len(log') :
                LET e == log'[i][1]
                IN  /\ e.event = "Provenance" /\ e.tokenId = t
                    /\ e.from = ownerOf[t] /\ e.to = ownerOf'[t]]_composed

\* Once every event is handled, the index shows who owns the collection, and of
\* each of its records the owner, the metadata, the royalty and the collection.
CollectionAgrees ==
    CaughtUp /\ collectionOwner # ZERO =>
        /\ db["Collection"][CollectionAddress].ownerAddress = collectionOwner
        /\ db["Collection"][CollectionAddress].creatorAddress = Creator
        /\ \A t \in TokenId : exists(t) =>
              /\ Indexed(t)
              /\ Shown(t).ownerAddress = ownerOf[t]
              /\ Shown(t).metadataDigest = srrs[t].metadataCID
              /\ Shown(t).collection = CollectionAddress
              /\ Shown(t).issuer # Null => Shown(t).issuer = srrs[t].issuer
              /\ IF royalties[t].receiver = ZERO THEN Shown(t).royaltyReceiver = Null
                 ELSE /\ Shown(t).royaltyReceiver = royalties[t].receiver
                      /\ Shown(t).royaltyBasisPoints = royalties[t].basisPoints

\* A commitment that the index shows as open can be revealed, and a record that is
\* shown as locked is locked, even after the record was sent to the zero address
\* and issued again.
ShownIsInForce ==
    CaughtUp =>
        \A t \in TokenId : exists(t) =>
            /\ Shown(t).transferCommitment # Null =>
                  Shown(t).transferCommitment = approvals[t].commitment
            /\ Shown(t).lockExternalTransfer => tokenIdToLockFlag[t]

\* "only if true - save gas as false already be set" (LibSRRCreate.createSRR): a
\* record is locked after its issue exactly if its CreateSRR event says so.
LockedAsCreated ==
    [][\A i \in Len(log) + 1..Len(log') :
          LET e == log'[i][1]
          IN  e.event = "CreateSRR" => tokenIdToLockFlag'[e.tokenId] = e.lock]_composed
=============================================================================
