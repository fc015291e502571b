----------------------------- MODULE MovedRecord -----------------------------
(***************************************************************************)
(* One record's life on the chain where it was issued (StartrailRegistryV1 *)
(* there), its move (migrateSRR of StartrailRegistryV2 here) and its index *)
(* (MigrationIndex).  The move stores the record as it is at the end and   *)
(* replays the events that led there, in one transaction.                  *)
(*                                                                         *)
(* The provenance events of some moves carried a wrong timestamp, 66       *)
(* seconds after the epoch; emitProvenanceDateMigrationFix gave the dates  *)
(* later (scripts/migrate/fix-prov-created-at.js: the time of the record's *)
(* first Provenance event, in milliseconds).                               *)
(***************************************************************************)
EXTENDS ChainLog

CONSTANTS
    Account,
    ZERO,
    LicensedUser,       \* accounts with a wallet in the index
    Digest,             \* metadata digests
    Commitment,
    CustomHistory,      \* ids of custom histories, moved before the records
    MaxEvents,          \* bound: how many events the record has over there
    MaxOriginTime,      \* bound: timestamps over there
    RegistryAddress,
    HereChain,
    OriginChain,
    Null

VARIABLES
    originTime,
    history,            \* the record's events over there, pairs <<event, timestamp>>
    record,             \* the record over there, Null before it is issued
    moved,              \* whether the record is here
    badDates,           \* whether its provenance was moved with the wrong timestamp
    fixed,              \* whether the dates were given later
    db                  \* the database of the subgraph

origin == <<originTime, history, record>>
vars == <<originTime, history, record, moved, badDates, fixed, time, log, db>>

Record == [owner : Account \union LicensedUser, issuer : LicensedUser, artist : Account,
           metadataDigest : Digest, commitment : Commitment \union {Null},
           customHistory : CustomHistory \union {Null}]

\* null is not a value, and no token is owned by the zero address.
ASSUME MovedAssumption ==
    /\ Null \notin Nat \union LicensedUser \union Record
    /\ ZERO \notin Account \union LicensedUser

Index == INSTANCE MigrationIndex WITH ZERO_ADDRESS <- ZERO

T == "token"
BadTimestamp == 66

HistoryCreated(id) ==
    [event |-> "CreateCustomHistoryFromMigration", id |-> id, name |-> "name", type |-> 1,
     digest |-> "digest", originChain |-> OriginChain]

Init ==
    /\ ChainInit
    /\ originTime = 1
    /\ history = << >>
    /\ record = Null
    /\ moved = FALSE /\ badDates = FALSE /\ fixed = FALSE
    /\ db = [Index!EmptyDatabase EXCEPT
                !["LicensedUserWallet"] = [a \in LicensedUser |-> [walletAddress |-> a]],
                !["CustomHistory"] = [id \in CustomHistory |->
                    Index!HandleMigrationEvent(Index!EmptyDatabase, HistoryCreated(id))
                        ["CustomHistory"][id]]]

-----------------------------------------------------------------------------
(* Over there: calls of StartrailRegistryV1. *)

Happens(events) ==
    /\ ~moved
    /\ Len(history) + Len(events) <= MaxEvents
    /\ history' = history \o [i \in 1..Len(events) |-> <<events[i], originTime>>]
    /\ UNCHANGED <<originTime, moved, badDates, fixed, time, log, db>>

Moves(from, to) == [event |-> "TransferFromMigration", from |-> from, to |-> to]

Creates(issuer, artist, digest) ==
    [event |-> "CreateSRRFromMigration", issuer |-> issuer, artist |-> artist,
     metadataDigest |-> digest]

Commits(commitment, customHistory) ==
    [event |-> "SRRCommitmentFromMigration", commitment |-> commitment,
     customHistory |-> customHistory]

Cancels == [event |-> "SRRCommitmentCancelledFromMigration"]

\* _createSRR; for the records that another migration had moved already, the two
\* events are in the other order.
Create ==
    \E issuer \in LicensedUser, artist \in Account, digest \in Digest, flipped \in BOOLEAN :
        LET mint == Moves(ZERO, issuer)
            create == Creates(issuer, artist, digest)
        IN  /\ record = Null
            /\ record' = [owner |-> issuer, issuer |-> issuer, artist |-> artist,
                          metadataDigest |-> digest, commitment |-> Null, customHistory |-> Null]
            /\ Happens(IF flipped THEN <<create, mint>> ELSE <<mint, create>>)

Approve ==
    \E commitment \in Commitment, customHistory \in CustomHistory \union {Null} :
        /\ record # Null
        /\ record' = [record EXCEPT !.commitment = commitment,
                                    !.customHistory = IF customHistory = Null THEN @
                                                      ELSE customHistory]
        /\ Happens((IF record.commitment = Null THEN << >> ELSE <<Cancels>>)
                   \o <<Commits(commitment, customHistory)>>)

Cancel ==
    /\ record # Null
    /\ record' = [record EXCEPT !.commitment = Null, !.customHistory = Null]
    /\ Happens(<<Cancels>>)

\* transferSRRByReveal
Reveal ==
    \E to \in Account :
        /\ record # Null /\ record.commitment # Null
        /\ record' = [record EXCEPT !.owner = to, !.commitment = Null, !.customHistory = Null]
        /\ Happens(<<[event |-> "ProvenanceFromMigration", from |-> record.owner, to |-> to,
                      customHistory |-> record.customHistory, digest |-> "digest"],
                     Moves(record.owner, to)>>)

\* transferFrom
TransferPlainly ==
    \E to \in Account :
        /\ record # Null
        /\ record' = [record EXCEPT !.owner = to]
        /\ Happens(<<Moves(record.owner, to)>>)

\* updateSRRFromLicensedUser
UpdateArtist ==
    \E artist \in Account :
        /\ record # Null
        /\ record' = [record EXCEPT !.artist = artist]
        /\ Happens(<<[event |-> "UpdateSRRFromMigration", artist |-> artist]>>)

\* updateSRRMetadata
UpdateMetadata ==
    \E digest \in Digest :
        /\ record # Null
        /\ record' = [record EXCEPT !.metadataDigest = digest]
        /\ Happens(<<[event |-> "UpdateSRRMetadataDigestFromMigration",
                      metadataDigest |-> digest]>>)

OriginBlock ==
    /\ ~moved
    /\ originTime < MaxOriginTime
    /\ originTime' = originTime + 1
    /\ UNCHANGED <<history, record, moved, badDates, fixed, time, log, db>>

-----------------------------------------------------------------------------
(* Here. *)

\* The event as it is replayed.
Replayed(e, timestamp) ==
    [f \in DOMAIN e \union {"address", "tokenId", "originTimestamp"} |->
        CASE f = "address" -> RegistryAddress
          [] f = "tokenId" -> T
          [] f = "originTimestamp" -> timestamp
          [] OTHER -> e[f]]

MigrateSRR == [event |-> "MigrateSRR", address |-> RegistryAddress, tokenId |-> T,
               originChain |-> OriginChain]

migrateSRR ==
    \E bad \in BOOLEAN :
        /\ record # Null
        /\ ~moved
        /\ moved' = TRUE
        /\ badDates' = bad
        /\ Emit([i \in 1..Len(history) |->
                    LET e == history[i][1]
                    IN  Replayed(e, IF bad /\ e.event = "ProvenanceFromMigration"
                                    THEN BadTimestamp ELSE history[i][2])]
                \o <<MigrateSRR>>)
        /\ UNCHANGED <<origin, fixed, db>>

ProvenancePlaces == {i \in DOMAIN history : history[i][1].event = "ProvenanceFromMigration"}
FirstProvenance == CHOOSE i \in ProvenancePlaces : \A j \in ProvenancePlaces : i <= j

emitProvenanceDateMigrationFix ==
    /\ badDates /\ ~fixed
    /\ ProvenancePlaces # {}
    /\ fixed' = TRUE
    /\ Emit(<<[event |-> "ProvenanceDateMigrationFix", address |-> RegistryAddress,
               tokenId |-> T, originMillis |-> 1000 * history[FirstProvenance][2]]>>)
    /\ UNCHANGED <<origin, moved, badDates, db>>

IndexEvent ==
    /\ log # << >>
    /\ ~db["stopped"]
    /\ db' = Index!HandleMigrationEvent(db, log[1][1])
    /\ log' = Tail(log)
    /\ UNCHANGED <<origin, moved, badDates, fixed, time>>

Next ==
    \/ Create \/ Approve \/ Cancel \/ Reveal \/ TransferPlainly
    \/ UpdateArtist \/ UpdateMetadata
    \/ OriginBlock
    \/ migrateSRR
    \/ emitProvenanceDateMigrationFix
    \/ IndexEvent

Spec == Init /\ [][Next]_vars

-----------------------------------------------------------------------------
(* Properties. *)

Id == <<RegistryAddress, T>>
Shown == db["SRR"][Id]

\* A record that was moved is shown as it was over there: its owner, metadata, the
\* people who are licensed users, where it comes from and since when it exists; and
\* a commitment that is shown can still be revealed.
MovedRecordAgrees ==
    moved /\ CaughtUp =>
        /\ Id \in DOMAIN db["SRR"]
        /\ Shown.ownerAddress = record.owner
        /\ Shown.metadataDigest = record.metadataDigest
        /\ record.issuer \in LicensedUser => Shown.issuer = record.issuer
        /\ record.artist \in LicensedUser => Shown.artist = record.artist
        /\ Shown.originChain = OriginChain
        /\ Shown.createdAt = 1000 * history[1][2]
        /\ Shown.transferCommitment # Null => Shown.transferCommitment = record.commitment

\* Once the dates are given, the first change of hands of the record has the time it
\* had over there, whichever way it was moved.
ProvenanceIsDated ==
    moved /\ CaughtUp /\ (badDates => fixed) /\ ProvenancePlaces # {} =>
        \E id \in DOMAIN db["SRRProvenance"] :
            LET p == db["SRRProvenance"][id]
                e == history[FirstProvenance][1]
            IN  /\ p.from = e.from /\ p.to = e.to
                /\ p.timestamp = 1000 * history[FirstProvenance][2]
=============================================================================
