----------------------- MODULE IndexedRegistry_proofs -----------------------
(***************************************************************************)
(* Proofs about the registry and its index, for any accounts, tokens and   *)
(* histories, and an index that is any number of events behind.            *)
(*                                                                         *)
(* First the registry by itself: its types, its balances, its approvals,   *)
(* royalties and custom histories, and that it implements SRRTitle.  Types *)
(* and balances need each other: that a transfer leaves the balance of the *)
(* sender a natural number is so because it counts the tokens.             *)
(*                                                                         *)
(* Then the index.  A handler reads nothing but the database and its       *)
(* event.  So the databases that the events still in the log will make are *)
(* determined already, and the inductive invariant is about the last of    *)
(* them: it shows what the contract has now.  A call of the contract adds  *)
(* its events at the end and the index takes one from the front; neither   *)
(* has to know how far the index is behind.                                *)
(***************************************************************************)
EXTENDS IndexedRegistry, SequenceFacts, FiniteSetTheorems, SequenceTheorems, TLAPS

Owned(owner, a) == {t \in TokenId : owner[t] = a}

LEMMA OwnedFinite ==
    ASSUME NEW owner, NEW a
    PROVE  IsFiniteSet(Owned(owner, a)) /\ Cardinality(Owned(owner, a)) \in Nat
BY TokenAssumption, FS_Subset, FS_CardinalityType DEF Owned

\* A token that changes hands counts for the one who gets it instead of the one
\* who had it.
Counts(owner, t, to, a, moved) ==
    Cardinality(Owned(moved, a))
       = Cardinality(Owned(owner, a)) - (IF owner[t] = a THEN 1 ELSE 0)
         + (IF to = a THEN 1 ELSE 0)

LEMMA OwnedAfter ==
    ASSUME NEW owner \in [TokenId -> Address], NEW t \in TokenId, NEW to \in Address,
           NEW a \in Address, NEW moved, moved = [owner EXCEPT ![t] = to]
    PROVE  Counts(owner, t, to, a, moved)
<1> DEFINE before == Owned(owner, a)
           after == Owned(moved, a)
<1>1. IsFiniteSet(before) /\ Cardinality(before) \in Nat
  BY OwnedFinite
<1>2. CASE to = a
  <2>1. after = before \union {t}
    BY <1>2 DEF Owned
  <2>2. t \in before <=> owner[t] = a
    BY DEF Owned
  <2> HIDE DEF before, after
  <2>3. Cardinality(before \union {t})
           = IF t \in before THEN Cardinality(before) ELSE Cardinality(before) + 1
    BY <1>1, FS_AddElement
  <2>4. Cardinality(after) = Cardinality(before) - (IF owner[t] = a THEN 1 ELSE 0) + 1
    BY <1>1, <2>1, <2>2, <2>3
  <2>5. QED
    BY <1>2, <2>4 DEF before, after, Counts
<1>3. CASE to # a
  <2>1. after = before \ {t}
    BY <1>3 DEF Owned
  <2>2. t \in before <=> owner[t] = a
    BY DEF Owned
  <2> HIDE DEF before, after
  <2>3. Cardinality(before \ {t})
           = IF t \in before THEN Cardinality(before) - 1 ELSE Cardinality(before)
    BY <1>1, FS_RemoveElement
  <2>4. Cardinality(after) = Cardinality(before) - (IF owner[t] = a THEN 1 ELSE 0) + 0
    BY <1>1, <2>1, <2>2, <2>3
  <2>5. QED
    BY <1>3, <2>4 DEF before, after, Counts
<1>4. QED
  BY <1>2, <1>3

-----------------------------------------------------------------------------
(* ERC721. *)

\* Nobody is approved for a token that does not exist.
Unapproved == \A t \in TokenId : ~exists(t) => tokenApprovals[t] = ZERO

ERC721Inv == ERC721TypeOK /\ BalancesCountTokens /\ Unapproved

\* What a step does to the tokens: `from` loses t, if it is an account, and `to` gets it.
Moves(from, to, t) ==
    /\ tokenOwner' = [tokenOwner EXCEPT ![t] = to]
    /\ ownedTokensCount' \in [Account -> Int]
    /\ \A a \in Account : ownedTokensCount'[a]
          = ownedTokensCount[a] - (IF a = from THEN 1 ELSE 0) + (IF a = to THEN 1 ELSE 0)

LEMMA MovesKeepsBalances ==
    ASSUME ERC721TypeOK, BalancesCountTokens,
           NEW t \in TokenId, NEW to \in Account, Moves(tokenOwner[t], to, t)
    PROVE  /\ tokenOwner' \in [TokenId -> Address]
           /\ ownedTokensCount' \in [Account -> Nat]
           /\ BalancesCountTokens'
<1>1. tokenOwner \in [TokenId -> Address] /\ Account \subseteq Address
  BY DEF ERC721TypeOK, Address
<1>2. tokenOwner' = [tokenOwner EXCEPT ![t] = to]
  BY DEF Moves
<1>3. ASSUME NEW a \in Account
      PROVE  /\ ownedTokensCount'[a] = Cardinality(Owned(tokenOwner', a))
             /\ ownedTokensCount'[a] \in Nat
  <2>1. ownedTokensCount[a] = Cardinality(Owned(tokenOwner, a))
    BY DEF BalancesCountTokens, Owned
  <2>2. a \in Address /\ to \in Address
    BY <1>1
  <2>3. Counts(tokenOwner, t, to, a, tokenOwner')
    BY <1>1, <1>2, <2>2, OwnedAfter
  <2>4. Cardinality(Owned(tokenOwner', a)) = Cardinality(Owned(tokenOwner, a))
           - (IF tokenOwner[t] = a THEN 1 ELSE 0) + (IF to = a THEN 1 ELSE 0)
    BY <2>3 DEF Counts
  <2>5. ownedTokensCount'[a] = ownedTokensCount[a]
           - (IF a = tokenOwner[t] THEN 1 ELSE 0) + (IF a = to THEN 1 ELSE 0)
    BY DEF Moves
  <2>6. Cardinality(Owned(tokenOwner', a)) \in Nat
    BY OwnedFinite
  <2>7. QED
    BY <2>1, <2>4, <2>5, <2>6
<1>4. BalancesCountTokens'
  BY <1>3 DEF BalancesCountTokens, Owned
<1>5. QED
  BY <1>1, <1>2, <1>3, <1>4 DEF Moves

LEMMA MintInv ==
    ASSUME ERC721Inv, NEW to \in Address, NEW t \in TokenId, mint(to, t)
    PROVE  ERC721Inv'
<1>1. to \in Account /\ tokenOwner[t] = ZERO /\ ZERO \notin Account
  BY ZeroAssumption DEF mint, exists, Address
<1>2. Moves(tokenOwner[t], to, t)
  BY <1>1 DEF mint, Moves, ERC721Inv, ERC721TypeOK
<1>3. BalancesCountTokens' /\ tokenOwner' \in [TokenId -> Address]
      /\ ownedTokensCount' \in [Account -> Nat]
  BY <1>1, <1>2, MovesKeepsBalances DEF ERC721Inv
<1>4. ERC721TypeOK'
  BY <1>3 DEF ERC721Inv, ERC721TypeOK, mint
<1>5. Unapproved'
  BY <1>1 DEF ERC721Inv, Unapproved, mint, exists, ERC721TypeOK
<1>6. QED
  BY <1>3, <1>4, <1>5 DEF ERC721Inv

LEMMA MintAndTransferInv ==
    ASSUME ERC721Inv, NEW from, NEW to \in Address, NEW t \in TokenId,
           mintAndTransfer(from, to, t)
    PROVE  ERC721Inv'
<1>1. to \in Account /\ tokenOwner[t] = ZERO /\ ZERO \notin Account
  BY ZeroAssumption DEF mintAndTransfer, exists, Address
<1>2. Moves(tokenOwner[t], to, t)
  BY <1>1 DEF mintAndTransfer, Moves, ERC721Inv, ERC721TypeOK
<1>3. BalancesCountTokens' /\ tokenOwner' \in [TokenId -> Address]
      /\ ownedTokensCount' \in [Account -> Nat]
  BY <1>1, <1>2, MovesKeepsBalances DEF ERC721Inv
<1>4. ERC721TypeOK'
  BY <1>3 DEF ERC721Inv, ERC721TypeOK, mintAndTransfer, Address
<1>5. Unapproved'
  BY <1>1 DEF ERC721Inv, Unapproved, mintAndTransfer, exists, ERC721TypeOK
<1>6. QED
  BY <1>3, <1>4, <1>5 DEF ERC721Inv

LEMMA TransferInv ==
    ASSUME ERC721Inv, NEW from, NEW to \in Address, NEW t \in TokenId, transfer(from, to, t)
    PROVE  ERC721Inv'
<1>1. to \in Account /\ from = tokenOwner[t] /\ from \in Account
  BY DEF transfer, ownerIs, exists, Address, ERC721Inv, ERC721TypeOK
<1>2. Moves(tokenOwner[t], to, t)
  BY <1>1 DEF transfer, Moves, ERC721Inv, ERC721TypeOK
<1>3. BalancesCountTokens' /\ tokenOwner' \in [TokenId -> Address]
      /\ ownedTokensCount' \in [Account -> Nat]
  BY <1>1, <1>2, MovesKeepsBalances DEF ERC721Inv
<1>4. ERC721TypeOK'
  BY <1>3 DEF ERC721Inv, ERC721TypeOK, transfer, Address
<1>5. Unapproved'
  BY <1>1 DEF ERC721Inv, Unapproved, transfer, exists, ERC721TypeOK
<1>6. QED
  BY <1>3, <1>4, <1>5 DEF ERC721Inv

LEMMA ApproveInv ==
    ASSUME ERC721Inv, NEW to \in Address, NEW t \in TokenId, exists(t), approveTo(to, t)
    PROVE  ERC721Inv'
BY DEF approveTo, ERC721Inv, ERC721TypeOK, BalancesCountTokens, Unapproved, exists

LEMMA ApprovalForAllInv ==
    ASSUME ERC721Inv, NEW caller \in Account, NEW operator \in Account, NEW approved,
           setApprovalForAll(caller, operator, approved)
    PROVE  ERC721Inv'
BY DEF setApprovalForAll, ERC721Inv, ERC721TypeOK, BalancesCountTokens, Unapproved, exists

LEMMA StillInv ==
    ASSUME ERC721Inv, UNCHANGED erc721
    PROVE  ERC721Inv'
BY DEF erc721, ERC721Inv, ERC721TypeOK, BalancesCountTokens, Unapproved, exists

-----------------------------------------------------------------------------
(* The operations, one by one. *)

\* The steps of Next with their arguments: what the proofs below go through.
Creates ==
    \E issuer \in Issuer, cid \in MetadataCID, artist \in Artist, lock \in BOOLEAN,
       to \in Address, receiver \in Receiver \union {ZERO}, basisPoints \in BasisPoints :
        createSRR(issuer, cid, artist, lock, to, receiver, basisPoints)
UpdatesArtist == \E caller \in Account, t \in TokenId, artist \in Artist :
    updateSRR(caller, t, artist)
UpdatesMetadata ==
    \E caller \in Account, t \in TokenId, cid \in MetadataCID \union {NoMetadata} :
        updateSRRMetadata(caller, t, cid)
UpdatesRoyalty ==
    \E caller \in Account, t \in TokenId, receiver \in Receiver \union {ZERO},
       basisPoints \in BasisPoints : updateSRRRoyalty(caller, t, receiver, basisPoints)
UpdatesReceivers ==
    \E caller \in Account, tokens \in SUBSET TokenId, receiver \in Receiver \union {ZERO} :
        updateSRRRoyaltyReceiverMulti(caller, tokens, receiver)
Locks == \E caller \in Account, t \in TokenId, lock \in BOOLEAN :
    setLockExternalTransfer(caller, t, lock)
Commits ==
    \E t \in TokenId, commitment \in Reveal \union {NoCommitment}, id \in HistoryId :
        exists(t) /\ Commit(t, commitment, id)
Cancels == \E caller \in Account, t \in TokenId : cancelSRRCommitment(caller, t)
Reveals == \E t \in TokenId, to \in Address, reveal \in Reveal :
    transferSRRByReveal(to, reveal, t)
TransfersWithProvenance == \E t \in TokenId, to \in Address, id \in HistoryId :
    exists(t) /\ TransferWithProvenance(to, t, id)
Transfers == \E caller, from \in Account, to \in Address, t \in TokenId :
    transferFrom(caller, from, to, t)
Approves == \E caller \in Account, to \in Address, t \in TokenId : approve(caller, to, t)
ApprovesForAll == \E caller \in Account, operator \in Operator, approved \in BOOLEAN :
    SetApprovalForAll(caller, operator, approved)
Kills == \E caller \in Account, on \in BOOLEAN : setOpenSeaApproveAllKillSwitch(caller, on)

LEMMA NextCases ==
    ASSUME Next
    PROVE  \/ Creates \/ UpdatesArtist \/ UpdatesMetadata \/ UpdatesRoyalty
           \/ UpdatesReceivers \/ Locks \/ Commits \/ Cancels \/ Reveals
           \/ TransfersWithProvenance \/ Transfers \/ Approves \/ ApprovesForAll
           \/ Kills \/ WriteHistories
<1>1. CASE \E issuer \in Issuer : Issue(issuer)
  BY <1>1 DEF Issue, Creates
<1>2. ASSUME NEW caller \in Account, NEW t \in TokenId, Update(caller, t)
      PROVE  UpdatesArtist \/ UpdatesMetadata \/ UpdatesRoyalty \/ Locks
  BY <1>2 DEF Update, UpdatesArtist, UpdatesMetadata, UpdatesRoyalty, Locks
<1>3. ASSUME NEW caller \in Account, NEW t \in TokenId, ByCommitment(caller, t)
      PROVE  Commits \/ Cancels
  BY <1>3 DEF ByCommitment, Commits, Cancels, approveSRRByCommitment,
              approveSRRByCommitmentFromBulk, onlySRROwnerOrAdministrator, ownerIs
<1>4. ASSUME NEW caller \in Account, NEW t \in TokenId, WithProvenance(caller, t)
      PROVE  Reveals \/ TransfersWithProvenance
  BY <1>4 DEF WithProvenance, Reveals, TransfersWithProvenance, transferFromWithProvenance,
              transferFromWithProvenanceFromBulk, onlySRROwnerOrAdministrator, ownerIs
<1>5. ASSUME NEW caller \in Account, NEW t \in TokenId, Standard(caller, t)
      PROVE  Transfers \/ Approves
  BY <1>5 DEF Standard, Transfers, Approves
<1>6. QED
  BY Zenon, <1>1, <1>2, <1>3, <1>4, <1>5
  DEF Next, UpdatesReceivers, ApprovesForAll, Kills

-----------------------------------------------------------------------------
(* Types and balances. *)

RecordTypes ==
    /\ srrs \in [TokenId -> SRR]
    /\ royalties \in [TokenId -> RoyaltyInfo]
    /\ commitments \in [TokenId -> Commitment]
    /\ killSwitch \in BOOLEAN
    /\ announced \in [TokenId -> HistoryId]

EmittedType == emitted \subseteq Provenance /\ Cardinality(emitted) <= 1

IInv == ERC721Inv /\ CustomHistoriesTypeOK /\ RecordTypes /\ EmittedType

LEMMA InvariantTypes == IInv => TypeOK
BY DEF IInv, TypeOK, ERC721Inv, RecordTypes, EmittedType

LEMMA NothingEmitted ==
    ASSUME emitted' = {}
    PROVE  EmittedType'
BY FS_EmptySet DEF EmittedType

LEMMA OneEmitted ==
    ASSUME NEW e \in Provenance, emitted' = {e}
    PROVE  EmittedType'
BY FS_Singleton DEF EmittedType

\* Ids, rates and addresses as they come in.
LEMMA InputFacts ==
    /\ Issuer \subseteq Account /\ Operator \subseteq Account
    /\ Receiver \union {ZERO} \subseteq Address
    /\ Artist \subseteq Address /\ Account \subseteq Address /\ ZERO \in Address
    /\ NO_CUSTOM_HISTORY \in HistoryId
    /\ \A cid \in MetadataCID, artist \in Artist : generate[<<cid, artist>>] \in TokenId
BY RegistryAssumption, HistoryNameAssumption DEF Address, HistoryId, NO_CUSTOM_HISTORY

LEMMA InitInvariant ==
    ASSUME Init
    PROVE  IInv
<1>1. ERC721TypeOK /\ Unapproved
  BY DEF Init, ERC721Init, ERC721TypeOK, Unapproved, Address
<1>2. BalancesCountTokens
  <2> SUFFICES ASSUME NEW a \in Account
               PROVE  ownedTokensCount[a] = Cardinality({t \in TokenId : tokenOwner[t] = a})
    BY DEF BalancesCountTokens
  <2>1. {t \in TokenId : tokenOwner[t] = a} = {}
    BY ZeroAssumption DEF Init, ERC721Init
  <2>2. QED
    BY <2>1, FS_EmptySet DEF Init, ERC721Init
<1>3. CustomHistoriesTypeOK
  BY DEF Init, CustomHistoriesInit, CustomHistoriesTypeOK
<1>4. RecordTypes
  <2>1. NoSRR \in SRR
    BY InputFacts DEF NoSRR, SRR
  <2>2. NoRoyalty \in RoyaltyInfo
    BY InputFacts DEF NoRoyalty, RoyaltyInfo, Rate
  <2>3. NothingCommitted \in Commitment
    BY InputFacts DEF NothingCommitted, Commitment
  <2>4. NO_CUSTOM_HISTORY \in HistoryId
    BY InputFacts
  <2>5. QED
    BY <2>1, <2>2, <2>3, <2>4 DEF Init, RecordTypes
<1>5. EmittedType
  BY FS_EmptySet DEF Init, EmittedType
<1>6. QED
  BY <1>1, <1>2, <1>3, <1>4, <1>5 DEF IInv, ERC721Inv

\* Operations that leave the tokens, the custom histories and the events alone.
LEMMA RecordStep ==
    ASSUME IInv, UNCHANGED <<erc721, customHistories>>, emitted' = {}, RecordTypes'
    PROVE  IInv'
<1>1. ERC721Inv'
  BY StillInv DEF IInv
<1>2. CustomHistoriesTypeOK'
  BY DEF IInv, customHistories, CustomHistoriesTypeOK
<1>3. QED
  BY <1>1, <1>2, NothingEmitted DEF IInv

LEMMA NewReceiver ==
    ASSUME NEW royalty \in RoyaltyInfo, NEW receiver \in Address
    PROVE  WithReceiver(royalty, receiver) \in RoyaltyInfo
BY DEF WithReceiver, RoyaltyInfo

LEMMA CreatesInvariant ==
    ASSUME IInv, Creates
    PROVE  IInv'
<1>1. PICK issuer \in Issuer, cid \in MetadataCID, artist \in Artist, lock \in BOOLEAN,
           to \in Address, receiver \in Receiver \union {ZERO}, basisPoints \in BasisPoints :
        createSRR(issuer, cid, artist, lock, to, receiver, basisPoints)
  BY DEF Creates
<1> DEFINE t == generate[<<cid, artist>>]
<1>2. t \in TokenId /\ issuer \in Address /\ artist \in Address /\ receiver \in Address
  BY InputFacts
<1>3. \/ mint(issuer, t)
      \/ mintAndTransfer(issuer, to, t)
  BY <1>1 DEF createSRR
<1>4. ERC721Inv'
  <2> HIDE DEF t
  <2>1. QED
    BY <1>2, <1>3, MintInv, MintAndTransferInv DEF IInv
<1>5. srrs' = [srrs EXCEPT ![t] = [issuer |-> issuer, artist |-> artist,
                                   metadata |-> cid, locked |-> lock]]
  BY <1>1 DEF createSRR
<1>6. srrs' \in [TokenId -> SRR]
  <2> HIDE DEF t
  <2>1. [issuer |-> issuer, artist |-> artist, metadata |-> cid, locked |-> lock] \in SRR
    BY <1>2 DEF SRR
  <2>2. QED
    BY <1>5, <2>1 DEF IInv, RecordTypes
<1>7. royalties' \in [TokenId -> RoyaltyInfo]
  <2>1. \/ royalties' = royalties
        \/ /\ royalties' = [royalties EXCEPT ![t] = [receiver |-> receiver,
                                                     basisPoints |-> basisPoints]]
           /\ RoyaltyAllowed(receiver, basisPoints)
    BY <1>1 DEF createSRR
  <2>2. RoyaltyAllowed(receiver, basisPoints)
          => [receiver |-> receiver, basisPoints |-> basisPoints] \in RoyaltyInfo
    BY <1>2, RegistryAssumption DEF RoyaltyAllowed, RoyaltyInfo, Rate
  <2> HIDE DEF t
  <2>3. QED
    BY <2>1, <2>2 DEF IInv, RecordTypes
<1>8. /\ UNCHANGED <<customHistories, commitments, killSwitch, announced>>
      /\ emitted' = {}
  BY <1>1 DEF createSRR
<1>9. RecordTypes' /\ CustomHistoriesTypeOK'
  BY <1>6, <1>7, <1>8 DEF IInv, RecordTypes, customHistories, CustomHistoriesTypeOK
<1>10. QED
  BY <1>4, <1>8, <1>9, NothingEmitted DEF IInv

\* A transfer with a provenance event.
LEMMA ProvenanceStep ==
    ASSUME IInv, NEW t \in TokenId, NEW to \in Address, NEW id \in HistoryId,
           transfer(tokenOwner[t], to, t), emitted' = {ProvenanceOf(t, to, id)},
           UNCHANGED <<customHistories, records, announced>>,
           commitments' \in [TokenId -> Commitment]
    PROVE  IInv'
<1>1. ERC721Inv'
  BY TransferInv DEF IInv
<1>2. tokenOwner[t] \in Account /\ to \in Account
  BY DEF transfer, ownerIs, exists, Address, IInv, ERC721Inv, ERC721TypeOK
<1>3. ProvenanceOf(t, to, id) \in Provenance
  BY <1>2 DEF ProvenanceOf, Provenance
<1>4. EmittedType'
  BY <1>3, OneEmitted
<1>5. RecordTypes' /\ CustomHistoriesTypeOK'
  BY DEF IInv, RecordTypes, records, customHistories, CustomHistoriesTypeOK
<1>6. QED
  BY <1>1, <1>4, <1>5 DEF IInv

LEMMA HistoriesInvariant ==
    ASSUME IInv, WriteHistories
    PROVE  IInv'
<1>1. /\ emitted' = {}
      /\ UNCHANGED <<erc721, records, commitments, announced>>
  BY DEF WriteHistories
<1>2. /\ historyTypeNames \in Seq(NameOrEmpty) /\ historyNames \in Seq(NameOrEmpty)
  BY DEF IInv, CustomHistoriesTypeOK
<1>3. ASSUME NEW name \in NameOrEmpty, addCustomHistoryType(name)
      PROVE  CustomHistoriesTypeOK'
  BY <1>2, <1>3 DEF addCustomHistoryType, CustomHistoriesTypeOK
<1>4. ASSUME NEW name \in NameOrEmpty, NEW type, writeCustomHistory(name, type)
      PROVE  CustomHistoriesTypeOK'
  BY <1>2, <1>4 DEF writeCustomHistory, CustomHistoriesTypeOK
<1>5. ASSUME NEW name \in NameOrEmpty, NEW id \in HistoryId, updateCustomHistory(id, name)
      PROVE  CustomHistoriesTypeOK'
  <2>1. id \in 1..Len(historyNames)
    BY <1>2, <1>5 DEF updateCustomHistory, customHistoryIdExists, getCustomHistoryNameById
  <2>2. [historyNames EXCEPT ![id] = name] \in Seq(NameOrEmpty)
    BY <1>2, <2>1, ExceptSeq
  <2>3. QED
    BY <1>2, <1>5, <2>2 DEF updateCustomHistory, CustomHistoriesTypeOK
<1>6. CustomHistoriesTypeOK'
  BY <1>3, <1>4, <1>5 DEF WriteHistories
<1>7. ERC721Inv' /\ RecordTypes'
  BY <1>1, StillInv DEF IInv, RecordTypes, records
<1>8. QED
  BY <1>1, <1>6, <1>7, NothingEmitted DEF IInv

LEMMA StepInvariant ==
    ASSUME IInv, [Next]_vars
    PROVE  IInv'
<1>t. /\ srrs \in [TokenId -> SRR] /\ royalties \in [TokenId -> RoyaltyInfo]
      /\ commitments \in [TokenId -> Commitment]
      /\ killSwitch \in BOOLEAN /\ announced \in [TokenId -> HistoryId]
  BY DEF IInv, RecordTypes
<1>1. CASE Creates
  BY <1>1, CreatesInvariant
<1>2. CASE UpdatesArtist
  <2>1. PICK t \in TokenId, artist \in Artist :
           /\ srrs' = [srrs EXCEPT ![t].artist = artist] /\ emitted' = {}
           /\ UNCHANGED <<erc721, customHistories, royalties, commitments, killSwitch, announced>>
    BY <1>2 DEF UpdatesArtist, updateSRR
  <2>2. srrs' \in [TokenId -> SRR]
    BY <1>t, <2>1, InputFacts DEF SRR
  <2>3. RecordTypes'
    BY <1>t, <2>1, <2>2 DEF RecordTypes
  <2>4. QED
    BY <2>1, <2>3, RecordStep
<1>3. CASE UpdatesMetadata
  <2>1. PICK t \in TokenId, cid \in MetadataCID \union {NoMetadata} :
           /\ srrs' = [srrs EXCEPT ![t].metadata = cid] /\ emitted' = {}
           /\ UNCHANGED <<erc721, customHistories, royalties, commitments, killSwitch, announced>>
    BY <1>3 DEF UpdatesMetadata, updateSRRMetadata
  <2>2. srrs' \in [TokenId -> SRR]
    BY <1>t, <2>1 DEF SRR
  <2>3. RecordTypes'
    BY <1>t, <2>1, <2>2 DEF RecordTypes
  <2>4. QED
    BY <2>1, <2>3, RecordStep
<1>4. CASE UpdatesRoyalty
  <2>1. PICK caller \in Account, t \in TokenId, receiver \in Receiver \union {ZERO},
             basisPoints \in BasisPoints : updateSRRRoyalty(caller, t, receiver, basisPoints)
    BY <1>4 DEF UpdatesRoyalty
  <2>2. royalties' \in [TokenId -> RoyaltyInfo]
    <3>1. \/ royalties' = royalties
          \/ /\ royalties' = [royalties EXCEPT ![t] = [receiver |-> receiver,
                                                       basisPoints |-> basisPoints]]
             /\ RoyaltyAllowed(receiver, basisPoints)
      BY <2>1 DEF updateSRRRoyalty
    <3>2. RoyaltyAllowed(receiver, basisPoints)
            => [receiver |-> receiver, basisPoints |-> basisPoints] \in RoyaltyInfo
      BY InputFacts, RegistryAssumption DEF RoyaltyAllowed, RoyaltyInfo, Rate
    <3>3. QED
      BY <1>t, <3>1, <3>2
  <2>3. /\ emitted' = {}
        /\ UNCHANGED <<erc721, customHistories, srrs, commitments, killSwitch, announced>>
    BY <2>1 DEF updateSRRRoyalty
  <2>4. RecordTypes'
    BY <1>t, <2>2, <2>3 DEF RecordTypes
  <2>5. QED
    BY <2>3, <2>4, RecordStep
<1>5. CASE UpdatesReceivers
  <2>1. PICK caller \in Account, tokens \in SUBSET TokenId, receiver \in Receiver \union {ZERO} :
           updateSRRRoyaltyReceiverMulti(caller, tokens, receiver)
    BY <1>5 DEF UpdatesReceivers
  <2>2. ASSUME NEW t \in TokenId
        PROVE  WithReceiver(royalties[t], receiver) \in RoyaltyInfo
    <3>1. receiver \in Address
      BY InputFacts
    <3>2. royalties[t] \in RoyaltyInfo
      BY <1>t
    <3>3. QED
      BY Zenon, <3>1, <3>2, NewReceiver
  <2>3. royalties' \in [TokenId -> RoyaltyInfo]
    <3> DEFINE withRoyalty == {t \in tokens : royalties[t].receiver # ZERO}
               R(t) == IF t \in withRoyalty
                       THEN WithReceiver(royalties[t], receiver) ELSE royalties[t]
    <3>1. royalties' = [t \in TokenId |-> R(t)]
      BY <2>1 DEF updateSRRRoyaltyReceiverMulti
    <3> HIDE DEF withRoyalty
    <3>2. \A t \in TokenId : R(t) \in RoyaltyInfo
      BY <1>t, <2>2
    <3> HIDE DEF R
    <3>3. QED
      BY <3>1, <3>2
  <2>4. /\ emitted' = {}
        /\ UNCHANGED <<erc721, customHistories, srrs, commitments, killSwitch, announced>>
    BY <2>1 DEF updateSRRRoyaltyReceiverMulti
  <2>5. RecordTypes'
    BY <1>t, <2>3, <2>4 DEF RecordTypes
  <2>6. QED
    BY <2>4, <2>5, RecordStep
<1>6. CASE Locks
  <2>1. PICK t \in TokenId, lock \in BOOLEAN :
           /\ srrs' = [srrs EXCEPT ![t].locked = lock] /\ emitted' = {}
           /\ UNCHANGED <<erc721, customHistories, royalties, commitments, killSwitch, announced>>
    BY <1>6 DEF Locks, setLockExternalTransfer
  <2>2. srrs' \in [TokenId -> SRR]
    BY <1>t, <2>1 DEF SRR
  <2>3. RecordTypes'
    BY <1>t, <2>1, <2>2 DEF RecordTypes
  <2>4. QED
    BY <2>1, <2>3, RecordStep
<1>7. CASE Commits
  <2>1. PICK t \in TokenId, commitment \in Reveal \union {NoCommitment}, id \in HistoryId :
           Commit(t, commitment, id)
    BY <1>7 DEF Commits
  <2>2. commitments' \in [TokenId -> Commitment] /\ announced' \in [TokenId -> HistoryId]
    BY <1>t, <2>1 DEF Commit, Commitment
  <2>3. /\ emitted' = {}
        /\ UNCHANGED <<erc721, customHistories, records>>
    BY <2>1 DEF Commit
  <2>4. RecordTypes'
    BY <1>t, <2>2, <2>3 DEF RecordTypes, records
  <2>5. QED
    BY <2>3, <2>4, RecordStep
<1>8. CASE Cancels
  <2>1. PICK t \in TokenId :
           /\ commitments' = [commitments EXCEPT ![t] = NothingCommitted] /\ emitted' = {}
           /\ UNCHANGED <<erc721, customHistories, records, announced>>
    BY <1>8 DEF Cancels, cancelSRRCommitment
  <2>2. NothingCommitted \in Commitment
    BY InputFacts DEF NothingCommitted, Commitment
  <2>3. RecordTypes'
    BY <1>t, <2>1, <2>2 DEF RecordTypes, records
  <2>4. QED
    BY <2>1, <2>3, RecordStep
<1>9. CASE Reveals
  <2>1. PICK t \in TokenId, to \in Address, reveal \in Reveal :
           transferSRRByReveal(to, reveal, t)
    BY <1>9 DEF Reveals
  <2>2. NothingCommitted \in Commitment
    BY InputFacts DEF NothingCommitted, Commitment
  <2>3. commitments' \in [TokenId -> Commitment] /\ commitments[t].customHistory \in HistoryId
    BY <1>t, <2>1, <2>2 DEF transferSRRByReveal, Commitment
  <2>4. QED
    BY <2>1, <2>3, ProvenanceStep DEF transferSRRByReveal
<1>10. CASE TransfersWithProvenance
  <2>1. PICK t \in TokenId, to \in Address, id \in HistoryId :
           TransferWithProvenance(to, t, id)
    BY <1>10 DEF TransfersWithProvenance
  <2>2. QED
    BY <1>t, <2>1, ProvenanceStep DEF TransferWithProvenance
<1>11. CASE Transfers \/ Approves \/ ApprovesForAll
  <2>1. /\ ERC721Inv'
        /\ emitted' = {} /\ UNCHANGED <<customHistories, records, commitments, announced>>
    <3>1. CASE Transfers
      BY <3>1, TransferInv DEF Transfers, transferFrom, IInv
    <3>2. CASE Approves
      BY <3>2, ApproveInv DEF Approves, approve, IInv
    <3>3. CASE ApprovesForAll
      BY <3>3, ApprovalForAllInv, InputFacts DEF ApprovesForAll, SetApprovalForAll, IInv
    <3>4. QED
      BY <1>11, <3>1, <3>2, <3>3
  <2>2. RecordTypes' /\ CustomHistoriesTypeOK'
    BY <2>1 DEF IInv, RecordTypes, records, customHistories, CustomHistoriesTypeOK
  <2>3. QED
    BY <2>1, <2>2, NothingEmitted DEF IInv
<1>12. CASE Kills
  <2>1. /\ killSwitch' \in BOOLEAN /\ emitted' = {}
        /\ UNCHANGED <<erc721, customHistories, srrs, royalties, commitments, announced>>
    BY <1>12 DEF Kills, setOpenSeaApproveAllKillSwitch
  <2>2. RecordTypes'
    BY <1>t, <2>1 DEF RecordTypes
  <2>3. QED
    BY <2>1, <2>2, RecordStep
<1>13. CASE WriteHistories
  BY <1>13, HistoriesInvariant
<1>14. CASE UNCHANGED vars
  <2>1. UNCHANGED erc721
    BY <1>14 DEF vars, erc721
  <2>2. ERC721Inv'
    BY <2>1, StillInv DEF IInv
  <2>3. QED
    BY <1>14, <2>2 DEF vars, IInv, RecordTypes, CustomHistoriesTypeOK, EmittedType
<1>15. QED
  BY Zenon, NextCases, <1>1, <1>2, <1>3, <1>4, <1>5, <1>6, <1>7, <1>8, <1>9, <1>10,
     <1>11, <1>12, <1>13, <1>14

THEOREM Invariance == Spec => []IInv
BY InitInvariant, StepInvariant, PTL DEF Spec

\* The registry's state is well-typed for ever; rates stay below 100 %, balances
\* stay natural numbers, and a call leaves one provenance event at most.
THEOREM TypeCorrect == Spec => []TypeOK
BY Invariance, InvariantTypes, PTL

\* A balance is the number of tokens owned, for any tokens and accounts.
THEOREM BalancesCountTokensHolds == Spec => []BalancesCountTokens
<1>1. IInv => BalancesCountTokens
  BY DEF IInv, ERC721Inv
<1>2. QED
  BY <1>1, Invariance, PTL

-----------------------------------------------------------------------------
(* Action properties. *)

\* What each step leaves alone.
LEMMA Frames ==
    /\ Creates => UNCHANGED customHistories
    /\ UpdatesArtist => UNCHANGED <<erc721, customHistories, royalties>>
    /\ UpdatesMetadata => UNCHANGED <<erc721, customHistories, royalties>>
    /\ UpdatesRoyalty => UNCHANGED <<erc721, customHistories, srrs>> /\ emitted' = {}
    /\ UpdatesReceivers => UNCHANGED <<erc721, customHistories, srrs>> /\ emitted' = {}
    /\ Locks => UNCHANGED <<erc721, customHistories, royalties>>
    /\ Commits => UNCHANGED <<erc721, customHistories, records>> /\ emitted' = {}
    /\ Cancels => UNCHANGED <<erc721, customHistories, records>> /\ emitted' = {}
    /\ Reveals => UNCHANGED <<customHistories, records>>
    /\ TransfersWithProvenance => UNCHANGED <<customHistories, records>>
    /\ Transfers => UNCHANGED <<customHistories, records>>
    /\ Approves => UNCHANGED <<tokenOwner, customHistories, records>> /\ emitted' = {}
    /\ ApprovesForAll => UNCHANGED <<tokenOwner, customHistories, records>> /\ emitted' = {}
    /\ Kills => UNCHANGED <<erc721, customHistories, srrs, royalties>> /\ emitted' = {}
    /\ WriteHistories => UNCHANGED <<erc721, records>> /\ emitted' = {}
<1>1. Creates => UNCHANGED customHistories
  BY DEF Creates, createSRR
<1>2. UpdatesArtist => UNCHANGED <<erc721, customHistories, royalties>>
  BY DEF UpdatesArtist, updateSRR
<1>3. UpdatesMetadata => UNCHANGED <<erc721, customHistories, royalties>>
  BY DEF UpdatesMetadata, updateSRRMetadata
<1>4. UpdatesRoyalty => UNCHANGED <<erc721, customHistories, srrs>> /\ emitted' = {}
  BY DEF UpdatesRoyalty, updateSRRRoyalty
<1>5. UpdatesReceivers => UNCHANGED <<erc721, customHistories, srrs>> /\ emitted' = {}
  BY DEF UpdatesReceivers, updateSRRRoyaltyReceiverMulti
<1>6. Locks => UNCHANGED <<erc721, customHistories, royalties>>
  BY DEF Locks, setLockExternalTransfer
<1>7. Commits => UNCHANGED <<erc721, customHistories, records>> /\ emitted' = {}
  BY DEF Commits, Commit
<1>8. Cancels => UNCHANGED <<erc721, customHistories, records>> /\ emitted' = {}
  BY DEF Cancels, cancelSRRCommitment
<1>9. Reveals => UNCHANGED <<customHistories, records>>
  BY DEF Reveals, transferSRRByReveal
<1>10. TransfersWithProvenance => UNCHANGED <<customHistories, records>>
  BY DEF TransfersWithProvenance, TransferWithProvenance
<1>11. Transfers => UNCHANGED <<customHistories, records>>
  BY DEF Transfers, transferFrom
<1>12. Approves => UNCHANGED <<tokenOwner, customHistories, records>> /\ emitted' = {}
  BY DEF Approves, approve, approveTo
<1>13. ApprovesForAll => UNCHANGED <<tokenOwner, customHistories, records>> /\ emitted' = {}
  BY DEF ApprovesForAll, SetApprovalForAll, setApprovalForAll
<1>14. Kills => UNCHANGED <<erc721, customHistories, srrs, royalties>> /\ emitted' = {}
  BY DEF Kills, setOpenSeaApproveAllKillSwitch
<1>15. WriteHistories => UNCHANGED <<erc721, records>> /\ emitted' = {}
  BY DEF WriteHistories
<1>16. QED
  BY Zenon, <1>1, <1>2, <1>3, <1>4, <1>5, <1>6, <1>7, <1>8, <1>9, <1>10, <1>11, <1>12,
     <1>13, <1>14, <1>15

\* The steps by which tokens change hands, and all others.
LEMMA WhoMoves ==
    ASSUME [Next]_vars
    PROVE  \/ Creates
           \/ \E t \in TokenId, to \in Address : transfer(tokenOwner[t], to, t)
           \/ UNCHANGED tokenOwner
<1>1. CASE UNCHANGED vars
  BY <1>1 DEF vars
<1>2. CASE Reveals
  BY <1>2 DEF Reveals, transferSRRByReveal
<1>3. CASE TransfersWithProvenance
  BY <1>3 DEF TransfersWithProvenance, TransferWithProvenance
<1>4. CASE Transfers
  <2>1. PICK from \in Account, to \in Address, t \in TokenId : transfer(from, to, t)
    BY <1>4 DEF Transfers, transferFrom
  <2>2. from = tokenOwner[t]
    BY <2>1 DEF transfer, ownerIs
  <2>3. QED
    BY <2>1, <2>2
<1>5. CASE Approves
  BY <1>5 DEF Approves, approve, approveTo
<1>6. CASE ApprovesForAll
  BY <1>6 DEF ApprovesForAll, SetApprovalForAll, setApprovalForAll
<1>7. CASE \/ UpdatesArtist \/ UpdatesMetadata \/ UpdatesRoyalty \/ UpdatesReceivers
           \/ Locks \/ Commits \/ Cancels \/ Kills \/ WriteHistories
  <2>1. UNCHANGED erc721
    BY Zenon, <1>7, Frames
  <2>2. QED
    BY <2>1 DEF erc721
<1>8. QED
  BY Zenon, NextCases, <1>1, <1>2, <1>3, <1>4, <1>5, <1>6, <1>7

\* An approval for one token does not outlive the ownership it was given under.
THEOREM ApprovalEndsWithOwnershipHolds == Spec => ApprovalEndsWithOwnership
<1> DEFINE A == \A t \in TokenId : tokenOwner'[t] # tokenOwner[t] => tokenApprovals'[t] = ZERO
<1>1. ASSUME IInv, [Next]_vars
      PROVE  A
  <2>1. /\ tokenOwner \in [TokenId -> Address] /\ tokenApprovals \in [TokenId -> Address]
        /\ Unapproved
    BY <1>1 DEF IInv, ERC721Inv, ERC721TypeOK
  <2>2. CASE Creates
    <3>1. PICK t, issuer, to : mint(issuer, t) \/ mintAndTransfer(issuer, to, t)
      BY <2>2 DEF Creates, createSRR
    <3>2. CASE mint(issuer, t)
      BY <2>1, <3>2 DEF mint, Unapproved
    <3>3. CASE mintAndTransfer(issuer, to, t)
      BY <2>1, <3>3 DEF mintAndTransfer
    <3>4. QED
      BY <3>1, <3>2, <3>3
  <2>3. CASE \E t \in TokenId, to \in Address : transfer(tokenOwner[t], to, t)
    BY <2>1, <2>3 DEF transfer
  <2>4. QED
    BY <1>1, <2>2, <2>3, WhoMoves
<1>2. IInv /\ [Next]_vars => [A]_vars
  BY <1>1
<1>3. QED
  BY <1>2, Invariance, PTL DEF Spec, ApprovalEndsWithOwnership

\* A record has a royalty if and only if it was created with one.
THEOREM RoyaltyOnlyFromCreationHolds == Spec => RoyaltyOnlyFromCreation
<1> DEFINE A == \A t \in TokenId : exists(t) =>
                  (royalties[t].receiver = ZERO <=> royalties'[t].receiver = ZERO)
<1>1. ASSUME IInv, [Next]_vars
      PROVE  A
  <2>1. royalties \in [TokenId -> RoyaltyInfo]
    BY <1>1 DEF IInv, RecordTypes
  <2>2. CASE Creates
    <3>1. PICK issuer, cid, artist, lock, to, receiver, basisPoints :
             createSRR(issuer, cid, artist, lock, to, receiver, basisPoints)
      BY <2>2 DEF Creates
    <3> DEFINE t == generate[<<cid, artist>>]
    <3>2. ~exists(t)
      BY <3>1 DEF createSRR, mint, mintAndTransfer
    <3>3. \/ royalties' = royalties
          \/ royalties' = [royalties EXCEPT ![t] = [receiver |-> receiver,
                                                    basisPoints |-> basisPoints]]
      BY <3>1 DEF createSRR
    <3> HIDE DEF t
    <3>4. QED
      BY <2>1, <3>2, <3>3
  <2>3. CASE UpdatesRoyalty
    <3>1. PICK t, receiver, basisPoints :
             \/ royalties' = royalties
             \/ /\ royalties[t].receiver # ZERO /\ receiver # ZERO
                /\ royalties' = [royalties EXCEPT ![t] = [receiver |-> receiver,
                                                          basisPoints |-> basisPoints]]
      BY <2>3 DEF UpdatesRoyalty, updateSRRRoyalty, RoyaltyAllowed
    <3>2. QED
      BY <2>1, <3>1
  <2>4. CASE UpdatesReceivers
    <3>1. PICK tokens \in SUBSET TokenId, receiver \in Receiver \union {ZERO} :
             /\ (\E t \in tokens : royalties[t].receiver # ZERO) => receiver # ZERO
             /\ royalties' = [t \in TokenId |->
                   IF t \in tokens /\ royalties[t].receiver # ZERO
                   THEN WithReceiver(royalties[t], receiver)
                   ELSE royalties[t]]
      BY <2>4 DEF UpdatesReceivers, updateSRRRoyaltyReceiverMulti
    <3>2. ASSUME NEW t \in TokenId
          PROVE  \/ royalties'[t].receiver = royalties[t].receiver
                 \/ royalties[t].receiver # ZERO /\ royalties'[t].receiver = receiver
                       /\ receiver # ZERO
      <4>1. CASE t \in tokens /\ royalties[t].receiver # ZERO
        <5>1. royalties'[t] = WithReceiver(royalties[t], receiver)
          BY <3>1, <4>1
        <5>2. receiver # ZERO
          BY <3>1, <4>1
        <5>3. royalties'[t].receiver = receiver
          BY <5>1 DEF WithReceiver
        <5>4. QED
          BY <4>1, <5>2, <5>3
      <4>2. CASE ~(t \in tokens /\ royalties[t].receiver # ZERO)
        BY <3>1, <4>2
      <4>3. QED
        BY <4>1, <4>2
    <3>3. QED
      BY <3>2
  <2>5. CASE UNCHANGED vars \/ UpdatesArtist \/ UpdatesMetadata \/ Locks \/ Commits \/ Cancels
             \/ Reveals \/ TransfersWithProvenance \/ Transfers \/ Approves
             \/ ApprovesForAll \/ Kills \/ WriteHistories
    <3>1. UNCHANGED vars \/ UNCHANGED records \/ UNCHANGED royalties
      BY Zenon, <2>5, Frames
    <3>2. UNCHANGED royalties
      BY <3>1 DEF vars, records
    <3>3. QED
      BY <3>2
  <2>6. QED
    BY Zenon, <1>1, NextCases, <2>2, <2>3, <2>4, <2>5
<1>2. IInv /\ [Next]_vars => [A]_vars
  BY <1>1
<1>3. QED
  BY <1>2, Invariance, PTL DEF Spec, RoyaltyOnlyFromCreation

\* A custom history that exists, exists for good.
THEOREM HistoriesStayHolds == Spec => HistoriesStay
<1> DEFINE A == \A id \in HistoryId : customHistoryIdExists(id) => customHistoryIdExists(id)'
<1>1. ASSUME IInv, [Next]_vars
      PROVE  A
  <2>1. historyNames \in Seq(NameOrEmpty)
    BY <1>1 DEF IInv, CustomHistoriesTypeOK
  <2>2. CASE UNCHANGED historyNames
    BY <2>2 DEF customHistoryIdExists, getCustomHistoryNameById
  <2>3. CASE WriteHistories
    <3>1. ASSUME NEW name, NEW type, writeCustomHistory(name, type)
          PROVE  A
      <4>1. historyNames' = Append(historyNames, name)
        BY <3>1 DEF writeCustomHistory
      <4>2. \A id \in 1..Len(historyNames) : /\ id \in 1..Len(historyNames')
                                             /\ historyNames'[id] = historyNames[id]
        BY <2>1, <4>1
      <4>3. DOMAIN historyNames = 1..Len(historyNames)
            /\ DOMAIN historyNames' = 1..Len(historyNames')
        BY <2>1, <4>1
      <4>4. QED
        BY <4>2, <4>3 DEF customHistoryIdExists, getCustomHistoryNameById
    <3>2. ASSUME NEW name, NEW id, updateCustomHistory(id, name)
          PROVE  A
      BY <2>1, <3>2 DEF updateCustomHistory, customHistoryIdExists, getCustomHistoryNameById
    <3>3. ASSUME NEW name, addCustomHistoryType(name)
          PROVE  UNCHANGED historyNames
      BY <3>3 DEF addCustomHistoryType
    <3>4. QED
      BY <2>2, <2>3, <3>1, <3>2, <3>3 DEF WriteHistories
  <2>4. CASE UNCHANGED vars \/ Creates \/ UpdatesArtist \/ UpdatesMetadata \/ UpdatesRoyalty
             \/ UpdatesReceivers \/ Locks \/ Commits \/ Cancels \/ Reveals
             \/ TransfersWithProvenance \/ Transfers \/ Approves \/ ApprovesForAll \/ Kills
    <3>1. UNCHANGED vars \/ UNCHANGED customHistories
      BY Zenon, <2>4, Frames
    <3>2. UNCHANGED historyNames
      BY <3>1 DEF vars, customHistories
    <3>3. QED
      BY <2>2, <3>2
  <2>5. QED
    BY Zenon, <1>1, NextCases, <2>3, <2>4
<1>2. IInv /\ [Next]_vars => [A]_vars
  BY <1>1
<1>3. QED
  BY <1>2, Invariance, PTL DEF Spec, HistoriesStay

-----------------------------------------------------------------------------
(* The registry implements SRRTitle. *)

LEMMA InitTitle ==
    ASSUME Init
    PROVE  Title!Init
BY DEF Init, ERC721Init, NoSRR, Title!Init

\* What SRRTitle sees of the records and of the events.
IssuerOf(rs) == [t \in TokenId |-> rs[t].issuer]
LockOf(rs) == [t \in TokenId |-> rs[t].locked]
EntryOf(es) == {[token |-> e.token, from |-> e.from, to |-> e.to] : e \in es}

\* A transfer with its Provenance event is recorded.
LEMMA RecordsTitle ==
    ASSUME IInv, NEW t \in TokenId, NEW to \in Address, NEW id,
           transfer(tokenOwner[t], to, t), emitted' = {ProvenanceOf(t, to, id)}, UNCHANGED srrs
    PROVE  Title!Next
<1>1. to \in Account /\ tokenOwner[t] # ZERO
  BY DEF transfer, ownerIs, exists, Address
<1>2. EntryOf(emitted') = {[token |-> t, from |-> tokenOwner[t], to |-> to]}
  BY DEF EntryOf, ProvenanceOf
<1>3. Title!Record(t, to)
  BY <1>1, <1>2 DEF Title!Record, transfer, EntryOf
<1>4. QED
  BY <1>1, <1>3 DEF Title!Next

LEMMA CreatesTitle ==
    ASSUME IInv, Creates
    PROVE  Title!Next
<1>1. PICK issuer \in Issuer, cid \in MetadataCID, artist \in Artist, lock \in BOOLEAN,
           to \in Address, receiver \in Receiver \union {ZERO}, basisPoints \in BasisPoints :
        createSRR(issuer, cid, artist, lock, to, receiver, basisPoints)
  BY DEF Creates
<1> DEFINE t == generate[<<cid, artist>>]
           first == IF to = ZERO THEN issuer ELSE to
<1>2. t \in TokenId /\ issuer \in Account /\ first \in Account
  BY InputFacts DEF Address
<1>3. tokenOwner[t] = ZERO /\ tokenOwner' = [tokenOwner EXCEPT ![t] = first]
  BY <1>1 DEF createSRR, mint, mintAndTransfer, exists
<1>4. /\ srrs' = [srrs EXCEPT ![t] = [issuer |-> issuer, artist |-> artist,
                                      metadata |-> cid, locked |-> lock]]
      /\ emitted' = {}
  BY <1>1 DEF createSRR
<1>5. srrs \in [TokenId -> SRR]
  BY DEF IInv, RecordTypes
<1> HIDE DEF t, first
<1>6. /\ IssuerOf(srrs') = [IssuerOf(srrs) EXCEPT ![t] = issuer]
      /\ LockOf(srrs') = [LockOf(srrs) EXCEPT ![t] = lock]
  BY <1>2, <1>4, <1>5 DEF IssuerOf, LockOf
<1>7. EntryOf(emitted') = {}
  BY <1>4 DEF EntryOf
<1>8. Title!Issue(t, issuer, first, lock)
  BY <1>3, <1>6, <1>7 DEF Title!Issue, IssuerOf, LockOf, EntryOf
<1>9. QED
  BY <1>2, <1>8 DEF Title!Next

\* Steps that SRRTitle does not see.
LEMMA OtherwiseTitle ==
    ASSUME UNCHANGED tokenOwner, emitted' = {},
           IssuerOf(srrs') = IssuerOf(srrs), LockOf(srrs') = LockOf(srrs)
    PROVE  Title!Next
<1>1. EntryOf(emitted') = {}
  BY DEF EntryOf
<1>2. Title!Otherwise
  BY <1>1 DEF Title!Otherwise, IssuerOf, LockOf, EntryOf
<1>3. QED
  BY <1>2 DEF Title!Next

LEMMA StepTitle ==
    ASSUME IInv, [Next]_vars
    PROVE  [Title!Next]_Title!title
<1>t. srrs \in [TokenId -> SRR] /\ tokenOwner \in [TokenId -> Address]
  BY DEF IInv, RecordTypes, ERC721Inv, ERC721TypeOK
<1>1. CASE Creates
  BY <1>1, CreatesTitle
<1>2. CASE Reveals
  BY <1>2, RecordsTitle DEF Reveals, transferSRRByReveal, records
<1>3. CASE TransfersWithProvenance
  BY <1>3, RecordsTitle DEF TransfersWithProvenance, TransferWithProvenance, records
<1>4. CASE Transfers
  <2>1. PICK to \in Address, t \in TokenId :
           /\ ~srrs[t].locked /\ tokenOwner[t] # ZERO /\ to # ZERO
           /\ tokenOwner' = [tokenOwner EXCEPT ![t] = to]
           /\ emitted' = {} /\ UNCHANGED srrs
    BY <1>4 DEF Transfers, transferFrom, transfer, ownerIs, exists, externalTransferNotLocked,
                records
  <2>2. EntryOf(emitted') = {}
    BY <2>1 DEF EntryOf
  <2>3. Title!Trade(t, to)
    BY <2>1, <2>2 DEF Title!Trade, EntryOf
  <2>4. to \in Account
    BY <2>1 DEF Address
  <2>5. QED
    BY <2>3, <2>4 DEF Title!Next
<1>5. CASE Locks
  <2>1. PICK t \in TokenId, lock \in BOOLEAN :
           /\ tokenOwner[t] # ZERO /\ UNCHANGED tokenOwner /\ emitted' = {}
           /\ srrs' = [srrs EXCEPT ![t].locked = lock]
    BY <1>5 DEF Locks, setLockExternalTransfer, exists, erc721
  <2>2. /\ IssuerOf(srrs') = IssuerOf(srrs)
        /\ LockOf(srrs') = [LockOf(srrs) EXCEPT ![t] = lock]
    BY <1>t, <2>1 DEF IssuerOf, LockOf, SRR
  <2>3. EntryOf(emitted') = {}
    BY <2>1 DEF EntryOf
  <2>4. Title!Lock(t, lock)
    BY <2>1, <2>2, <2>3 DEF Title!Lock, IssuerOf, LockOf, EntryOf
  <2>5. QED
    BY <2>4 DEF Title!Next
<1>6. CASE UpdatesArtist \/ UpdatesMetadata
  <2>1. /\ UNCHANGED tokenOwner /\ emitted' = {}
        /\ \E t, x : \/ srrs' = [srrs EXCEPT ![t].artist = x]
                     \/ srrs' = [srrs EXCEPT ![t].metadata = x]
    BY <1>6 DEF UpdatesArtist, updateSRR, UpdatesMetadata, updateSRRMetadata, erc721
  <2>2. /\ IssuerOf(srrs') = IssuerOf(srrs)
        /\ LockOf(srrs') = LockOf(srrs)
    BY <1>t, <2>1 DEF IssuerOf, LockOf, SRR
  <2>3. QED
    BY <2>1, <2>2, OtherwiseTitle
<1>7. CASE UpdatesRoyalty \/ UpdatesReceivers \/ Commits \/ Cancels \/ Approves
           \/ ApprovesForAll \/ Kills \/ WriteHistories
  <2>1. \/ UNCHANGED <<erc721, customHistories, srrs>> /\ emitted' = {}
        \/ UNCHANGED <<erc721, customHistories, records>> /\ emitted' = {}
        \/ UNCHANGED <<tokenOwner, customHistories, records>> /\ emitted' = {}
        \/ UNCHANGED <<erc721, customHistories, srrs, royalties>> /\ emitted' = {}
        \/ UNCHANGED <<erc721, records>> /\ emitted' = {}
    BY Zenon, <1>7, Frames
  <2>2. UNCHANGED <<tokenOwner, srrs>> /\ emitted' = {}
    BY <2>1 DEF erc721, records
  <2>3. QED
    BY <2>2, OtherwiseTitle
<1>8. CASE UNCHANGED vars
  BY <1>8 DEF vars, Title!title
<1>9. QED
  BY Zenon, NextCases, <1>1, <1>2, <1>3, <1>4, <1>5, <1>6, <1>7, <1>8

\* The registry implements SRRTitle: an issued record has an owner and one
\* issuer for good, a locked one does not move without provenance, and a
\* provenance event names the true former and new owner.
THEOREM KeepsTitleHolds == Spec => KeepsTitle
<1>1. Init => Title!Init
  BY InitTitle
<1>2. IInv /\ [Next]_vars => [Title!Next]_Title!title
  BY StepTitle
<1>3. QED
  BY <1>1, <1>2, Invariance, PTL DEF Spec, KeepsTitle, Title!Spec

-----------------------------------------------------------------------------
(* The index. *)

SRRField == {"ownerAddress", "artistAddress", "artist", "issuer", "metadataDigest",
             "transferCommitment", "lockExternalTransfer", "royaltyReceiver",
             "royaltyBasisPoints", "collection", "originChain", "createdAt"}

IsSRR(srr) == DOMAIN srr = SRRField /\ srr.createdAt \in Nat

CommitField == {"commitment", "lastAction", "customHistory", "sender"}

\* A database that the handlers can go on with.
DbOK(d) ==
    /\ DOMAIN d = Index!Tables \union {"stopped"} /\ d["stopped"] = FALSE
    /\ DOMAIN d["LicensedUserWallet"] = LicensedUser
    /\ \A id \in DOMAIN d["SRR"] : IsSRR(d["SRR"][id])
    /\ \A id \in DOMAIN d["SRRTransferCommit"] :
          /\ DOMAIN d["SRRTransferCommit"][id] = CommitField
          /\ id \in DOMAIN d["SRR"]
          /\ d["SRRTransferCommit"][id].commitment = d["SRR"][id].transferCommitment

KeepsProvenance(d, later) ==
    \A id \in DOMAIN d["SRRProvenance"] :
        /\ id \in DOMAIN later["SRRProvenance"]
        /\ later["SRRProvenance"][id] = d["SRRProvenance"][id]

\* No record is touched.
Spares(d, later) ==
    DbOK(later) /\ later["SRR"] = d["SRR"] /\ KeepsProvenance(d, later)

\* No record but id is touched, and of id these fields only.
Alters(d, later, id, fields) ==
    /\ DbOK(later) /\ KeepsProvenance(d, later)
    /\ DOMAIN later["SRR"] = DOMAIN d["SRR"] \union {id}
    /\ \A other \in DOMAIN d["SRR"] : other # id => later["SRR"][other] = d["SRR"][other]
    /\ \A f \in SRRField \ fields : later["SRR"][id][f] = d["SRR"][id][f]

Shows(d, id, field, value) == d["SRR"][id][field] = value

-----------------------------------------------------------------------------
(* Saving. *)

Saved(d, type, id, entity, later) ==
    /\ DOMAIN later = DOMAIN d
    /\ \A table \in DOMAIN d : table # type => later[table] = d[table]
    /\ DOMAIN later[type] = DOMAIN d[type] \union {id}
    /\ later[type][id] = entity
    /\ \A other \in DOMAIN d[type] : other # id => later[type][other] = d[type][other]

LEMMA SaveSaves ==
    ASSUME NEW d, NEW type \in DOMAIN d, NEW id, NEW entity
    PROVE  Saved(d, type, id, entity, Index!Save(d, type, id, entity))
BY DEF Saved, Index!Save

LEMMA TablesOfDb ==
    ASSUME NEW d, DbOK(d)
    PROVE  \A table \in {"SRR", "SRRProvenance", "SRRTransferCommit", "SRRMetadataHistory",
                         "SRRHistory", "CustomHistory", "CustomHistoryMetadataHistory",
                         "CustomHistoryType", "LicensedUserWallet", "stopped"} :
              table \in DOMAIN d
BY DEF DbOK, Index!Tables, Index!LUW

\* A record that has the time of its creation is saved.
LEMMA UpdateSRRSaves ==
    ASSUME NEW d, DbOK(d), NEW id, NEW srr, IsSRR(srr)
    PROVE  /\ Saved(d, "SRR", id, srr, Index!SaveSRR(d, id, srr))
           /\ id \in DOMAIN d["SRR"] => Saved(d, "SRR", id, srr, Index!UpdateSRR(d, id, srr))
<1>1. srr.createdAt # Null
  BY NullAssumption DEF IsSRR
<1>2. Index!SaveSRR(d, id, srr) = Index!Save(d, "SRR", id, srr)
  BY <1>1 DEF Index!SaveSRR
<1>3. id \in DOMAIN d["SRR"] => Index!UpdateSRR(d, id, srr) = Index!Save(d, "SRR", id, srr)
  BY <1>2 DEF Index!UpdateSRR, Index!IfKnown, Index!Has
<1>4. QED
  BY <1>2, <1>3, SaveSaves, TablesOfDb

\* An entity of a table that no record depends on.
LEMMA SaveBeside ==
    ASSUME NEW d, DbOK(d), NEW id, NEW entity, NEW later,
           NEW type \in {"SRRMetadataHistory", "SRRHistory", "CustomHistory",
                         "CustomHistoryMetadataHistory", "CustomHistoryType"},
           Saved(d, type, id, entity, later)
    PROVE  Spares(d, later)
<1>1. \A table \in {"SRR", "SRRProvenance", "SRRTransferCommit", "LicensedUserWallet", "stopped"} :
         later[table] = d[table]
  BY TablesOfDb DEF Saved
<1>2. DbOK(later)
  BY <1>1 DEF DbOK, Saved
<1>3. QED
  BY <1>1, <1>2 DEF Spares, KeepsProvenance

\* A record is saved, with the commitment that it had.
LEMMA SaveRecord ==
    ASSUME NEW d, DbOK(d), NEW id \in DOMAIN d["SRR"], NEW srr, IsSRR(srr), NEW later, NEW fields,
           "transferCommitment" \notin fields,
           \A f \in SRRField \ fields : srr[f] = d["SRR"][id][f],
           Saved(d, "SRR", id, srr, later)
    PROVE  Alters(d, later, id, fields) /\ later["SRR"][id] = srr
<1>1. \A table \in {"SRRProvenance", "SRRTransferCommit", "LicensedUserWallet", "stopped"} :
         later[table] = d[table]
  BY TablesOfDb DEF Saved
<1>2. later["SRR"][id] = srr /\ DOMAIN later["SRR"] = DOMAIN d["SRR"] \union {id}
  BY DEF Saved
<1>3. \A other \in DOMAIN d["SRR"] : other # id => later["SRR"][other] = d["SRR"][other]
  BY DEF Saved
<1>4. srr.transferCommitment = d["SRR"][id].transferCommitment
  BY DEF SRRField
<1>5. DbOK(later)
  <2>1. DOMAIN later = DOMAIN d
    BY DEF Saved
  <2>2. \A i \in DOMAIN later["SRR"] : IsSRR(later["SRR"][i])
    BY <1>2, <1>3 DEF DbOK
  <2>3. \A i \in DOMAIN d["SRRTransferCommit"] :
           i \in DOMAIN later["SRR"] /\ later["SRR"][i].transferCommitment = d["SRR"][i].transferCommitment
    BY <1>2, <1>3, <1>4 DEF DbOK
  <2>4. QED
    BY <1>1, <2>1, <2>2, <2>3 DEF DbOK
<1>6. KeepsProvenance(d, later)
  BY <1>1 DEF KeepsProvenance
<1>7. QED
  BY <1>2, <1>3, <1>5, <1>6 DEF Alters

LEMMA AltersTwice ==
    ASSUME NEW d, NEW e, NEW later, NEW id \in DOMAIN d["SRR"], NEW fields, NEW more, NEW all,
           fields \union more \subseteq all,
           Alters(d, e, id, fields), Alters(e, later, id, more)
    PROVE  Alters(d, later, id, all)
<1>1. KeepsProvenance(d, later)
  BY DEF Alters, KeepsProvenance
<1>2. /\ DOMAIN later["SRR"] = DOMAIN d["SRR"]
      /\ \A other \in DOMAIN d["SRR"] : other # id => later["SRR"][other] = d["SRR"][other]
  BY DEF Alters
<1>3. \A f \in SRRField \ all : later["SRR"][id][f] = d["SRR"][id][f]
  BY DEF Alters
<1>4. QED
  BY <1>1, <1>2, <1>3 DEF Alters

LEMMA AltersThenSpares ==
    ASSUME NEW d, NEW e, NEW later, NEW id, NEW fields, Alters(d, e, id, fields), Spares(e, later)
    PROVE  Alters(d, later, id, fields) /\ later["SRR"][id] = e["SRR"][id]
BY DEF Alters, Spares, KeepsProvenance

-----------------------------------------------------------------------------
(* What a handler does to the record of its event. *)

LEMMA LockHandled ==
    ASSUME NEW d, DbOK(d), NEW e, NEW id \in DOMAIN d["SRR"], id = Index!idOf(e),
           NEW later, later = Index!handleLockExternalTransfer(d, e)
    PROVE  /\ Alters(d, later, id, {"lockExternalTransfer"})
           /\ Shows(later, id, "lockExternalTransfer", e.flag)
<1> DEFINE srr == [d["SRR"][id] EXCEPT !.lockExternalTransfer = e.flag]
<1>1. IsSRR(d["SRR"][id])
  BY DEF DbOK
<1>2. /\ IsSRR(srr) /\ srr.lockExternalTransfer = e.flag
      /\ \A f \in SRRField \ {"lockExternalTransfer"} : srr[f] = d["SRR"][id][f]
  BY <1>1 DEF IsSRR, SRRField
<1>3. later = Index!UpdateSRR(d, id, srr)
  BY DEF Index!handleLockExternalTransfer
<1> HIDE DEF srr
<1>4. Saved(d, "SRR", id, srr, later)
  BY <1>2, <1>3, UpdateSRRSaves
<1>5. QED
  BY <1>2, <1>4, SaveRecord DEF Shows

LEMMA RoyaltiesHandled ==
    ASSUME NEW d, DbOK(d), NEW e, NEW id \in DOMAIN d["SRR"], id = Index!idOf(e),
           NEW later, later = Index!handleRoyaltiesSet(d, e)
    PROVE  /\ Alters(d, later, id, {"royaltyReceiver", "royaltyBasisPoints"})
           /\ Shows(later, id, "royaltyReceiver", e.receiver)
           /\ Shows(later, id, "royaltyBasisPoints", e.basisPoints)
<1> DEFINE srr == [d["SRR"][id] EXCEPT !.royaltyReceiver = e.receiver,
                                       !.royaltyBasisPoints = e.basisPoints]
<1>1. IsSRR(d["SRR"][id])
  BY DEF DbOK
<1>2. /\ IsSRR(srr) /\ srr.royaltyReceiver = e.receiver
      /\ srr.royaltyBasisPoints = e.basisPoints
      /\ \A f \in SRRField \ {"royaltyReceiver", "royaltyBasisPoints"} :
            srr[f] = d["SRR"][id][f]
  BY <1>1 DEF IsSRR, SRRField
<1>3. later = Index!UpdateSRR(d, id, srr)
  BY DEF Index!handleRoyaltiesSet
<1> HIDE DEF srr
<1>4. Saved(d, "SRR", id, srr, later)
  BY <1>2, <1>3, UpdateSRRSaves
<1>5. QED
  BY <1>2, <1>4, SaveRecord DEF Shows

\* An update to an artist without a wallet is dropped.
LEMMA ArtistHandled ==
    ASSUME NEW d, DbOK(d), NEW e, NEW id \in DOMAIN d["SRR"], id = Index!idOf(e),
           NEW later, later = Index!handleUpdateSRR(d, e)
    PROVE  /\ Alters(d, later, id, {"artistAddress", "artist"})
           /\ e.artist \in LicensedUser => Shows(later, id, "artist", e.artist)
<1> DEFINE srr == [d["SRR"][id] EXCEPT !.artistAddress = e.artist, !.artist = e.artist]
<1>1. IsSRR(d["SRR"][id]) /\ DOMAIN d["LicensedUserWallet"] = LicensedUser
  BY DEF DbOK
<1>2. /\ IsSRR(srr) /\ srr.artist = e.artist
      /\ \A f \in SRRField \ {"artistAddress", "artist"} : srr[f] = d["SRR"][id][f]
  BY <1>1 DEF IsSRR, SRRField
<1>3. CASE e.artist \in LicensedUser
  <2>1. e.artist # Null
    BY <1>3, NullAssumption
  <2>2. Index!getLicensedUserIdFromAddress(d, e.artist) = e.artist
    BY <1>1, <1>3 DEF Index!getLicensedUserIdFromAddress, Index!Has, Index!LUW
  <2>3. later = Index!UpdateSRR(d, id, srr)
    BY <2>1, <2>2 DEF Index!handleUpdateSRR, Index!handleUpdateSRRInternal, Index!IfKnown, Index!Has
  <2> HIDE DEF srr
  <2>4. Saved(d, "SRR", id, srr, later)
    BY <1>2, <2>3, UpdateSRRSaves
  <2>5. QED
    BY <1>2, <2>4, SaveRecord DEF Shows
<1>4. CASE e.artist \notin LicensedUser
  <2>1. Index!getLicensedUserIdFromAddress(d, e.artist) = Null
    BY <1>1, <1>4 DEF Index!getLicensedUserIdFromAddress, Index!Has, Index!LUW
  <2>2. later = d
    BY <2>1 DEF Index!handleUpdateSRR, Index!handleUpdateSRRInternal, Index!IfKnown, Index!Has
  <2>3. QED
    BY <1>4, <2>2 DEF Alters, KeepsProvenance
<1>5. QED
  BY <1>3, <1>4

LEMMA MetadataHistorySpares ==
    ASSUME NEW d, DbOK(d), NEW id, NEW digest
    PROVE  Spares(d, Index!saveSRRMetadataHistory(d, id, digest))
<1> DEFINE later == Index!saveSRRMetadataHistory(d, id, digest)
           entity == [srr |-> id, metadataDigest |-> digest]
           place == <<id, digest>>
<1>1. Saved(d, "SRRMetadataHistory", place, entity, later)
  BY SaveSaves, TablesOfDb DEF Index!saveSRRMetadataHistory
<1> HIDE DEF later, entity, place
<1>2. Spares(d, later)
  BY <1>1, SaveBeside
<1>3. QED
  BY <1>2 DEF later

LEMMA MetadataHandled ==
    ASSUME NEW d, DbOK(d), NEW e, NEW id \in DOMAIN d["SRR"], id = Index!idOf(e),
           NEW later, later = Index!handleUpdateSRRMetadata(d, e)
    PROVE  /\ Alters(d, later, id, {"metadataDigest"})
           /\ Shows(later, id, "metadataDigest", e.metadataDigest)
<1> DEFINE srr == [d["SRR"][id] EXCEPT !.metadataDigest = e.metadataDigest]
           m == Index!UpdateSRR(d, id, srr)
<1>1. IsSRR(d["SRR"][id])
  BY DEF DbOK
<1>2. /\ IsSRR(srr) /\ srr.metadataDigest = e.metadataDigest
      /\ \A f \in SRRField \ {"metadataDigest"} : srr[f] = d["SRR"][id][f]
  BY <1>1 DEF IsSRR, SRRField
<1>3. later = Index!saveSRRMetadataHistory(m, id, e.metadataDigest)
  BY DEF Index!handleUpdateSRRMetadata, Index!handleUpdateSRRMetadataHashInternal,
         Index!IfKnown, Index!Has
<1> HIDE DEF srr
<1>4. Saved(d, "SRR", id, srr, m)
  BY <1>2, UpdateSRRSaves
<1> HIDE DEF m
<1>5. Alters(d, m, id, {"metadataDigest"}) /\ m["SRR"][id] = srr
  BY <1>2, <1>4, SaveRecord
<1>6. Spares(m, later)
  BY <1>3, <1>5, MetadataHistorySpares DEF Alters
<1>7. QED
  BY <1>2, <1>5, <1>6, AltersThenSpares DEF Shows

\* The record that CreateSRR completes has just been minted.
LEMMA CreateHandled ==
    ASSUME NEW d, DbOK(d), NEW e, NEW id \in DOMAIN d["SRR"], id = Index!idOf(e),
           NEW later, later = Index!handleCreateSRRWithCID(d, e)
    PROVE  /\ Alters(d, later, id, {"metadataDigest", "lockExternalTransfer", "artistAddress",
                                    "artist", "issuer"})
           /\ Shows(later, id, "metadataDigest", e.metadataDigest)
           /\ Shows(later, id, "lockExternalTransfer", e.lock)
           /\ e.artist \in LicensedUser => Shows(later, id, "artist", e.artist)
           /\ e.issuer \in LicensedUser => Shows(later, id, "issuer", e.issuer)
<1> DEFINE artist == Index!getLicensedUserIdFromAddress(d, e.artist)
           issuer == Index!getLicensedUserIdFromAddress(d, e.issuer)
           srr == [d["SRR"][id] EXCEPT
                     !.metadataDigest = e.metadataDigest, !.lockExternalTransfer = e.lock,
                     !.artistAddress = e.artist, !.artist = artist, !.issuer = issuer]
           m == Index!SaveSRR(d, id, srr)
<1>1. IsSRR(d["SRR"][id]) /\ DOMAIN d["LicensedUserWallet"] = LicensedUser
  BY DEF DbOK
<1>2. /\ e.artist \in LicensedUser => artist = e.artist
      /\ e.issuer \in LicensedUser => issuer = e.issuer
  BY <1>1 DEF Index!getLicensedUserIdFromAddress, Index!Has, Index!LUW
<1>3. later = Index!saveSRRMetadataHistory(m, id, e.metadataDigest)
  BY DEF Index!handleCreateSRRWithCID, Index!saveCreateSRRInternal, Index!Has
<1> HIDE DEF artist, issuer
<1>4. /\ IsSRR(srr) /\ srr.metadataDigest = e.metadataDigest
      /\ srr.lockExternalTransfer = e.lock /\ srr.artist = artist /\ srr.issuer = issuer
      /\ \A f \in SRRField \ {"metadataDigest", "lockExternalTransfer", "artistAddress",
                              "artist", "issuer"} : srr[f] = d["SRR"][id][f]
  BY <1>1 DEF IsSRR, SRRField
<1> HIDE DEF srr
<1>5. Saved(d, "SRR", id, srr, m)
  BY <1>4, UpdateSRRSaves
<1> HIDE DEF m
<1> DEFINE fields == {"metadataDigest", "lockExternalTransfer", "artistAddress", "artist", "issuer"}
<1>6. Alters(d, m, id, fields) /\ m["SRR"][id] = srr
  <2>1. "transferCommitment" \notin fields /\ \A f \in SRRField \ fields : srr[f] = d["SRR"][id][f]
    BY <1>4
  <2> HIDE DEF fields
  <2>2. QED
    BY <1>4, <1>5, <2>1, SaveRecord
<1>7. Spares(m, later)
  BY <1>3, <1>6, MetadataHistorySpares DEF Alters
<1> HIDE DEF fields
<1>8. Alters(d, later, id, fields) /\ later["SRR"][id] = srr
  BY <1>6, <1>7, AltersThenSpares
<1>9. QED
  BY <1>2, <1>4, <1>8 DEF fields, Shows

-----------------------------------------------------------------------------
(* Ownership. *)

\* A provenance of id is made only where there is none.
LEMMA SaveProvenance ==
    ASSUME NEW d, DbOK(d), NEW id, id \notin DOMAIN d["SRRProvenance"], NEW entity,
           NEW later, Saved(d, "SRRProvenance", id, entity, later)
    PROVE  /\ Spares(d, later) /\ later["SRRProvenance"][id] = entity
           /\ DOMAIN later["SRRProvenance"] = DOMAIN d["SRRProvenance"] \union {id}
<1>1. \A table \in {"SRR", "SRRTransferCommit", "LicensedUserWallet", "stopped"} :
         later[table] = d[table]
  BY TablesOfDb DEF Saved
<1>2. DbOK(later)
  BY <1>1 DEF DbOK, Saved
<1>3. /\ KeepsProvenance(d, later) /\ later["SRRProvenance"][id] = entity
      /\ DOMAIN later["SRRProvenance"] = DOMAIN d["SRRProvenance"] \union {id}
  BY DEF Saved, KeepsProvenance
<1>4. QED
  BY <1>1, <1>2, <1>3 DEF Spares

\* What is recorded new has this custom history.
Records(d, later, customHistory) ==
    \A place \in DOMAIN later["SRRProvenance"] \ DOMAIN d["SRRProvenance"] :
        later["SRRProvenance"][place].customHistory = customHistory

LEMMA ProvenanceInternal ==
    ASSUME NEW d, DbOK(d), NEW id \in DOMAIN d["SRR"], NEW millis, NEW from, NEW to,
           NEW customHistory, NEW digest, NEW sender, NEW later,
           later = Index!handleSRRProvenanceInternal(d, id, millis, from, to, customHistory,
                                                     digest, sender)
    PROVE  /\ Alters(d, later, id, {"ownerAddress"})
           /\ Shows(later, id, "ownerAddress", to)
           /\ Records(d, later, customHistory)
<1> DEFINE srr == [d["SRR"][id] EXCEPT !.ownerAddress = to]
           owned == Index!UpdateSRR(d, id, srr)
           place == <<id, millis>>
           entity == [srr |-> id, from |-> from, to |-> to, sender |-> sender,
                      customHistory |-> customHistory, metadataDigest |-> digest,
                      timestamp |-> millis]
<1>1. IsSRR(d["SRR"][id])
  BY DEF DbOK
<1>2. /\ IsSRR(srr) /\ srr.ownerAddress = to
      /\ \A f \in SRRField \ {"ownerAddress"} : srr[f] = d["SRR"][id][f]
  BY <1>1 DEF IsSRR, SRRField
<1>3. later = IF place \in DOMAIN d["SRRProvenance"] THEN owned
              ELSE Index!Save(owned, "SRRProvenance", place, entity)
  BY DEF Index!handleSRRProvenanceInternal, Index!IfKnown, Index!Has
<1>e. entity.customHistory = customHistory
  OBVIOUS
<1> HIDE DEF srr, entity
<1>4. Saved(d, "SRR", id, srr, owned)
  BY <1>2, UpdateSRRSaves
<1> HIDE DEF owned
<1>5. Alters(d, owned, id, {"ownerAddress"}) /\ owned["SRR"][id] = srr
  BY <1>2, <1>4, SaveRecord
<1>6. owned["SRRProvenance"] = d["SRRProvenance"] /\ "SRRProvenance" \in DOMAIN owned
  BY <1>4, TablesOfDb DEF Saved
<1>7. CASE place \in DOMAIN d["SRRProvenance"]
  BY <1>2, <1>3, <1>5, <1>6, <1>7 DEF Records, Shows
<1>8. CASE place \notin DOMAIN d["SRRProvenance"]
  <2> HIDE DEF place
  <2>1. Saved(owned, "SRRProvenance", place, entity, later)
    BY <1>3, <1>6, <1>8, SaveSaves
  <2>2. /\ Spares(owned, later) /\ later["SRRProvenance"][place] = entity
        /\ DOMAIN later["SRRProvenance"] = DOMAIN owned["SRRProvenance"] \union {place}
    BY <1>5, <1>6, <1>8, <2>1, SaveProvenance DEF Alters
  <2>3. Alters(d, later, id, {"ownerAddress"}) /\ later["SRR"][id] = srr
    BY <1>5, <2>2, AltersThenSpares
  <2>4. Records(d, later, customHistory)
    BY <1>e, <1>6, <2>2 DEF Records
  <2>5. QED
    BY <1>2, <2>3, <2>4 DEF place, Shows
<1>9. QED
  BY <1>7, <1>8

LEMMA ProvenanceHandled ==
    ASSUME NEW d, DbOK(d), NEW e, NEW millis, NEW id \in DOMAIN d["SRR"], id = Index!idOf(e),
           NEW later, later = Index!handleSRRProvenance(d, e, millis)
    PROVE  /\ Alters(d, later, id, {"ownerAddress"})
           /\ Shows(later, id, "ownerAddress", e.to)
           /\ Records(d, later, e.customHistory)
BY ProvenanceInternal DEF Index!handleSRRProvenance

\* The commitment of a record and its SRRTransferCommit change together.
LEMMA SaveCommitment ==
    ASSUME NEW d, DbOK(d), NEW id \in DOMAIN d["SRR"], NEW commitment, NEW srr, IsSRR(srr),
           srr.transferCommitment = commitment,
           \A f \in SRRField \ {"transferCommitment"} : srr[f] = d["SRR"][id][f],
           NEW m, Saved(d, "SRR", id, srr, m), NEW later,
           \/ later = m /\ id \notin DOMAIN d["SRRTransferCommit"]
           \/ \E entity : /\ DOMAIN entity = CommitField /\ entity.commitment = commitment
                          /\ Saved(m, "SRRTransferCommit", id, entity, later)
    PROVE  Alters(d, later, id, {"transferCommitment"}) /\ later["SRR"][id] = srr
<1>1. /\ DOMAIN m = DOMAIN d /\ m["SRRTransferCommit"] = d["SRRTransferCommit"]
      /\ m["SRRProvenance"] = d["SRRProvenance"] /\ m["stopped"] = d["stopped"]
      /\ m["LicensedUserWallet"] = d["LicensedUserWallet"]
  BY TablesOfDb DEF Saved
<1>2. /\ DOMAIN later = DOMAIN d /\ later["SRR"] = m["SRR"]
      /\ later["SRRProvenance"] = d["SRRProvenance"] /\ later["stopped"] = d["stopped"]
      /\ later["LicensedUserWallet"] = d["LicensedUserWallet"]
  BY <1>1, TablesOfDb DEF Saved
<1>3. /\ DOMAIN later["SRR"] = DOMAIN d["SRR"] /\ later["SRR"][id] = srr
      /\ \A other \in DOMAIN d["SRR"] : other # id => later["SRR"][other] = d["SRR"][other]
  BY <1>2 DEF Saved
<1>4. \A i \in DOMAIN later["SRRTransferCommit"] :
         /\ DOMAIN later["SRRTransferCommit"][i] = CommitField
         /\ i \in DOMAIN later["SRR"]
         /\ later["SRRTransferCommit"][i].commitment = later["SRR"][i].transferCommitment
  <2>1. CASE later = m /\ id \notin DOMAIN d["SRRTransferCommit"]
    BY <1>1, <1>3, <2>1 DEF DbOK
  <2>2. CASE \E entity : /\ DOMAIN entity = CommitField /\ entity.commitment = commitment
                         /\ Saved(m, "SRRTransferCommit", id, entity, later)
    <3>1. PICK entity : /\ DOMAIN entity = CommitField /\ entity.commitment = commitment
                        /\ Saved(m, "SRRTransferCommit", id, entity, later)
      BY <2>2
    <3>2. /\ DOMAIN later["SRRTransferCommit"] = DOMAIN d["SRRTransferCommit"] \union {id}
          /\ later["SRRTransferCommit"][id] = entity
          /\ \A i \in DOMAIN d["SRRTransferCommit"] :
                i # id => later["SRRTransferCommit"][i] = d["SRRTransferCommit"][i]
      BY <1>1, <3>1 DEF Saved
    <3>3. QED
      BY <1>3, <3>1, <3>2 DEF DbOK
  <2>3. QED
    BY <2>1, <2>2
<1>5. \A i \in DOMAIN later["SRR"] : IsSRR(later["SRR"][i])
  BY <1>3 DEF DbOK
<1>6. DbOK(later)
  BY <1>2, <1>4, <1>5 DEF DbOK
<1>7. KeepsProvenance(d, later)
  BY <1>2 DEF KeepsProvenance
<1>8. QED
  BY <1>3, <1>6, <1>7 DEF Alters

\* The end of a commitment, of a record that has one or not.
LEMMA EndsCommitment ==
    ASSUME NEW d, DbOK(d), NEW id \in DOMAIN d["SRR"], NEW lastAction, NEW later,
           later = Index!EndCommit(
              Index!UpdateSRR(d, id, [d["SRR"][id] EXCEPT !.transferCommitment = Null]),
              id, lastAction, Null)
    PROVE  /\ Alters(d, later, id, {"transferCommitment"})
           /\ Shows(later, id, "transferCommitment", Null)
<1> DEFINE srr == [d["SRR"][id] EXCEPT !.transferCommitment = Null]
           m == Index!UpdateSRR(d, id, srr)
           before == m["SRRTransferCommit"][id]
           entity == [before EXCEPT !.commitment = Null, !.lastAction = lastAction,
                                    !.sender = Index!Given(Null, @)]
<1>1. IsSRR(d["SRR"][id])
  BY DEF DbOK
<1>2. /\ IsSRR(srr) /\ srr.transferCommitment = Null
      /\ \A f \in SRRField \ {"transferCommitment"} : srr[f] = d["SRR"][id][f]
  BY <1>1 DEF IsSRR, SRRField
<1>3. later = IF id \in DOMAIN m["SRRTransferCommit"]
              THEN Index!Save(m, "SRRTransferCommit", id, entity) ELSE m
  BY DEF Index!EndCommit, Index!IfKnown, Index!Has
<1> HIDE DEF srr
<1>4. Saved(d, "SRR", id, srr, m)
  BY <1>2, UpdateSRRSaves
<1> HIDE DEF m
<1>5. m["SRRTransferCommit"] = d["SRRTransferCommit"] /\ "SRRTransferCommit" \in DOMAIN m
  BY <1>4, TablesOfDb DEF Saved
<1>6. CASE id \in DOMAIN d["SRRTransferCommit"]
  <2>1. DOMAIN before = CommitField
    BY <1>5, <1>6 DEF DbOK
  <2>2. DOMAIN entity = CommitField /\ entity.commitment = Null
    BY <2>1 DEF CommitField
  <2> HIDE DEF entity
  <2>3. Saved(m, "SRRTransferCommit", id, entity, later)
    BY <1>3, <1>5, <1>6, SaveSaves
  <2>4. QED
    BY <1>2, <1>4, <2>2, <2>3, SaveCommitment DEF Shows
<1>7. CASE id \notin DOMAIN d["SRRTransferCommit"]
  BY <1>2, <1>3, <1>4, <1>5, <1>7, SaveCommitment DEF Shows
<1>8. QED
  BY <1>6, <1>7

LEMMA CommitmentHandled ==
    ASSUME NEW d, DbOK(d), NEW e, NEW id \in DOMAIN d["SRR"], id = Index!idOf(e),
           NEW later, later = Index!handleSRRCommitment(d, e)
    PROVE  /\ Alters(d, later, id, {"transferCommitment"})
           /\ Shows(later, id, "transferCommitment", e.commitment)
<1> DEFINE srr == [d["SRR"][id] EXCEPT !.transferCommitment = e.commitment]
           m == Index!UpdateSRR(d, id, srr)
           before == IF Index!Has(d, "SRRTransferCommit", id) THEN d["SRRTransferCommit"][id]
                     ELSE [customHistory |-> Null, sender |-> Null]
           entity == [commitment |-> e.commitment, lastAction |-> "approve",
                      customHistory |-> Index!Given(e.customHistory, before.customHistory),
                      sender |-> Index!Given(Null, before.sender)]
<1>1. IsSRR(d["SRR"][id])
  BY DEF DbOK
<1>2. /\ IsSRR(srr) /\ srr.transferCommitment = e.commitment
      /\ \A f \in SRRField \ {"transferCommitment"} : srr[f] = d["SRR"][id][f]
  BY <1>1 DEF IsSRR, SRRField
<1>3. later = Index!Save(m, "SRRTransferCommit", id, entity)
  BY DEF Index!handleSRRCommitment, Index!handleSRRCommitmentInternal, Index!IfKnown, Index!Has
<1> HIDE DEF before
<1>4. DOMAIN entity = CommitField /\ entity.commitment = e.commitment
  BY DEF CommitField
<1> HIDE DEF srr, entity
<1>5. Saved(d, "SRR", id, srr, m)
  BY <1>2, UpdateSRRSaves
<1> HIDE DEF m
<1>6. "SRRTransferCommit" \in DOMAIN m
  BY <1>5, TablesOfDb DEF Saved
<1>7. Saved(m, "SRRTransferCommit", id, entity, later)
  BY <1>3, <1>6, SaveSaves
<1>8. QED
  BY <1>2, <1>4, <1>5, <1>7, SaveCommitment DEF Shows

LEMMA CancelHandled ==
    ASSUME NEW d, DbOK(d), NEW e, NEW id \in DOMAIN d["SRR"], id = Index!idOf(e),
           NEW later, later = Index!handleSRRCommitmentCancelled(d, e)
    PROVE  /\ Alters(d, later, id, {"transferCommitment"})
           /\ Shows(later, id, "transferCommitment", Null)
BY EndsCommitment DEF Index!handleSRRCommitmentCancelled,
   Index!handleSRRCommitmentCancelledInternal, Index!IfKnown, Index!Has

\* A record that is there changes its owner and loses its commitment.
LEMMA TransferHandled ==
    ASSUME NEW d, DbOK(d), NEW e, NEW millis, NEW id \in DOMAIN d["SRR"], id = Index!idOf(e),
           e.from # ZERO, NEW later, later = Index!handleTransfer(d, e, millis)
    PROVE  /\ Alters(d, later, id, {"ownerAddress", "transferCommitment"})
           /\ Shows(later, id, "ownerAddress", e.to)
           /\ Shows(later, id, "transferCommitment", Null)
<1> DEFINE from == e.from
           to == e.to
           digest == ""
           srr == [d["SRR"][id] EXCEPT !.ownerAddress = to]
           owned == Index!SaveSRR(d, id, srr)
           told == Index!handleSRRProvenanceInternal(owned, id, millis, from, to, Null, digest, Null)
<1>1. IsSRR(d["SRR"][id])
  BY DEF DbOK
<1>2. /\ IsSRR(srr) /\ srr.ownerAddress = to
      /\ \A f \in SRRField \ {"ownerAddress"} : srr[f] = d["SRR"][id][f]
  BY <1>1 DEF IsSRR, SRRField
<1>3. later = IF owned["stopped"] THEN owned
              ELSE Index!EndCommit(
                 Index!UpdateSRR(told, id, [told["SRR"][id] EXCEPT !.transferCommitment = Null]),
                 id, "transfer", Null)
  BY DEF Index!handleTransfer, Index!Has, Index!checkAndClearCommitOnTransfer
<1> HIDE DEF srr
<1>4. Saved(d, "SRR", id, srr, owned)
  BY <1>2, UpdateSRRSaves
<1> HIDE DEF owned
<1>5. Alters(d, owned, id, {"ownerAddress"})
  BY <1>2, <1>4, SaveRecord
<1>6. DbOK(owned) /\ id \in DOMAIN owned["SRR"]
  BY <1>5 DEF Alters
<1>t. told = Index!handleSRRProvenanceInternal(owned, id, millis, from, to, Null, digest, Null)
  OBVIOUS
<1> HIDE DEF told, digest, from, to
<1>7. Alters(owned, told, id, {"ownerAddress"}) /\ Shows(told, id, "ownerAddress", to)
  BY <1>6, <1>t, ProvenanceInternal
<1>8. DbOK(told) /\ id \in DOMAIN told["SRR"]
  BY <1>7 DEF Alters
<1>9. later = Index!EndCommit(
                 Index!UpdateSRR(told, id, [told["SRR"][id] EXCEPT !.transferCommitment = Null]),
                 id, "transfer", Null)
  BY <1>3, <1>6 DEF DbOK
<1>10. /\ Alters(told, later, id, {"transferCommitment"})
       /\ Shows(later, id, "transferCommitment", Null)
  BY <1>8, <1>9, EndsCommitment
<1>11. Shows(later, id, "ownerAddress", e.to)
  BY <1>7, <1>10 DEF Alters, SRRField, to, Shows
<1>12. Alters(d, later, id, {"ownerAddress", "transferCommitment"})
  BY <1>5, <1>7, <1>10, AltersTwice
<1>13. QED
  BY <1>10, <1>11, <1>12

\* A record that is minted has its owner and no more.
LEMMA MintHandled ==
    ASSUME NEW d, DbOK(d), NEW e, NEW millis \in Nat, NEW id, id \notin DOMAIN d["SRR"],
           id = Index!idOf(e), e.from = ZERO, NEW later, later = Index!handleTransfer(d, e, millis)
    PROVE  /\ Alters(d, later, id, SRRField)
           /\ Shows(later, id, "ownerAddress", e.to)
           /\ Shows(later, id, "transferCommitment", Null)
           /\ Shows(later, id, "royaltyReceiver", Null)
<1> DEFINE srr == [Index!MintedSRR(millis) EXCEPT !.ownerAddress = e.to]
<1>1. /\ IsSRR(srr) /\ srr.ownerAddress = e.to /\ srr.transferCommitment = Null
      /\ srr.royaltyReceiver = Null
  BY DEF Index!MintedSRR, Index!NewSRR, IsSRR, SRRField
<1>2. later = Index!SaveSRR(d, id, srr)
  BY DEF Index!handleTransfer, Index!Has
<1> HIDE DEF srr
<1>3. Saved(d, "SRR", id, srr, later)
  BY <1>1, <1>2, UpdateSRRSaves
<1>4. \A table \in {"SRRProvenance", "SRRTransferCommit", "LicensedUserWallet", "stopped"} :
         later[table] = d[table]
  BY <1>3, TablesOfDb DEF Saved
<1>5. /\ later["SRR"][id] = srr /\ DOMAIN later["SRR"] = DOMAIN d["SRR"] \union {id}
      /\ \A other \in DOMAIN d["SRR"] : later["SRR"][other] = d["SRR"][other]
      /\ DOMAIN later = DOMAIN d
  BY <1>3 DEF Saved
<1>6. DbOK(later)
  <2>1. \A i \in DOMAIN later["SRR"] : IsSRR(later["SRR"][i])
    BY <1>1, <1>5 DEF DbOK
  <2>2. \A i \in DOMAIN d["SRRTransferCommit"] :
           i \in DOMAIN later["SRR"] /\ later["SRR"][i] = d["SRR"][i]
    BY <1>5 DEF DbOK
  <2>3. QED
    BY <1>4, <1>5, <2>1, <2>2 DEF DbOK
<1>7. KeepsProvenance(d, later)
  BY <1>4 DEF KeepsProvenance
<1>8. QED
  BY <1>1, <1>5, <1>6, <1>7 DEF Alters, Shows

-----------------------------------------------------------------------------
(* Histories: no record is touched. *)

LEMMA HistoryTypeHandled ==
    ASSUME NEW d, DbOK(d), NEW e
    PROVE  Spares(d, Index!handleCustomHistoryType(d, e))
<1> DEFINE later == Index!handleCustomHistoryType(d, e)
           entity == [name |-> e.name]
<1>1. Saved(d, "CustomHistoryType", e.id, entity, later)
  BY SaveSaves, TablesOfDb DEF Index!handleCustomHistoryType
<1> HIDE DEF later, entity
<1>2. Spares(d, later)
  BY <1>1, SaveBeside
<1>3. QED
  BY <1>2 DEF later

LEMMA CreateHistoryHandled ==
    ASSUME NEW d, DbOK(d), NEW e
    PROVE  Spares(d, Index!handleCreateCustomHistory(d, e))
<1> DEFINE later == Index!handleCreateCustomHistory(d, e)
           entity == [name |-> e.name, historyType |-> e.type, metadataDigest |-> e.digest,
                      originChain |-> HereChain]
<1>1. Saved(d, "CustomHistory", e.id, entity, later)
  BY SaveSaves, TablesOfDb
  DEF Index!handleCreateCustomHistory, Index!handleCreateCustomHistoryInternal
<1> HIDE DEF later, entity
<1>2. Spares(d, later)
  BY <1>1, SaveBeside
<1>3. QED
  BY <1>2 DEF later

LEMMA SparesTwice ==
    ASSUME NEW d, NEW e, NEW later, Spares(d, e), Spares(e, later)
    PROVE  Spares(d, later)
BY DEF Spares, KeepsProvenance

LEMMA UpdateHistoryHandled ==
    ASSUME NEW d, DbOK(d), NEW e, NEW millis
    PROVE  Spares(d, Index!handleUpdateCustomHistory(d, e, millis))
<1> DEFINE later == Index!handleUpdateCustomHistory(d, e, millis)
           ch == d["CustomHistory"][e.id]
           old == [metadataDigest |-> ch.metadataDigest, name |-> ch.name, customHistory |-> e.id]
           place == <<ch.metadataDigest, millis>>
           m == Index!Save(d, "CustomHistoryMetadataHistory", place, old)
           new == [ch EXCEPT !.metadataDigest = e.digest, !.name = e.name]
<1>1. later = IF e.id \in DOMAIN d["CustomHistory"]
              THEN Index!Save(m, "CustomHistory", e.id, new) ELSE d
  BY DEF Index!handleUpdateCustomHistory, Index!handleUpdateCustomHistoryInternal,
         Index!IfKnown, Index!Has
<1> HIDE DEF place, old, new, ch
<1>2. Saved(d, "CustomHistoryMetadataHistory", place, old, m)
  BY SaveSaves, TablesOfDb
<1> HIDE DEF later, m
<1>3. Spares(d, m)
  BY <1>2, SaveBeside
<1>4. DbOK(m) /\ "CustomHistory" \in DOMAIN m
  BY <1>3, TablesOfDb DEF Spares
<1>5. Saved(m, "CustomHistory", e.id, new, Index!Save(m, "CustomHistory", e.id, new))
  BY <1>4, SaveSaves
<1>6. Spares(m, Index!Save(m, "CustomHistory", e.id, new))
  BY <1>4, <1>5, SaveBeside
<1>7. Spares(d, d)
  BY DEF Spares, KeepsProvenance
<1>8. Spares(d, later)
  BY <1>1, <1>3, <1>6, <1>7, SparesTwice
<1>9. QED
  BY <1>8 DEF later

LEMMA HistoryHandled ==
    ASSUME NEW d, DbOK(d), NEW e
    PROVE  Spares(d, Index!handleSRRHistory(d, e))
<1> DEFINE later == Index!handleSRRHistory(d, e)
<1>1. /\ DOMAIN later = DOMAIN d
      /\ \A table \in DOMAIN d : table # "SRRHistory" => later[table] = d[table]
  BY DEF Index!handleSRRHistory
<1> HIDE DEF later
<1>2. \A table \in {"SRR", "SRRProvenance", "SRRTransferCommit", "LicensedUserWallet", "stopped"} :
         later[table] = d[table]
  BY <1>1, TablesOfDb
<1>3. DbOK(later)
  BY <1>1, <1>2 DEF DbOK
<1>4. Spares(d, later)
  BY <1>2, <1>3 DEF Spares, KeepsProvenance
<1>5. QED
  BY <1>4 DEF later

-----------------------------------------------------------------------------
(* The handler of an event. *)

Handled(d, e, timestamp) == Index!HandleRegistryEvent(d, e, timestamp)
Millis(timestamp) == Index!secondsToMillis(timestamp)

LEMMA Dispatch ==
    ASSUME NEW d, NEW e, NEW ts
    PROVE  /\ e.event = "Transfer" => Handled(d, e, ts) = Index!handleTransfer(d, e, Millis(ts))
           /\ e.event = "CreateSRR" => Handled(d, e, ts) = Index!handleCreateSRRWithCID(d, e)
           /\ e.event = "UpdateSRR" => Handled(d, e, ts) = Index!handleUpdateSRR(d, e)
           /\ e.event = "UpdateSRRMetadataCID"
                => Handled(d, e, ts) = Index!handleUpdateSRRMetadata(d, e)
           /\ e.event = "LockExternalTransfer"
                => Handled(d, e, ts) = Index!handleLockExternalTransfer(d, e)
           /\ e.event = "RoyaltiesSet" => Handled(d, e, ts) = Index!handleRoyaltiesSet(d, e)
           /\ e.event = "Provenance"
                => Handled(d, e, ts) = Index!handleSRRProvenance(d, e, Millis(ts))
           /\ e.event = "SRRCommitment" => Handled(d, e, ts) = Index!handleSRRCommitment(d, e)
           /\ e.event = "SRRCommitmentCancelled"
                => Handled(d, e, ts) = Index!handleSRRCommitmentCancelled(d, e)
           /\ e.event = "CreateCustomHistoryType"
                => Handled(d, e, ts) = Index!handleCustomHistoryType(d, e)
           /\ e.event = "CreateCustomHistory"
                => Handled(d, e, ts) = Index!handleCreateCustomHistory(d, e)
           /\ e.event = "UpdateCustomHistory"
                => Handled(d, e, ts) = Index!handleUpdateCustomHistory(d, e, Millis(ts))
           /\ e.event = "History" => Handled(d, e, ts) = Index!handleSRRHistory(d, e)
BY DEF Handled, Millis, Index!HandleRegistryEvent

-----------------------------------------------------------------------------
(* The events that the index has still to handle. *)

Replays(S, d, L, later) ==
    /\ S[0] = d /\ S[Len(L)] = later /\ DbOK(d)
    /\ \A i \in 1..Len(L) :
          /\ S[i] = Handled(S[i - 1], L[i][1], L[i][2])
          /\ DbOK(S[i]) /\ KeepsProvenance(S[i - 1], S[i])

\* The events of the list make later out of d, and nothing goes wrong on the way.
Leads(d, L, later) == IsList(L) /\ \E S : Replays(S, d, L, later)

LEMMA LeadsNothing ==
    ASSUME NEW d, DbOK(d)
    PROVE  Leads(d, << >>, d)
<1> DEFINE S == [i \in {0} |-> d]
<1>1. S[0] = d
  OBVIOUS
<1> HIDE DEF S
<1>2. Replays(S, d, << >>, d)
  BY <1>1 DEF Replays
<1>3. QED
  BY <1>2, ListFacts DEF Leads

LEMMA LeadsOK ==
    ASSUME NEW d, NEW L, NEW later, Leads(d, L, later)
    PROVE  DbOK(d) /\ DbOK(later) /\ (L = << >> => d = later)
<1>1. PICK S : Replays(S, d, L, later)
  BY DEF Leads
<1>2. Len(L) \in Nat
  BY ListFacts DEF Leads
<1>3. Len(L) = 0 \/ Len(L) \in 1..Len(L)
  BY <1>2
<1>4. DbOK(d) /\ DbOK(later)
  BY <1>1, <1>3 DEF Replays
<1>5. L = << >> => Len(L) = 0
  OBVIOUS
<1>6. QED
  BY <1>1, <1>4, <1>5 DEF Replays

LEMMA LeadsMore ==
    ASSUME NEW d, NEW L, NEW mid, Leads(d, L, mid), NEW e, NEW ts, NEW later,
           later = Handled(mid, e, ts), DbOK(later), KeepsProvenance(mid, later)
    PROVE  Leads(d, Append(L, <<e, ts>>), later)
<1>1. PICK S : Replays(S, d, L, mid)
  BY DEF Leads
<1> DEFINE n == Len(L)
           M == Append(L, <<e, ts>>)
           T == [i \in 0..n + 1 |-> IF i = n + 1 THEN later ELSE S[i]]
<1>2. n \in Nat
  BY ListFacts DEF Leads
<1>3. /\ IsList(M) /\ Len(M) = n + 1 /\ M[n + 1] = <<e, ts>> /\ \A i \in 1..n : M[i] = L[i]
  BY ListFacts DEF Leads
<1>4. T[n + 1] = later /\ \A i \in 0..n : T[i] = S[i]
  BY <1>2
<1> HIDE DEF T, M
<1>5. T[0] = d
  BY <1>1, <1>2, <1>4 DEF Replays
<1>6. ASSUME NEW i \in 1..n + 1
      PROVE  /\ T[i] = Handled(T[i - 1], M[i][1], M[i][2])
             /\ DbOK(T[i]) /\ KeepsProvenance(T[i - 1], T[i])
  <2>1. CASE i = n + 1
    <3>1. T[i - 1] = mid /\ T[i] = later
      BY <1>1, <1>2, <1>4, <2>1 DEF Replays
    <3>2. M[i][1] = e /\ M[i][2] = ts
      BY <1>3, <2>1
    <3>3. QED
      BY <3>1, <3>2
  <2>2. CASE i \in 1..n
    <3>1. T[i - 1] = S[i - 1] /\ T[i] = S[i] /\ M[i] = L[i]
      BY <1>2, <1>3, <1>4, <2>2
    <3>2. QED
      BY <1>1, <2>2, <3>1 DEF Replays
  <2>3. QED
    BY <1>2, <2>1, <2>2
<1>7. DbOK(d)
  BY <1>1 DEF Replays
<1>8. Replays(T, d, M, later)
  BY <1>3, <1>4, <1>5, <1>6, <1>7 DEF Replays
<1>9. Leads(d, M, later)
  BY <1>3, <1>8 DEF Leads
<1>10. QED
  BY <1>9 DEF M

LEMMA LeadsLess ==
    ASSUME NEW d, NEW L, NEW later, Leads(d, L, later), L # << >>,
           NEW next, next = Handled(d, L[1][1], L[1][2])
    PROVE  Leads(next, Tail(L), later) /\ KeepsProvenance(d, next)
<1>1. PICK S : Replays(S, d, L, later)
  BY DEF Leads
<1> DEFINE n == Len(L)
           M == Tail(L)
           T == [i \in 0..n - 1 |-> S[i + 1]]
<1>2. n \in Nat /\ n >= 1
  BY ListFacts DEF Leads
<1>3. /\ IsList(M) /\ Len(M) = n - 1 /\ \A i \in 1..n - 1 : M[i] = L[i + 1]
  BY ListFacts DEF Leads
<1>4. \A i \in 0..n - 1 : T[i] = S[i + 1]
  OBVIOUS
<1> HIDE DEF T, M
<1>5. S[1] = next /\ DbOK(S[1]) /\ KeepsProvenance(d, S[1])
  <2>1. 1 \in 1..n /\ 1 - 1 = 0
    BY <1>2
  <2>2. QED
    BY <1>1, <2>1 DEF Replays
<1>6. T[0] = next /\ T[n - 1] = later
  BY <1>1, <1>2, <1>4, <1>5 DEF Replays
<1>7. ASSUME NEW i \in 1..n - 1
      PROVE  /\ T[i] = Handled(T[i - 1], M[i][1], M[i][2])
             /\ DbOK(T[i]) /\ KeepsProvenance(T[i - 1], T[i])
  <2>1. i + 1 \in 1..n /\ i + 1 - 1 = i /\ i - 1 \in 0..n - 1 /\ i \in 0..n - 1 /\ i - 1 + 1 = i
    BY <1>2
  <2>2. T[i - 1] = S[i] /\ T[i] = S[i + 1] /\ M[i] = L[i + 1]
    BY <1>3, <1>4, <2>1
  <2>3. /\ S[i + 1] = Handled(S[i], L[i + 1][1], L[i + 1][2])
        /\ DbOK(S[i + 1]) /\ KeepsProvenance(S[i], S[i + 1])
    BY <1>1, <2>1 DEF Replays
  <2>4. QED
    BY <2>2, <2>3
<1>8. Replays(T, next, M, later)
  BY <1>3, <1>5, <1>6, <1>7 DEF Replays
<1>9. Leads(next, M, later)
  BY <1>3, <1>8 DEF Leads
<1>10. QED
  BY <1>5, <1>9 DEF M

-----------------------------------------------------------------------------
(* A call adds its events to the log, one after the other. *)

Stamped(events) == [i \in 1..Len(events) |-> <<events[i], time>>]

LEMMA EmitStamps ==
    ASSUME NEW events, Emit(events)
    PROVE  log' = log \o Stamped(events) /\ time' = time
BY DEF Emit, Stamped

LEMMA EmitNone ==
    ASSUME IsList(log), Emit(<< >>)
    PROVE  log' = log /\ time' = time
<1>1. PICK E : log \in Seq(E)
  BY DEF IsList
<1>2. Stamped(<< >>) = << >>
  BY DEF Stamped
<1>3. log \o << >> = log
  BY <1>1
<1>4. QED
  BY <1>2, <1>3, EmitStamps

At(e) == <<e, time>>

LEMMA EmitOne ==
    ASSUME IsList(log), NEW a, Emit(<<a>>)
    PROVE  log' = Append(log, At(a)) /\ time' = time
<1>1. Stamped(<<a>>) = <<At(a)>>
  BY DEF Stamped, At
<1>2. QED
  BY <1>1, EmitStamps, AppendOnce

LEMMA EmitTwo ==
    ASSUME IsList(log), NEW a, NEW b, Emit(<<a, b>>)
    PROVE  log' = Append(Append(log, At(a)), At(b)) /\ time' = time
<1>1. Stamped(<<a, b>>) = <<At(a), At(b)>>
  BY DEF Stamped, At
<1>2. <<At(a), At(b)>> = <<At(a)>> \o <<At(b)>> /\ IsList(<<At(b)>>)
  <2>1. <<At(a), At(b)>> = <<At(a)>> \o <<At(b)>> /\ <<At(b)>> \in Seq({At(b)})
    OBVIOUS
  <2>2. QED
    BY Zenon, <2>1, SeqIsList
<1>3. log \o <<At(a), At(b)>> = Append(log, At(a)) \o <<At(b)>>
  BY <1>2, ConcatAppends
<1>4. QED
  BY <1>1, <1>3, EmitStamps, AppendOnce, ListFacts

LEMMA EmitThree ==
    ASSUME IsList(log), NEW a, NEW b, NEW c, Emit(<<a, b, c>>)
    PROVE  log' = Append(Append(Append(log, At(a)), At(b)), At(c)) /\ time' = time
<1> DEFINE L == Append(log, At(a))
           M == Append(L, At(b))
<1>1. Stamped(<<a, b, c>>) = <<At(a), At(b), At(c)>>
  BY DEF Stamped, At
<1>2. /\ <<At(a), At(b), At(c)>> = <<At(a)>> \o (<<At(b)>> \o <<At(c)>>)
      /\ IsList(<<At(c)>>) /\ IsList(<<At(b)>> \o <<At(c)>>)
  <2>1. /\ <<At(a), At(b), At(c)>> = <<At(a)>> \o (<<At(b)>> \o <<At(c)>>)
        /\ <<At(c)>> \in Seq({At(c)}) /\ <<At(b)>> \o <<At(c)>> \in Seq({At(b), At(c)})
    OBVIOUS
  <2>2. QED
    BY Zenon, <2>1, SeqIsList
<1>3. IsList(L) /\ IsList(M)
  BY ListFacts
<1> HIDE DEF M
<1>4. log \o <<At(a), At(b), At(c)>> = L \o (<<At(b)>> \o <<At(c)>>)
  BY <1>2, ConcatAppends
<1> HIDE DEF L
<1>5. L \o (<<At(b)>> \o <<At(c)>>) = M \o <<At(c)>>
  BY <1>2, <1>3, ConcatAppends DEF M
<1>6. log' = Append(M, At(c)) /\ time' = time
  BY <1>1, <1>3, <1>4, <1>5, EmitStamps, AppendOnce
<1>7. QED
  BY <1>6 DEF L, M

LEMMA EmitFour ==
    ASSUME IsList(log), NEW a, NEW b, NEW c, NEW e, Emit(<<a, b, c, e>>)
    PROVE  /\ log' = Append(Append(Append(Append(log, At(a)), At(b)), At(c)), At(e))
           /\ time' = time
<1> DEFINE L == Append(log, At(a))
           M == Append(L, At(b))
           N == Append(M, At(c))
           two == <<At(c)>> \o <<At(e)>>
           three == <<At(b)>> \o two
           four == <<At(a)>> \o three
<1>1. Stamped(<<a, b, c, e>>) = <<At(a), At(b), At(c), At(e)>>
  BY DEF Stamped, At
<1>2. <<At(a), At(b), At(c), At(e)>> = four
  OBVIOUS
<1>3. IsList(<<At(e)>>) /\ IsList(two) /\ IsList(three)
  <2>1. /\ <<At(e)>> \in Seq({At(e)}) /\ two \in Seq({At(c), At(e)})
        /\ three \in Seq({At(b), At(c), At(e)})
    OBVIOUS
  <2>2. QED
    BY Zenon, <2>1, SeqIsList
<1>4. IsList(L) /\ IsList(M) /\ IsList(N)
  BY ListFacts
<1> HIDE DEF N, M, three
<1>5. log \o four = L \o three
  BY <1>3, ConcatAppends
<1> HIDE DEF L, two, four
<1>6. L \o three = M \o two
  BY <1>3, <1>4, ConcatAppends DEF M, three
<1>7. M \o two = N \o <<At(e)>>
  BY <1>3, <1>4, ConcatAppends DEF N, two
<1>8. log' = Append(N, At(e)) /\ time' = time
  BY <1>1, <1>2, <1>4, <1>5, <1>6, <1>7, EmitStamps, AppendOnce
<1>9. QED
  BY <1>8 DEF L, M, N

-----------------------------------------------------------------------------
(* The record and what the index shows of it. *)

ShowsRecord(d, id, owner, srr, royalty, commitment) ==
    /\ Shows(d, id, "ownerAddress", owner)
    /\ Shows(d, id, "lockExternalTransfer", srr.locked)
    /\ Shows(d, id, "metadataDigest", srr.metadata)
    /\ srr.issuer \in LicensedUser => Shows(d, id, "issuer", srr.issuer)
    /\ srr.artist \in LicensedUser => Shows(d, id, "artist", srr.artist)
    /\ royalty.receiver = ZERO => Shows(d, id, "royaltyReceiver", Null)
    /\ royalty.receiver # ZERO => /\ Shows(d, id, "royaltyReceiver", royalty.receiver)
                                  /\ Shows(d, id, "royaltyBasisPoints", royalty.basisPoints)
    /\ \/ Shows(d, id, "transferCommitment", Null)
       \/ Shows(d, id, "transferCommitment", commitment)

Agrees(d, owners, theSRRs, rates, stored) ==
    \A t \in TokenId :
        /\ owners[t] # ZERO <=> IdOf(t) \in DOMAIN d["SRR"]
        /\ owners[t] # ZERO => ShowsRecord(d, IdOf(t), owners[t], theSRRs[t], rates[t],
                                           stored[t].commitment)

AgreesNow(d) == Agrees(d, tokenOwner, srrs, royalties, commitments)
AgreesNext(d) == Agrees(d, tokenOwner', srrs', royalties', commitments')

\* A record that does not exist has no royalty.
Fresh == \A t \in TokenId : ~exists(t) => royalties[t].receiver = ZERO

\* The index will show what the contract has.
Follows == Fresh /\ \E later : Leads(db, log, later) /\ AgreesNow(later)

\* The call changes no record but t.
ChangesOnly(t) ==
    \A other \in TokenId \ {t} :
        /\ tokenOwner'[other] = tokenOwner[other] /\ srrs'[other] = srrs[other]
        /\ royalties'[other] = royalties[other] /\ commitments'[other] = commitments[other]

ShowsNow(d, t) ==
    ShowsRecord(d, IdOf(t), tokenOwner[t], srrs[t], royalties[t], commitments[t].commitment)
ShowsNext(d, t) ==
    ShowsRecord(d, IdOf(t), tokenOwner'[t], srrs'[t], royalties'[t], commitments'[t].commitment)

LEMMA IdFacts ==
    /\ \A t, other \in TokenId : IdOf(t) = IdOf(other) => t = other
    /\ \A e : e.address = RegistryAddress => Index!idOf(e) = IdOf(e.tokenId)
BY DEF IdOf, Index!idOf, Index!srrEntityId

\* What is not altered is still shown.
LEMMA StillShows ==
    ASSUME NEW d, NEW later, NEW id, NEW fields, Alters(d, later, id, fields),
           NEW f \in SRRField \ fields, NEW value, Shows(d, id, f, value)
    PROVE  Shows(later, id, f, value)
BY DEF Alters, Shows

LEMMA OtherRecordsShown ==
    ASSUME NEW d, NEW later, NEW t \in TokenId, NEW other \in TokenId, other # t, NEW fields,
           Alters(d, later, IdOf(t), fields)
    PROVE  /\ IdOf(other) \in DOMAIN later["SRR"] <=> IdOf(other) \in DOMAIN d["SRR"]
           /\ IdOf(other) \in DOMAIN d["SRR"] =>
                 \A f, value : Shows(d, IdOf(other), f, value) => Shows(later, IdOf(other), f, value)
<1>1. IdOf(other) # IdOf(t)
  BY IdFacts
<1>2. QED
  BY <1>1 DEF Alters, Shows

LEMMA FreshKept ==
    ASSUME Fresh, NEW t \in TokenId, ChangesOnly(t), tokenOwner'[t] # ZERO
    PROVE  Fresh'
BY DEF Fresh, ChangesOnly, exists

LEMMA FreshStays ==
    ASSUME Fresh, UNCHANGED <<tokenOwner, royalties>>
    PROVE  Fresh'
BY DEF Fresh, exists

LEMMA AgreesStep ==
    ASSUME NEW d, AgreesNow(d), NEW later, NEW t \in TokenId, NEW fields,
           Alters(d, later, IdOf(t), fields), ChangesOnly(t), tokenOwner'[t] # ZERO,
           ShowsNext(later, t)
    PROVE  AgreesNext(later)
<1>1. IdOf(t) \in DOMAIN later["SRR"]
  BY DEF Alters
<1>2. ASSUME NEW other \in TokenId, other # t
      PROVE  /\ tokenOwner'[other] # ZERO <=> IdOf(other) \in DOMAIN later["SRR"]
             /\ tokenOwner'[other] # ZERO => ShowsNext(later, other)
  <2>1. /\ IdOf(other) \in DOMAIN later["SRR"] <=> IdOf(other) \in DOMAIN d["SRR"]
        /\ IdOf(other) \in DOMAIN d["SRR"] =>
              \A f, value : Shows(d, IdOf(other), f, value) => Shows(later, IdOf(other), f, value)
    BY <1>2, OtherRecordsShown
  <2>2. /\ tokenOwner[other] # ZERO <=> IdOf(other) \in DOMAIN d["SRR"]
        /\ tokenOwner[other] # ZERO => ShowsNow(d, other)
    BY DEF AgreesNow, Agrees, ShowsNow
  <2>3. /\ tokenOwner'[other] = tokenOwner[other] /\ srrs'[other] = srrs[other]
        /\ royalties'[other] = royalties[other] /\ commitments'[other] = commitments[other]
    BY <1>2 DEF ChangesOnly
  <2>4. ASSUME tokenOwner[other] # ZERO
        PROVE  ShowsNow(later, other)
    BY <2>1, <2>2, <2>4 DEF ShowsNow, ShowsRecord
  <2>5. ShowsNow(later, other) => ShowsNext(later, other)
    BY <2>3 DEF ShowsNow, ShowsNext
  <2>6. QED
    BY <2>1, <2>2, <2>3, <2>4, <2>5
<1>3. QED
  BY <1>1, <1>2 DEF AgreesNext, Agrees, ShowsNext

\* A call that emits one event, about a record that is there.
LEMMA TellsOne ==
    ASSUME UNCHANGED db, Fresh, NEW d, Leads(db, log, d), AgreesNow(d), NEW t \in TokenId,
           NEW e, Emit(<<e>>), NEW fields, NEW later, later = Handled(d, e, time),
           Alters(d, later, IdOf(t), fields), ChangesOnly(t), tokenOwner'[t] # ZERO,
           ShowsNext(later, t)
    PROVE  Follows' /\ time' = time
<1>1. log' = Append(log, At(e)) /\ time' = time
  BY EmitOne DEF Leads
<1>2. Leads(db, Append(log, At(e)), later)
  BY LeadsMore DEF Alters, At
<1>3. AgreesNext(later)
  BY AgreesStep
<1>4. Leads(db', log', later) /\ AgreesNext(later)
  BY <1>1, <1>2, <1>3
<1>5. QED
  BY <1>1, <1>4, FreshKept DEF Follows, AgreesNow, AgreesNext

\* A call that emits nothing and changes nothing that the index shows.
LEMMA TellsNothing ==
    ASSUME UNCHANGED db, Follows, Emit(<< >>),
           UNCHANGED <<tokenOwner, srrs, royalties, commitments>>
    PROVE  Follows' /\ time' = time
<1>f. Fresh
  BY DEF Follows
<1>1. PICK d : Leads(db, log, d) /\ AgreesNow(d)
  BY DEF Follows
<1>2. log' = log /\ time' = time
  BY <1>1, EmitNone DEF Leads
<1>3. Leads(db', log', d) /\ AgreesNext(d)
  BY <1>1, <1>2 DEF AgreesNow, AgreesNext
<1>4. QED
  BY <1>f, <1>2, <1>3, FreshStays DEF Follows, AgreesNow, AgreesNext

\* A call that emits one event that is not about a record.
LEMMA TellsBeside ==
    ASSUME UNCHANGED db, Fresh, NEW d, Leads(db, log, d), AgreesNow(d), NEW e, Emit(<<e>>),
           NEW later, later = Handled(d, e, time), Spares(d, later),
           UNCHANGED <<tokenOwner, srrs, royalties, commitments>>
    PROVE  Follows' /\ time' = time
<1>1. log' = Append(log, At(e)) /\ time' = time
  BY EmitOne DEF Leads
<1>2. Leads(db, Append(log, At(e)), later)
  BY LeadsMore DEF Spares, At
<1>3. AgreesNext(later)
  BY DEF AgreesNow, AgreesNext, Agrees, ShowsRecord, Shows, Spares
<1>4. Leads(db', log', later) /\ AgreesNext(later)
  BY <1>1, <1>2, <1>3
<1>5. QED
  BY <1>1, <1>4, FreshStays DEF Follows, AgreesNow, AgreesNext

-----------------------------------------------------------------------------
(* The calls that update a record. *)

LEMMA KnownRecord ==
    ASSUME NEW d, AgreesNow(d), NEW t \in TokenId, exists(t)
    PROVE  IdOf(t) \in DOMAIN d["SRR"] /\ ShowsNow(d, t)
BY DEF AgreesNow, Agrees, ShowsNow, exists

LEMMA LockTold ==
    ASSUME UNCHANGED db, IInv, Follows, NEW t \in TokenId, NEW lock, NEW caller,
           setLockExternalTransfer(caller, t, lock),
           Emit(<<[flag |-> lock, event |-> "LockExternalTransfer",
                   address |-> RegistryAddress, tokenId |-> t]>>)
    PROVE  Follows' /\ time' = time
<1> DEFINE e == [flag |-> lock, event |-> "LockExternalTransfer",
                 address |-> RegistryAddress, tokenId |-> t]
<1>f. Fresh
  BY DEF Follows
<1>1. PICK d : Leads(db, log, d) /\ AgreesNow(d)
  BY DEF Follows
<1>2. DbOK(d)
  BY <1>1, LeadsOK
<1>3. /\ exists(t) /\ srrs' = [srrs EXCEPT ![t].locked = lock]
      /\ UNCHANGED <<tokenOwner, royalties, commitments>>
  BY DEF setLockExternalTransfer, erc721
<1>4. IdOf(t) \in DOMAIN d["SRR"] /\ ShowsNow(d, t)
  BY <1>1, <1>3, KnownRecord
<1>5. /\ e.flag = lock /\ e.event = "LockExternalTransfer" /\ Index!idOf(e) = IdOf(t)
      /\ Emit(<<e>>)
  BY IdFacts
<1> HIDE DEF e
<1>6. PICK later : later = Handled(d, e, time)
  OBVIOUS
<1>7. later = Index!handleLockExternalTransfer(d, e)
  BY <1>5, <1>6, Dispatch
<1>8. Alters(d, later, IdOf(t), {"lockExternalTransfer"})
      /\ Shows(later, IdOf(t), "lockExternalTransfer", lock)
  BY <1>2, <1>4, <1>5, <1>7, LockHandled
<1>9. srrs \in [TokenId -> SRR]
  BY DEF IInv, RecordTypes
<1>10. /\ srrs'[t].locked = lock /\ srrs'[t].metadata = srrs[t].metadata
       /\ srrs'[t].issuer = srrs[t].issuer /\ srrs'[t].artist = srrs[t].artist
       /\ \A other \in TokenId \ {t} : srrs'[other] = srrs[other]
  BY <1>3, <1>9 DEF SRR
<1>11. ShowsNext(later, t)
  BY <1>3, <1>4, <1>8, <1>10, StillShows DEF ShowsNow, ShowsNext, ShowsRecord, SRRField
<1>12. ChangesOnly(t) /\ tokenOwner'[t] # ZERO
  BY <1>3, <1>10 DEF ChangesOnly, exists
<1>13. QED
  BY <1>1, <1>5, <1>6, <1>8, <1>11, <1>12, <1>f, TellsOne

LEMMA ArtistTold ==
    ASSUME UNCHANGED db, IInv, Follows, NEW t \in TokenId, NEW artist, NEW caller,
           updateSRR(caller, t, artist),
           Emit(<<[artist |-> artist, event |-> "UpdateSRR",
                   address |-> RegistryAddress, tokenId |-> t]>>)
    PROVE  Follows' /\ time' = time
<1> DEFINE e == [artist |-> artist, event |-> "UpdateSRR",
                 address |-> RegistryAddress, tokenId |-> t]
<1>f. Fresh
  BY DEF Follows
<1>1. PICK d : Leads(db, log, d) /\ AgreesNow(d)
  BY DEF Follows
<1>2. DbOK(d)
  BY <1>1, LeadsOK
<1>3. /\ exists(t) /\ srrs' = [srrs EXCEPT ![t].artist = artist]
      /\ UNCHANGED <<tokenOwner, royalties, commitments>>
  BY DEF updateSRR, erc721
<1>4. IdOf(t) \in DOMAIN d["SRR"] /\ ShowsNow(d, t)
  BY <1>1, <1>3, KnownRecord
<1>5. /\ e.artist = artist /\ e.event = "UpdateSRR" /\ Index!idOf(e) = IdOf(t)
      /\ Emit(<<e>>)
  BY IdFacts
<1> HIDE DEF e
<1>6. PICK later : later = Handled(d, e, time)
  OBVIOUS
<1>7. later = Index!handleUpdateSRR(d, e)
  BY <1>5, <1>6, Dispatch
<1>8. /\ Alters(d, later, IdOf(t), {"artistAddress", "artist"})
      /\ artist \in LicensedUser => Shows(later, IdOf(t), "artist", artist)
  BY <1>2, <1>4, <1>5, <1>7, ArtistHandled
<1>9. srrs \in [TokenId -> SRR]
  BY DEF IInv, RecordTypes
<1>10. /\ srrs'[t].locked = srrs[t].locked /\ srrs'[t].metadata = srrs[t].metadata
       /\ srrs'[t].issuer = srrs[t].issuer /\ srrs'[t].artist = artist
       /\ \A other \in TokenId \ {t} : srrs'[other] = srrs[other]
  BY <1>3, <1>9 DEF SRR
<1>11. ShowsNext(later, t)
  BY <1>3, <1>4, <1>8, <1>10, StillShows DEF ShowsNow, ShowsNext, ShowsRecord, SRRField
<1>12. ChangesOnly(t) /\ tokenOwner'[t] # ZERO
  BY <1>3, <1>10 DEF ChangesOnly, exists
<1>13. QED
  BY <1>1, <1>5, <1>6, <1>8, <1>11, <1>12, <1>f, TellsOne

LEMMA MetadataTold ==
    ASSUME UNCHANGED db, IInv, Follows, NEW t \in TokenId, NEW cid, NEW caller,
           updateSRRMetadata(caller, t, cid),
           Emit(<<[metadataDigest |-> cid, event |-> "UpdateSRRMetadataCID",
                   address |-> RegistryAddress, tokenId |-> t]>>)
    PROVE  Follows' /\ time' = time
<1> DEFINE e == [metadataDigest |-> cid, event |-> "UpdateSRRMetadataCID",
                 address |-> RegistryAddress, tokenId |-> t]
<1>f. Fresh
  BY DEF Follows
<1>1. PICK d : Leads(db, log, d) /\ AgreesNow(d)
  BY DEF Follows
<1>2. DbOK(d)
  BY <1>1, LeadsOK
<1>3. /\ exists(t) /\ srrs' = [srrs EXCEPT ![t].metadata = cid]
      /\ UNCHANGED <<tokenOwner, royalties, commitments>>
  BY DEF updateSRRMetadata, erc721
<1>4. IdOf(t) \in DOMAIN d["SRR"] /\ ShowsNow(d, t)
  BY <1>1, <1>3, KnownRecord
<1>5. /\ e.metadataDigest = cid /\ e.event = "UpdateSRRMetadataCID" /\ Index!idOf(e) = IdOf(t)
      /\ Emit(<<e>>)
  BY IdFacts
<1> HIDE DEF e
<1>6. PICK later : later = Handled(d, e, time)
  OBVIOUS
<1>7. later = Index!handleUpdateSRRMetadata(d, e)
  BY <1>5, <1>6, Dispatch
<1>8. /\ Alters(d, later, IdOf(t), {"metadataDigest"})
      /\ Shows(later, IdOf(t), "metadataDigest", cid)
  BY <1>2, <1>4, <1>5, <1>7, MetadataHandled
<1>9. srrs \in [TokenId -> SRR]
  BY DEF IInv, RecordTypes
<1>10. /\ srrs'[t].locked = srrs[t].locked /\ srrs'[t].metadata = cid
       /\ srrs'[t].issuer = srrs[t].issuer /\ srrs'[t].artist = srrs[t].artist
       /\ \A other \in TokenId \ {t} : srrs'[other] = srrs[other]
  BY <1>3, <1>9 DEF SRR
<1>11. ShowsNext(later, t)
  BY <1>3, <1>4, <1>8, <1>10, StillShows DEF ShowsNow, ShowsNext, ShowsRecord, SRRField
<1>12. ChangesOnly(t) /\ tokenOwner'[t] # ZERO
  BY <1>3, <1>10 DEF ChangesOnly, exists
<1>13. QED
  BY <1>1, <1>5, <1>6, <1>8, <1>11, <1>12, <1>f, TellsOne

\* A royalty that a record has is replaced.
LEMMA RoyaltyTold ==
    ASSUME UNCHANGED db, IInv, Follows, NEW t \in TokenId, NEW receiver, NEW basisPoints,
           exists(t), receiver # ZERO, Emit(<<RoyaltiesSet(t, receiver, basisPoints)>>),
           royalties'[t].receiver = receiver, royalties'[t].basisPoints = basisPoints,
           \A other \in TokenId \ {t} : royalties'[other] = royalties[other],
           UNCHANGED <<tokenOwner, srrs, commitments>>
    PROVE  Follows' /\ time' = time
<1> DEFINE e == RoyaltiesSet(t, receiver, basisPoints)
<1>f. Fresh
  BY DEF Follows
<1>1. PICK d : Leads(db, log, d) /\ AgreesNow(d)
  BY DEF Follows
<1>2. DbOK(d)
  BY <1>1, LeadsOK
<1>4. IdOf(t) \in DOMAIN d["SRR"] /\ ShowsNow(d, t)
  BY <1>1, KnownRecord
<1>5. /\ e.receiver = receiver /\ e.basisPoints = basisPoints
      /\ e.event = "RoyaltiesSet" /\ Index!idOf(e) = IdOf(t)
      /\ Emit(<<e>>)
  BY IdFacts DEF RoyaltiesSet
<1> HIDE DEF e
<1>6. PICK later : later = Handled(d, e, time)
  OBVIOUS
<1>7. later = Index!handleRoyaltiesSet(d, e)
  BY <1>5, <1>6, Dispatch
<1>8. /\ Alters(d, later, IdOf(t), {"royaltyReceiver", "royaltyBasisPoints"})
      /\ Shows(later, IdOf(t), "royaltyReceiver", receiver)
      /\ Shows(later, IdOf(t), "royaltyBasisPoints", basisPoints)
  BY <1>2, <1>4, <1>5, <1>7, RoyaltiesHandled
<1>11. ShowsNext(later, t)
  BY <1>4, <1>8, StillShows DEF ShowsNow, ShowsNext, ShowsRecord, SRRField
<1>12. ChangesOnly(t) /\ tokenOwner'[t] # ZERO
  BY DEF ChangesOnly, exists
<1>13. QED
  BY <1>1, <1>5, <1>6, <1>8, <1>11, <1>12, <1>f, TellsOne

LEMMA RoyaltyUpdateTold ==
    ASSUME UNCHANGED db, IInv, Follows, NEW t \in TokenId, NEW receiver, NEW basisPoints, NEW caller,
           updateSRRRoyalty(caller, t, receiver, basisPoints),
           Emit(IF royalties[t].receiver = ZERO THEN << >>
                ELSE <<RoyaltiesSet(t, receiver, basisPoints)>>)
    PROVE  Follows' /\ time' = time
<1>1. /\ exists(t) /\ UNCHANGED <<tokenOwner, srrs, commitments>>
  BY DEF updateSRRRoyalty, erc721
<1>2. CASE royalties[t].receiver = ZERO
  BY <1>1, <1>2, TellsNothing DEF updateSRRRoyalty
<1>3. CASE royalties[t].receiver # ZERO
  <2>1. /\ receiver # ZERO
        /\ royalties' = [royalties EXCEPT ![t] = [receiver |-> receiver,
                                                  basisPoints |-> basisPoints]]
    BY <1>3 DEF updateSRRRoyalty, RoyaltyAllowed
  <2>2. royalties \in [TokenId -> RoyaltyInfo]
    BY DEF IInv, RecordTypes
  <2>3. /\ royalties'[t].receiver = receiver /\ royalties'[t].basisPoints = basisPoints
        /\ \A other \in TokenId \ {t} : royalties'[other] = royalties[other]
    BY <2>1, <2>2
  <2>4. Emit(<<RoyaltiesSet(t, receiver, basisPoints)>>)
    BY <1>3
  <2>5. QED
    BY <1>1, <2>1, <2>3, <2>4, RoyaltyTold
<1>4. QED
  BY <1>2, <1>3

LEMMA ReceiverTold ==
    ASSUME UNCHANGED db, IInv, Follows, NEW t \in TokenId, NEW receiver, NEW caller,
           updateSRRRoyaltyReceiverMulti(caller, {t}, receiver),
           Emit(IF royalties[t].receiver = ZERO THEN << >>
                ELSE <<RoyaltiesSet(t, receiver, royalties[t].basisPoints)>>)
    PROVE  Follows' /\ time' = time
<1> DEFINE withRoyalty == {x \in {t} : royalties[x].receiver # ZERO}
<1>1. /\ exists(t) /\ UNCHANGED <<tokenOwner, srrs, commitments>>
      /\ withRoyalty # {} => receiver # ZERO
      /\ royalties' = [x \in TokenId |-> IF x \in withRoyalty
                                         THEN WithReceiver(royalties[x], receiver)
                                         ELSE royalties[x]]
  BY DEF updateSRRRoyaltyReceiverMulti, erc721
<1>2. royalties = [x \in TokenId |-> royalties[x]]
  BY DEF IInv, RecordTypes
<1>3. CASE royalties[t].receiver = ZERO
  <2>1. withRoyalty = {}
    BY <1>3
  <2> HIDE DEF withRoyalty
  <2>2. royalties' = royalties
    BY <1>1, <1>2, <2>1
  <2>3. QED
    BY <1>1, <1>3, <2>2, TellsNothing
<1>4. CASE royalties[t].receiver # ZERO
  <2>1. withRoyalty = {t}
    BY <1>4
  <2> HIDE DEF withRoyalty
  <2>2. receiver # ZERO
    BY <1>1, <2>1
  <2>3. /\ royalties'[t] = WithReceiver(royalties[t], receiver)
        /\ \A other \in TokenId \ {t} : royalties'[other] = royalties[other]
    BY <1>1, <2>1
  <2>4. Emit(<<RoyaltiesSet(t, receiver, royalties[t].basisPoints)>>)
    BY <1>4
  <2>5. PICK rate : rate = royalties[t].basisPoints
    OBVIOUS
  <2>6. royalties'[t].receiver = receiver /\ royalties'[t].basisPoints = rate
    BY <2>3, <2>5 DEF WithReceiver
  <2>7. QED
    BY <1>1, <2>2, <2>3, <2>4, <2>5, <2>6, RoyaltyTold
<1>5. QED
  BY <1>3, <1>4

-----------------------------------------------------------------------------
(* The calls that end or make a commitment, and the transfers. *)

LEMMA AltersAll ==
    ASSUME NEW d, NEW later, NEW id, NEW fields, Alters(d, later, id, fields)
    PROVE  Alters(d, later, id, SRRField)
BY DEF Alters

\* A call that emits two events, about a record that is there.
LEMMA TellsTwo ==
    ASSUME UNCHANGED db, Fresh, NEW d, Leads(db, log, d), AgreesNow(d), NEW t \in TokenId,
           IdOf(t) \in DOMAIN d["SRR"], NEW a, NEW b, Emit(<<a, b>>),
           NEW mid, mid = Handled(d, a, time), NEW later, later = Handled(mid, b, time),
           NEW fields, NEW more, Alters(d, mid, IdOf(t), fields), Alters(mid, later, IdOf(t), more),
           ChangesOnly(t), tokenOwner'[t] # ZERO, ShowsNext(later, t)
    PROVE  Follows' /\ time' = time
<1>1. log' = Append(Append(log, At(a)), At(b)) /\ time' = time
  BY EmitTwo DEF Leads
<1>2. Leads(db, Append(log, At(a)), mid)
  BY LeadsMore DEF Alters, At
<1>3. Leads(db, Append(Append(log, At(a)), At(b)), later)
  BY <1>2, LeadsMore DEF Alters, At
<1>4. Alters(d, later, IdOf(t), fields \union more)
  BY AltersTwice
<1>5. AgreesNext(later)
  BY <1>4, AgreesStep
<1>6. Leads(db', log', later) /\ AgreesNext(later)
  BY <1>1, <1>3, <1>5
<1>7. QED
  BY <1>1, <1>6, FreshKept DEF Follows, AgreesNow, AgreesNext

LEMMA CommitTold ==
    ASSUME UNCHANGED db, IInv, Follows, NEW t \in TokenId, NEW commitment, NEW customHistory,
           exists(t), Commit(t, commitment, customHistory),
           Emit(CommitEvents(t, commitment, customHistory))
    PROVE  Follows' /\ time' = time
<1> DEFINE a == SRRCommitmentCancelled(t)
           b == SRRCommitment(t, commitment, customHistory)
<1>f. Fresh
  BY DEF Follows
<1>1. PICK d : Leads(db, log, d) /\ AgreesNow(d)
  BY DEF Follows
<1>2. DbOK(d)
  BY <1>1, LeadsOK
<1>3. UNCHANGED <<tokenOwner, srrs, royalties>>
  BY DEF Commit, erc721, records
<1>4. IdOf(t) \in DOMAIN d["SRR"] /\ ShowsNow(d, t)
  BY <1>1, KnownRecord
<1>5. /\ a.event = "SRRCommitmentCancelled" /\ Index!idOf(a) = IdOf(t)
      /\ b.event = "SRRCommitment" /\ Index!idOf(b) = IdOf(t) /\ b.commitment = commitment
  BY IdFacts DEF SRRCommitmentCancelled, SRRCommitment, Of
<1>6. Emit(<<b>>) \/ Emit(<<a, b>>)
  <2> HIDE DEF a, b
  <2>1. << >> \o <<b>> = <<b>>
    <3>1. <<b>> \in Seq({b})
      OBVIOUS
    <3>2. QED
      BY <3>1, ConcatEmptySeq
  <2>2. <<a>> \o <<b>> = <<a, b>>
    BY Zenon, PairConcat
  <2>3. CommitEvents(t, commitment, customHistory) \in {<<b>>, <<a, b>>}
    BY <2>1, <2>2 DEF CommitEvents, a, b
  <2>4. QED
    BY <2>3
<1> HIDE DEF a, b
<1>7. /\ commitments'[t].commitment = commitment
      /\ \A other \in TokenId \ {t} : commitments'[other] = commitments[other]
  BY DEF Commit, IInv, RecordTypes, Commitment
<1>8. ChangesOnly(t) /\ tokenOwner'[t] # ZERO
  BY <1>3, <1>7 DEF ChangesOnly, exists
<1>9. CASE Emit(<<b>>)
  <2>1. PICK later : later = Handled(d, b, time)
    OBVIOUS
  <2>2. later = Index!handleSRRCommitment(d, b)
    BY <1>5, <2>1, Dispatch
  <2>3. /\ Alters(d, later, IdOf(t), {"transferCommitment"})
        /\ Shows(later, IdOf(t), "transferCommitment", commitment)
    BY <1>2, <1>4, <1>5, <2>2, CommitmentHandled
  <2>4. ShowsNext(later, t)
    BY <1>3, <1>4, <1>7, <2>3, StillShows DEF ShowsNow, ShowsNext, ShowsRecord, SRRField
  <2>5. QED
    BY <1>1, <1>8, <1>9, <2>1, <2>3, <2>4, <1>f, TellsOne
<1>10. CASE Emit(<<a, b>>)
  <2>1. PICK mid : mid = Handled(d, a, time)
    OBVIOUS
  <2>2. mid = Index!handleSRRCommitmentCancelled(d, a)
    BY <1>5, <2>1, Dispatch
  <2>3. Alters(d, mid, IdOf(t), {"transferCommitment"})
    BY <1>2, <1>4, <1>5, <2>2, CancelHandled
  <2>4. DbOK(mid) /\ IdOf(t) \in DOMAIN mid["SRR"]
    BY <2>3 DEF Alters
  <2>5. PICK later : later = Handled(mid, b, time)
    OBVIOUS
  <2>6. later = Index!handleSRRCommitment(mid, b)
    BY <1>5, <2>5, Dispatch
  <2>7. /\ Alters(mid, later, IdOf(t), {"transferCommitment"})
        /\ Shows(later, IdOf(t), "transferCommitment", commitment)
    BY <1>5, <2>4, <2>6, CommitmentHandled
  <2>8. Alters(d, later, IdOf(t), {"transferCommitment"})
    BY <1>4, <2>3, <2>7, AltersTwice
  <2>9. ShowsNext(later, t)
    BY <1>3, <1>4, <1>7, <2>7, <2>8, StillShows DEF ShowsNow, ShowsNext, ShowsRecord, SRRField
  <2>10. QED
    BY <1>1, <1>4, <1>8, <1>10, <2>1, <2>3, <2>5, <2>7, <2>9, <1>f, TellsTwo
<1>11. QED
  BY <1>6, <1>9, <1>10

LEMMA CancelTold ==
    ASSUME UNCHANGED db, IInv, Follows, NEW t \in TokenId, NEW caller,
           cancelSRRCommitment(caller, t), Emit(<<SRRCommitmentCancelled(t)>>)
    PROVE  Follows' /\ time' = time
<1> DEFINE e == SRRCommitmentCancelled(t)
<1>f. Fresh
  BY DEF Follows
<1>1. PICK d : Leads(db, log, d) /\ AgreesNow(d)
  BY DEF Follows
<1>2. DbOK(d)
  BY <1>1, LeadsOK
<1>3. /\ exists(t) /\ commitments' = [commitments EXCEPT ![t] = NothingCommitted]
      /\ UNCHANGED <<tokenOwner, srrs, royalties>>
  BY DEF cancelSRRCommitment, onlySRROwnerOrAdministrator, erc721, records
<1>4. IdOf(t) \in DOMAIN d["SRR"] /\ ShowsNow(d, t)
  BY <1>1, <1>3, KnownRecord
<1>5. /\ e.event = "SRRCommitmentCancelled" /\ Index!idOf(e) = IdOf(t) /\ Emit(<<e>>)
  BY IdFacts DEF SRRCommitmentCancelled, Of
<1> HIDE DEF e
<1>6. PICK later : later = Handled(d, e, time)
  OBVIOUS
<1>7. later = Index!handleSRRCommitmentCancelled(d, e)
  BY <1>5, <1>6, Dispatch
<1>8. /\ Alters(d, later, IdOf(t), {"transferCommitment"})
      /\ Shows(later, IdOf(t), "transferCommitment", Null)
  BY <1>2, <1>4, <1>5, <1>7, CancelHandled
<1>9. \A other \in TokenId \ {t} : commitments'[other] = commitments[other]
  BY <1>3 DEF IInv, RecordTypes
<1>10. ShowsNext(later, t)
  BY <1>3, <1>4, <1>8, StillShows DEF ShowsNow, ShowsNext, ShowsRecord, SRRField
<1>11. ChangesOnly(t) /\ tokenOwner'[t] # ZERO
  BY <1>3, <1>9 DEF ChangesOnly, exists
<1>12. QED
  BY <1>1, <1>5, <1>6, <1>8, <1>10, <1>11, <1>f, TellsOne

\* A record that changes hands: its commitment is revealed or left where it is.
Moved(t, to) ==
    /\ exists(t) /\ to # ZERO /\ tokenOwner' = [tokenOwner EXCEPT ![t] = to]
    /\ \A other \in TokenId \ {t} : commitments'[other] = commitments[other]
    /\ UNCHANGED <<srrs, royalties>>

LEMMA MovedChanges ==
    ASSUME IInv, NEW t \in TokenId, NEW to, Moved(t, to), NEW d, NEW later, NEW fields,
           IdOf(t) \in DOMAIN d["SRR"], ShowsNow(d, t), Alters(d, later, IdOf(t), fields),
           fields \subseteq {"ownerAddress", "transferCommitment"},
           Shows(later, IdOf(t), "ownerAddress", to),
           Shows(later, IdOf(t), "transferCommitment", Null)
    PROVE  ChangesOnly(t) /\ tokenOwner'[t] # ZERO /\ ShowsNext(later, t)
<1>1. /\ tokenOwner'[t] = to /\ to # ZERO
      /\ \A other \in TokenId \ {t} : tokenOwner'[other] = tokenOwner[other]
  BY DEF Moved, IInv, ERC721Inv, ERC721TypeOK
<1>2. ChangesOnly(t)
  BY <1>1 DEF ChangesOnly, Moved
<1>3. ShowsNext(later, t)
  BY <1>1, StillShows DEF Moved, ShowsNow, ShowsNext, ShowsRecord, SRRField
<1>4. QED
  BY <1>1, <1>2, <1>3

LEMMA TransferTold ==
    ASSUME UNCHANGED db, IInv, Follows, NEW t \in TokenId, NEW from, from # ZERO, NEW to,
           Moved(t, to), Emit(<<Transfer(from, to, t)>>)
    PROVE  Follows' /\ time' = time
<1> DEFINE e == Transfer(from, to, t)
<1>f. Fresh
  BY DEF Follows
<1>1. PICK d : Leads(db, log, d) /\ AgreesNow(d)
  BY DEF Follows
<1>2. DbOK(d)
  BY <1>1, LeadsOK
<1>4. IdOf(t) \in DOMAIN d["SRR"] /\ ShowsNow(d, t)
  BY <1>1, KnownRecord DEF Moved
<1>5. /\ e.event = "Transfer" /\ Index!idOf(e) = IdOf(t) /\ e.from # ZERO /\ e.to = to
      /\ Emit(<<e>>)
  BY IdFacts DEF Transfer
<1> HIDE DEF e
<1>6. PICK later : later = Handled(d, e, time)
  OBVIOUS
<1>7. later = Index!handleTransfer(d, e, Millis(time))
  BY <1>5, <1>6, Dispatch
<1>8. /\ Alters(d, later, IdOf(t), {"ownerAddress", "transferCommitment"})
      /\ Shows(later, IdOf(t), "ownerAddress", to)
      /\ Shows(later, IdOf(t), "transferCommitment", Null)
  BY <1>2, <1>4, <1>5, <1>7, TransferHandled
<1>9. ChangesOnly(t) /\ tokenOwner'[t] # ZERO /\ ShowsNext(later, t)
  BY <1>4, <1>8, MovedChanges
<1>10. QED
  BY <1>1, <1>5, <1>6, <1>8, <1>9, <1>f, TellsOne

LEMMA ProvenanceTold ==
    ASSUME UNCHANGED db, IInv, Follows, NEW p, p.token \in TokenId, p.from # ZERO,
           Moved(p.token, p.to), Emit(ProvenanceThenTransfer(p))
    PROVE  Follows' /\ time' = time
<1> DEFINE a == ProvenanceEvent(p)
           b == Transfer(p.from, p.to, p.token)
<1>f. Fresh
  BY DEF Follows
<1>1. PICK d : Leads(db, log, d) /\ AgreesNow(d)
  BY DEF Follows
<1>2. DbOK(d)
  BY <1>1, LeadsOK
<1>3. PICK t \in TokenId : t = p.token
  OBVIOUS
<1>4. IdOf(t) \in DOMAIN d["SRR"] /\ ShowsNow(d, t)
  BY <1>1, <1>3, KnownRecord DEF Moved
<1>5. /\ a.event = "Provenance" /\ Index!idOf(a) = IdOf(t) /\ a.to = p.to
      /\ b.event = "Transfer" /\ Index!idOf(b) = IdOf(t) /\ b.from # ZERO /\ b.to = p.to
      /\ Emit(<<a, b>>)
  BY <1>3, IdFacts DEF ProvenanceEvent, Transfer, ProvenanceThenTransfer
<1> HIDE DEF a, b
<1>6. PICK mid : mid = Handled(d, a, time)
  OBVIOUS
<1>7. mid = Index!handleSRRProvenance(d, a, Millis(time))
  BY <1>5, <1>6, Dispatch
<1>8. Alters(d, mid, IdOf(t), {"ownerAddress"})
  BY <1>2, <1>4, <1>5, <1>7, ProvenanceHandled
<1>9. DbOK(mid) /\ IdOf(t) \in DOMAIN mid["SRR"]
  BY <1>8 DEF Alters
<1>10. PICK later : later = Handled(mid, b, time)
  OBVIOUS
<1>11. later = Index!handleTransfer(mid, b, Millis(time))
  BY <1>5, <1>10, Dispatch
<1>12. /\ Alters(mid, later, IdOf(t), {"ownerAddress", "transferCommitment"})
       /\ Shows(later, IdOf(t), "ownerAddress", p.to)
       /\ Shows(later, IdOf(t), "transferCommitment", Null)
  BY <1>5, <1>9, <1>11, TransferHandled
<1>13. Alters(d, later, IdOf(t), {"ownerAddress", "transferCommitment"})
  BY <1>4, <1>8, <1>12, AltersTwice
<1>14. ChangesOnly(t) /\ tokenOwner'[t] # ZERO /\ ShowsNext(later, t)
  BY <1>3, <1>4, <1>12, <1>13, MovedChanges
<1>15. QED
  BY <1>1, <1>4, <1>5, <1>6, <1>8, <1>10, <1>12, <1>14, <1>f, TellsTwo

-----------------------------------------------------------------------------
(* Issuing: the record is made by up to four events of one call. *)

\* A record that was not in d is shown, and nothing of a commitment.
Made(d, later, t, owner, srr, royalty) ==
    /\ Alters(d, later, IdOf(t), SRRField)
    /\ ShowsRecord(later, IdOf(t), owner, srr, royalty, Null)

LEMMA MadeThenAltered ==
    ASSUME NEW d, NEW mid, NEW later, NEW id, NEW more,
           Alters(d, mid, id, SRRField), Alters(mid, later, id, more)
    PROVE  Alters(d, later, id, SRRField)
BY DEF Alters, KeepsProvenance

LEMMA MintedThenCreated ==
    ASSUME NEW d, DbOK(d), NEW t, IdOf(t) \notin DOMAIN d["SRR"], time \in Nat,
           NEW issuer, NEW cid, NEW artist, NEW lock,
           NEW mid, mid = Handled(d, Transfer(ZERO, issuer, t), time),
           NEW later, later = Handled(mid, CreateSRR(t, issuer, artist, cid, lock), time),
           NEW srr, srr.issuer = issuer, srr.artist = artist, srr.metadata = cid, srr.locked = lock
    PROVE  /\ DbOK(mid) /\ KeepsProvenance(d, mid) /\ KeepsProvenance(mid, later)
           /\ Made(d, later, t, issuer, srr, NoRoyalty)
<1> DEFINE a == Transfer(ZERO, issuer, t)
           b == CreateSRR(t, issuer, artist, cid, lock)
<1>1. /\ a.event = "Transfer" /\ Index!idOf(a) = IdOf(t) /\ a.from = ZERO /\ a.to = issuer
      /\ b.event = "CreateSRR" /\ Index!idOf(b) = IdOf(t) /\ b.issuer = issuer
      /\ b.artist = artist /\ b.metadataDigest = cid /\ b.lock = lock
  BY IdFacts DEF Transfer, CreateSRR
<1> HIDE DEF a, b
<1>2. Millis(time) \in Nat
  BY DEF Millis, Index!secondsToMillis
<1>3. mid = Index!handleTransfer(d, a, Millis(time))
  BY <1>1, Dispatch DEF a
<1>4. /\ Alters(d, mid, IdOf(t), SRRField)
      /\ Shows(mid, IdOf(t), "ownerAddress", issuer)
      /\ Shows(mid, IdOf(t), "transferCommitment", Null)
      /\ Shows(mid, IdOf(t), "royaltyReceiver", Null)
  BY <1>1, <1>2, <1>3, MintHandled
<1>5. DbOK(mid) /\ KeepsProvenance(d, mid) /\ IdOf(t) \in DOMAIN mid["SRR"]
  BY <1>4 DEF Alters
<1>6. later = Index!handleCreateSRRWithCID(mid, b)
  BY <1>1, Dispatch DEF b
<1> DEFINE fields == {"metadataDigest", "lockExternalTransfer", "artistAddress", "artist", "issuer"}
<1>7. /\ Alters(mid, later, IdOf(t), fields)
      /\ Shows(later, IdOf(t), "metadataDigest", cid)
      /\ Shows(later, IdOf(t), "lockExternalTransfer", lock)
      /\ artist \in LicensedUser => Shows(later, IdOf(t), "artist", artist)
      /\ issuer \in LicensedUser => Shows(later, IdOf(t), "issuer", issuer)
  BY <1>1, <1>5, <1>6, CreateHandled
<1>8. /\ Shows(later, IdOf(t), "ownerAddress", issuer)
      /\ Shows(later, IdOf(t), "transferCommitment", Null)
      /\ Shows(later, IdOf(t), "royaltyReceiver", Null)
  BY <1>4, <1>7, StillShows DEF SRRField
<1> HIDE DEF fields
<1>9. Alters(d, later, IdOf(t), SRRField)
  BY <1>4, <1>7, MadeThenAltered
<1>10. Made(d, later, t, issuer, srr, NoRoyalty)
  BY <1>7, <1>8, <1>9 DEF Made, ShowsRecord, NoRoyalty
<1>11. QED
  BY <1>5, <1>7, <1>10 DEF Alters

LEMMA ThenRoyalty ==
    ASSUME NEW d, NEW mid, NEW t, NEW owner, NEW srr, Made(d, mid, t, owner, srr, NoRoyalty),
           NEW receiver, receiver # ZERO, NEW basisPoints,
           NEW later, later = Handled(mid, RoyaltiesSet(t, receiver, basisPoints), time),
           NEW royalty, royalty.receiver = receiver, royalty.basisPoints = basisPoints
    PROVE  KeepsProvenance(mid, later) /\ Made(d, later, t, owner, srr, royalty)
<1> DEFINE e == RoyaltiesSet(t, receiver, basisPoints)
<1>1. /\ e.receiver = receiver /\ e.basisPoints = basisPoints
      /\ e.event = "RoyaltiesSet" /\ Index!idOf(e) = IdOf(t)
  BY IdFacts DEF RoyaltiesSet
<1> HIDE DEF e
<1>2. later = Index!handleRoyaltiesSet(mid, e)
  BY <1>1, Dispatch DEF e
<1>3. DbOK(mid) /\ IdOf(t) \in DOMAIN mid["SRR"]
  BY DEF Made, Alters
<1>4. /\ Alters(mid, later, IdOf(t), {"royaltyReceiver", "royaltyBasisPoints"})
      /\ Shows(later, IdOf(t), "royaltyReceiver", receiver)
      /\ Shows(later, IdOf(t), "royaltyBasisPoints", basisPoints)
  BY <1>1, <1>2, <1>3, RoyaltiesHandled
<1>5. Alters(d, later, IdOf(t), SRRField)
  BY <1>4, MadeThenAltered DEF Made
<1>6. ShowsRecord(later, IdOf(t), owner, srr, royalty, Null)
  BY <1>4, StillShows DEF Made, ShowsRecord, SRRField
<1>7. QED
  BY <1>4, <1>5, <1>6 DEF Made, Alters

LEMMA ThenHandedOver ==
    ASSUME NEW d, NEW mid, NEW t, NEW owner, NEW srr, NEW royalty,
           Made(d, mid, t, owner, srr, royalty), NEW from, from # ZERO, NEW to,
           NEW later, later = Handled(mid, Transfer(from, to, t), time)
    PROVE  KeepsProvenance(mid, later) /\ Made(d, later, t, to, srr, royalty)
<1> DEFINE e == Transfer(from, to, t)
<1>1. e.event = "Transfer" /\ Index!idOf(e) = IdOf(t) /\ e.from # ZERO /\ e.to = to
  BY IdFacts DEF Transfer
<1> HIDE DEF e
<1>2. later = Index!handleTransfer(mid, e, Millis(time))
  BY <1>1, Dispatch DEF e
<1>3. DbOK(mid) /\ IdOf(t) \in DOMAIN mid["SRR"]
  BY DEF Made, Alters
<1>4. /\ Alters(mid, later, IdOf(t), {"ownerAddress", "transferCommitment"})
      /\ Shows(later, IdOf(t), "ownerAddress", to)
      /\ Shows(later, IdOf(t), "transferCommitment", Null)
  BY <1>1, <1>2, <1>3, TransferHandled
<1>5. Alters(d, later, IdOf(t), SRRField)
  BY <1>4, MadeThenAltered DEF Made
<1>6. ShowsRecord(later, IdOf(t), to, srr, royalty, Null)
  BY <1>4, StillShows DEF Made, ShowsRecord, SRRField
<1>7. QED
  BY <1>4, <1>5, <1>6 DEF Made, Alters

LEMMA MadeLeads ==
    ASSUME NEW d, NEW L, NEW mid, NEW later, Leads(db, L, mid), NEW e, later = Handled(mid, e, time),
           KeepsProvenance(mid, later), NEW t, NEW owner, NEW srr, NEW royalty,
           Made(d, later, t, owner, srr, royalty)
    PROVE  Leads(db, Append(L, At(e)), later)
BY LeadsMore DEF Made, Alters, At

LEMMA TupleConcat ==
    ASSUME NEW a, NEW b, NEW c, NEW e
    PROVE  /\ <<a, b>> \o << >> = <<a, b>> /\ <<a, b, c>> \o << >> = <<a, b, c>>
           /\ <<a, b>> \o <<c>> = <<a, b, c>> /\ <<a, b, c>> \o <<e>> = <<a, b, c, e>>
<1>1. <<a, b>> \in Seq({a, b}) /\ <<a, b, c>> \in Seq({a, b, c})
  OBVIOUS
<1>2. <<a, b>> \o << >> = <<a, b>>
  BY <1>1, ConcatEmptySeq
<1>3. <<a, b, c>> \o << >> = <<a, b, c>>
  BY <1>1, ConcatEmptySeq
<1>4. <<a, b>> \o <<c>> = <<a, b, c>>
  <2> DEFINE left == <<a, b>> \o <<c>>
             right == <<a, b, c>>
  <2>1. left \in Seq({a, b, c}) /\ Len(left) = 3 /\ left[1] = a /\ left[2] = b /\ left[3] = c
    OBVIOUS
  <2>2. right \in Seq({a, b, c}) /\ Len(right) = 3 /\ right[1] = a /\ right[2] = b /\ right[3] = c
    OBVIOUS
  <2> HIDE DEF left, right
  <2>3. \A i \in 1..Len(left) : left[i] = right[i]
    BY <2>1, <2>2
  <2>4. left = right
    BY <2>1, <2>2, <2>3, SeqEqual
  <2>5. QED
    BY <2>4 DEF left, right
<1>5. <<a, b, c>> \o <<e>> = <<a, b, c, e>>
  <2> DEFINE left == <<a, b, c>> \o <<e>>
             right == <<a, b, c, e>>
  <2>1. /\ left \in Seq({a, b, c, e}) /\ Len(left) = 4
        /\ left[1] = a /\ left[2] = b /\ left[3] = c /\ left[4] = e
    OBVIOUS
  <2>2. /\ right \in Seq({a, b, c, e}) /\ Len(right) = 4
        /\ right[1] = a /\ right[2] = b /\ right[3] = c /\ right[4] = e
    OBVIOUS
  <2> HIDE DEF left, right
  <2>3. \A i \in 1..Len(left) : left[i] = right[i]
    BY <2>1, <2>2
  <2>4. left = right
    BY <2>1, <2>2, <2>3, SeqEqual
  <2>5. QED
    BY <2>4 DEF left, right
<1>6. QED
  BY <1>2, <1>3, <1>4, <1>5

\* The four forms that the events of an issue take.
LEMMA IssueForms ==
    ASSUME NEW t, NEW issuer, NEW cid, NEW artist, NEW lock, NEW to, NEW receiver, NEW basisPoints,
           NEW events, events = IssueEvents(t, issuer, cid, artist, lock, to, receiver, basisPoints),
           NEW T, T = Transfer(ZERO, issuer, t), NEW C, C = CreateSRR(t, issuer, artist, cid, lock),
           NEW R, R = RoyaltiesSet(t, receiver, basisPoints), NEW X, X = Transfer(issuer, to, t)
    PROVE  /\ receiver = ZERO /\ to = ZERO => events = <<T, C>>
           /\ receiver = ZERO /\ to # ZERO => events = <<T, C, X>>
           /\ receiver # ZERO /\ to = ZERO => events = <<T, C, R>>
           /\ receiver # ZERO /\ to # ZERO => events = <<T, C, R, X>>
<1> DEFINE A == IF receiver = ZERO THEN << >> ELSE <<R>>
           B == IF to = ZERO THEN << >> ELSE <<X>>
<1>1. events = (<<T, C>> \o A) \o B
  BY DEF IssueEvents
<1>2. /\ receiver = ZERO => A = << >>
      /\ receiver # ZERO => A = <<R>>
      /\ to = ZERO => B = << >>
      /\ to # ZERO => B = <<X>>
  OBVIOUS
<1> HIDE DEF A, B
<1>3. CASE receiver = ZERO
  <2>1. events = <<T, C>> \o B
    BY <1>1, <1>2, <1>3, TupleConcat
  <2>2. to = ZERO => events = <<T, C>>
    BY <1>2, <2>1, TupleConcat
  <2>3. to # ZERO => events = <<T, C, X>>
    BY <1>2, <2>1, TupleConcat
  <2>4. QED
    BY <1>3, <2>2, <2>3
<1>4. CASE receiver # ZERO
  <2>1. events = <<T, C, R>> \o B
    BY <1>1, <1>2, <1>4, TupleConcat
  <2>2. to = ZERO => events = <<T, C, R>>
    BY <1>2, <2>1, TupleConcat
  <2>3. to # ZERO => events = <<T, C, R, X>>
    BY <1>2, <2>1, TupleConcat
  <2>4. QED
    BY <1>4, <2>2, <2>3
<1>5. QED
  BY <1>3, <1>4

LEMMA IssueTold ==
    ASSUME UNCHANGED db, IInv, Follows, time \in Nat, NEW t \in TokenId,
           NEW issuer \in Account, NEW cid, NEW artist, NEW lock, NEW to, NEW receiver,
           NEW basisPoints, t = generate[<<cid, artist>>],
           createSRR(issuer, cid, artist, lock, to, receiver, basisPoints),
           Emit(IssueEvents(t, issuer, cid, artist, lock, to, receiver, basisPoints))
    PROVE  Follows' /\ time' = time
<1> DEFINE srr == [issuer |-> issuer, artist |-> artist, metadata |-> cid, locked |-> lock]
           royalty == [receiver |-> receiver, basisPoints |-> basisPoints]
           owner == IF to = ZERO THEN issuer ELSE to
           events == IssueEvents(t, issuer, cid, artist, lock, to, receiver, basisPoints)
<1>f. Fresh
  BY DEF Follows
<1>1. PICK d : Leads(db, log, d) /\ AgreesNow(d)
  BY DEF Follows
<1>2. DbOK(d) /\ IsList(log)
  BY <1>1, LeadsOK DEF Leads
<1>3. /\ ~exists(t) /\ tokenOwner' = [tokenOwner EXCEPT ![t] = owner]
      /\ srrs' = [srrs EXCEPT ![t] = srr]
      /\ receiver = ZERO => royalties' = royalties
      /\ receiver # ZERO => royalties' = [royalties EXCEPT ![t] = royalty]
      /\ commitments' = commitments
  BY DEF createSRR, mint, mintAndTransfer
<1>4. srr.issuer = issuer /\ srr.artist = artist /\ srr.metadata = cid /\ srr.locked = lock
  OBVIOUS
<1>r. royalty.receiver = receiver /\ royalty.basisPoints = basisPoints
  OBVIOUS
<1>z. issuer # ZERO /\ owner # ZERO
  BY ZeroAssumption
<1>o. (to = ZERO => owner = issuer) /\ (to # ZERO => owner = to)
  OBVIOUS
<1> HIDE DEF srr, royalty, owner
<1>5. /\ srrs'[t] = srr /\ tokenOwner'[t] = owner
      /\ receiver = ZERO => royalties'[t].receiver = ZERO
      /\ receiver # ZERO => royalties'[t] = royalty
      /\ ChangesOnly(t)
  BY <1>f, <1>3 DEF IInv, RecordTypes, ERC721Inv, ERC721TypeOK, ChangesOnly, Fresh
<1>6. IdOf(t) \notin DOMAIN d["SRR"]
  BY <1>1, <1>3 DEF AgreesNow, Agrees, exists
<1>7. PICK T, C, R, X : /\ T = Transfer(ZERO, issuer, t)
                        /\ C = CreateSRR(t, issuer, artist, cid, lock)
                        /\ R = RoyaltiesSet(t, receiver, basisPoints)
                        /\ X = Transfer(issuer, to, t)
  OBVIOUS
<1>e. Emit(events)
  OBVIOUS
<1> HIDE DEF events
<1>8. /\ receiver = ZERO /\ to = ZERO => Emit(<<T, C>>)
      /\ receiver = ZERO /\ to # ZERO => Emit(<<T, C, X>>)
      /\ receiver # ZERO /\ to = ZERO => Emit(<<T, C, R>>)
      /\ receiver # ZERO /\ to # ZERO => Emit(<<T, C, R, X>>)
  BY <1>7, <1>e, IssueForms DEF events
<1>9. PICK a : a = Handled(d, T, time)
  OBVIOUS
<1>10. PICK b : b = Handled(a, C, time)
  OBVIOUS
<1> DEFINE L == Append(Append(log, At(T)), At(C))
<1>11. /\ DbOK(a) /\ KeepsProvenance(d, a) /\ KeepsProvenance(a, b)
       /\ Made(d, b, t, issuer, srr, NoRoyalty)
  BY <1>2, <1>4, <1>6, <1>7, <1>9, <1>10, MintedThenCreated
<1>12. Leads(db, L, b)
  <2>1. Leads(db, Append(log, At(T)), a)
    BY <1>1, <1>9, <1>11, LeadsMore DEF At
  <2>2. QED
    BY <1>10, <1>11, <2>1, MadeLeads
\* The events after the first two.
<1>13. \E later, rate : /\ Leads(db, log', later) /\ time' = time
                        /\ Made(d, later, t, owner, srr, rate)
                        /\ receiver = ZERO => rate.receiver = ZERO
                        /\ receiver # ZERO => rate = royalty
  <2>0. NoRoyalty.receiver = ZERO
    BY DEF NoRoyalty
  <2>1. CASE receiver = ZERO /\ to = ZERO
    <3>1. log' = L /\ time' = time
      BY <1>2, <1>8, <2>1, EmitTwo
    <3>2. Made(d, b, t, owner, srr, NoRoyalty)
      BY <1>11, <1>o, <2>1
    <3> HIDE DEF L
    <3>3. QED
      BY <1>12, <2>0, <2>1, <3>1, <3>2
  <2>2. CASE receiver = ZERO /\ to # ZERO
    <3>1. log' = Append(L, At(X)) /\ time' = time
      BY <1>2, <1>8, <2>2, EmitThree
    <3> HIDE DEF L
    <3>2. PICK later : later = Handled(b, X, time)
      OBVIOUS
    <3>3. KeepsProvenance(b, later) /\ Made(d, later, t, to, srr, NoRoyalty)
      BY <1>7, <1>11, <1>z, <3>2, ThenHandedOver
    <3>4. Leads(db, Append(L, At(X)), later)
      BY <1>12, <3>2, <3>3, MadeLeads
    <3>5. Made(d, later, t, owner, srr, NoRoyalty)
      BY <1>o, <2>2, <3>3
    <3>6. QED
      BY <2>0, <2>2, <3>1, <3>4, <3>5
  <2>3. CASE receiver # ZERO /\ to = ZERO
    <3>1. log' = Append(L, At(R)) /\ time' = time
      BY <1>2, <1>8, <2>3, EmitThree
    <3> HIDE DEF L
    <3>2. PICK later : later = Handled(b, R, time)
      OBVIOUS
    <3>3. KeepsProvenance(b, later) /\ Made(d, later, t, issuer, srr, royalty)
      BY <1>7, <1>r, <1>11, <2>3, <3>2, ThenRoyalty
    <3>4. Leads(db, Append(L, At(R)), later)
      BY <1>12, <3>2, <3>3, MadeLeads
    <3>5. Made(d, later, t, owner, srr, royalty)
      BY <1>o, <2>3, <3>3
    <3>6. QED
      BY <2>3, <3>1, <3>4, <3>5
  <2>4. CASE receiver # ZERO /\ to # ZERO
    <3>1. log' = Append(Append(L, At(R)), At(X)) /\ time' = time
      BY <1>2, <1>8, <2>4, EmitFour
    <3> HIDE DEF L
    <3>2. PICK mid : mid = Handled(b, R, time)
      OBVIOUS
    <3>3. KeepsProvenance(b, mid) /\ Made(d, mid, t, issuer, srr, royalty)
      BY <1>7, <1>r, <1>11, <2>4, <3>2, ThenRoyalty
    <3>4. Leads(db, Append(L, At(R)), mid)
      BY <1>12, <3>2, <3>3, MadeLeads
    <3>5. PICK later : later = Handled(mid, X, time)
      OBVIOUS
    <3>6. KeepsProvenance(mid, later) /\ Made(d, later, t, to, srr, royalty)
      BY <1>7, <1>z, <3>3, <3>5, ThenHandedOver
    <3>7. Leads(db, Append(Append(L, At(R)), At(X)), later)
      BY <3>4, <3>5, <3>6, MadeLeads
    <3>8. Made(d, later, t, owner, srr, royalty)
      BY <1>o, <2>4, <3>6
    <3>9. QED
      BY <2>4, <3>1, <3>7, <3>8
  <2>5. QED
    BY <2>1, <2>2, <2>3, <2>4
<1> HIDE DEF L
<1>14. PICK later, rate : /\ Leads(db, log', later) /\ time' = time
                          /\ Made(d, later, t, owner, srr, rate)
                          /\ receiver = ZERO => rate.receiver = ZERO
                          /\ receiver # ZERO => rate = royalty
  BY <1>13
<1>15. ShowsNext(later, t)
  BY <1>5, <1>r, <1>14 DEF Made, ShowsNext, ShowsRecord
<1>16. AgreesNext(later)
  BY <1>1, <1>5, <1>14, <1>15, <1>z, AgreesStep DEF Made
<1>17. Leads(db', log', later) /\ AgreesNext(later) /\ time' = time
  BY <1>14, <1>16
<1>18. QED
  BY <1>f, <1>5, <1>z, <1>17, FreshKept DEF Follows, AgreesNow, AgreesNext

-----------------------------------------------------------------------------
(* Every call of the registry. *)

LEMMA HistoriesTold ==
    ASSUME UNCHANGED db, Follows, NEW e,
           e.event \in {"CreateCustomHistoryType", "CreateCustomHistory", "UpdateCustomHistory",
                        "History"},
           Emit(<<e>>), UNCHANGED <<erc721, records, commitments>>
    PROVE  Follows' /\ time' = time
<1>1. PICK d : Leads(db, log, d) /\ AgreesNow(d)
  BY DEF Follows
<1>2. DbOK(d) /\ Fresh
  BY <1>1, LeadsOK DEF Follows
<1>3. PICK later : later = Handled(d, e, time)
  OBVIOUS
<1>4. Spares(d, later)
  BY <1>2, <1>3, Dispatch, HistoryTypeHandled, CreateHistoryHandled, UpdateHistoryHandled,
     HistoryHandled
<1>5. UNCHANGED <<tokenOwner, srrs, royalties, commitments>>
  BY DEF erc721, records
<1>6. QED
  BY <1>1, <1>2, <1>3, <1>4, <1>5, TellsBeside

\* What the transfers of the registry do to the record.
LEMMA TransferMoves ==
    ASSUME NEW t \in TokenId, NEW from, NEW to, transfer(from, to, t), UNCHANGED <<srrs, royalties>>,
           \A other \in TokenId \ {t} : commitments'[other] = commitments[other]
    PROVE  Moved(t, to) /\ from = tokenOwner[t] /\ from # ZERO
BY DEF transfer, ownerIs, exists, Moved

LEMMA ProvenanceMoves ==
    ASSUME IInv, NEW t \in TokenId, NEW caller \in Account, NEW to \in Address,
           \/ \E reveal \in Reveal : transferSRRByReveal(to, reveal, t)
           \/ \E id \in HistoryId :
                 \/ transferFromWithProvenance(caller, to, t, id)
                 \/ transferFromWithProvenanceFromBulk(caller, to, t, id),
           NEW p \in emitted'
    PROVE  /\ p.token = t /\ p.to = to /\ p.from = tokenOwner[t] /\ p.from # ZERO
           /\ Moved(t, to)
<1>1. CASE \E reveal \in Reveal : transferSRRByReveal(to, reveal, t)
  <2>1. /\ transfer(tokenOwner[t], to, t) /\ UNCHANGED <<srrs, royalties>>
        /\ commitments' = [commitments EXCEPT ![t] = NothingCommitted]
        /\ emitted' = {ProvenanceOf(t, to, commitments[t].customHistory)}
    BY <1>1 DEF transferSRRByReveal, records
  <2>2. \A other \in TokenId \ {t} : commitments'[other] = commitments[other]
    BY <2>1 DEF IInv, RecordTypes
  <2>3. Moved(t, to) /\ tokenOwner[t] # ZERO
    BY <2>1, <2>2, TransferMoves
  <2>4. p = ProvenanceOf(t, to, commitments[t].customHistory)
    BY <2>1
  <2>5. QED
    BY <2>3, <2>4 DEF ProvenanceOf
<1>2. CASE \E id \in HistoryId :
              \/ transferFromWithProvenance(caller, to, t, id)
              \/ transferFromWithProvenanceFromBulk(caller, to, t, id)
  <2>1. PICK id \in HistoryId : TransferWithProvenance(to, t, id)
    BY <1>2 DEF transferFromWithProvenance, transferFromWithProvenanceFromBulk
  <2>2. /\ transfer(tokenOwner[t], to, t) /\ UNCHANGED <<srrs, royalties, commitments>>
        /\ emitted' = {ProvenanceOf(t, to, id)}
    BY <2>1 DEF TransferWithProvenance, records
  <2>3. Moved(t, to) /\ tokenOwner[t] # ZERO
    BY <2>2, TransferMoves
  <2>4. p = ProvenanceOf(t, to, id)
    BY <2>2
  <2>5. QED
    BY <2>3, <2>4 DEF ProvenanceOf
<1>3. QED
  BY <1>1, <1>2

LEMMA UpdateFollows ==
    ASSUME UNCHANGED db, IInv, Follows, NEW caller \in Account, NEW t \in TokenId,
           IndexedUpdate(caller, t)
    PROVE  Follows' /\ time' = time
BY ArtistTold, MetadataTold, RoyaltyUpdateTold, LockTold DEF IndexedUpdate

LEMMA CommitmentFollows ==
    ASSUME UNCHANGED db, IInv, Follows, NEW caller \in Account, NEW t \in TokenId,
           IndexedCommitment(caller, t)
    PROVE  Follows' /\ time' = time
<1>1. CASE cancelSRRCommitment(caller, t) /\ Emit(<<SRRCommitmentCancelled(t)>>)
  BY <1>1, CancelTold
<1>2. ASSUME NEW commitment \in Reveal, NEW id \in HistoryId,
             \/ approveSRRByCommitment(caller, t, commitment, id)
             \/ approveSRRByCommitmentFromBulk(caller, t, commitment, id),
             Emit(CommitEvents(t, commitment, id))
      PROVE  Follows' /\ time' = time
  <2>1. exists(t) /\ Commit(t, commitment, id)
    BY <1>2 DEF approveSRRByCommitment, approveSRRByCommitmentFromBulk,
                onlySRROwnerOrAdministrator, ownerIs
  <2>2. QED
    BY <1>2, <2>1, CommitTold
<1>3. QED
  BY <1>1, <1>2 DEF IndexedCommitment

LEMMA ProvenanceFollows ==
    ASSUME UNCHANGED db, IInv, Follows, NEW caller \in Account, NEW t \in TokenId,
           IndexedProvenance(caller, t)
    PROVE  Follows' /\ time' = time
<1>1. PICK to \in Address :
         /\ \/ \E reveal \in Reveal : transferSRRByReveal(to, reveal, t)
            \/ \E id \in HistoryId :
                  \/ transferFromWithProvenance(caller, to, t, id)
                  \/ transferFromWithProvenanceFromBulk(caller, to, t, id)
         /\ \E p \in emitted' : Emit(ProvenanceThenTransfer(p))
  BY DEF IndexedProvenance
<1>2. PICK p \in emitted' : Emit(ProvenanceThenTransfer(p))
  BY <1>1
<1>3. /\ p.token = t /\ p.to = to /\ p.from # ZERO /\ Moved(t, to)
  BY <1>1, <1>2, ProvenanceMoves
<1>4. QED
  BY <1>2, <1>3, ProvenanceTold

LEMMA TransferFollows ==
    ASSUME UNCHANGED db, IInv, Follows, NEW caller \in Account, NEW t \in TokenId,
           IndexedTransfer(caller, t)
    PROVE  Follows' /\ time' = time
<1>1. PICK from \in Account, to \in Address :
         transferFrom(caller, from, to, t) /\ Emit(<<Transfer(from, to, t)>>)
  BY DEF IndexedTransfer
<1>2. Moved(t, to) /\ from # ZERO
  BY <1>1, TransferMoves DEF transferFrom, records
<1>3. QED
  BY <1>1, <1>2, TransferTold

LEMMA HistoriesFollow ==
    ASSUME UNCHANGED db, IInv, Follows, IndexedHistories
    PROVE  Follows' /\ time' = time
<1>1. UNCHANGED <<erc721, records, commitments>>
  BY DEF IndexedHistories
<1>2. PICK event \in {"CreateCustomHistoryType", "CreateCustomHistory", "UpdateCustomHistory"} :
          \E id, name : Emit(<<HistoryEvent(event, id, name)>>)
  BY DEF IndexedHistories
<1>3. PICK id, name : Emit(<<HistoryEvent(event, id, name)>>)
  BY <1>2
<1>4. HistoryEvent(event, id, name).event = event
  BY DEF HistoryEvent
<1>5. QED
  BY <1>1, <1>3, <1>4, HistoriesTold

LEMMA CallFollows ==
    ASSUME IInv, Follows, time \in Nat, RegistryCall
    PROVE  Follows' /\ time' = time
<1>0. UNCHANGED db
  BY DEF RegistryCall
<1>1. ASSUME NEW issuer \in Issuer, IndexedIssue(issuer)
      PROVE  Follows' /\ time' = time
  <2>1. PICK cid \in MetadataCID, artist \in Artist, lock \in BOOLEAN,
             to \in Address, receiver \in Receiver \union {ZERO}, basisPoints \in BasisPoints :
          /\ createSRR(issuer, cid, artist, lock, to, receiver, basisPoints)
          /\ Emit(IssueEvents(generate[<<cid, artist>>], issuer, cid, artist, lock, to,
                              receiver, basisPoints))
    BY <1>1 DEF IndexedIssue
  <2>2. PICK t \in TokenId : t = generate[<<cid, artist>>]
    BY InputFacts
  <2>3. issuer \in Account
    BY InputFacts
  <2>4. Emit(IssueEvents(t, issuer, cid, artist, lock, to, receiver, basisPoints))
    BY <2>1, <2>2
  <2>5. QED
    BY <1>0, <2>1, <2>2, <2>3, <2>4, IssueTold
<1>2. ASSUME NEW caller \in Account, NEW t \in TokenId,
             \/ IndexedUpdate(caller, t)
             \/ \E receiver \in Receiver : IndexedRoyaltyReceiver(caller, t, receiver)
             \/ IndexedCommitment(caller, t)
             \/ IndexedProvenance(caller, t)
             \/ IndexedTransfer(caller, t)
             \/ \E id \in HistoryId : addHistory(caller, t, id)
      PROVE  Follows' /\ time' = time
  <2>1. CASE \E receiver \in Receiver : IndexedRoyaltyReceiver(caller, t, receiver)
    BY <1>0, <2>1, ReceiverTold DEF IndexedRoyaltyReceiver
  <2>2. CASE \E id \in HistoryId : addHistory(caller, t, id)
    <3>1. PICK id \in HistoryId : addHistory(caller, t, id)
      BY <2>2
    <3> DEFINE e == [event |-> "History", address |-> RegistryAddress,
                     tokenIds |-> {t}, customHistoryIds |-> {id}]
    <3>2. /\ e.event = "History" /\ Emit(<<e>>)
          /\ UNCHANGED <<erc721, records, commitments>>
      BY <3>1 DEF addHistory
    <3> HIDE DEF e
    <3>3. QED
      BY <1>0, <3>2, HistoriesTold
  <2>3. QED
    BY <1>0, <1>2, <2>1, <2>2, UpdateFollows, CommitmentFollows, ProvenanceFollows, TransferFollows
<1>3. QED
  BY <1>0, <1>1, <1>2, HistoriesFollow DEF RegistryCall

-----------------------------------------------------------------------------
(* The invariant. *)

\* The calls are those of the registry, or change nothing of it.
LEMMA CallIsStep ==
    ASSUME IInv, RegistryCall
    PROVE  Next \/ (UNCHANGED <<erc721, customHistories, records, commitments, announced>>
                    /\ emitted' = {})
<1>1. ASSUME NEW issuer \in Issuer, IndexedIssue(issuer)
      PROVE  Next
  <2>1. Issue(issuer)
    BY <1>1 DEF IndexedIssue, Issue
  <2>2. QED
    BY <2>1 DEF Next
<1>2. ASSUME NEW caller \in Account, NEW t \in TokenId, IndexedUpdate(caller, t)
      PROVE  Next
  <2>1. Update(caller, t)
    BY <1>2 DEF IndexedUpdate, Update
  <2>2. QED
    BY <2>1 DEF Next
<1>3. ASSUME NEW caller \in Account, NEW t \in TokenId, NEW receiver \in Receiver,
             IndexedRoyaltyReceiver(caller, t, receiver)
      PROVE  Next
  <2>1. updateSRRRoyaltyReceiverMulti(caller, {t}, receiver) /\ {t} \in SUBSET TokenId
    BY <1>3 DEF IndexedRoyaltyReceiver
  <2>2. QED
    BY <2>1 DEF Next
<1>4. ASSUME NEW caller \in Account, NEW t \in TokenId, IndexedCommitment(caller, t)
      PROVE  Next
  <2>1. ByCommitment(caller, t)
    BY <1>4 DEF IndexedCommitment, ByCommitment
  <2>2. QED
    BY <2>1 DEF Next
<1>5. ASSUME NEW caller \in Account, NEW t \in TokenId, IndexedProvenance(caller, t)
      PROVE  Next
  <2>1. WithProvenance(caller, t)
    BY <1>5 DEF IndexedProvenance, WithProvenance
  <2>2. QED
    BY <2>1 DEF Next
<1>6. ASSUME NEW caller \in Account, NEW t \in TokenId, IndexedTransfer(caller, t)
      PROVE  Next
  <2>1. Standard(caller, t)
    BY <1>6 DEF IndexedTransfer, Standard
  <2>2. QED
    BY <2>1 DEF Next
<1>7. ASSUME IndexedHistories
      PROVE  Next
  <2>1. ASSUME NEW name \in NameOrEmpty, writeCustomHistory(name, 1)
        PROVE  1 \in 1..MaxHistories
    <3>1. historyNames \in Seq(NameOrEmpty)
      BY DEF IInv, CustomHistoriesTypeOK
    <3>2. Len(historyNames) \in Nat /\ Len(historyNames) < MaxHistories
      BY <2>1, <3>1 DEF writeCustomHistory
    <3>3. QED
      BY <3>2, HistoryNameAssumption
  <2>2. WriteHistories
    BY <1>7, <2>1 DEF IndexedHistories, WriteHistories
  <2>3. QED
    BY <2>2 DEF Next
<1>8. QED
  BY <1>1, <1>2, <1>3, <1>4, <1>5, <1>6, <1>7 DEF RegistryCall, addHistory

LEMMA CallInvariant ==
    ASSUME IInv, RegistryCall
    PROVE  IInv'
<1>1. CASE Next
  BY <1>1, StepInvariant
<1>2. CASE UNCHANGED <<erc721, customHistories, records, commitments, announced>>
           /\ emitted' = {}
  <2>1. RecordTypes'
    BY <1>2 DEF IInv, RecordTypes, records
  <2>2. QED
    BY <1>2, <2>1, RecordStep
<1>3. QED
  BY <1>1, <1>2, CallIsStep

IndexInv == IInv /\ Follows /\ time \in Nat

LEMMA IndexInit ==
    ASSUME IndexedInit
    PROVE  IndexInv
<1>1. IInv
  BY InitInvariant DEF IndexedInit
<1>2. time \in Nat /\ log = << >>
  BY DEF IndexedInit, ChainInit
<1>3. Fresh
  BY DEF IndexedInit, Init, Fresh, NoRoyalty
<1> DEFINE wallets == [a \in LicensedUser |-> [walletAddress |-> a]]
<1>4. db = [Index!EmptyDatabase EXCEPT !["LicensedUserWallet"] = wallets]
  BY DEF IndexedInit
<1>5. DOMAIN wallets = LicensedUser
  OBVIOUS
<1> HIDE DEF wallets
<1>6. /\ DOMAIN db = Index!Tables \union {"stopped"} /\ db["stopped"] = FALSE
      /\ db["LicensedUserWallet"] = wallets /\ db["SRR"] = << >>
      /\ db["SRRTransferCommit"] = << >>
  BY <1>4 DEF Index!EmptyDatabase, Index!Tables, Index!LUW, Index!NoEntities
<1>7. DOMAIN << >> = {}
  OBVIOUS
<1>8. DbOK(db)
  BY <1>5, <1>6, <1>7 DEF DbOK
<1>9. AgreesNow(db)
  BY <1>6, <1>7 DEF AgreesNow, Agrees, IndexedInit, Init, ERC721Init
<1>10. Leads(db, log, db)
  BY <1>2, <1>8, LeadsNothing
<1>11. QED
  BY <1>1, <1>2, <1>3, <1>9, <1>10 DEF IndexInv, Follows

LEMMA StillAgrees ==
    ASSUME UNCHANGED vars, NEW d, AgreesNow(d), Fresh
    PROVE  AgreesNext(d) /\ Fresh'
BY DEF vars, AgreesNow, AgreesNext, Fresh, exists

LEMMA IndexFollows ==
    ASSUME Follows, IndexEvent
    PROVE  Follows' /\ KeepsProvenance(db, db')
<1>1. PICK d : Leads(db, log, d) /\ AgreesNow(d)
  BY DEF Follows
<1>2. db' = Handled(db, log[1][1], log[1][2]) /\ log' = Tail(log) /\ log # << >>
  BY DEF IndexEvent, Handled
<1>3. Leads(db', log', d) /\ KeepsProvenance(db, db')
  BY <1>1, <1>2, LeadsLess
<1>4. AgreesNext(d) /\ Fresh'
  BY <1>1, StillAgrees DEF IndexEvent, Follows
<1>5. QED
  BY <1>3, <1>4 DEF Follows, AgreesNow, AgreesNext

LEMMA SameFollows ==
    ASSUME Follows, UNCHANGED <<vars, log, db>>
    PROVE  Follows'
<1>1. PICK d : Leads(db, log, d) /\ AgreesNow(d)
  BY DEF Follows
<1>2. Leads(db', log', d)
  BY <1>1
<1>3. AgreesNext(d) /\ Fresh'
  BY <1>1, StillAgrees DEF Follows
<1>4. QED
  BY <1>2, <1>3 DEF Follows, AgreesNow, AgreesNext

LEMMA SameInvariant ==
    ASSUME IInv, UNCHANGED vars
    PROVE  IInv'
BY StepInvariant

LEMMA IndexStep ==
    ASSUME IndexInv, [IndexedNext]_composed
    PROVE  IndexInv' /\ KeepsProvenance(db, db')
<1>0. UNCHANGED db => KeepsProvenance(db, db')
  BY DEF KeepsProvenance
<1>1. CASE RegistryCall
  <2>1. Follows' /\ time' = time
    BY <1>1, CallFollows DEF IndexInv
  <2>2. QED
    BY <1>0, <1>1, <2>1, CallInvariant DEF IndexInv, RegistryCall
<1>2. CASE NextBlock /\ UNCHANGED <<vars, db>>
  <2>1. Follows' /\ time' \in Nat
    BY <1>2, SameFollows DEF NextBlock, IndexInv
  <2>2. QED
    BY <1>0, <1>2, <2>1, SameInvariant DEF IndexInv
<1>3. CASE IndexEvent
  <2>1. Follows' /\ KeepsProvenance(db, db')
    BY <1>3, IndexFollows DEF IndexInv
  <2>2. UNCHANGED <<vars, time>>
    BY <1>3 DEF IndexEvent
  <2>3. QED
    BY <2>1, <2>2, SameInvariant DEF IndexInv
<1>4. CASE UNCHANGED composed
  <2>1. UNCHANGED <<vars, time, log, db>>
    BY <1>4 DEF composed
  <2>2. QED
    BY <1>0, <2>1, SameFollows, SameInvariant DEF IndexInv
<1>5. QED
  BY <1>1, <1>2, <1>3, <1>4 DEF IndexedNext

\* The database that the events still in the log will have made shows what the
\* contract has now, however many those events are.
THEOREM IndexInvariance == IndexedSpec => []IndexInv
BY IndexInit, IndexStep, PTL DEF IndexedSpec

-----------------------------------------------------------------------------
(* Theorems. *)

\* graph-node never has to give up on the events of the registry, whatever they
\* are about and however far it is behind: no handler traps, and none saves a
\* record without the time of its creation.
THEOREM NeverStopsHolds == IndexedSpec => []NeverStops
<1>1. IndexInv => NeverStops
  <2> SUFFICES ASSUME IndexInv
               PROVE  NeverStops
    OBVIOUS
  <2>1. DbOK(db)
    BY LeadsOK DEF IndexInv, Follows
  <2>2. QED
    BY <2>1 DEF DbOK, NeverStops
<1>2. QED
  BY <1>1, IndexInvariance, PTL

LEMMA CaughtUpAgrees ==
    ASSUME IndexInv, CaughtUp
    PROVE  AgreesNow(db) /\ DbOK(db)
BY LeadsOK DEF IndexInv, Follows, CaughtUp

\* An index that has handled every event shows the owner, the lock, the metadata
\* and the royalty that the contract has, for exactly the records that exist.
THEOREM RecordsAgreeHolds == IndexedSpec => []RecordsAgree
<1>1. IndexInv => RecordsAgree
  <2> SUFFICES ASSUME IndexInv, CaughtUp, NEW t \in TokenId
               PROVE  /\ exists(t) <=> Indexed(t)
                      /\ exists(t) =>
                           /\ Shown(t).ownerAddress = tokenOwner[t]
                           /\ Shown(t).lockExternalTransfer = srrs[t].locked
                           /\ Shown(t).metadataDigest = srrs[t].metadata
                           /\ IF royalties[t].receiver = ZERO
                              THEN Shown(t).royaltyReceiver = Null
                              ELSE /\ Shown(t).royaltyReceiver = royalties[t].receiver
                                   /\ Shown(t).royaltyBasisPoints = royalties[t].basisPoints
    BY DEF RecordsAgree
  <2>1. AgreesNow(db)
    BY CaughtUpAgrees
  <2>2. QED
    BY <2>1 DEF AgreesNow, Agrees, ShowsRecord, Shows, exists, Indexed, Shown
<1>2. QED
  BY <1>1, IndexInvariance, PTL

\* It shows the issuer and the artist of every record whose issuer and artist are
\* licensed users.
THEOREM PeopleAgreeHolds == IndexedSpec => []PeopleAgree
<1>1. IndexInv => PeopleAgree
  <2> SUFFICES ASSUME IndexInv, CaughtUp, NEW t \in TokenId, exists(t)
               PROVE  /\ srrs[t].issuer \in LicensedUser => Shown(t).issuer = srrs[t].issuer
                      /\ srrs[t].artist \in LicensedUser => Shown(t).artist = srrs[t].artist
    BY DEF PeopleAgree
  <2>1. AgreesNow(db)
    BY CaughtUpAgrees
  <2>2. QED
    BY <2>1 DEF AgreesNow, Agrees, ShowsRecord, Shows, exists, Shown
<1>2. QED
  BY <1>1, IndexInvariance, PTL

\* A commitment that it shows as open is the one that the contract has, and the
\* record and its SRRTransferCommit show the same.
THEOREM OpenCommitmentIsLiveHolds == IndexedSpec => []OpenCommitmentIsLive
<1>1. IndexInv => OpenCommitmentIsLive
  <2> SUFFICES ASSUME IndexInv, CaughtUp, NEW t \in TokenId, exists(t)
               PROVE  /\ Shown(t).transferCommitment # Null
                           => Shown(t).transferCommitment = commitments[t].commitment
                      /\ IdOf(t) \in DOMAIN db["SRRTransferCommit"] =>
                           db["SRRTransferCommit"][IdOf(t)].commitment
                              = Shown(t).transferCommitment
    BY DEF OpenCommitmentIsLive
  <2>1. AgreesNow(db) /\ DbOK(db)
    BY CaughtUpAgrees
  <2>2. QED
    BY <2>1 DEF AgreesNow, Agrees, ShowsRecord, Shows, exists, Shown, DbOK
<1>2. QED
  BY <1>1, IndexInvariance, PTL

\* No event changes or removes a provenance that was recorded.
THEOREM ProvenanceIsFinalHolds == IndexedSpec => ProvenanceIsFinal
<1>1. IndexInv /\ [IndexedNext]_composed
        => [\A id \in DOMAIN db["SRRProvenance"] :
              /\ id \in DOMAIN db'["SRRProvenance"]
              /\ db'["SRRProvenance"][id] = db["SRRProvenance"][id]]_composed
  BY IndexStep DEF KeepsProvenance
<1>2. QED
  BY <1>1, IndexInvariance, PTL DEF IndexedSpec, ProvenanceIsFinal

-----------------------------------------------------------------------------
(* The order of the events in the log. *)

\* A Provenance follows no other, and is from whom the Transfer before it, if it
\* is of the same record, went to.
Fits(x, y) ==
    y[1].event = "Provenance" =>
        /\ x[1].event # "Provenance"
        /\ x[1].event = "Transfer" /\ x[1].tokenId = y[1].tokenId => y[1].from = x[1].to

Orderly(L) == \A i \in 1..Len(L) - 1 : Fits(L[i], L[i + 1])

\* The log does not end with a Provenance; a Transfer that it ends with is the
\* last of its record.
Ends(x, owners) ==
    /\ x[1].event # "Provenance"
    /\ x[1].event = "Transfer" => x[1].to = owners[x[1].tokenId]

InOrder(L, owners) == IsList(L) /\ Orderly(L) /\ (L # << >> => Ends(L[Len(L)], owners))

LEMMA AppendOrderly ==
    ASSUME NEW L, IsList(L), Orderly(L), NEW x, L # << >> => Fits(L[Len(L)], x)
    PROVE  IsList(Append(L, x)) /\ Orderly(Append(L, x))
<1> DEFINE M == Append(L, x)
           n == Len(L)
<1>1. /\ n \in Nat /\ IsList(M) /\ Len(M) = n + 1 /\ M[n + 1] = x
      /\ \A i \in 1..n : M[i] = L[i]
  BY ListFacts
<1>2. L # << >> \/ n = 0
  OBVIOUS
<1> HIDE DEF M
<1>3. ASSUME NEW i \in 1..Len(M) - 1
      PROVE  Fits(M[i], M[i + 1])
  <2>1. i \in 1..n /\ M[i] = L[i]
    BY <1>1
  <2>2. CASE i = n
    BY <1>1, <1>2, <2>1, <2>2
  <2>3. CASE i # n
    <3>1. i \in 1..n - 1 /\ i + 1 \in 1..n
      BY <1>1, <2>1, <2>3
    <3>2. M[i + 1] = L[i + 1]
      BY <1>1, <3>1
    <3>3. QED
      BY <2>1, <3>1, <3>2 DEF Orderly
  <2>4. QED
    BY <2>2, <2>3
<1>4. IsList(M) /\ Orderly(M)
  BY <1>1, <1>3 DEF Orderly
<1>5. QED
  BY <1>4 DEF M

\* An event that is no provenance is added at the end.
LEMMA AppendInOrder ==
    ASSUME NEW L, IsList(L), Orderly(L), NEW x, x[1].event # "Provenance", NEW owners,
           x[1].event = "Transfer" => x[1].to = owners[x[1].tokenId]
    PROVE  InOrder(Append(L, x), owners)
<1>1. IsList(Append(L, x)) /\ Orderly(Append(L, x))
  BY AppendOrderly DEF Fits
<1>2. Append(L, x)[Len(Append(L, x))] = x
  BY ListFacts
<1>3. QED
  BY <1>1, <1>2 DEF InOrder, Ends

LEMMA AppendPlain ==
    ASSUME NEW L, IsList(L), Orderly(L), NEW x, x[1].event # "Provenance"
    PROVE  IsList(Append(L, x)) /\ Orderly(Append(L, x))
BY AppendOrderly DEF Fits

LEMMA TailInOrder ==
    ASSUME NEW L, L # << >>, NEW owners, InOrder(L, owners)
    PROVE  InOrder(Tail(L), owners)
<1> DEFINE M == Tail(L)
           n == Len(L)
<1>1. /\ n \in Nat /\ n >= 1 /\ IsList(M) /\ Len(M) = n - 1
      /\ \A i \in 1..n - 1 : M[i] = L[i + 1]
  BY ListFacts DEF InOrder
<1> HIDE DEF M
<1>2. ASSUME NEW i \in 1..Len(M) - 1
      PROVE  Fits(M[i], M[i + 1])
  <2>1. i \in 1..n - 1 /\ i + 1 \in 1..n - 1
    BY <1>1
  <2>2. M[i] = L[i + 1] /\ M[i + 1] = L[i + 1 + 1]
    BY <1>1, <2>1
  <2>3. QED
    BY <2>1, <2>2 DEF InOrder, Orderly
<1>3. M # << >> => Ends(M[Len(M)], owners)
  <2>1. M # << >> => Len(M) >= 1
    BY <1>1, ListFacts
  <2>2. Len(M) >= 1 => M[n - 1] = L[n - 1 + 1] /\ n - 1 + 1 = n
    BY <1>1
  <2>3. QED
    BY <1>1, <2>1, <2>2 DEF InOrder
<1>4. InOrder(M, owners)
  BY <1>1, <1>2, <1>3 DEF InOrder, Orderly
<1>5. QED
  BY <1>4 DEF M

Plain(e) == e.event \notin {"Provenance", "Transfer"}

LEMMA OnePlain ==
    ASSUME InOrder(log, tokenOwner), NEW e, Plain(e), Emit(<<e>>)
    PROVE  InOrder(log', tokenOwner')
<1>1. log' = Append(log, At(e))
  BY EmitOne DEF InOrder
<1>2. At(e)[1] = e
  BY DEF At
<1>3. InOrder(Append(log, At(e)), tokenOwner')
  BY <1>2, AppendInOrder DEF InOrder, Plain
<1>4. QED
  BY <1>1, <1>3

LEMMA NonePlain ==
    ASSUME InOrder(log, tokenOwner), Emit(<< >>), UNCHANGED tokenOwner
    PROVE  InOrder(log', tokenOwner')
BY EmitNone DEF InOrder

LEMMA UpdateInOrder ==
    ASSUME InOrder(log, tokenOwner), NEW caller, NEW t, IndexedUpdate(caller, t)
    PROVE  InOrder(log', tokenOwner')
<1>1. ASSUME NEW artist, Emit(<<[artist |-> artist, event |-> "UpdateSRR",
                                 address |-> RegistryAddress, tokenId |-> t]>>)
      PROVE  InOrder(log', tokenOwner')
  <2> DEFINE e == [artist |-> artist, event |-> "UpdateSRR",
                   address |-> RegistryAddress, tokenId |-> t]
  <2>1. Plain(e) /\ Emit(<<e>>)
    BY <1>1 DEF Plain
  <2> HIDE DEF e
  <2>2. QED
    BY <2>1, OnePlain
<1>2. ASSUME NEW cid, Emit(<<[metadataDigest |-> cid, event |-> "UpdateSRRMetadataCID",
                              address |-> RegistryAddress, tokenId |-> t]>>)
      PROVE  InOrder(log', tokenOwner')
  <2> DEFINE e == [metadataDigest |-> cid, event |-> "UpdateSRRMetadataCID",
                   address |-> RegistryAddress, tokenId |-> t]
  <2>1. Plain(e) /\ Emit(<<e>>)
    BY <1>2 DEF Plain
  <2> HIDE DEF e
  <2>2. QED
    BY <2>1, OnePlain
<1>3. ASSUME NEW lock, Emit(<<[flag |-> lock, event |-> "LockExternalTransfer",
                               address |-> RegistryAddress, tokenId |-> t]>>)
      PROVE  InOrder(log', tokenOwner')
  <2> DEFINE e == [flag |-> lock, event |-> "LockExternalTransfer",
                   address |-> RegistryAddress, tokenId |-> t]
  <2>1. Plain(e) /\ Emit(<<e>>)
    BY <1>3 DEF Plain
  <2> HIDE DEF e
  <2>2. QED
    BY <2>1, OnePlain
<1>4. ASSUME NEW receiver, NEW basisPoints, updateSRRRoyalty(caller, t, receiver, basisPoints),
             Emit(IF royalties[t].receiver = ZERO THEN << >>
                  ELSE <<RoyaltiesSet(t, receiver, basisPoints)>>)
      PROVE  InOrder(log', tokenOwner')
  <2>1. UNCHANGED tokenOwner
    BY <1>4 DEF updateSRRRoyalty, erc721
  <2>2. Plain(RoyaltiesSet(t, receiver, basisPoints))
    BY DEF Plain, RoyaltiesSet
  <2>3. Emit(<< >>) \/ Emit(<<RoyaltiesSet(t, receiver, basisPoints)>>)
    BY <1>4
  <2>4. QED
    BY <2>1, <2>2, <2>3, OnePlain, NonePlain
<1>5. QED
  BY <1>1, <1>2, <1>3, <1>4 DEF IndexedUpdate

LEMMA ReceiverInOrder ==
    ASSUME InOrder(log, tokenOwner), NEW caller, NEW t, NEW receiver,
           IndexedRoyaltyReceiver(caller, t, receiver)
    PROVE  InOrder(log', tokenOwner')
<1>1. UNCHANGED tokenOwner
  BY DEF IndexedRoyaltyReceiver, updateSRRRoyaltyReceiverMulti, erc721
<1>2. Plain(RoyaltiesSet(t, receiver, royalties[t].basisPoints))
  BY DEF Plain, RoyaltiesSet
<1>3. Emit(<< >>) \/ Emit(<<RoyaltiesSet(t, receiver, royalties[t].basisPoints)>>)
  BY DEF IndexedRoyaltyReceiver
<1>4. QED
  BY <1>1, <1>2, <1>3, OnePlain, NonePlain

LEMMA CommitmentInOrder ==
    ASSUME InOrder(log, tokenOwner), NEW caller, NEW t, IndexedCommitment(caller, t)
    PROVE  InOrder(log', tokenOwner')
<1> DEFINE a == SRRCommitmentCancelled(t)
<1>1. Plain(a)
  BY DEF Plain, SRRCommitmentCancelled, Of
<1> HIDE DEF a
<1>2. CASE Emit(<<a>>)
  BY <1>1, <1>2, OnePlain
<1>3. ASSUME NEW commitment, NEW id, Emit(CommitEvents(t, commitment, id))
      PROVE  InOrder(log', tokenOwner')
  <2> DEFINE b == SRRCommitment(t, commitment, id)
  <2>1. Plain(b)
    BY DEF Plain, SRRCommitment
  <2> HIDE DEF b
  <2>2. << >> \o <<b>> = <<b>>
    <3>1. <<b>> \in Seq({b})
      OBVIOUS
    <3>2. QED
      BY <3>1, ConcatEmptySeq
  <2>3. <<a>> \o <<b>> = <<a, b>>
    BY Zenon, PairConcat
  <2>4. CommitEvents(t, commitment, id) \in {<<b>>, <<a, b>>}
    BY <2>2, <2>3 DEF CommitEvents, a, b
  <2>5. CASE Emit(<<b>>)
    BY <2>1, <2>5, OnePlain
  <2>6. CASE Emit(<<a, b>>)
    <3> DEFINE L == Append(log, At(a))
    <3>1. log' = Append(L, At(b))
      BY <2>6, EmitTwo DEF InOrder
    <3>2. At(a)[1] = a /\ At(b)[1] = b
      BY DEF At
    <3>3. IsList(L) /\ Orderly(L)
      BY <1>1, <3>2, AppendPlain DEF InOrder, Plain
    <3> HIDE DEF L
    <3>4. InOrder(Append(L, At(b)), tokenOwner')
      BY <2>1, <3>2, <3>3, AppendInOrder DEF Plain
    <3>5. QED
      BY <3>1, <3>4
  <2>7. QED
    BY <1>3, <2>4, <2>5, <2>6
<1>4. QED
  BY <1>2, <1>3 DEF IndexedCommitment, a

LEMMA HistoriesInOrder ==
    ASSUME InOrder(log, tokenOwner), IndexedHistories
    PROVE  InOrder(log', tokenOwner')
<1>1. PICK event \in {"CreateCustomHistoryType", "CreateCustomHistory", "UpdateCustomHistory"} :
          \E id, name : Emit(<<HistoryEvent(event, id, name)>>)
  BY DEF IndexedHistories
<1>2. PICK id, name : Emit(<<HistoryEvent(event, id, name)>>)
  BY <1>1
<1>3. Plain(HistoryEvent(event, id, name))
  BY DEF Plain, HistoryEvent
<1>4. QED
  BY <1>2, <1>3, OnePlain

LEMMA HistoryInOrder ==
    ASSUME InOrder(log, tokenOwner), NEW caller, NEW t, NEW id, addHistory(caller, t, id)
    PROVE  InOrder(log', tokenOwner')
<1> DEFINE e == [event |-> "History", address |-> RegistryAddress,
                 tokenIds |-> {t}, customHistoryIds |-> {id}]
<1>1. Plain(e) /\ Emit(<<e>>)
  BY DEF Plain, addHistory
<1> HIDE DEF e
<1>2. QED
  BY <1>1, OnePlain

LEMMA TransferInOrder ==
    ASSUME IInv, InOrder(log, tokenOwner), NEW caller, NEW t \in TokenId, IndexedTransfer(caller, t)
    PROVE  InOrder(log', tokenOwner')
<1>1. PICK from \in Account, to \in Address :
         transferFrom(caller, from, to, t) /\ Emit(<<Transfer(from, to, t)>>)
  BY DEF IndexedTransfer
<1>2. tokenOwner'[t] = to
  BY <1>1 DEF transferFrom, transfer, IInv, ERC721Inv, ERC721TypeOK
<1> DEFINE e == Transfer(from, to, t)
<1>3. e.event = "Transfer" /\ e.to = to /\ e.tokenId = t /\ Emit(<<e>>)
  BY <1>1 DEF Transfer
<1> HIDE DEF e
<1>4. log' = Append(log, At(e))
  BY <1>3, EmitOne DEF InOrder
<1>5. At(e)[1] = e
  BY DEF At
<1>6. InOrder(Append(log, At(e)), tokenOwner')
  BY <1>2, <1>3, <1>5, AppendInOrder DEF InOrder
<1>7. QED
  BY <1>4, <1>6

LEMMA ProvenanceInOrder ==
    ASSUME IInv, InOrder(log, tokenOwner), NEW caller \in Account, NEW t \in TokenId,
           IndexedProvenance(caller, t)
    PROVE  InOrder(log', tokenOwner')
<1>1. PICK to \in Address :
         /\ \/ \E reveal \in Reveal : transferSRRByReveal(to, reveal, t)
            \/ \E id \in HistoryId :
                  \/ transferFromWithProvenance(caller, to, t, id)
                  \/ transferFromWithProvenanceFromBulk(caller, to, t, id)
         /\ \E p \in emitted' : Emit(ProvenanceThenTransfer(p))
  BY DEF IndexedProvenance
<1>2. PICK p \in emitted' : Emit(ProvenanceThenTransfer(p))
  BY <1>1
<1>3. p.token = t /\ p.to = to /\ p.from = tokenOwner[t] /\ Moved(t, to)
  BY <1>1, <1>2, ProvenanceMoves
<1>4. tokenOwner'[t] = to
  BY <1>3 DEF Moved, IInv, ERC721Inv, ERC721TypeOK
<1> DEFINE a == ProvenanceEvent(p)
           b == Transfer(p.from, p.to, p.token)
           L == Append(log, At(a))
<1>5. /\ a.event = "Provenance" /\ a.tokenId = t /\ a.from = tokenOwner[t]
      /\ b.event = "Transfer" /\ b.tokenId = t /\ b.to = to /\ Emit(<<a, b>>)
  BY <1>2, <1>3 DEF ProvenanceEvent, Transfer, ProvenanceThenTransfer
<1> HIDE DEF a, b
<1>6. log' = Append(L, At(b))
  BY <1>5, EmitTwo DEF InOrder
<1>7. At(a)[1] = a /\ At(b)[1] = b
  BY DEF At
<1>8. log # << >> => Fits(log[Len(log)], At(a))
  BY <1>5, <1>7 DEF InOrder, Fits, Ends
<1>9. IsList(L) /\ Orderly(L)
  BY <1>8, AppendOrderly DEF InOrder
<1> HIDE DEF L
<1>10. InOrder(Append(L, At(b)), tokenOwner')
  BY <1>4, <1>5, <1>7, <1>9, AppendInOrder
<1>11. QED
  BY <1>6, <1>10

LEMMA IssueInOrder ==
    ASSUME IInv, InOrder(log, tokenOwner), NEW issuer \in Issuer, IndexedIssue(issuer)
    PROVE  InOrder(log', tokenOwner')
<1>1. PICK cid \in MetadataCID, artist \in Artist, lock \in BOOLEAN,
           to \in Address, receiver \in Receiver \union {ZERO}, basisPoints \in BasisPoints :
        /\ createSRR(issuer, cid, artist, lock, to, receiver, basisPoints)
        /\ Emit(IssueEvents(generate[<<cid, artist>>], issuer, cid, artist, lock, to,
                            receiver, basisPoints))
  BY DEF IndexedIssue
<1>2. PICK t \in TokenId : t = generate[<<cid, artist>>]
  BY InputFacts
<1> DEFINE events == IssueEvents(t, issuer, cid, artist, lock, to, receiver, basisPoints)
<1>3. Emit(events)
  BY <1>1, <1>2
<1>4. to # ZERO => tokenOwner'[t] = to
  BY <1>1, <1>2 DEF createSRR, mintAndTransfer, IInv, ERC721Inv, ERC721TypeOK
<1> HIDE DEF events
<1>5. PICK T, C, R, X : /\ T = Transfer(ZERO, issuer, t)
                        /\ C = CreateSRR(t, issuer, artist, cid, lock)
                        /\ R = RoyaltiesSet(t, receiver, basisPoints)
                        /\ X = Transfer(issuer, to, t)
  OBVIOUS
<1>6. /\ receiver = ZERO /\ to = ZERO => Emit(<<T, C>>)
      /\ receiver = ZERO /\ to # ZERO => Emit(<<T, C, X>>)
      /\ receiver # ZERO /\ to = ZERO => Emit(<<T, C, R>>)
      /\ receiver # ZERO /\ to # ZERO => Emit(<<T, C, R, X>>)
  BY <1>3, <1>5, IssueForms DEF events
<1>7. /\ T.event # "Provenance" /\ Plain(C) /\ Plain(R)
      /\ X.event = "Transfer" /\ X.tokenId = t /\ X.to = to
  BY <1>5 DEF Transfer, CreateSRR, RoyaltiesSet, Plain
<1>8. At(T)[1] = T /\ At(C)[1] = C /\ At(R)[1] = R /\ At(X)[1] = X
  BY DEF At
<1> DEFINE K == Append(log, At(T))
           L == Append(K, At(C))
           M == Append(L, At(R))
<1>9. IsList(K) /\ Orderly(K) /\ IsList(log)
  BY <1>7, <1>8, AppendPlain DEF InOrder
<1>10. CASE receiver = ZERO /\ to = ZERO
  <2>1. log' = L
    BY <1>6, <1>9, <1>10, EmitTwo
  <2> HIDE DEF K
  <2>2. InOrder(L, tokenOwner')
    BY <1>7, <1>8, <1>9, AppendInOrder DEF Plain
  <2>3. QED
    BY <2>1, <2>2
<1>11. IsList(L) /\ Orderly(L)
  <2> HIDE DEF K
  <2>1. QED
    BY <1>7, <1>8, <1>9, AppendPlain DEF Plain
<1>12. CASE receiver = ZERO /\ to # ZERO
  <2>1. log' = Append(L, At(X))
    BY <1>6, <1>9, <1>12, EmitThree
  <2> HIDE DEF L
  <2>2. InOrder(Append(L, At(X)), tokenOwner')
    BY <1>4, <1>7, <1>8, <1>11, <1>12, AppendInOrder
  <2>3. QED
    BY <2>1, <2>2
<1>13. CASE receiver # ZERO /\ to = ZERO
  <2>1. log' = M
    BY <1>6, <1>9, <1>13, EmitThree
  <2> HIDE DEF L
  <2>2. InOrder(M, tokenOwner')
    BY <1>7, <1>8, <1>11, AppendInOrder DEF Plain
  <2>3. QED
    BY <2>1, <2>2
<1>14. CASE receiver # ZERO /\ to # ZERO
  <2>1. log' = Append(M, At(X))
    BY <1>6, <1>9, <1>14, EmitFour
  <2> HIDE DEF L
  <2>2. IsList(M) /\ Orderly(M)
    BY <1>7, <1>8, <1>11, AppendPlain DEF Plain
  <2> HIDE DEF M
  <2>3. InOrder(Append(M, At(X)), tokenOwner')
    BY <1>4, <1>7, <1>8, <1>14, <2>2, AppendInOrder
  <2>4. QED
    BY <2>1, <2>3
<1>15. QED
  BY <1>10, <1>12, <1>13, <1>14

OrderInv == IndexInv /\ InOrder(log, tokenOwner)

LEMMA OrderStep ==
    ASSUME OrderInv, [IndexedNext]_composed
    PROVE  OrderInv'
<1>1. IInv /\ InOrder(log, tokenOwner) /\ IndexInv'
  BY IndexStep DEF OrderInv, IndexInv
<1>2. CASE RegistryCall
  BY <1>1, <1>2, IssueInOrder, UpdateInOrder, ReceiverInOrder, CommitmentInOrder,
     ProvenanceInOrder, TransferInOrder, HistoryInOrder, HistoriesInOrder
  DEF RegistryCall, OrderInv
<1>3. CASE NextBlock /\ UNCHANGED <<vars, db>>
  BY <1>1, <1>3 DEF NextBlock, vars, OrderInv
<1>4. CASE IndexEvent
  BY <1>1, <1>4, TailInOrder DEF IndexEvent, vars, OrderInv
<1>5. CASE UNCHANGED composed
  BY <1>1, <1>5 DEF composed, vars, OrderInv
<1>6. QED
  BY <1>2, <1>3, <1>4, <1>5 DEF IndexedNext

\* No provenance in the log directly follows another, and one that follows a
\* Transfer of its record announces the next transfer, not that one: it is from
\* whom that one went to.
THEOREM OrderInvariance == IndexedSpec => []OrderInv
<1>1. IndexedInit => OrderInv
  BY IndexInit, ListFacts DEF OrderInv, InOrder, Orderly, IndexedInit, ChainInit
<1>2. QED
  BY <1>1, OrderStep, PTL DEF IndexedSpec

\* A Provenance that makes an entity gives it its custom history; the Transfer
\* beside it comes later, and none comes between it and the events before it that
\* could make the entity first.
LEMMA ProvenanceIndexed ==
    ASSUME OrderInv, IndexEvent, log[1][1].event \in {"Provenance", "Transfer"},
           NEW id \in DOMAIN db'["SRRProvenance"] \ DOMAIN db["SRRProvenance"],
           log[1][1].from # log[1][1].to, NEW i \in DOMAIN log, i <= 2,
           log[i][1].event = "Provenance", log[i][1].tokenId = log[1][1].tokenId,
           log[i][1].from = log[1][1].from, log[i][1].to = log[1][1].to
    PROVE  db'["SRRProvenance"][id].customHistory = log[i][1].customHistory
<1> DEFINE e == log[1][1]
           ts == log[1][2]
<1>1. DbOK(db) /\ IsList(log)
  BY LeadsOK DEF OrderInv, IndexInv, Follows, InOrder
<1>2. i \in 1..Len(log) /\ Len(log) \in Nat
  BY <1>1 DEF IsList
<1>3. i = 1
  <2>1. SUFFICES ASSUME i = 2
                 PROVE  FALSE
    BY <1>2
  <2>2. 1 \in 1..Len(log) - 1
    BY <1>2, <2>1
  <2>3. Fits(log[1], log[2])
    BY <2>2 DEF OrderInv, InOrder, Orderly
  <2>4. QED
    BY <2>1, <2>3 DEF Fits
<1>4. db' = Handled(db, e, ts) /\ e.event = "Provenance"
  BY <1>3 DEF IndexEvent, Handled
<1> HIDE DEF e, ts
<1>5. db' = Index!handleSRRProvenance(db, e, Millis(ts))
  BY <1>4, Dispatch
<1>6. CASE Index!idOf(e) \in DOMAIN db["SRR"]
  <2>1. PICK d : d = db'
    OBVIOUS
  <2>2. Records(db, d, e.customHistory)
    BY <1>1, <1>5, <1>6, <2>1, ProvenanceHandled
  <2>3. QED
    BY <1>3, <2>1, <2>2 DEF Records, e
<1>7. CASE Index!idOf(e) \notin DOMAIN db["SRR"]
  BY <1>5, <1>7 DEF Index!handleSRRProvenance, Index!handleSRRProvenanceInternal,
                    Index!IfKnown, Index!Has
<1>8. QED
  BY <1>6, <1>7

\* A transfer by reveal or with provenance is indexed as the contract announced it.
THEOREM ProvenanceKeepsHistoryHolds == IndexedSpec => ProvenanceKeepsHistory
<1> DEFINE e == log[1][1]
           id == <<IdOf(e.tokenId), 1000 * log[1][2]>>
           announces(i) == /\ log[i][1].event = "Provenance" /\ log[i][1].tokenId = e.tokenId
                           /\ log[i][1].from = e.from /\ log[i][1].to = e.to
           A == log # << >> /\ db' # db /\ e.event \in {"Provenance", "Transfer"} =>
                  (id \in DOMAIN db'["SRRProvenance"] \ DOMAIN db["SRRProvenance"]
                      /\ e.from # e.to =>
                    \A i \in DOMAIN log : i <= 2 /\ announces(i) =>
                        db'["SRRProvenance"][id].customHistory = log[i][1].customHistory)
<1>1. ASSUME OrderInv, [IndexedNext]_composed, db' # db
      PROVE  IndexEvent
  BY <1>1 DEF IndexedNext, RegistryCall, composed
<1>2. OrderInv /\ [IndexedNext]_composed => A
  BY <1>1, ProvenanceIndexed
<1>3. ProvenanceKeepsHistory <=> [][A]_composed
  BY DEF ProvenanceKeepsHistory
<1>4. QED
  BY <1>2, <1>3, OrderInvariance, PTL DEF IndexedSpec
=============================================================================
