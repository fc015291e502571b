-------------------------- MODULE Collection_proofs --------------------------
(***************************************************************************)
(* Proofs about a collection, for any accounts, tokens and histories: its  *)
(* balances count its tokens, although LibERC721Storage moves tokens       *)
(* without looking at who has them; a locked record moves only with its    *)
(* provenance announced; and the index of the collection, however far      *)
(* behind, ends up showing what the contract has.                          *)
(*                                                                         *)
(* As with the registry, a handler reads nothing but the database and its  *)
(* event, so that the databases which the events in the log will make are  *)
(* determined already; the invariant is about the last of them.            *)
(***************************************************************************)
EXTENDS IndexedCollection, SequenceFacts

Owned(owner, a) == {t \in TokenId : owner[t] = a}

IInv ==
    /\ collectionOwner \in Address
    /\ ownerOf \in [TokenId -> Address]
    /\ balanceOf \in [Account -> Nat]
    /\ BalancesCountTokens
    /\ IsList(log)

-----------------------------------------------------------------------------
(* Events. *)

LEMMA ShortLists ==
    /\ IsList(<< >>)
    /\ \A x : IsList(<<x>>)
    /\ \A x, y : IsList(<<x, y>>)
<1>1. IsList(<< >>)
  <2>1. << >> \in Seq({})
    OBVIOUS
  <2>2. QED
    BY <2>1 DEF IsList
<1>2. ASSUME NEW x PROVE IsList(<<x>>)
  <2>1. <<x>> \in Seq({x})
    OBVIOUS
  <2>2. QED
    BY <2>1 DEF IsList
<1>3. ASSUME NEW x, NEW y PROVE IsList(<<x, y>>)
  <2>1. <<x, y>> \in Seq({x, y})
    OBVIOUS
  <2>2. QED
    BY <2>1 DEF IsList
<1>4. QED
  BY <1>1, <1>2, <1>3

LEMMA ConcatTail ==
    ASSUME NEW s, NEW u, IsList(s), IsList(u)
    PROVE  /\ IsList(s \o u)
           /\ Len(s) \in Nat /\ Len(u) \in Nat
           /\ Len(s \o u) = Len(s) + Len(u)
           /\ \A i \in 1..Len(u) : (s \o u)[Len(s) + i] = u[i]
<1>1. PICK S : s \in Seq(S)
  BY DEF IsList
<1>2. PICK U : u \in Seq(U)
  BY DEF IsList
<1>3. s \in Seq(S \union U) /\ u \in Seq(S \union U)
  BY <1>1, <1>2, SeqMonotonic
<1>4. s \o u \in Seq(S \union U) /\ Len(s \o u) = Len(s) + Len(u)
  BY <1>3, ConcatProperties
<1>5. Len(s) \in Nat /\ Len(u) \in Nat
  BY <1>3, LenProperties
<1>6. \A i \in 1..Len(u) : (s \o u)[Len(s) + i] = u[i]
  BY <1>3, <1>5, ConcatProperties
<1>7. QED
  BY <1>4, <1>5, <1>6 DEF IsList

\* What Emit adds to the log.
LEMMA EmitAppends ==
    ASSUME IsList(log), NEW events, IsList(events), Emit(events)
    PROVE  /\ IsList(log')
           /\ Len(log) \in Nat /\ Len(events) \in Nat
           /\ Len(log') = Len(log) + Len(events)
           /\ \A k \in 1..Len(events) : log'[Len(log) + k][1] = events[k]
<1> DEFINE dated == [i \in 1..Len(events) |-> <<events[i], time>>]
<1>1. PICK S : events \in Seq(S)
  BY DEF IsList
<1>2. Len(events) \in Nat /\ \A i \in 1..Len(events) : events[i] \in S
  BY <1>1, LenProperties, ElementOfSeq
<1>3. dated \in [1..Len(events) -> S \X {time}]
  BY <1>2
<1>4. dated \in Seq(S \X {time}) /\ Len(dated) = Len(events)
  BY <1>2, <1>3, IsASeq, LenProperties
<1>5. IsList(dated)
  BY <1>4 DEF IsList
<1>6. \A i \in 1..Len(events) : dated[i][1] = events[i]
  OBVIOUS
<1>7. log' = log \o dated
  BY DEF Emit
<1> HIDE DEF dated
<1>8. QED
  BY <1>4, <1>5, <1>6, <1>7, ConcatTail

-----------------------------------------------------------------------------
(* Balances. *)

LEMMA OwnedFinite ==
    ASSUME NEW owner, NEW a
    PROVE  IsFiniteSet(Owned(owner, a)) /\ Cardinality(Owned(owner, a)) \in Nat
BY CollectionAssumption, FS_Subset, FS_CardinalityType DEF Owned

\* A token that changes hands counts for the one who gets it instead of the one
\* who had it.
Counts(owner, t, to, a, moved) ==
    Cardinality(Owned(moved, a))
       = Cardinality(Owned(owner, a)) - (IF owner[t] = a THEN 1 ELSE 0)
         + (IF to = a THEN 1 ELSE 0)

LEMMA OwnedAfter ==
    ASSUME NEW owner \in [TokenId -> Address], NEW t \in TokenId, NEW to \in Address,
           NEW a \in Address, NEW moved, moved = [owner EXCEPT ![t] = to]
    PROVE  Counts(owner, t, to, a, moved)
<1> DEFINE before == Owned(owner, a)
           after == Owned(moved, a)
<1>1. IsFiniteSet(before) /\ Cardinality(before) \in Nat
  BY OwnedFinite
<1>2. t \in before <=> owner[t] = a
  BY DEF Owned
<1>3. CASE to = a
  <2>1. after = before \union {t}
    BY <1>3 DEF Owned
  <2> HIDE DEF before, after
  <2>2. Cardinality(before \union {t})
           = IF t \in before THEN Cardinality(before) ELSE Cardinality(before) + 1
    BY <1>1, FS_AddElement
  <2>3. Cardinality(after) = Cardinality(before) - (IF owner[t] = a THEN 1 ELSE 0) + 1
    BY <1>1, <1>2, <2>1, <2>2
  <2>4. QED
    BY <1>3, <2>3 DEF before, after, Counts
<1>4. CASE to # a
  <2>1. after = before \ {t}
    BY <1>4 DEF Owned
  <2> HIDE DEF before, after
  <2>2. Cardinality(before \ {t})
           = IF t \in before THEN Cardinality(before) - 1 ELSE Cardinality(before)
    BY <1>1, FS_RemoveElement
  <2>3. Cardinality(after) = Cardinality(before) - (IF owner[t] = a THEN 1 ELSE 0) + 0
    BY <1>1, <1>2, <2>1, <2>2
  <2>4. QED
    BY <1>4, <2>3 DEF before, after, Counts
<1>5. QED
  BY <1>3, <1>4

\* What a step does to the tokens: the owner of t, if it is an account, loses it, and
\* `to`, if it is one, gets it.
Moves(t, to) ==
    /\ ownerOf' = [ownerOf EXCEPT ![t] = to]
    /\ balanceOf' \in [Account -> Int]
    /\ \A a \in Account : balanceOf'[a]
          = balanceOf[a] - (IF a = ownerOf[t] THEN 1 ELSE 0) + (IF a = to THEN 1 ELSE 0)

LEMMA MovesKeepsBalances ==
    ASSUME IInv, NEW t \in TokenId, NEW to \in Address, Moves(t, to)
    PROVE  /\ ownerOf' \in [TokenId -> Address]
           /\ balanceOf' \in [Account -> Nat]
           /\ BalancesCountTokens'
<1>1. ownerOf \in [TokenId -> Address] /\ Account \subseteq Address
  BY DEF IInv, Address
<1>2. ownerOf' = [ownerOf EXCEPT ![t] = to]
  BY DEF Moves
<1>3. ASSUME NEW a \in Account
      PROVE  /\ balanceOf'[a] = Cardinality(Owned(ownerOf', a))
             /\ balanceOf'[a] \in Nat
  <2>1. balanceOf[a] = Cardinality(Owned(ownerOf, a))
    BY DEF IInv, BalancesCountTokens, Owned
  <2>2. Counts(ownerOf, t, to, a, ownerOf')
    BY <1>1, <1>2, OwnedAfter
  <2>3. Cardinality(Owned(ownerOf', a)) = Cardinality(Owned(ownerOf, a))
           - (IF ownerOf[t] = a THEN 1 ELSE 0) + (IF to = a THEN 1 ELSE 0)
    BY <2>2 DEF Counts
  <2>4. balanceOf'[a] = balanceOf[a]
           - (IF a = ownerOf[t] THEN 1 ELSE 0) + (IF a = to THEN 1 ELSE 0)
    BY DEF Moves
  <2>5. Cardinality(Owned(ownerOf', a)) \in Nat
    BY OwnedFinite
  <2>6. QED
    BY <2>1, <2>3, <2>4, <2>5
<1>4. BalancesCountTokens'
  BY <1>3 DEF BalancesCountTokens, Owned
<1>5. ownerOf' \in [TokenId -> Address]
  BY <1>1, <1>2
<1>6. QED
  BY <1>3, <1>4, <1>5 DEF Moves

LEMMA TransferMoves ==
    ASSUME IInv, NEW t \in TokenId, NEW to, _transferFrom(ownerOf[t], to, t)
    PROVE  Moves(t, to)
BY DEF IInv, _transferFrom, Moves

LEMMA MintMoves ==
    ASSUME IInv, NEW t \in TokenId, ~exists(t), NEW issuer \in Account, NEW to \in Address,
           MintAndTransfer(issuer, to, t)
    PROVE  \E owner \in Address : Moves(t, owner)
<1> DEFINE owner == IF to = ZERO THEN issuer ELSE to
<1>1. owner \in Account /\ owner \in Address /\ ownerOf[t] = ZERO /\ ZERO \notin Account
  BY CollectionAssumption DEF Address, exists
<1>2. balanceOf' = [balanceOf EXCEPT ![owner] = @ + 1] /\ ownerOf' = [ownerOf EXCEPT ![t] = owner]
  BY DEF MintAndTransfer
<1> HIDE DEF owner
<1>3. Moves(t, owner)
  BY <1>1, <1>2 DEF IInv, Moves
<1>4. QED
  BY <1>1, <1>3

-----------------------------------------------------------------------------
(* Operations: what each kind of step keeps, and that it respects the lock. *)

LockRespected ==
    \A t \in TokenId :
        tokenIdToLockFlag[t] /\ exists(t) /\ ownerOf'[t] # ownerOf[t] =>
            \E i \in Len(log) + 1..Len(log') :
                LET e == log'[i][1]
                IN  /\ e.event = "Provenance" /\ e.tokenId = t
                    /\ e.from = ownerOf[t] /\ e.to = ownerOf'[t]

Fine == IInv' /\ LockRespected

\* Operations that leave the tokens alone.
LEMMA QuietIsFine ==
    ASSUME IInv, UNCHANGED <<ownerOf, balanceOf>>, collectionOwner' \in Address, IsList(log')
    PROVE  Fine
BY DEF Fine, IInv, LockRespected, BalancesCountTokens

LEMMA CreateIsFine ==
    ASSUME IInv, NEW issuer \in Account, NEW cid \in MetadataCID, NEW artist \in Artist,
           NEW lock \in BOOLEAN, NEW to \in Address, NEW royalty,
           createSRR(issuer, cid, artist, lock, to, royalty)
    PROVE  Fine
<1> DEFINE t == generate[<<cid, artist>>]
           royaltyEvents == IF royalty.receiver = ZERO THEN << >> ELSE <<RoyaltiesSet(t, royalty)>>
           transferEvents == IF to = ZERO THEN << >> ELSE <<Transfer(issuer, to, t)>>
           events == CreationEvents(t, issuer, cid, artist, lock, to, royalty)
<1>1. t \in TokenId
  BY CollectionAssumption
<1>2. /\ ~exists(t) /\ MintAndTransfer(issuer, to, t) /\ Emit(events)
      /\ collectionOwner' = collectionOwner
  <2>1. ~exists(t) /\ MintAndTransfer(issuer, to, t)
    BY DEF createSRR
  <2>2. Emit(events)
    BY DEF createSRR
  <2>3. collectionOwner' = collectionOwner
    BY DEF createSRR
  <2>4. QED
    BY <2>1, <2>2, <2>3
<1>3. IsList(royaltyEvents) /\ IsList(transferEvents)
  BY ShortLists
<1>4. IsList(<<Transfer(ZERO, issuer, t), CreateSRR(t, issuer, artist, cid, lock)>>)
  BY ShortLists
<1> DEFINE created == <<Transfer(ZERO, issuer, t), CreateSRR(t, issuer, artist, cid, lock)>>
<1>5. IsList(events)
  <2>1. events = created \o royaltyEvents \o transferEvents
    BY DEF CreationEvents
  <2> HIDE DEF t, created, royaltyEvents, transferEvents, events
  <2>2. IsList(created \o royaltyEvents)
    BY <1>3, <1>4, ConcatTail DEF created
  <2>3. QED
    BY <1>3, <2>1, <2>2, ConcatTail
<1> HIDE DEF t, created, royaltyEvents, transferEvents
<1> HIDE DEF events
<1>6. IsList(log')
  BY <1>2, <1>5, EmitAppends DEF IInv
<1>7. PICK owner \in Address : Moves(t, owner)
  BY <1>1, <1>2, MintMoves
<1>8. IInv'
  BY <1>1, <1>2, <1>6, <1>7, MovesKeepsBalances DEF IInv
<1>9. LockRespected
  BY <1>1, <1>2, <1>7 DEF LockRespected, Moves, IInv, exists
<1>10. QED
  BY <1>8, <1>9 DEF Fine

\* A transfer by reveal or with provenance, by whomever.
LEMMA AnnouncedIsFine ==
    ASSUME IInv, NEW t \in TokenId, NEW to \in Address, NEW id, NEW sender,
           _transferFrom(ownerOf[t], to, t), UNCHANGED collectionOwner,
           Emit(<<Provenance(t, ownerOf[t], to, id, sender), Transfer(ownerOf[t], to, t)>>)
    PROVE  Fine
<1> DEFINE p == Provenance(t, ownerOf[t], to, id, sender)
           events == <<p, Transfer(ownerOf[t], to, t)>>
<1>1. IsList(events) /\ Len(events) = 2 /\ events[1] = p
  BY ShortLists
<1>2. p.event = "Provenance" /\ p.tokenId = t /\ p.from = ownerOf[t] /\ p.to = to
  BY DEF Provenance
<1>3. Emit(events) /\ IsList(log)
  BY DEF IInv
<1> HIDE DEF p, events
<1>4. /\ IsList(log') /\ Len(log) \in Nat /\ Len(log') = Len(log) + 2
      /\ log'[Len(log) + 1][1] = p
  <2>1. 1 \in 1..Len(events)
    BY <1>1
  <2>2. /\ IsList(log') /\ Len(log) \in Nat /\ Len(log') = Len(log) + Len(events)
        /\ \A k \in 1..Len(events) : log'[Len(log) + k][1] = events[k]
    BY <1>1, <1>3, EmitAppends
  <2>3. log'[Len(log) + 1][1] = events[1]
    BY <2>1, <2>2
  <2>4. QED
    BY <1>1, <2>2, <2>3
<1>5. Moves(t, to)
  BY TransferMoves
<1>6. IInv'
  BY <1>4, <1>5, MovesKeepsBalances DEF IInv
<1>7. ownerOf' = [ownerOf EXCEPT ![t] = to] /\ ownerOf \in [TokenId -> Address]
  BY <1>5 DEF Moves, IInv
<1>8. ASSUME NEW u \in TokenId, ownerOf'[u] # ownerOf[u]
      PROVE  \E i \in Len(log) + 1..Len(log') :
                LET e == log'[i][1]
                IN  /\ e.event = "Provenance" /\ e.tokenId = u
                    /\ e.from = ownerOf[u] /\ e.to = ownerOf'[u]
  <2>1. u = t /\ ownerOf'[u] = to
    BY <1>7, <1>8
  <2>2. Len(log) + 1 \in Len(log) + 1..Len(log')
    BY <1>4
  <2>3. QED
    BY <1>2, <1>4, <2>1, <2>2
<1>9. LockRespected
  BY <1>8 DEF LockRespected
<1>10. QED
  BY <1>6, <1>9 DEF Fine

\* A plain transfer of a record that is not locked.
LEMMA TransferIsFine ==
    ASSUME IInv, NEW caller, NEW from, NEW to \in Address, NEW t \in TokenId,
           transferFrom(caller, from, to, t)
    PROVE  Fine
<1>1. /\ ~tokenIdToLockFlag[t] /\ _transferFrom(ownerOf[t], to, t)
      /\ Emit(<<Transfer(from, to, t)>>) /\ collectionOwner' = collectionOwner
  BY DEF transferFrom
<1>2. IsList(log')
  BY <1>1, ShortLists, EmitAppends DEF IInv
<1>3. Moves(t, to)
  BY <1>1, TransferMoves
<1>4. IInv'
  BY <1>1, <1>2, <1>3, MovesKeepsBalances DEF IInv
<1>5. LockRespected
  BY <1>1, <1>3 DEF LockRespected, Moves, IInv
<1>6. QED
  BY <1>4, <1>5 DEF Fine

-----------------------------------------------------------------------------

LEMMA InitHolds == IndexedInit => IInv
<1> SUFFICES ASSUME IndexedInit PROVE IInv
  OBVIOUS
<1>1. /\ collectionOwner = ZERO /\ log = << >>
      /\ ownerOf = [t \in TokenId |-> ZERO] /\ balanceOf = [a \in Account |-> 0]
  BY DEF IndexedInit, CollectionInit, ChainInit
<1>2. ASSUME NEW a \in Account PROVE Cardinality({t \in TokenId : ownerOf[t] = a}) = 0
  <2>1. {t \in TokenId : ownerOf[t] = a} = {}
    BY <1>1, CollectionAssumption
  <2>2. QED
    BY <2>1, FS_EmptySet
<1>3. BalancesCountTokens
  BY <1>1, <1>2 DEF BalancesCountTokens
<1>4. QED
  BY <1>1, <1>3, ShortLists DEF IInv, Address

LEMMA UpdateIsFine ==
    ASSUME IInv, NEW caller \in Account, NEW t \in TokenId, Update(caller, t)
    PROVE  Fine
<1> DEFINE Quietly == /\ UNCHANGED <<ownerOf, balanceOf, collectionOwner>>
                      /\ \E x : Emit(<<x>>)
<1>1. ASSUME NEW artist, updateSRR(caller, t, artist) PROVE Quietly
  BY <1>1 DEF updateSRR, erc721
<1>2. ASSUME NEW cid, updateSRRMetadata(caller, t, cid) PROVE Quietly
  BY <1>2 DEF updateSRRMetadata, erc721
<1>3. ASSUME NEW flag, setLockExternalTransfer(caller, t, flag) PROVE Quietly
  BY <1>3 DEF setLockExternalTransfer, erc721
<1>4. ASSUME NEW royalty, updateSRRRoyalty(caller, t, royalty) PROVE Quietly
  BY <1>4 DEF updateSRRRoyalty, erc721
<1>5. ASSUME NEW id, addHistory(caller, t, id) PROVE Quietly
  BY <1>5 DEF addHistory, collection
<1> HIDE DEF Quietly
<1>6. Quietly
  BY <1>1, <1>2, <1>3, <1>4, <1>5 DEF Update
<1>7. UNCHANGED <<ownerOf, balanceOf, collectionOwner>>
  BY <1>6 DEF Quietly
<1>8. PICK x : Emit(<<x>>)
  BY <1>6 DEF Quietly
<1>9. IsList(log')
  BY <1>8, ShortLists, EmitAppends DEF IInv
<1>10. QED
  BY <1>7, <1>9, QuietIsFine DEF IInv

LEMMA ApproveByCommitmentIsFine ==
    ASSUME IInv, NEW caller, NEW t, NEW commitment, NEW id,
           approveSRRByCommitment(caller, t, commitment, id)
    PROVE  Fine
<1> DEFINE cancelled == IF approvals[t].commitment = NoCommitment THEN << >>
                        ELSE <<By("SRRCommitmentCancelled", t, caller)>>
           given == <<SRRCommitment(t, commitment, id, caller)>>
<1>1. IsList(cancelled) /\ IsList(given)
  BY ShortLists
<1>2. Emit(cancelled \o given) /\ UNCHANGED <<ownerOf, balanceOf, collectionOwner>>
  BY DEF approveSRRByCommitment, erc721
<1> HIDE DEF cancelled, given
<1>3. IsList(cancelled \o given)
  BY <1>1, ConcatTail
<1>4. IsList(log')
  BY <1>2, <1>3, EmitAppends DEF IInv
<1>5. QED
  BY <1>2, <1>4, QuietIsFine DEF IInv

LEMMA MoveIsFine ==
    ASSUME IInv, NEW caller \in Account, NEW t \in TokenId, Move(caller, t)
    PROVE  Fine
<1>1. ASSUME NEW commitment, NEW id, approveSRRByCommitment(caller, t, commitment, id)
      PROVE  Fine
  BY <1>1, ApproveByCommitmentIsFine
<1>2. CASE cancelSRRCommitment(caller, t)
  <2>1. /\ Emit(<<By("SRRCommitmentCancelled", t, caller)>>)
        /\ UNCHANGED <<ownerOf, balanceOf, collectionOwner>>
    BY <1>2 DEF cancelSRRCommitment, erc721
  <2>2. IsList(log')
    BY <2>1, ShortLists, EmitAppends DEF IInv
  <2>3. QED
    BY <2>1, <2>2, QuietIsFine DEF IInv
<1>3. ASSUME NEW to \in Address, NEW reveal \in Reveal, transferSRRByReveal(to, reveal, t)
      PROVE  Fine
  BY <1>3, AnnouncedIsFine DEF transferSRRByReveal
<1>4. ASSUME NEW to \in Address, NEW id, transferFromWithProvenance(caller, to, t, id)
      PROVE  Fine
  BY <1>4, AnnouncedIsFine DEF transferFromWithProvenance
<1>5. ASSUME NEW from, NEW to \in Address, transferFrom(caller, from, to, t)
      PROVE  Fine
  BY <1>5, TransferIsFine
<1>6. ASSUME NEW spender, approve(caller, spender, t) PROVE Fine
  <2>1. Emit(<< >>) /\ UNCHANGED <<ownerOf, balanceOf, collectionOwner>>
    BY <1>6 DEF approve
  <2>2. IsList(log')
    BY <2>1, ShortLists, EmitAppends DEF IInv
  <2>3. QED
    BY <2>1, <2>2, QuietIsFine DEF IInv
<1>7. QED
  BY <1>1, <1>2, <1>3, <1>4, <1>5, <1>6 DEF Move

LEMMA OwnershipIsFine ==
    ASSUME IInv, \/ createCollectionContract
                 \/ \E caller \in Account, newOwner \in Account :
                       transferOwnership(caller, newOwner)
    PROVE  Fine
<1>1. collectionOwner' \in Address /\ UNCHANGED <<ownerOf, balanceOf>>
  BY CollectionAssumption DEF createCollectionContract, transferOwnership, erc721, Address
<1>2. \E x : Emit(<<x>>)
  BY DEF createCollectionContract, transferOwnership
<1>3. IsList(log')
  BY <1>2, ShortLists, EmitAppends DEF IInv
<1>4. QED
  BY <1>1, <1>3, QuietIsFine

LEMMA NextIsFine == IInv /\ [IndexedNext]_composed => Fine
<1> SUFFICES ASSUME IInv, [IndexedNext]_composed PROVE Fine
  OBVIOUS
<1>1. ASSUME NEW issuer \in Account, Issue(issuer) PROVE Fine
  BY <1>1, CreateIsFine DEF Issue
<1>2. CASE CollectionCall
  BY <1>1, <1>2, OwnershipIsFine, UpdateIsFine, MoveIsFine DEF CollectionCall
<1>3. CASE NextBlock /\ UNCHANGED <<collection, db>>
  BY <1>3, QuietIsFine DEF NextBlock, collection, IInv
<1>4. CASE IndexEvent
  <2>1. IsList(log')
    BY <1>4, HeadTailProperties DEF IndexEvent, IInv, IsList
  <2>2. QED
    BY <1>4, <2>1, QuietIsFine DEF IndexEvent, collection, IInv
<1>5. CASE UNCHANGED composed
  BY <1>5, QuietIsFine DEF composed, collection, IInv
<1>6. QED
  BY <1>2, <1>3, <1>4, <1>5 DEF IndexedNext

LEMMA Invariance == IndexedSpec => []IInv
BY InitHolds, NextIsFine, PTL DEF IndexedSpec, Fine

\* An owner's balance is the number of records it owns, on every route by which a
\* record of a collection changes hands, to and from the zero address too.
THEOREM BalancesCountTokensHolds == IndexedSpec => []BalancesCountTokens
<1>1. IInv => BalancesCountTokens
  BY DEF IInv
<1>2. QED
  BY <1>1, Invariance, PTL

\* A locked record changes hands only in a call that announces its provenance truly
\* (transferSRRByReveal, transferFromWithProvenance and its bulk form).
THEOREM LockedMovesWithProvenanceHolds == IndexedSpec => LockedMovesWithProvenance
<1>1. IInv /\ [IndexedNext]_composed =>
        [\A t \in TokenId :
          tokenIdToLockFlag[t] /\ exists(t) /\ ownerOf'[t] # ownerOf[t] =>
            \E i \in Len(log) + 1..Len(log') :
                LET e == log'[i][1]
                IN  /\ e.event = "Provenance" /\ e.tokenId = t
                    /\ e.from = ownerOf[t] /\ e.to = ownerOf'[t]]_composed
  BY NextIsFine DEF Fine, LockRespected
<1>2. QED
  BY <1>1, Invariance, PTL DEF IndexedSpec, LockedMovesWithProvenance

-----------------------------------------------------------------------------
(* What the events still in the log will make of the index. *)

\* What handling an entry of the log makes of a database.
Handled(d, x) == Index!HandleCollectionEvent(d, x[1], x[2])

Replays(S, d, L, later) ==
    /\ S[0] = d /\ S[Len(L)] = later
    /\ \A i \in 1..Len(L) : S[i] = Handled(S[i - 1], L[i])

\* The entries of the list make later out of d.
Leads(d, L, later) == IsList(L) /\ \E S : Replays(S, d, L, later)

LEMMA LeadsNothing ==
    ASSUME NEW d
    PROVE  Leads(d, << >>, d)
<1> DEFINE S == [i \in {0} |-> d]
<1>1. S[0] = d
  OBVIOUS
<1> HIDE DEF S
<1>2. Replays(S, d, << >>, d)
  BY <1>1 DEF Replays
<1>3. QED
  BY <1>2, ListFacts DEF Leads

LEMMA LeadsEmpty ==
    ASSUME NEW d, NEW later, Leads(d, << >>, later)
    PROVE  later = d
BY DEF Leads, Replays

LEMMA LeadsOnce ==
    ASSUME NEW d, NEW x
    PROVE  Leads(d, <<x>>, Handled(d, x))
<1> DEFINE S == [i \in 0..1 |-> IF i = 0 THEN d ELSE Handled(d, x)]
           L == <<x>>
<1>1. S[0] = d /\ S[1] = Handled(d, x)
  OBVIOUS
<1>2. L \in Seq({x}) /\ Len(L) = 1 /\ L[1] = x
  OBVIOUS
<1> HIDE DEF S, L
<1>3. \A i \in 1..1 : i = 1 /\ i - 1 = 0
  OBVIOUS
<1>4. Replays(S, d, L, Handled(d, x))
  BY <1>1, <1>2, <1>3 DEF Replays
<1>5. Leads(d, L, Handled(d, x))
  BY <1>2, <1>4 DEF Leads, IsList
<1>6. QED
  BY <1>5 DEF L

LEMMA LeadsMore ==
    ASSUME NEW d, NEW L, NEW mid, Leads(d, L, mid), NEW M, NEW later, Leads(mid, M, later)
    PROVE  Leads(d, L \o M, later)
<1>1. PICK S : Replays(S, d, L, mid)
  BY DEF Leads
<1>2. PICK R : Replays(R, mid, M, later)
  BY DEF Leads
<1> DEFINE n == Len(L)
           m == Len(M)
           N == L \o M
           T == [i \in 0..n + m |-> IF i \in 0..n THEN S[i] ELSE R[i - n]]
<1>3. n \in Nat /\ m \in Nat
  BY ListFacts DEF Leads
<1>4. /\ IsList(N) /\ Len(N) = n + m
      /\ \A i \in 1..n : N[i] = L[i]
      /\ \A i \in n + 1..n + m : N[i] = M[i - n]
  BY ConcatFacts DEF Leads
<1>5. S[n] = mid /\ R[0] = mid /\ R[m] = later /\ S[0] = d
  BY <1>1, <1>2 DEF Replays
<1>6. /\ \A i \in 0..n : T[i] = S[i]
      /\ \A i \in n..n + m : T[i] = R[i - n]
  <2>1. ASSUME NEW i \in 0..n PROVE T[i] = S[i]
    BY <1>3
  <2>2. ASSUME NEW i \in n..n + m PROVE T[i] = R[i - n]
    <3>1. CASE i = n
      BY <1>3, <1>5, <3>1
    <3>2. CASE i # n
      BY <1>3, <3>2
    <3>3. QED
      BY <3>1, <3>2
  <2>3. QED
    BY <2>1, <2>2
<1> HIDE DEF T, N
<1>7. T[0] = d /\ T[n + m] = later
  BY <1>3, <1>5, <1>6
<1>8. ASSUME NEW i \in 1..n + m
      PROVE  T[i] = Handled(T[i - 1], N[i])
  <2>1. CASE i \in 1..n
    <3>1. T[i - 1] = S[i - 1] /\ T[i] = S[i] /\ N[i] = L[i]
      BY <1>3, <1>4, <1>6, <2>1
    <3>2. QED
      BY <1>1, <2>1, <3>1 DEF Replays
  <2>2. CASE i \in n + 1..n + m
    <3>1. /\ i - n \in 1..m /\ i \in n..n + m /\ i - 1 \in n..n + m
          /\ (i - 1) - n = (i - n) - 1
      BY <1>3, <2>2
    <3>2. T[i - 1] = R[(i - n) - 1] /\ T[i] = R[i - n] /\ N[i] = M[i - n]
      BY <1>4, <1>6, <2>2, <3>1
    <3>3. R[i - n] = Handled(R[(i - n) - 1], M[i - n])
      BY <1>2, <3>1 DEF Replays
    <3>4. QED
      BY <3>2, <3>3
  <2>3. QED
    BY <1>3, <2>1, <2>2
<1>9. Replays(T, d, N, later)
  BY <1>4, <1>7, <1>8 DEF Replays
<1>10. QED
  BY <1>4, <1>9 DEF Leads, N

LEMMA LeadsLess ==
    ASSUME NEW d, NEW L, NEW later, Leads(d, L, later), L # << >>
    PROVE  Leads(Handled(d, L[1]), Tail(L), later)
<1>1. PICK S : Replays(S, d, L, later)
  BY DEF Leads
<1> DEFINE n == Len(L)
           M == Tail(L)
           T == [i \in 0..n - 1 |-> S[i + 1]]
<1>2. n \in Nat /\ n >= 1
  BY ListFacts DEF Leads
<1>3. /\ IsList(M) /\ Len(M) = n - 1 /\ \A i \in 1..n - 1 : M[i] = L[i + 1]
  BY ListFacts DEF Leads
<1>4. \A i \in 0..n - 1 : T[i] = S[i + 1]
  OBVIOUS
<1> HIDE DEF T, M
<1>5. T[0] = Handled(d, L[1]) /\ T[n - 1] = later
  <2>1. 1 \in 1..n /\ 1 - 1 = 0 /\ 0 \in 0..n - 1 /\ n - 1 \in 0..n - 1 /\ n - 1 + 1 = n
    BY <1>2
  <2>2. QED
    BY <1>1, <1>4, <2>1 DEF Replays
<1>6. ASSUME NEW i \in 1..n - 1
      PROVE  T[i] = Handled(T[i - 1], M[i])
  <2>1. i + 1 \in 1..n /\ i + 1 - 1 = i /\ i - 1 \in 0..n - 1 /\ i \in 0..n - 1 /\ i - 1 + 1 = i
    BY <1>2
  <2>2. T[i - 1] = S[i] /\ T[i] = S[i + 1] /\ M[i] = L[i + 1]
    BY <1>3, <1>4, <2>1
  <2>3. S[i + 1] = Handled(S[i], L[i + 1])
    BY <1>1, <2>1 DEF Replays
  <2>4. QED
    BY <2>2, <2>3
<1>7. Replays(T, Handled(d, L[1]), M, later)
  BY <1>3, <1>5, <1>6 DEF Replays
<1>8. QED
  BY <1>3, <1>7 DEF Leads, M

At(e) == <<e, time>>
Stamped(events) == [i \in 1..Len(events) |-> At(events[i])]

LEMMA StampedFacts ==
    ASSUME NEW s, IsList(s)
    PROVE  /\ IsList(Stamped(s)) /\ Len(Stamped(s)) = Len(s)
           /\ \A i \in 1..Len(s) : Stamped(s)[i] = At(s[i])
<1> DEFINE n == Len(s)
           T == [i \in 1..n |-> At(s[i])]
<1>1. n \in Nat
  BY ListFacts
<1> HIDE DEF n
<1>2. T \in Seq({At(s[i]) : i \in 1..n}) /\ Len(T) = n /\ \A i \in 1..n : T[i] = At(s[i])
  BY <1>1
<1>3. T = Stamped(s)
  BY DEF Stamped, n
<1> HIDE DEF T
<1>4. QED
  BY <1>2, <1>3 DEF IsList, n

LEMMA StampedConcat ==
    ASSUME NEW s, IsList(s), NEW u, IsList(u)
    PROVE  Stamped(s \o u) = Stamped(s) \o Stamped(u)
<1> DEFINE n == Len(s)
           m == Len(u)
           p == Stamped(s)
           q == Stamped(u)
           a == Stamped(s \o u)
           b == p \o q
<1>1. n \in Nat /\ m \in Nat
  BY ListFacts
<1>2. /\ IsList(s \o u) /\ Len(s \o u) = n + m
      /\ \A i \in 1..n : (s \o u)[i] = s[i]
      /\ \A i \in n + 1..n + m : (s \o u)[i] = u[i - n]
  BY ConcatFacts
<1>3. IsList(a) /\ Len(a) = n + m /\ \A i \in 1..n + m : a[i] = At((s \o u)[i])
  BY <1>2, StampedFacts
<1>4. /\ IsList(p) /\ Len(p) = n /\ \A i \in 1..n : p[i] = At(s[i])
      /\ IsList(q) /\ Len(q) = m /\ \A i \in 1..m : q[i] = At(u[i])
  BY StampedFacts
<1> HIDE DEF p, q, n, m
<1>5. /\ IsList(b) /\ Len(b) = n + m
      /\ \A i \in 1..n : b[i] = p[i]
      /\ \A i \in n + 1..n + m : b[i] = q[i - n]
  BY <1>4, ConcatFacts
<1> HIDE DEF a, b
<1>6. ASSUME NEW i \in 1..n + m
      PROVE  a[i] = b[i]
  <2>1. CASE i \in 1..n
    BY <1>2, <1>3, <1>4, <1>5, <2>1
  <2>2. CASE i \in n + 1..n + m
    <3>1. i - n \in 1..m
      BY <1>1, <2>2
    <3>2. QED
      BY <1>2, <1>3, <1>4, <1>5, <2>2, <3>1
  <2>3. QED
    BY <1>1, <2>1, <2>2
<1>7. PICK A : a \in Seq(A)
  BY <1>3 DEF IsList
<1>8. PICK B : b \in Seq(B)
  BY <1>5 DEF IsList
<1>9. a \in Seq(A \union B) /\ b \in Seq(A \union B)
  BY <1>7, <1>8, SeqMonotonic
<1>10. a = b
  BY <1>3, <1>5, <1>6, <1>9, SeqEqual
<1>11. QED
  BY <1>10 DEF a, b, p, q

\* The events make later out of d, once they are in the log and the index is there.
Makes(d, events, later) == IsList(events) /\ Leads(d, Stamped(events), later)

LEMMA MakesNothing ==
    ASSUME NEW d
    PROVE  Makes(d, << >>, d)
<1>1. Stamped(<< >>) = << >>
  BY DEF Stamped
<1>2. QED
  BY <1>1, LeadsNothing, ListFacts DEF Makes

LEMMA MakesOne ==
    ASSUME NEW d, NEW e
    PROVE  Makes(d, <<e>>, Handled(d, At(e)))
<1>1. Stamped(<<e>>) = <<At(e)>>
  BY DEF Stamped
<1>2. <<e>> \in Seq({e})
  OBVIOUS
<1>3. QED
  BY <1>1, <1>2, LeadsOnce DEF Makes, IsList

LEMMA MakesMore ==
    ASSUME NEW d, NEW s, NEW mid, Makes(d, s, mid), NEW u, NEW later, Makes(mid, u, later)
    PROVE  Makes(d, s \o u, later)
<1>1. IsList(s) /\ IsList(u) /\ Leads(d, Stamped(s), mid) /\ Leads(mid, Stamped(u), later)
  BY DEF Makes
<1>2. IsList(s \o u) /\ Stamped(s \o u) = Stamped(s) \o Stamped(u)
  BY <1>1, ConcatFacts, StampedConcat
<1>3. Leads(d, Stamped(s) \o Stamped(u), later)
  BY <1>1, LeadsMore
<1>4. QED
  BY <1>2, <1>3 DEF Makes

LEMMA MakesTwo ==
    ASSUME NEW d, NEW e, NEW mid, mid = Handled(d, At(e)),
           NEW f, NEW later, later = Handled(mid, At(f))
    PROVE  Makes(d, <<e, f>>, later)
<1>1. Makes(d, <<e>>, mid) /\ Makes(mid, <<f>>, later)
  BY MakesOne
<1>2. Makes(d, <<e>> \o <<f>>, later)
  BY <1>1, MakesMore
<1>3. <<e>> \o <<f>> = <<e, f>>
  BY PairConcat
<1>4. QED
  BY <1>2, <1>3

LEMMA EmitLeads ==
    ASSUME UNCHANGED db, NEW d, Leads(db, log, d), NEW events, Emit(events),
           NEW later, Makes(d, events, later)
    PROVE  Leads(db', log', later) /\ time' = time
<1>1. log' = log \o Stamped(events) /\ time' = time
  BY DEF Emit, Stamped, At
<1>2. Leads(db, log \o Stamped(events), later)
  BY LeadsMore DEF Makes
<1>3. QED
  BY <1>1, <1>2

-----------------------------------------------------------------------------
(* Saving. *)

SRRField == {"ownerAddress", "artistAddress", "artist", "issuer", "metadataDigest",
             "transferCommitment", "lockExternalTransfer", "royaltyReceiver",
             "royaltyBasisPoints", "collection", "originChain", "createdAt"}

IsSRR(srr) == DOMAIN srr = SRRField /\ srr.createdAt \in Nat

\* A database that the handlers can go on with.
DbOK(d) ==
    /\ DOMAIN d = Index!Tables \union {"stopped"} /\ d["stopped"] = FALSE
    /\ \A id \in DOMAIN d["SRR"] : IsSRR(d["SRR"][id])

\* No record and no collection is touched.
Spares(d, later) ==
    DbOK(later) /\ later["SRR"] = d["SRR"] /\ later["Collection"] = d["Collection"]

\* No collection, and no record but id.
Alters(d, later, id) ==
    /\ DbOK(later) /\ later["Collection"] = d["Collection"]
    /\ DOMAIN later["SRR"] = DOMAIN d["SRR"] \union {id}
    /\ \A other \in DOMAIN d["SRR"] : other # id => later["SRR"][other] = d["SRR"][other]

Saved(d, type, id, entity, later) ==
    /\ DOMAIN later = DOMAIN d
    /\ \A table \in DOMAIN d : table # type => later[table] = d[table]
    /\ DOMAIN later[type] = DOMAIN d[type] \union {id}
    /\ later[type][id] = entity
    /\ \A other \in DOMAIN d[type] : other # id => later[type][other] = d[type][other]

LEMMA SaveSaves ==
    ASSUME NEW d, NEW type \in DOMAIN d, NEW id, NEW entity
    PROVE  Saved(d, type, id, entity, Index!Save(d, type, id, entity))
BY DEF Saved, Index!Save

LEMMA TablesOfDb ==
    ASSUME NEW d, DbOK(d)
    PROVE  \A table \in {"SRR", "SRRProvenance", "SRRTransferCommit", "SRRMetadataHistory",
                         "SRRHistory", "Collection", "stopped"} : table \in DOMAIN d
BY DEF DbOK, Index!Tables, Index!LUW

\* A record that has the time of its creation is saved.
LEMMA SaveRecord ==
    ASSUME NEW d, DbOK(d), NEW id, NEW srr, IsSRR(srr), NEW later,
           \/ later = Index!SaveSRR(d, id, srr)
           \/ id \in DOMAIN d["SRR"] /\ later = Index!UpdateSRR(d, id, srr)
    PROVE  Alters(d, later, id) /\ later["SRR"][id] = srr
<1>1. srr.createdAt # Null
  BY NullAssumption DEF IsSRR
<1>2. later = Index!Save(d, "SRR", id, srr)
  BY <1>1 DEF Index!SaveSRR, Index!UpdateSRR, Index!IfKnown, Index!Has
<1>3. Saved(d, "SRR", id, srr, later)
  BY <1>2, SaveSaves, TablesOfDb
<1>4. /\ DOMAIN later = DOMAIN d /\ later["SRR"][id] = srr
      /\ later["stopped"] = d["stopped"] /\ later["Collection"] = d["Collection"]
      /\ DOMAIN later["SRR"] = DOMAIN d["SRR"] \union {id}
      /\ \A other \in DOMAIN d["SRR"] : other # id => later["SRR"][other] = d["SRR"][other]
  BY <1>3, TablesOfDb DEF Saved
<1>5. \A i \in DOMAIN later["SRR"] : IsSRR(later["SRR"][i])
  BY <1>4 DEF DbOK
<1>6. DbOK(later)
  BY <1>4, <1>5 DEF DbOK
<1>7. QED
  BY <1>4, <1>6 DEF Alters

\* An entity of a table that nothing here depends on.
LEMMA SaveBeside ==
    ASSUME NEW d, DbOK(d), NEW id, NEW entity,
           NEW type \in {"SRRMetadataHistory", "SRRProvenance", "SRRTransferCommit"},
           NEW later, later = Index!Save(d, type, id, entity)
    PROVE  Spares(d, later)
<1>1. Saved(d, type, id, entity, later)
  BY SaveSaves, TablesOfDb
<1>2. /\ DOMAIN later = DOMAIN d
      /\ \A table \in {"SRR", "Collection", "stopped"} : later[table] = d[table]
  BY <1>1, TablesOfDb DEF Saved
<1>3. QED
  BY <1>2 DEF Spares, DbOK

LEMMA SparesItself ==
    ASSUME NEW d, DbOK(d)
    PROVE  Spares(d, d)
BY DEF Spares

LEMMA AltersThenSpares ==
    ASSUME NEW d, NEW mid, NEW id, Alters(d, mid, id), NEW later, Spares(mid, later)
    PROVE  Alters(d, later, id) /\ later["SRR"][id] = mid["SRR"][id]
BY DEF Alters, Spares

LEMMA AltersTwice ==
    ASSUME NEW d, NEW mid, NEW id, Alters(d, mid, id), NEW later, Alters(mid, later, id)
    PROVE  Alters(d, later, id)
BY DEF Alters

-----------------------------------------------------------------------------
(* What the index shows of a record. *)

ShowsRoyalty(shown, royalty) ==
    IF royalty.receiver = ZERO THEN shown.royaltyReceiver = Null
    ELSE /\ shown.royaltyReceiver = royalty.receiver
         /\ shown.royaltyBasisPoints = royalty.basisPoints

ShowsCommitment(shown, commitment) ==
    shown.transferCommitment # Null => shown.transferCommitment = commitment

ShowsOwned(shown, srr, flag) ==
    /\ shown.metadataDigest = srr.metadataCID
    /\ shown.collection = CollectionAddress
    /\ shown.issuer # Null => shown.issuer = srr.issuer
    /\ shown.lockExternalTransfer \in {FALSE, flag}

\* A record that was sent to the zero address keeps its royalty, and what is shown of
\* its commitment, until it is issued again.
ShowsRecord(shown, owner, srr, flag, royalty, commitment) ==
    /\ ShowsRoyalty(shown, royalty)
    /\ ShowsCommitment(shown, commitment)
    /\ owner # ZERO => shown.ownerAddress = owner /\ ShowsOwned(shown, srr, flag)

\* The record id is known and shown like this.
Tells(d, id, owner, srr, flag, royalty, commitment) ==
    id \in DOMAIN d["SRR"] /\ ShowsRecord(d["SRR"][id], owner, srr, flag, royalty, commitment)

LEMMA LockHandled ==
    ASSUME NEW d, DbOK(d), NEW id, NEW owner, NEW srr, NEW flag, NEW royalty, NEW commitment,
           Tells(d, id, owner, srr, flag, royalty, commitment),
           NEW e, id = Index!idOf(e), NEW later, later = Index!handleLockExternalTransfer(d, e)
    PROVE  Alters(d, later, id) /\ Tells(later, id, owner, srr, e.flag, royalty, commitment)
<1> DEFINE shown == d["SRR"][id]
           new == [shown EXCEPT !.lockExternalTransfer = e.flag]
<1>1. id \in DOMAIN d["SRR"] /\ IsSRR(shown)
  BY DEF DbOK, Tells
<1>2. IsSRR(new) /\ new.lockExternalTransfer = e.flag
      /\ \A f \in SRRField \ {"lockExternalTransfer"} : new[f] = shown[f]
  BY <1>1 DEF IsSRR, SRRField
<1>3. later = Index!UpdateSRR(d, id, new)
  BY DEF Index!handleLockExternalTransfer
<1>4. ShowsRecord(shown, owner, srr, flag, royalty, commitment)
  BY DEF Tells
<1> HIDE DEF new
<1>5. Alters(d, later, id) /\ later["SRR"][id] = new
  BY <1>1, <1>2, <1>3, SaveRecord
<1> HIDE DEF shown
<1>6. ShowsRecord(new, owner, srr, e.flag, royalty, commitment)
  BY <1>2, <1>4 DEF ShowsRecord, ShowsRoyalty, ShowsCommitment, ShowsOwned, SRRField
<1>7. QED
  BY <1>5, <1>6 DEF Tells, Alters

LEMMA RoyaltyHandled ==
    ASSUME NEW d, DbOK(d), NEW id, NEW owner, NEW srr, NEW flag, NEW royalty, NEW commitment,
           Tells(d, id, owner, srr, flag, royalty, commitment),
           NEW e, id = Index!idOf(e), NEW later, later = Index!handleRoyaltiesSet(d, e),
           NEW new, new.receiver = e.receiver, new.basisPoints = e.basisPoints,
           new.receiver # ZERO
    PROVE  Alters(d, later, id) /\ Tells(later, id, owner, srr, flag, new, commitment)
<1> DEFINE shown == d["SRR"][id]
           rated == [shown EXCEPT !.royaltyReceiver = e.receiver,
                                  !.royaltyBasisPoints = e.basisPoints]
<1>1. id \in DOMAIN d["SRR"] /\ IsSRR(shown)
  BY DEF DbOK, Tells
<1>2. IsSRR(rated) /\ rated.royaltyReceiver = e.receiver
      /\ rated.royaltyBasisPoints = e.basisPoints
      /\ \A f \in SRRField \ {"royaltyReceiver", "royaltyBasisPoints"} : rated[f] = shown[f]
  BY <1>1 DEF IsSRR, SRRField
<1>3. later = Index!UpdateSRR(d, id, rated)
  BY DEF Index!handleRoyaltiesSet
<1>4. ShowsRecord(shown, owner, srr, flag, royalty, commitment)
  BY DEF Tells
<1> HIDE DEF rated
<1>5. Alters(d, later, id) /\ later["SRR"][id] = rated
  BY <1>1, <1>2, <1>3, SaveRecord
<1> HIDE DEF shown
<1>6. ShowsRecord(rated, owner, srr, flag, new, commitment)
  BY <1>2, <1>4 DEF ShowsRecord, ShowsRoyalty, ShowsCommitment, ShowsOwned, SRRField
<1>7. QED
  BY <1>5, <1>6 DEF Tells, Alters

\* An update to an artist without a wallet is dropped.
LEMMA ArtistHandled ==
    ASSUME NEW d, DbOK(d), NEW id, NEW owner, NEW srr, NEW flag, NEW royalty, NEW commitment,
           Tells(d, id, owner, srr, flag, royalty, commitment),
           NEW e, id = Index!idOf(e), NEW later, later = Index!handleUpdateSRR(d, e)
    PROVE  Alters(d, later, id) /\ Tells(later, id, owner, srr, flag, royalty, commitment)
<1> DEFINE shown == d["SRR"][id]
           artist == Index!getLicensedUserIdFromAddress(d, e.artist)
           made == [shown EXCEPT !.artistAddress = e.artist, !.artist = artist]
<1>1. id \in DOMAIN d["SRR"] /\ IsSRR(shown)
  BY DEF DbOK, Tells
<1>2. IsSRR(made) /\ \A f \in SRRField \ {"artistAddress", "artist"} : made[f] = shown[f]
  BY <1>1 DEF IsSRR, SRRField
<1>3. later = IF artist = Null THEN d ELSE Index!UpdateSRR(d, id, made)
  BY <1>1 DEF Index!handleUpdateSRR, Index!handleUpdateSRRInternal, Index!IfKnown, Index!Has
<1>4. ShowsRecord(shown, owner, srr, flag, royalty, commitment)
  BY DEF Tells
<1> HIDE DEF made, artist
<1>5. CASE artist = Null
  <2>1. Alters(d, d, id)
    BY <1>1 DEF Alters
  <2>2. QED
    BY <1>3, <1>5, <2>1
<1>6. CASE artist # Null
  <2>1. Alters(d, later, id) /\ later["SRR"][id] = made
    BY <1>1, <1>2, <1>3, <1>6, SaveRecord
  <2> HIDE DEF shown
  <2>2. ShowsRecord(made, owner, srr, flag, royalty, commitment)
    BY <1>2, <1>4 DEF ShowsRecord, ShowsRoyalty, ShowsCommitment, ShowsOwned, SRRField
  <2>3. QED
    BY <2>1, <2>2 DEF Tells, Alters
<1>7. QED
  BY <1>5, <1>6

LEMMA MetadataHandled ==
    ASSUME NEW d, DbOK(d), NEW id, NEW owner, NEW srr, NEW flag, NEW royalty, NEW commitment,
           Tells(d, id, owner, srr, flag, royalty, commitment),
           NEW e, id = Index!idOf(e), NEW later, later = Index!handleUpdateSRRMetadata(d, e),
           NEW next, next.metadataCID = e.metadataDigest, next.issuer = srr.issuer
    PROVE  Alters(d, later, id) /\ Tells(later, id, owner, next, flag, royalty, commitment)
<1> DEFINE shown == d["SRR"][id]
           new == [shown EXCEPT !.metadataDigest = e.metadataDigest]
           mid == Index!UpdateSRR(d, id, new)
           place == <<id, e.metadataDigest>>
           entity == [srr |-> id, metadataDigest |-> e.metadataDigest]
<1>1. id \in DOMAIN d["SRR"] /\ IsSRR(shown)
  BY DEF DbOK, Tells
<1>2. IsSRR(new) /\ new.metadataDigest = e.metadataDigest
      /\ \A f \in SRRField \ {"metadataDigest"} : new[f] = shown[f]
  BY <1>1 DEF IsSRR, SRRField
<1>3. later = Index!Save(mid, "SRRMetadataHistory", place, entity)
  BY <1>1 DEF Index!handleUpdateSRRMetadata, Index!handleUpdateSRRMetadataHashInternal,
     Index!saveSRRMetadataHistory, Index!IfKnown, Index!Has
<1>4. ShowsRecord(shown, owner, srr, flag, royalty, commitment)
  BY DEF Tells
<1> HIDE DEF new, entity, place
<1>5. Alters(d, mid, id) /\ mid["SRR"][id] = new
  BY <1>1, <1>2, SaveRecord
<1> HIDE DEF mid
<1>6. Spares(mid, later)
  BY <1>3, <1>5, SaveBeside DEF Alters
<1>7. Alters(d, later, id) /\ later["SRR"][id] = new
  BY <1>5, <1>6, AltersThenSpares
<1> HIDE DEF shown
<1>8. ShowsRecord(new, owner, next, flag, royalty, commitment)
  BY <1>2, <1>4 DEF ShowsRecord, ShowsRoyalty, ShowsCommitment, ShowsOwned, SRRField
<1>9. QED
  BY <1>7, <1>8 DEF Tells, Alters

LEMMA HistoryHandled ==
    ASSUME NEW d, DbOK(d), NEW id, NEW owner, NEW srr, NEW flag, NEW royalty, NEW commitment,
           Tells(d, id, owner, srr, flag, royalty, commitment),
           NEW e, NEW later, later = Index!handleSRRHistory(d, e)
    PROVE  Alters(d, later, id) /\ Tells(later, id, owner, srr, flag, royalty, commitment)
<1>1. /\ DOMAIN later = DOMAIN d
      /\ \A table \in DOMAIN d : table # "SRRHistory" => later[table] = d[table]
  BY DEF Index!handleSRRHistory
<1>2. \A table \in {"SRR", "Collection", "stopped"} : later[table] = d[table]
  BY <1>1, TablesOfDb
<1>3. Spares(d, later)
  BY <1>1, <1>2 DEF Spares, DbOK
<1>4. QED
  BY <1>3 DEF Spares, Alters, Tells

LEMMA ProvenanceInternal ==
    ASSUME NEW d, DbOK(d), NEW id, NEW owner, NEW srr, NEW flag, NEW royalty, NEW commitment,
           Tells(d, id, owner, srr, flag, royalty, commitment),
           NEW millis, NEW from, NEW to, to # ZERO => owner # ZERO, NEW history, NEW digest,
           NEW sender, NEW later,
           later = Index!handleSRRProvenanceInternal(d, id, millis, from, to, history,
                                                     digest, sender)
    PROVE  Alters(d, later, id) /\ Tells(later, id, to, srr, flag, royalty, commitment)
<1> DEFINE shown == d["SRR"][id]
           new == [shown EXCEPT !.ownerAddress = to]
           mid == Index!UpdateSRR(d, id, new)
           place == <<id, millis>>
           entity == [srr |-> id, from |-> from, to |-> to, sender |-> sender,
                      customHistory |-> history, metadataDigest |-> digest,
                      timestamp |-> millis]
<1>1. id \in DOMAIN d["SRR"] /\ IsSRR(shown)
  BY DEF DbOK, Tells
<1>2. IsSRR(new) /\ new.ownerAddress = to
      /\ \A f \in SRRField \ {"ownerAddress"} : new[f] = shown[f]
  BY <1>1 DEF IsSRR, SRRField
<1>3. later = mid \/ later = Index!Save(mid, "SRRProvenance", place, entity)
  BY <1>1 DEF Index!handleSRRProvenanceInternal, Index!IfKnown, Index!Has
<1>4. ShowsRecord(shown, owner, srr, flag, royalty, commitment)
  BY DEF Tells
<1> HIDE DEF new, entity, place
<1>5. Alters(d, mid, id) /\ mid["SRR"][id] = new
  BY <1>1, <1>2, SaveRecord
<1> HIDE DEF mid
<1>6. Spares(mid, later)
  BY <1>3, <1>5, SaveBeside, SparesItself DEF Alters
<1>7. Alters(d, later, id) /\ later["SRR"][id] = new
  BY <1>5, <1>6, AltersThenSpares
<1> HIDE DEF shown
<1>8. ShowsRecord(new, to, srr, flag, royalty, commitment)
  BY <1>2, <1>4 DEF ShowsRecord, ShowsRoyalty, ShowsCommitment, ShowsOwned, SRRField
<1>9. QED
  BY <1>7, <1>8 DEF Tells, Alters

LEMMA ProvenanceHandled ==
    ASSUME NEW d, DbOK(d), NEW id, NEW owner, NEW srr, NEW flag, NEW royalty, NEW commitment,
           Tells(d, id, owner, srr, flag, royalty, commitment),
           NEW e, id = Index!idOf(e), e.to # ZERO => owner # ZERO, NEW millis, NEW later,
           later = Index!handleCollectionProvenance(d, e, millis)
    PROVE  Alters(d, later, id) /\ Tells(later, id, e.to, srr, flag, royalty, commitment)
BY ProvenanceInternal DEF Index!handleCollectionProvenance

\* A commitment that is given or ends, with what else is noted of it.
LEMMA CommitmentSet ==
    ASSUME NEW d, DbOK(d), NEW id, NEW owner, NEW srr, NEW flag, NEW royalty, NEW commitment,
           Tells(d, id, owner, srr, flag, royalty, commitment),
           NEW value, NEW now, value # Null => value = now, NEW mid,
           mid = Index!UpdateSRR(d, id, [d["SRR"][id] EXCEPT !.transferCommitment = value]),
           NEW later, \/ later = mid
                      \/ \E entity : later = Index!Save(mid, "SRRTransferCommit", id, entity)
    PROVE  Alters(d, later, id) /\ Tells(later, id, owner, srr, flag, royalty, now)
<1> DEFINE shown == d["SRR"][id]
           new == [shown EXCEPT !.transferCommitment = value]
<1>1. id \in DOMAIN d["SRR"] /\ IsSRR(shown)
  BY DEF DbOK, Tells
<1>2. IsSRR(new) /\ new.transferCommitment = value
      /\ \A f \in SRRField \ {"transferCommitment"} : new[f] = shown[f]
  BY <1>1 DEF IsSRR, SRRField
<1>3. mid = Index!UpdateSRR(d, id, new)
  OBVIOUS
<1>4. ShowsRecord(shown, owner, srr, flag, royalty, commitment)
  BY DEF Tells
<1> HIDE DEF new
<1>5. Alters(d, mid, id) /\ mid["SRR"][id] = new
  BY <1>1, <1>2, <1>3, SaveRecord
<1>6. Spares(mid, later)
  BY <1>5, SaveBeside, SparesItself DEF Alters
<1>7. Alters(d, later, id) /\ later["SRR"][id] = new
  BY <1>5, <1>6, AltersThenSpares
<1> HIDE DEF shown
<1>8. ShowsRecord(new, owner, srr, flag, royalty, now)
  BY <1>2, <1>4 DEF ShowsRecord, ShowsRoyalty, ShowsCommitment, ShowsOwned, SRRField
<1>9. QED
  BY <1>7, <1>8 DEF Tells, Alters

LEMMA CommitmentHandled ==
    ASSUME NEW d, DbOK(d), NEW id, NEW owner, NEW srr, NEW flag, NEW royalty, NEW commitment,
           Tells(d, id, owner, srr, flag, royalty, commitment),
           NEW e, id = Index!idOf(e), NEW later, later = Index!handleCollectionCommitment(d, e)
    PROVE  Alters(d, later, id) /\ Tells(later, id, owner, srr, flag, royalty, e.commitment)
<1> DEFINE value == e.commitment
           mid == Index!UpdateSRR(d, id, [d["SRR"][id] EXCEPT !.transferCommitment = value])
<1>1. id \in DOMAIN d["SRR"]
  BY DEF Tells
<1>2. \E entity : later = Index!Save(mid, "SRRTransferCommit", id, entity)
  BY <1>1 DEF Index!handleCollectionCommitment, Index!handleSRRCommitmentInternal,
     Index!IfKnown, Index!Has
<1>3. QED
  BY <1>2, CommitmentSet

LEMMA EndsCommitment ==
    ASSUME NEW d, DbOK(d), NEW id, NEW owner, NEW srr, NEW flag, NEW royalty, NEW commitment,
           Tells(d, id, owner, srr, flag, royalty, commitment), NEW now, NEW action, NEW sender,
           NEW later, later = Index!EndCommit(
              Index!UpdateSRR(d, id, [d["SRR"][id] EXCEPT !.transferCommitment = Null]),
              id, action, sender)
    PROVE  Alters(d, later, id) /\ Tells(later, id, owner, srr, flag, royalty, now)
<1> DEFINE value == Null
           mid == Index!UpdateSRR(d, id, [d["SRR"][id] EXCEPT !.transferCommitment = value])
<1>1. \/ later = mid
      \/ \E entity : later = Index!Save(mid, "SRRTransferCommit", id, entity)
  BY DEF Index!EndCommit, Index!IfKnown, Index!Has
<1>2. value # Null => value = now
  OBVIOUS
<1> HIDE DEF value
<1>3. QED
  BY <1>1, <1>2, CommitmentSet

LEMMA CancelHandled ==
    ASSUME NEW d, DbOK(d), NEW id, NEW owner, NEW srr, NEW flag, NEW royalty, NEW commitment,
           Tells(d, id, owner, srr, flag, royalty, commitment), NEW now,
           NEW e, id = Index!idOf(e),
           NEW later, later = Index!handleCollectionCommitmentCancelled(d, e)
    PROVE  Alters(d, later, id) /\ Tells(later, id, owner, srr, flag, royalty, now)
<1>1. id \in DOMAIN d["SRR"]
  BY DEF Tells
<1>2. later = Index!EndCommit(
              Index!UpdateSRR(d, id, [d["SRR"][id] EXCEPT !.transferCommitment = Null]),
              id, "cancel", e.sender)
  BY <1>1 DEF Index!handleCollectionCommitmentCancelled,
     Index!handleSRRCommitmentCancelledInternal, Index!IfKnown, Index!Has
<1> DEFINE action == "cancel"
<1> HIDE DEF action
<1>3. later = Index!EndCommit(
              Index!UpdateSRR(d, id, [d["SRR"][id] EXCEPT !.transferCommitment = Null]),
              id, action, e.sender)
  BY <1>2 DEF action
<1>4. QED
  BY <1>3, EndsCommitment

\* A record that is there changes its owner; its commitment is gone.
LEMMA TransferHandled ==
    ASSUME NEW d, DbOK(d), NEW id, NEW owner, NEW srr, NEW flag, NEW royalty, NEW commitment,
           Tells(d, id, owner, srr, flag, royalty, commitment), NEW now,
           NEW e, id = Index!idOf(e), e.from # ZERO, e.to # ZERO => owner # ZERO, NEW millis,
           NEW later, later = Index!handleTransfer(d, e, millis)
    PROVE  Alters(d, later, id) /\ Tells(later, id, e.to, srr, flag, royalty, now)
<1> DEFINE shown == d["SRR"][id]
           from == e.from
           to == e.to
           digest == ""
           action == "transfer"
           new == [shown EXCEPT !.ownerAddress = to]
           owned == Index!SaveSRR(d, id, new)
           told == Index!handleSRRProvenanceInternal(owned, id, millis, from, to, Null, digest,
                                                     Null)
<1>1. id \in DOMAIN d["SRR"] /\ IsSRR(shown)
  BY DEF DbOK, Tells
<1>2. IsSRR(new) /\ new.ownerAddress = to
      /\ \A f \in SRRField \ {"ownerAddress"} : new[f] = shown[f]
  BY <1>1 DEF IsSRR, SRRField
<1>3. later = IF owned["stopped"] THEN owned
              ELSE Index!EndCommit(
                 Index!UpdateSRR(told, id, [told["SRR"][id] EXCEPT !.transferCommitment = Null]),
                 id, action, Null)
  BY <1>1 DEF Index!handleTransfer, Index!Has, Index!checkAndClearCommitOnTransfer
<1>4. ShowsRecord(shown, owner, srr, flag, royalty, commitment)
  BY DEF Tells
<1> HIDE DEF new
<1>5. Alters(d, owned, id) /\ owned["SRR"][id] = new
  BY <1>2, SaveRecord
<1> HIDE DEF owned
<1>6. owned["stopped"] = FALSE /\ DbOK(owned)
  BY <1>5 DEF Alters, DbOK
<1>7. later = Index!EndCommit(
                 Index!UpdateSRR(told, id, [told["SRR"][id] EXCEPT !.transferCommitment = Null]),
                 id, action, Null)
  BY <1>3, <1>6
<1>t. told = Index!handleSRRProvenanceInternal(owned, id, millis, from, to, Null, digest, Null)
  OBVIOUS
<1>o. to # ZERO => owner # ZERO
  OBVIOUS
<1> HIDE DEF told, digest, from, to, action, shown
<1>8. ShowsRecord(new, to, srr, flag, royalty, commitment)
  BY <1>2, <1>4, <1>o DEF ShowsRecord, ShowsRoyalty, ShowsCommitment, ShowsOwned, SRRField
<1>9. Tells(owned, id, to, srr, flag, royalty, commitment)
  BY <1>5, <1>8 DEF Tells, Alters
<1>10. Alters(owned, told, id) /\ Tells(told, id, to, srr, flag, royalty, commitment)
  BY <1>6, <1>9, <1>t, ProvenanceInternal
<1>11. Alters(told, later, id) /\ Tells(later, id, to, srr, flag, royalty, now)
  <2>1. DbOK(told)
    BY <1>10 DEF Alters
  <2>2. QED
    BY <1>7, <1>10, <2>1, EndsCommitment
<1>12. Alters(d, later, id)
  <2>1. Alters(d, told, id)
    BY <1>5, <1>10, AltersTwice
  <2>2. QED
    BY <1>11, <2>1, AltersTwice
<1>13. QED
  BY <1>11, <1>12 DEF to

\* What is known of a record that has been minted and not yet created.
Minted(d, id, owner, royalty, commitment) ==
    /\ id \in DOMAIN d["SRR"] /\ d["SRR"][id].ownerAddress = owner
    /\ ShowsRoyalty(d["SRR"][id], royalty) /\ ShowsCommitment(d["SRR"][id], commitment)

LEMMA MintHandled ==
    ASSUME NEW d, DbOK(d), NEW id, NEW royalty, NEW commitment,
           id \notin DOMAIN d["SRR"] => royalty.receiver = ZERO,
           id \in DOMAIN d["SRR"] =>
              ShowsRoyalty(d["SRR"][id], royalty) /\ ShowsCommitment(d["SRR"][id], commitment),
           NEW e, id = Index!idOf(e), e.from = ZERO, NEW millis \in Nat,
           NEW later, later = Index!handleTransfer(d, e, millis)
    PROVE  Alters(d, later, id) /\ Minted(later, id, e.to, royalty, commitment)
<1> DEFINE loaded == IF id \in DOMAIN d["SRR"] THEN d["SRR"][id] ELSE Index!MintedSRR(millis)
           new == [loaded EXCEPT !.ownerAddress = e.to]
<1>1. later = Index!SaveSRR(d, id, new)
  BY DEF Index!handleTransfer, Index!Has
<1>2. IsSRR(loaded) /\ ShowsRoyalty(loaded, royalty) /\ ShowsCommitment(loaded, commitment)
  <2>1. CASE id \in DOMAIN d["SRR"]
    BY <2>1 DEF DbOK
  <2>2. CASE id \notin DOMAIN d["SRR"]
    <3>1. /\ IsSRR(Index!MintedSRR(millis))
          /\ Index!MintedSRR(millis).royaltyReceiver = Null
          /\ Index!MintedSRR(millis).transferCommitment = Null
      BY DEF Index!MintedSRR, Index!NewSRR, IsSRR, SRRField
    <3>2. QED
      BY <2>2, <3>1 DEF ShowsRoyalty, ShowsCommitment
  <2>3. QED
    BY <2>1, <2>2
<1> HIDE DEF loaded
<1>3. IsSRR(new) /\ new.ownerAddress = e.to
      /\ \A f \in SRRField \ {"ownerAddress"} : new[f] = loaded[f]
  BY <1>2 DEF IsSRR, SRRField
<1> HIDE DEF new
<1>4. Alters(d, later, id) /\ later["SRR"][id] = new
  BY <1>1, <1>3, SaveRecord
<1>5. ShowsRoyalty(new, royalty) /\ ShowsCommitment(new, commitment)
  BY <1>2, <1>3 DEF ShowsRoyalty, ShowsCommitment, SRRField
<1>6. QED
  BY <1>3, <1>4, <1>5 DEF Minted, Alters

LEMMA CreateHandled ==
    ASSUME NEW d, DbOK(d), NEW id, NEW owner, NEW royalty, NEW commitment,
           Minted(d, id, owner, royalty, commitment), NEW srr, NEW flag,
           NEW e, id = Index!idOf(e), e.address = CollectionAddress, e.lock \in {FALSE, flag},
           e.metadataDigest = srr.metadataCID, e.issuer = srr.issuer,
           NEW later, later = Index!handleCreateSRR(d, e)
    PROVE  Alters(d, later, id) /\ Tells(later, id, owner, srr, flag, royalty, commitment)
<1> DEFINE shown == d["SRR"][id]
           artist == Index!getLicensedUserIdFromAddress(d, e.artist)
           issuer == Index!getLicensedUserIdFromAddress(d, e.issuer)
           placed == [shown EXCEPT !.collection = e.address]
           new == [placed EXCEPT
                     !.metadataDigest = e.metadataDigest, !.lockExternalTransfer = e.lock,
                     !.artistAddress = e.artist, !.artist = artist, !.issuer = issuer]
           mid == Index!SaveSRR(d, id, new)
           place == <<id, e.metadataDigest>>
           entity == [srr |-> id, metadataDigest |-> e.metadataDigest]
<1>1. id \in DOMAIN d["SRR"] /\ IsSRR(shown)
  BY DEF DbOK, Minted
<1>2. issuer # Null => issuer = e.issuer
  BY DEF Index!getLicensedUserIdFromAddress
<1>3. later = Index!Save(mid, "SRRMetadataHistory", place, entity)
  BY <1>1 DEF Index!handleCreateSRR, Index!saveCreateSRRInternal,
     Index!saveSRRMetadataHistory, Index!IfKnown, Index!Has
<1>4. /\ shown.ownerAddress = owner
      /\ ShowsRoyalty(shown, royalty) /\ ShowsCommitment(shown, commitment)
  BY DEF Minted
<1> HIDE DEF artist, issuer, entity, place
<1>5. IsSRR(placed) /\ placed.collection = e.address
      /\ \A f \in SRRField \ {"collection"} : placed[f] = shown[f]
  BY <1>1 DEF IsSRR, SRRField
<1> HIDE DEF placed
<1>6. /\ IsSRR(new) /\ new.metadataDigest = e.metadataDigest
      /\ new.lockExternalTransfer = e.lock /\ new.issuer = issuer
      /\ \A f \in SRRField \ {"metadataDigest", "lockExternalTransfer", "artistAddress",
                              "artist", "issuer"} : new[f] = placed[f]
  BY <1>5 DEF IsSRR, SRRField
<1> HIDE DEF new
<1>7. Alters(d, mid, id) /\ mid["SRR"][id] = new
  BY <1>6, SaveRecord
<1> HIDE DEF mid
<1>8. Spares(mid, later)
  BY <1>3, <1>7, SaveBeside DEF Alters
<1>9. Alters(d, later, id) /\ later["SRR"][id] = new
  BY <1>7, <1>8, AltersThenSpares
<1> HIDE DEF shown
<1>10. /\ new.ownerAddress = shown.ownerAddress /\ new.collection = e.address
       /\ new.transferCommitment = shown.transferCommitment
       /\ new.royaltyReceiver = shown.royaltyReceiver
       /\ new.royaltyBasisPoints = shown.royaltyBasisPoints
  BY <1>5, <1>6 DEF SRRField
<1>11. ShowsRecord(new, owner, srr, flag, royalty, commitment)
  BY <1>2, <1>4, <1>6, <1>10 DEF ShowsRecord, ShowsRoyalty, ShowsCommitment, ShowsOwned
<1>12. QED
  BY <1>9, <1>11 DEF Tells, Alters

-----------------------------------------------------------------------------
(* What the index shows of the collection itself. *)

\* The collection is known, of this owner.
ShowsCollection(d, owner) ==
    /\ CollectionAddress \in DOMAIN d["Collection"]
    /\ LET shown == d["Collection"][CollectionAddress]
       IN  /\ DOMAIN shown = {"ownerAddress", "creatorAddress", "createdAt"}
           /\ shown.ownerAddress = owner /\ shown.creatorAddress = Creator

AltersCollection(d, later) == DbOK(later) /\ later["SRR"] = d["SRR"]

LEMMA SaveCollection ==
    ASSUME NEW d, DbOK(d), NEW entity, NEW later,
           later = Index!Save(d, "Collection", CollectionAddress, entity)
    PROVE  /\ AltersCollection(d, later) /\ CollectionAddress \in DOMAIN later["Collection"]
           /\ later["Collection"][CollectionAddress] = entity
<1>1. Saved(d, "Collection", CollectionAddress, entity, later)
  BY SaveSaves, TablesOfDb
<1>2. /\ DOMAIN later = DOMAIN d /\ later["SRR"] = d["SRR"] /\ later["stopped"] = d["stopped"]
      /\ CollectionAddress \in DOMAIN later["Collection"]
      /\ later["Collection"][CollectionAddress] = entity
  BY <1>1, TablesOfDb DEF Saved
<1>3. QED
  BY <1>2 DEF AltersCollection, DbOK

LEMMA CollectionCreatedHandled ==
    ASSUME NEW d, DbOK(d), NEW e, e.address = CollectionAddress, e.owner = Creator, NEW millis,
           NEW later, later = Index!handleCollectionCreated(d, e, millis)
    PROVE  AltersCollection(d, later) /\ ShowsCollection(later, e.owner)
<1> DEFINE entity == [ownerAddress |-> e.owner, creatorAddress |-> e.owner, createdAt |-> millis]
<1>1. later = Index!Save(d, "Collection", CollectionAddress, entity)
  BY DEF Index!handleCollectionCreated
<1>2. /\ DOMAIN entity = {"ownerAddress", "creatorAddress", "createdAt"}
      /\ entity.ownerAddress = e.owner /\ entity.creatorAddress = Creator
  OBVIOUS
<1> HIDE DEF entity
<1>3. /\ AltersCollection(d, later) /\ CollectionAddress \in DOMAIN later["Collection"]
      /\ later["Collection"][CollectionAddress] = entity
  BY <1>1, SaveCollection
<1>4. QED
  BY <1>2, <1>3 DEF ShowsCollection

LEMMA OwnershipHandled ==
    ASSUME NEW d, DbOK(d), NEW before, ShowsCollection(d, before),
           NEW e, e.address = CollectionAddress,
           NEW later, later = Index!handleOwnershipTransferred(d, e)
    PROVE  AltersCollection(d, later) /\ ShowsCollection(later, e.owner)
<1> DEFINE shown == d["Collection"][CollectionAddress]
           entity == [shown EXCEPT !.ownerAddress = e.owner]
<1>1. /\ CollectionAddress \in DOMAIN d["Collection"]
      /\ DOMAIN shown = {"ownerAddress", "creatorAddress", "createdAt"}
      /\ shown.creatorAddress = Creator
  BY DEF ShowsCollection
<1>2. later = Index!Save(d, "Collection", CollectionAddress, entity)
  BY <1>1 DEF Index!handleOwnershipTransferred, Index!IfKnown, Index!Has
<1>3. /\ DOMAIN entity = {"ownerAddress", "creatorAddress", "createdAt"}
      /\ entity.ownerAddress = e.owner /\ entity.creatorAddress = Creator
  BY <1>1
<1> HIDE DEF entity
<1>4. /\ AltersCollection(d, later) /\ CollectionAddress \in DOMAIN later["Collection"]
      /\ later["Collection"][CollectionAddress] = entity
  BY <1>2, SaveCollection
<1>5. QED
  BY <1>3, <1>4 DEF ShowsCollection

-----------------------------------------------------------------------------
(* The index that has handled every event agrees with the contract. *)

RecordAgrees(d, t, owner, srr, flag, royalty, commitment) ==
    /\ owner # ZERO => IdOf(t) \in DOMAIN d["SRR"]
    /\ IdOf(t) \notin DOMAIN d["SRR"] => royalty.receiver = ZERO
    /\ IdOf(t) \in DOMAIN d["SRR"] =>
          ShowsRecord(d["SRR"][IdOf(t)], owner, srr, flag, royalty, commitment)

RecordAgreesNow(d, t) ==
    RecordAgrees(d, t, ownerOf[t], srrs[t], tokenIdToLockFlag[t], royalties[t],
                 approvals[t].commitment)
RecordAgreesNext(d, t) ==
    RecordAgrees(d, t, ownerOf'[t], srrs'[t], tokenIdToLockFlag'[t], royalties'[t],
                 approvals'[t].commitment)

AgreesNow(d) ==
    /\ DbOK(d)
    /\ collectionOwner # ZERO => ShowsCollection(d, collectionOwner)
    /\ \A t \in TokenId : RecordAgreesNow(d, t)

AgreesNext(d) ==
    /\ DbOK(d)
    /\ collectionOwner' # ZERO => ShowsCollection(d, collectionOwner')
    /\ \A t \in TokenId : RecordAgreesNext(d, t)

\* The storage of the records is there for every token.
Shape ==
    /\ time \in Nat
    /\ DOMAIN srrs = TokenId /\ DOMAIN tokenIdToLockFlag = TokenId
    /\ DOMAIN royalties = TokenId /\ DOMAIN approvals = TokenId
    /\ \A t \in TokenId : DOMAIN srrs[t] = {"issuer", "artist", "metadataCID"}

\* The index will show what the contract has.
Follows == Shape /\ \E later : Leads(db, log, later) /\ AgreesNow(later)

\* The call changes no record but t.
ChangesOnly(t) ==
    \A other \in TokenId \ {t} :
        /\ ownerOf'[other] = ownerOf[other] /\ srrs'[other] = srrs[other]
        /\ tokenIdToLockFlag'[other] = tokenIdToLockFlag[other]
        /\ royalties'[other] = royalties[other] /\ approvals'[other] = approvals[other]

TellsNow(d, t) ==
    Tells(d, IdOf(t), ownerOf[t], srrs[t], tokenIdToLockFlag[t], royalties[t],
          approvals[t].commitment)
TellsNext(d, t) ==
    Tells(d, IdOf(t), ownerOf'[t], srrs'[t], tokenIdToLockFlag'[t], royalties'[t],
          approvals'[t].commitment)

LEMMA IdFacts ==
    /\ \A t, other \in TokenId : IdOf(t) = IdOf(other) => t = other
    /\ \A e : e.address = CollectionAddress => Index!idOf(e) = IdOf(e.tokenId)
BY DEF IdOf, Index!idOf, Index!srrEntityId

LEMMA KnownRecord ==
    ASSUME NEW d, AgreesNow(d), NEW t \in TokenId, exists(t)
    PROVE  DbOK(d) /\ TellsNow(d, t) /\ ownerOf[t] # ZERO
BY DEF AgreesNow, RecordAgreesNow, RecordAgrees, Tells, TellsNow, exists

LEMMA AgreesStep ==
    ASSUME UNCHANGED collectionOwner, NEW d, AgreesNow(d), NEW t \in TokenId, ChangesOnly(t),
           NEW later, Alters(d, later, IdOf(t)), TellsNext(later, t)
    PROVE  AgreesNext(later)
<1>1. RecordAgreesNext(later, t)
  BY DEF TellsNext, Tells, RecordAgreesNext, RecordAgrees
<1>2. ASSUME NEW other \in TokenId, other # t
      PROVE  RecordAgreesNext(later, other)
  <2>1. IdOf(other) # IdOf(t)
    BY <1>2, IdFacts
  <2>2. /\ IdOf(other) \in DOMAIN later["SRR"] <=> IdOf(other) \in DOMAIN d["SRR"]
        /\ IdOf(other) \in DOMAIN d["SRR"] => later["SRR"][IdOf(other)] = d["SRR"][IdOf(other)]
    BY <2>1 DEF Alters
  <2>3. RecordAgreesNow(d, other)
    BY DEF AgreesNow
  <2>4. RecordAgreesNow(later, other)
    BY <2>2, <2>3 DEF RecordAgreesNow, RecordAgrees
  <2>5. /\ ownerOf'[other] = ownerOf[other] /\ srrs'[other] = srrs[other]
        /\ tokenIdToLockFlag'[other] = tokenIdToLockFlag[other]
        /\ royalties'[other] = royalties[other] /\ approvals'[other] = approvals[other]
    BY <1>2 DEF ChangesOnly
  <2>6. QED
    BY Zenon, <2>4, <2>5 DEF RecordAgreesNow, RecordAgreesNext
<1>3. DbOK(later) /\ (collectionOwner' # ZERO => ShowsCollection(later, collectionOwner'))
  BY DEF Alters, AgreesNow, ShowsCollection
<1>4. QED
  BY <1>1, <1>2, <1>3 DEF AgreesNext

\* A call whose events make the index tell of t what it is then.
LEMMA CallTells ==
    ASSUME UNCHANGED <<db, collectionOwner>>, Shape', NEW d, Leads(db, log, d), AgreesNow(d),
           NEW t \in TokenId, ChangesOnly(t), NEW events, Emit(events),
           NEW later, Makes(d, events, later), Alters(d, later, IdOf(t)), TellsNext(later, t)
    PROVE  Follows'
<1>1. Leads(db', log', later)
  BY EmitLeads
<1>2. AgreesNext(later)
  BY AgreesStep
<1>3. QED
  BY <1>1, <1>2 DEF Follows, AgreesNext, AgreesNow, RecordAgreesNext, RecordAgreesNow

\* A call that emits one event.
LEMMA OneTells ==
    ASSUME UNCHANGED <<db, collectionOwner>>, Shape', NEW d, Leads(db, log, d), AgreesNow(d),
           NEW t \in TokenId, ChangesOnly(t), NEW e, Emit(<<e>>),
           NEW later, later = Handled(d, At(e)), Alters(d, later, IdOf(t)), TellsNext(later, t)
    PROVE  Follows'
BY MakesOne, CallTells

\* A call that changes nothing that the index shows and emits nothing.
LEMMA QuietFollows ==
    ASSUME UNCHANGED <<db, log, collectionOwner, ownerOf, srrs, tokenIdToLockFlag, royalties,
                       approvals>>, Follows, time' \in Nat
    PROVE  Follows'
BY DEF Follows, Shape, AgreesNow, RecordAgreesNow

-----------------------------------------------------------------------------
(* The handler of each event. *)

LEMMA Dispatch ==
    ASSUME NEW d, NEW e
    PROVE  /\ e.event = "CollectionCreated" => Handled(d, At(e)) =
                 Index!handleCollectionCreated(d, e, Index!secondsToMillis(time))
           /\ e.event = "OwnershipTransferred" =>
                 Handled(d, At(e)) = Index!handleOwnershipTransferred(d, e)
           /\ e.event = "Transfer" => Handled(d, At(e)) =
                 Index!handleTransfer(d, e, Index!secondsToMillis(time))
           /\ e.event = "CreateSRR" => Handled(d, At(e)) = Index!handleCreateSRR(d, e)
           /\ e.event = "UpdateSRR" => Handled(d, At(e)) = Index!handleUpdateSRR(d, e)
           /\ e.event = "UpdateSRRMetadataDigest" =>
                 Handled(d, At(e)) = Index!handleUpdateSRRMetadata(d, e)
           /\ e.event = "SRRCommitment" =>
                 Handled(d, At(e)) = Index!handleCollectionCommitment(d, e)
           /\ e.event = "SRRCommitmentCancelled" =>
                 Handled(d, At(e)) = Index!handleCollectionCommitmentCancelled(d, e)
           /\ e.event = "Provenance" => Handled(d, At(e)) =
                 Index!handleCollectionProvenance(d, e, Index!secondsToMillis(time))
           /\ e.event = "LockExternalTransferSetLock" =>
                 Handled(d, At(e)) = Index!handleLockExternalTransfer(d, e)
           /\ e.event = "RoyaltiesSet" => Handled(d, At(e)) = Index!handleRoyaltiesSet(d, e)
           /\ e.event = "History" => Handled(d, At(e)) = Index!handleSRRHistory(d, e)
BY DEF Handled, At, Index!HandleCollectionEvent

LEMMA UpdateArtistFollows ==
    ASSUME UNCHANGED db, Follows, NEW caller, NEW t \in TokenId, NEW artist,
           updateSRR(caller, t, artist)
    PROVE  Follows'
<1> DEFINE e == [artist |-> artist, event |-> "UpdateSRR", address |-> CollectionAddress,
                 tokenId |-> t, sender |-> caller]
<1>1. Shape /\ \E d : Leads(db, log, d) /\ AgreesNow(d)
  BY DEF Follows
<1>2. PICK d : Leads(db, log, d) /\ AgreesNow(d)
  BY <1>1
<1>3. /\ exists(t) /\ Emit(<<e>>) /\ srrs' = [srrs EXCEPT ![t].artist = artist]
      /\ UNCHANGED <<collectionOwner, ownerOf, tokenIdToLockFlag, royalties, approvals>>
  BY DEF updateSRR, erc721
<1>4. e.event = "UpdateSRR" /\ e.address = CollectionAddress /\ e.tokenId = t
  OBVIOUS
<1> HIDE DEF e
<1>5. DbOK(d) /\ TellsNow(d, t)
  BY <1>2, <1>3, KnownRecord
<1> DEFINE later == Handled(d, At(e))
<1>6. later = Index!handleUpdateSRR(d, e) /\ Index!idOf(e) = IdOf(t)
  BY <1>4, Dispatch, IdFacts
<1> HIDE DEF later
<1>7. /\ Alters(d, later, IdOf(t))
      /\ Tells(later, IdOf(t), ownerOf[t], srrs[t], tokenIdToLockFlag[t], royalties[t],
               approvals[t].commitment)
  BY <1>5, <1>6, ArtistHandled DEF TellsNow
<1>8. /\ Shape' /\ ChangesOnly(t) /\ srrs'[t].metadataCID = srrs[t].metadataCID
      /\ srrs'[t].issuer = srrs[t].issuer
  BY <1>1, <1>3 DEF Shape, ChangesOnly, Emit
<1>9. TellsNext(later, t)
  BY <1>3, <1>7, <1>8 DEF TellsNext, Tells, ShowsRecord, ShowsOwned
<1>10. QED
  BY <1>2, <1>3, <1>7, <1>8, <1>9, OneTells DEF later

LEMMA UpdateMetadataFollows ==
    ASSUME UNCHANGED db, Follows, NEW caller, NEW t \in TokenId, NEW cid,
           updateSRRMetadata(caller, t, cid)
    PROVE  Follows'
<1> DEFINE e == [metadataDigest |-> cid, event |-> "UpdateSRRMetadataDigest",
                 address |-> CollectionAddress, tokenId |-> t]
<1>1. Shape /\ \E d : Leads(db, log, d) /\ AgreesNow(d)
  BY DEF Follows
<1>2. PICK d : Leads(db, log, d) /\ AgreesNow(d)
  BY <1>1
<1>3. /\ exists(t) /\ Emit(<<e>>) /\ srrs' = [srrs EXCEPT ![t].metadataCID = cid]
      /\ UNCHANGED <<collectionOwner, ownerOf, tokenIdToLockFlag, royalties, approvals>>
  BY DEF updateSRRMetadata, erc721
<1>4. /\ e.event = "UpdateSRRMetadataDigest" /\ e.address = CollectionAddress
      /\ e.tokenId = t /\ e.metadataDigest = cid
  OBVIOUS
<1> HIDE DEF e
<1>5. DbOK(d) /\ TellsNow(d, t)
  BY <1>2, <1>3, KnownRecord
<1> DEFINE later == Handled(d, At(e))
<1>6. later = Index!handleUpdateSRRMetadata(d, e) /\ Index!idOf(e) = IdOf(t)
  BY <1>4, Dispatch, IdFacts
<1> HIDE DEF later
<1>7. /\ Shape' /\ ChangesOnly(t) /\ srrs'[t].metadataCID = cid
      /\ srrs'[t].issuer = srrs[t].issuer
  BY <1>1, <1>3 DEF Shape, ChangesOnly, Emit
<1>8. /\ Alters(d, later, IdOf(t))
      /\ Tells(later, IdOf(t), ownerOf[t], srrs'[t], tokenIdToLockFlag[t], royalties[t],
               approvals[t].commitment)
  BY <1>4, <1>5, <1>6, <1>7, MetadataHandled DEF TellsNow
<1>9. TellsNext(later, t)
  BY <1>3, <1>8 DEF TellsNext
<1>10. QED
  BY <1>2, <1>3, <1>7, <1>8, <1>9, OneTells DEF later

LEMMA LockFollows ==
    ASSUME UNCHANGED db, Follows, NEW caller, NEW t \in TokenId, NEW flag,
           setLockExternalTransfer(caller, t, flag)
    PROVE  Follows'
<1> DEFINE e == [flag |-> flag, event |-> "LockExternalTransferSetLock",
                 address |-> CollectionAddress, tokenId |-> t]
<1>1. Shape /\ \E d : Leads(db, log, d) /\ AgreesNow(d)
  BY DEF Follows
<1>2. PICK d : Leads(db, log, d) /\ AgreesNow(d)
  BY <1>1
<1>3. /\ exists(t) /\ Emit(<<e>>)
      /\ tokenIdToLockFlag' = [tokenIdToLockFlag EXCEPT ![t] = flag]
      /\ UNCHANGED <<collectionOwner, ownerOf, srrs, royalties, approvals>>
  BY DEF setLockExternalTransfer, erc721
<1>4. /\ e.event = "LockExternalTransferSetLock" /\ e.address = CollectionAddress
      /\ e.tokenId = t /\ e.flag = flag
  OBVIOUS
<1> HIDE DEF e
<1>5. DbOK(d) /\ TellsNow(d, t)
  BY <1>2, <1>3, KnownRecord
<1> DEFINE later == Handled(d, At(e))
<1>6. later = Index!handleLockExternalTransfer(d, e) /\ Index!idOf(e) = IdOf(t)
  BY <1>4, Dispatch, IdFacts
<1> HIDE DEF later
<1>7. Shape' /\ ChangesOnly(t) /\ tokenIdToLockFlag'[t] = flag
  BY <1>1, <1>3 DEF Shape, ChangesOnly, Emit
<1>8. /\ Alters(d, later, IdOf(t))
      /\ Tells(later, IdOf(t), ownerOf[t], srrs[t], e.flag, royalties[t], approvals[t].commitment)
  BY <1>5, <1>6, LockHandled DEF TellsNow
<1>9. TellsNext(later, t)
  BY <1>3, <1>4, <1>7, <1>8 DEF TellsNext
<1>10. QED
  BY <1>2, <1>3, <1>7, <1>8, <1>9, OneTells DEF later

LEMMA UpdateRoyaltyFollows ==
    ASSUME UNCHANGED db, Follows, NEW caller, NEW t \in TokenId, NEW royalty,
           updateSRRRoyalty(caller, t, royalty)
    PROVE  Follows'
<1> DEFINE e == RoyaltiesSet(t, royalty)
<1>1. Shape /\ \E d : Leads(db, log, d) /\ AgreesNow(d)
  BY DEF Follows
<1>2. PICK d : Leads(db, log, d) /\ AgreesNow(d)
  BY <1>1
<1>3. /\ exists(t) /\ Emit(<<e>>) /\ royalty.receiver # ZERO
      /\ royalties' = [royalties EXCEPT ![t] = royalty]
      /\ UNCHANGED <<collectionOwner, ownerOf, srrs, tokenIdToLockFlag, approvals>>
  BY DEF updateSRRRoyalty, erc721
<1>4. /\ e.event = "RoyaltiesSet" /\ e.address = CollectionAddress /\ e.tokenId = t
      /\ royalty.receiver = e.receiver /\ royalty.basisPoints = e.basisPoints
  BY DEF RoyaltiesSet
<1> HIDE DEF e
<1>5. DbOK(d) /\ TellsNow(d, t)
  BY <1>2, <1>3, KnownRecord
<1> DEFINE later == Handled(d, At(e))
<1>6. later = Index!handleRoyaltiesSet(d, e) /\ Index!idOf(e) = IdOf(t)
  BY <1>4, Dispatch, IdFacts
<1> HIDE DEF later
<1>7. Shape' /\ ChangesOnly(t) /\ royalties'[t] = royalty
  BY <1>1, <1>3 DEF Shape, ChangesOnly, Emit
<1>8. /\ Alters(d, later, IdOf(t))
      /\ Tells(later, IdOf(t), ownerOf[t], srrs[t], tokenIdToLockFlag[t], royalty,
               approvals[t].commitment)
  BY <1>3, <1>4, <1>5, <1>6, RoyaltyHandled DEF TellsNow
<1>9. TellsNext(later, t)
  BY <1>3, <1>7, <1>8 DEF TellsNext
<1>10. QED
  BY <1>2, <1>3, <1>7, <1>8, <1>9, OneTells DEF later

LEMMA HistoryFollows ==
    ASSUME UNCHANGED db, Follows, NEW caller, NEW t \in TokenId, NEW id,
           addHistory(caller, t, id)
    PROVE  Follows'
<1> DEFINE e == [event |-> "History", address |-> CollectionAddress,
                 tokenIds |-> {t}, customHistoryIds |-> {id}]
<1>1. Shape /\ \E d : Leads(db, log, d) /\ AgreesNow(d)
  BY DEF Follows
<1>2. PICK d : Leads(db, log, d) /\ AgreesNow(d)
  BY <1>1
<1>3. /\ exists(t) /\ Emit(<<e>>)
      /\ UNCHANGED <<collectionOwner, ownerOf, srrs, tokenIdToLockFlag, royalties, approvals>>
  BY DEF addHistory, collection
<1>4. e.event = "History"
  OBVIOUS
<1> HIDE DEF e
<1>5. DbOK(d) /\ TellsNow(d, t)
  BY <1>2, <1>3, KnownRecord
<1> DEFINE later == Handled(d, At(e))
<1>6. later = Index!handleSRRHistory(d, e)
  BY <1>4, Dispatch
<1> HIDE DEF later
<1>7. Shape' /\ ChangesOnly(t)
  BY <1>1, <1>3 DEF Shape, ChangesOnly, Emit
<1>8. /\ Alters(d, later, IdOf(t))
      /\ Tells(later, IdOf(t), ownerOf[t], srrs[t], tokenIdToLockFlag[t], royalties[t],
               approvals[t].commitment)
  BY <1>5, <1>6, HistoryHandled DEF TellsNow
<1>9. TellsNext(later, t)
  BY <1>3, <1>8 DEF TellsNext
<1>10. QED
  BY <1>2, <1>3, <1>7, <1>8, <1>9, OneTells DEF later

LEMMA UpdateFollows ==
    ASSUME UNCHANGED db, Follows, NEW caller \in Account, NEW t \in TokenId, Update(caller, t)
    PROVE  Follows'
BY UpdateArtistFollows, UpdateMetadataFollows, LockFollows, UpdateRoyaltyFollows, HistoryFollows
   DEF Update

-----------------------------------------------------------------------------
(* Commitments. *)

\* A commitment that replaces another one is cancelled and given.
LEMMA ApproveFollows ==
    ASSUME UNCHANGED db, Follows, NEW caller, NEW t \in TokenId, NEW commitment, NEW id,
           approveSRRByCommitment(caller, t, commitment, id)
    PROVE  Follows'
<1> DEFINE c == By("SRRCommitmentCancelled", t, caller)
           g == SRRCommitment(t, commitment, id, caller)
           ending == IF approvals[t].commitment = NoCommitment THEN << >> ELSE <<c>>
           giving == <<g>>
           old == approvals[t].commitment
<1>1. Shape /\ \E d : Leads(db, log, d) /\ AgreesNow(d)
  BY DEF Follows
<1>2. PICK d : Leads(db, log, d) /\ AgreesNow(d)
  BY <1>1
<1>3. /\ exists(t) /\ Emit(ending \o giving)
      /\ UNCHANGED <<collectionOwner, ownerOf, srrs, tokenIdToLockFlag, royalties>>
  BY DEF approveSRRByCommitment, erc721, records, onlyCollectionOwnerOrSRROwner
<1>4. \E stored : /\ approvals' = [approvals EXCEPT ![t] = stored]
                  /\ stored.commitment = commitment
  <2> DEFINE stored == [commitment |-> commitment,
                        customHistoryId |-> IF id = NO_CUSTOM_HISTORY
                                            THEN approvals[t].customHistoryId ELSE id]
  <2>1. approvals' = [approvals EXCEPT ![t] = stored]
    BY <1>1 DEF approveSRRByCommitment, Shape
  <2>2. stored.commitment = commitment
    OBVIOUS
  <2> HIDE DEF stored
  <2>3. QED
    BY <2>1, <2>2
<1>5. /\ c.event = "SRRCommitmentCancelled" /\ c.address = CollectionAddress /\ c.tokenId = t
      /\ g.event = "SRRCommitment" /\ g.address = CollectionAddress /\ g.tokenId = t
      /\ g.commitment = commitment
  BY DEF By, SRRCommitment
<1> HIDE DEF c, g
<1>6. DbOK(d) /\ TellsNow(d, t)
  BY <1>2, <1>3, KnownRecord
<1>7. \E mid : /\ Makes(d, ending, mid) /\ Alters(d, mid, IdOf(t))
               /\ Tells(mid, IdOf(t), ownerOf[t], srrs[t], tokenIdToLockFlag[t], royalties[t], old)
  <2>1. CASE approvals[t].commitment = NoCommitment
    <3>1. Makes(d, ending, d)
      BY <2>1, MakesNothing
    <3>2. Alters(d, d, IdOf(t))
      BY <1>6 DEF Alters, TellsNow, Tells
    <3>3. QED
      BY <1>6, <3>1, <3>2 DEF TellsNow
  <2>2. CASE approvals[t].commitment # NoCommitment
    <3> DEFINE mid == Handled(d, At(c))
    <3>1. Makes(d, ending, mid)
      BY <2>2, MakesOne
    <3>2. mid = Index!handleCollectionCommitmentCancelled(d, c) /\ Index!idOf(c) = IdOf(t)
      BY <1>5, Dispatch, IdFacts
    <3> HIDE DEF mid, old, ending
    <3>3. /\ Alters(d, mid, IdOf(t))
          /\ Tells(mid, IdOf(t), ownerOf[t], srrs[t], tokenIdToLockFlag[t], royalties[t], old)
      BY <1>6, <3>2, CancelHandled DEF TellsNow
    <3>4. QED
      BY <3>1, <3>3
  <2>3. QED
    BY <2>1, <2>2
<1> HIDE DEF ending, old
<1>8. PICK mid : /\ Makes(d, ending, mid) /\ Alters(d, mid, IdOf(t))
                 /\ Tells(mid, IdOf(t), ownerOf[t], srrs[t], tokenIdToLockFlag[t], royalties[t],
                          old)
  BY <1>7
<1> DEFINE later == Handled(mid, At(g))
<1>9. later = Index!handleCollectionCommitment(mid, g) /\ Index!idOf(g) = IdOf(t)
  BY <1>5, Dispatch, IdFacts
<1>10. Makes(mid, giving, later)
  BY MakesOne
<1> HIDE DEF later, giving
<1>11. Makes(d, ending \o giving, later)
  BY <1>8, <1>10, MakesMore
<1>12. /\ Alters(mid, later, IdOf(t))
       /\ Tells(later, IdOf(t), ownerOf[t], srrs[t], tokenIdToLockFlag[t], royalties[t],
                g.commitment)
  <2>1. DbOK(mid)
    BY <1>8 DEF Alters
  <2>2. QED
    BY <1>8, <1>9, <2>1, CommitmentHandled
<1>13. Alters(d, later, IdOf(t))
  BY <1>8, <1>12, AltersTwice
<1>14. Shape' /\ ChangesOnly(t) /\ approvals'[t].commitment = commitment
  BY <1>1, <1>3, <1>4 DEF Shape, ChangesOnly, Emit
<1>15. TellsNext(later, t)
  BY <1>3, <1>5, <1>12, <1>14 DEF TellsNext
<1>16. QED
  BY <1>2, <1>3, <1>11, <1>13, <1>14, <1>15, CallTells

LEMMA CancelFollows ==
    ASSUME UNCHANGED db, Follows, NEW caller, NEW t \in TokenId, cancelSRRCommitment(caller, t)
    PROVE  Follows'
<1> DEFINE e == By("SRRCommitmentCancelled", t, caller)
<1>1. Shape /\ \E d : Leads(db, log, d) /\ AgreesNow(d)
  BY DEF Follows
<1>2. PICK d : Leads(db, log, d) /\ AgreesNow(d)
  BY <1>1
<1>3. /\ exists(t) /\ Emit(<<e>>) /\ approvals' = [approvals EXCEPT ![t] = NothingCommitted]
      /\ UNCHANGED <<collectionOwner, ownerOf, srrs, tokenIdToLockFlag, royalties>>
  BY DEF cancelSRRCommitment, erc721, records, onlyCollectionOwnerOrSRROwner
<1>4. e.event = "SRRCommitmentCancelled" /\ e.address = CollectionAddress /\ e.tokenId = t
  BY DEF By
<1> HIDE DEF e
<1>5. DbOK(d) /\ TellsNow(d, t)
  BY <1>2, <1>3, KnownRecord
<1> DEFINE later == Handled(d, At(e))
<1>6. later = Index!handleCollectionCommitmentCancelled(d, e) /\ Index!idOf(e) = IdOf(t)
  BY <1>4, Dispatch, IdFacts
<1> HIDE DEF later
<1>7. Shape' /\ ChangesOnly(t)
  BY <1>1, <1>3 DEF Shape, ChangesOnly, Emit
<1>8. /\ Alters(d, later, IdOf(t))
      /\ Tells(later, IdOf(t), ownerOf[t], srrs[t], tokenIdToLockFlag[t], royalties[t],
               approvals'[t].commitment)
  BY <1>5, <1>6, CancelHandled DEF TellsNow
<1>9. TellsNext(later, t)
  BY <1>3, <1>8 DEF TellsNext
<1>10. QED
  BY <1>2, <1>3, <1>7, <1>8, <1>9, OneTells DEF later

-----------------------------------------------------------------------------
(* Transfers. *)

LEMMA TransferFollows ==
    ASSUME UNCHANGED db, IInv, Follows, NEW caller, NEW from \in Account, NEW to, NEW t \in TokenId,
           transferFrom(caller, from, to, t)
    PROVE  Follows'
<1> DEFINE e == Transfer(from, to, t)
<1>1. Shape /\ \E d : Leads(db, log, d) /\ AgreesNow(d)
  BY DEF Follows
<1>2. PICK d : Leads(db, log, d) /\ AgreesNow(d)
  BY <1>1
<1>3. /\ from = ownerOf[t] /\ Emit(<<e>>) /\ ownerOf' = [ownerOf EXCEPT ![t] = to]
      /\ UNCHANGED <<collectionOwner, srrs, tokenIdToLockFlag, royalties, approvals>>
  BY DEF transferFrom, _transferFrom, records
<1>4. /\ e.event = "Transfer" /\ e.address = CollectionAddress /\ e.tokenId = t
      /\ e.from = from /\ e.to = to
  BY DEF Transfer
<1> HIDE DEF e
<1>5. from # ZERO /\ exists(t)
  BY <1>3, CollectionAssumption DEF exists
<1>6. DbOK(d) /\ TellsNow(d, t) /\ ownerOf[t] # ZERO
  BY <1>2, <1>5, KnownRecord
<1> DEFINE later == Handled(d, At(e))
           millis == Index!secondsToMillis(time)
<1>7. later = Index!handleTransfer(d, e, millis) /\ Index!idOf(e) = IdOf(t)
  BY <1>4, Dispatch, IdFacts
<1> HIDE DEF later, millis
<1>8. Shape' /\ ChangesOnly(t) /\ ownerOf'[t] = to
  BY <1>1, <1>3 DEF Shape, ChangesOnly, Emit, IInv
<1>9. /\ Alters(d, later, IdOf(t))
      /\ Tells(later, IdOf(t), e.to, srrs[t], tokenIdToLockFlag[t], royalties[t],
               approvals[t].commitment)
  <2>1. e.from # ZERO
    BY <1>4, <1>5
  <2>2. Tells(d, IdOf(t), ownerOf[t], srrs[t], tokenIdToLockFlag[t], royalties[t],
              approvals[t].commitment)
    BY <1>6 DEF TellsNow
  <2>3. QED
    BY <1>6, <1>7, <2>1, <2>2, TransferHandled
<1>10. TellsNext(later, t)
  BY <1>3, <1>4, <1>8, <1>9 DEF TellsNext
<1>11. QED
  BY <1>2, <1>3, <1>8, <1>9, <1>10, OneTells DEF later

\* By reveal or with provenance, to the zero address too.
LEMMA AnnouncedFollows ==
    ASSUME UNCHANGED <<db, collectionOwner, srrs, tokenIdToLockFlag, royalties>>, IInv, Follows,
           NEW t \in TokenId, exists(t), NEW to, NEW id, NEW sender,
           _transferFrom(ownerOf[t], to, t),
           DOMAIN approvals' = TokenId,
           \A other \in TokenId \ {t} : approvals'[other] = approvals[other],
           Emit(<<Provenance(t, ownerOf[t], to, id, sender), Transfer(ownerOf[t], to, t)>>)
    PROVE  Follows'
<1> DEFINE p == Provenance(t, ownerOf[t], to, id, sender)
           e == Transfer(ownerOf[t], to, t)
<1>1. Shape /\ \E d : Leads(db, log, d) /\ AgreesNow(d)
  BY DEF Follows
<1>2. PICK d : Leads(db, log, d) /\ AgreesNow(d)
  BY <1>1
<1>3. /\ Emit(<<p, e>>) /\ ownerOf' = [ownerOf EXCEPT ![t] = to]
  BY DEF _transferFrom
<1>4. /\ p.event = "Provenance" /\ p.address = CollectionAddress /\ p.tokenId = t /\ p.to = to
      /\ e.event = "Transfer" /\ e.address = CollectionAddress /\ e.tokenId = t
      /\ e.from = ownerOf[t] /\ e.to = to
  BY DEF Provenance, Transfer
<1> HIDE DEF p, e
<1>5. DbOK(d) /\ TellsNow(d, t) /\ ownerOf[t] # ZERO
  BY <1>2, KnownRecord
<1> DEFINE mid == Handled(d, At(p))
           later == Handled(mid, At(e))
           millis == Index!secondsToMillis(time)
<1>6. /\ mid = Index!handleCollectionProvenance(d, p, millis) /\ Index!idOf(p) = IdOf(t)
      /\ later = Index!handleTransfer(mid, e, millis) /\ Index!idOf(e) = IdOf(t)
  BY <1>4, Dispatch, IdFacts
<1>7. Makes(d, <<p, e>>, later)
  BY MakesTwo
<1> HIDE DEF mid, later, millis
<1>8. /\ Alters(d, mid, IdOf(t))
      /\ Tells(mid, IdOf(t), p.to, srrs[t], tokenIdToLockFlag[t], royalties[t],
               approvals[t].commitment)
  BY <1>5, <1>6, ProvenanceHandled DEF TellsNow
<1>9. DbOK(mid)
  BY <1>8 DEF Alters
<1>10. /\ Alters(mid, later, IdOf(t))
       /\ Tells(later, IdOf(t), e.to, srrs[t], tokenIdToLockFlag[t], royalties[t],
                approvals'[t].commitment)
  <2>1. e.from # ZERO /\ (e.to # ZERO => p.to # ZERO)
    BY <1>4, <1>5
  <2>2. QED
    BY <1>6, <1>8, <1>9, <2>1, TransferHandled
<1>11. Alters(d, later, IdOf(t))
  BY <1>8, <1>10, AltersTwice
<1>12. Shape' /\ ChangesOnly(t) /\ ownerOf'[t] = to
  BY <1>1, <1>3 DEF Shape, ChangesOnly, Emit, IInv
<1>13. TellsNext(later, t)
  BY <1>4, <1>10, <1>12 DEF TellsNext
<1> HIDE DEF TellsNext
<1>14. QED
  BY <1>2, <1>3, <1>7, <1>11, <1>12, <1>13, CallTells

LEMMA MoveFollows ==
    ASSUME UNCHANGED db, IInv, Follows, NEW caller \in Account, NEW t \in TokenId, Move(caller, t)
    PROVE  Follows'
<1>1. ASSUME NEW commitment, NEW id, approveSRRByCommitment(caller, t, commitment, id)
      PROVE  Follows'
  BY <1>1, ApproveFollows
<1>2. CASE cancelSRRCommitment(caller, t)
  BY <1>2, CancelFollows
<1>3. ASSUME NEW to, NEW reveal, transferSRRByReveal(to, reveal, t)
      PROVE  Follows'
  <2>1. /\ exists(t) /\ _transferFrom(ownerOf[t], to, t)
        /\ UNCHANGED <<collectionOwner, srrs, tokenIdToLockFlag, royalties>>
        /\ approvals' = [approvals EXCEPT ![t] = NothingCommitted]
    BY <1>3 DEF transferSRRByReveal, records
  <2>2. PICK id : Emit(<<Provenance(t, ownerOf[t], to, id, Null), Transfer(ownerOf[t], to, t)>>)
    BY <1>3 DEF transferSRRByReveal
  <2>3. /\ DOMAIN approvals' = TokenId
        /\ \A other \in TokenId \ {t} : approvals'[other] = approvals[other]
    BY <2>1 DEF Follows, Shape
  <2>4. QED
    BY <2>1, <2>2, <2>3, AnnouncedFollows
<1>4. ASSUME NEW to, NEW id, transferFromWithProvenance(caller, to, t, id)
      PROVE  Follows'
  <2>1. /\ exists(t) /\ _transferFrom(ownerOf[t], to, t)
        /\ UNCHANGED <<collectionOwner, srrs, tokenIdToLockFlag, royalties, approvals>>
        /\ Emit(<<Provenance(t, ownerOf[t], to, id, caller), Transfer(ownerOf[t], to, t)>>)
    BY <1>4 DEF transferFromWithProvenance, records, onlyCollectionOwnerOrSRROwner
  <2>2. /\ DOMAIN approvals' = TokenId
        /\ \A other \in TokenId \ {t} : approvals'[other] = approvals[other]
    BY <2>1 DEF Follows, Shape
  <2>3. QED
    BY <2>1, <2>2, AnnouncedFollows
<1>5. ASSUME NEW from \in Account, NEW to, transferFrom(caller, from, to, t)
      PROVE  Follows'
  BY <1>5, TransferFollows
<1>6. ASSUME NEW spender, approve(caller, spender, t)
      PROVE  Follows'
  <2>1. /\ Emit(<< >>)
        /\ UNCHANGED <<collectionOwner, ownerOf, srrs, tokenIdToLockFlag, royalties, approvals>>
    BY <1>6 DEF approve, records
  <2>2. Shape /\ \E d : Leads(db, log, d) /\ AgreesNow(d)
    BY DEF Follows
  <2>3. PICK d : Leads(db, log, d) /\ AgreesNow(d)
    BY <2>2
  <2>4. Leads(db', log', d) /\ time' = time
    BY <2>1, <2>3, MakesNothing, EmitLeads
  <2>5. Shape' /\ AgreesNext(d)
    BY <2>1, <2>2, <2>3, <2>4
    DEF Shape, AgreesNow, AgreesNext, RecordAgreesNow, RecordAgreesNext
  <2>6. QED
    BY <2>4, <2>5 DEF Follows, AgreesNext, AgreesNow, RecordAgreesNext, RecordAgreesNow
<1>7. QED
  BY <1>1, <1>2, <1>3, <1>4, <1>5, <1>6 DEF Move

-----------------------------------------------------------------------------
(* Issues. *)

\* The event says locked only of a record that is.
LockedAs(lock, flag) == lock \in {FALSE, flag}

\* The events that every issue emits, the mint and then the record, are handled.
Created(d, t, issuer, artist, cid, lock, srr, flag, later) ==
    /\ Makes(d, <<Transfer(ZERO, issuer, t), CreateSRR(t, issuer, artist, cid, lock)>>, later)
    /\ Alters(d, later, IdOf(t))
    /\ Tells(later, IdOf(t), issuer, srr, flag, royalties[t], approvals[t].commitment)

LEMMA CreationTells ==
    ASSUME NEW d, AgreesNow(d), NEW t \in TokenId, NEW issuer, NEW artist, NEW cid, NEW lock,
           NEW srr, srr.metadataCID = cid, srr.issuer = issuer,
           NEW flag, LockedAs(lock, flag), time \in Nat
    PROVE  \E later : Created(d, t, issuer, artist, cid, lock, srr, flag, later)
<1> DEFINE e == Transfer(ZERO, issuer, t)
           f == CreateSRR(t, issuer, artist, cid, lock)
           mid == Handled(d, At(e))
           later == Handled(mid, At(f))
           millis == Index!secondsToMillis(time)
           royalty == royalties[t]
           commitment == approvals[t].commitment
<1>1. /\ e.event = "Transfer" /\ e.address = CollectionAddress /\ e.tokenId = t
      /\ e.from = ZERO /\ e.to = issuer
      /\ f.event = "CreateSRR" /\ f.address = CollectionAddress /\ f.tokenId = t
      /\ f.issuer = issuer /\ f.metadataDigest = cid /\ f.lock = lock
  BY DEF Transfer, CreateSRR
<1>2. millis \in Nat
  BY DEF Index!secondsToMillis
<1>3. /\ DbOK(d) /\ (IdOf(t) \notin DOMAIN d["SRR"] => royalty.receiver = ZERO)
      /\ IdOf(t) \in DOMAIN d["SRR"] => /\ ShowsRoyalty(d["SRR"][IdOf(t)], royalty)
                                        /\ ShowsCommitment(d["SRR"][IdOf(t)], commitment)
  BY DEF AgreesNow, RecordAgreesNow, RecordAgrees, ShowsRecord
<1> HIDE DEF e, f
<1>4. /\ mid = Index!handleTransfer(d, e, millis) /\ Index!idOf(e) = IdOf(t)
      /\ later = Index!handleCreateSRR(mid, f) /\ Index!idOf(f) = IdOf(t)
  BY <1>1, Dispatch, IdFacts
<1>5. Makes(d, <<e, f>>, later)
  BY MakesTwo
<1> HIDE DEF mid, later, millis, royalty, commitment
<1>6. Alters(d, mid, IdOf(t)) /\ Minted(mid, IdOf(t), e.to, royalty, commitment)
  BY <1>1, <1>2, <1>3, <1>4, MintHandled
<1>7. DbOK(mid) /\ Minted(mid, IdOf(t), issuer, royalty, commitment)
  BY <1>1, <1>6 DEF Alters
<1>8. /\ Alters(mid, later, IdOf(t))
      /\ Tells(later, IdOf(t), issuer, srr, flag, royalty, commitment)
  <2>1. f.lock \in {FALSE, flag}
    BY <1>1 DEF LockedAs
  <2>2. QED
    BY <1>1, <1>4, <1>7, <2>1, CreateHandled
<1>9. Alters(d, later, IdOf(t))
  BY <1>6, <1>8, AltersTwice
<1>10. Created(d, t, issuer, artist, cid, lock, srr, flag, later)
  BY <1>5, <1>8, <1>9 DEF Created, e, f, royalty, commitment
<1>11. QED
  BY <1>10

LEMMA IssueFollows ==
    ASSUME UNCHANGED db, IInv, Follows, NEW issuer \in Account, NEW cid \in MetadataCID,
           NEW artist \in Artist, NEW lock, lock \in {TRUE, FALSE}, NEW to, NEW royalty,
           createSRR(issuer, cid, artist, lock, to, royalty)
    PROVE  Follows'
<1> DEFINE t == generate[<<cid, artist>>]
           id == IdOf(t)
           r == RoyaltiesSet(t, royalty)
           e == Transfer(issuer, to, t)
           created == <<Transfer(ZERO, issuer, t), CreateSRR(t, issuer, artist, cid, lock)>>
           rates == IF royalty.receiver = ZERO THEN << >> ELSE <<r>>
           moves == IF to = ZERO THEN << >> ELSE <<e>>
           owner == IF to = ZERO THEN issuer ELSE to
           rate == IF royalty.receiver = ZERO THEN royalties[t] ELSE royalty
           commitment == approvals[t].commitment
           srr == [issuer |-> issuer, artist |-> artist, metadataCID |-> cid]
<1>1. Shape /\ \E d : Leads(db, log, d) /\ AgreesNow(d)
  BY DEF Follows
<1>2. PICK d : Leads(db, log, d) /\ AgreesNow(d)
  BY <1>1
<1>3. t \in TokenId /\ issuer # ZERO
  BY CollectionAssumption
<1>4. /\ Emit(created \o rates \o moves)
      /\ ownerOf' = [ownerOf EXCEPT ![t] = owner]
      /\ srrs' = [srrs EXCEPT ![t] = srr]
      /\ royalties' = [royalties EXCEPT ![t] = rate]
      /\ UNCHANGED <<collectionOwner, approvals>>
  <2>1. Emit(created \o rates \o moves)
    BY DEF createSRR, CreationEvents
  <2>2. ownerOf' = [ownerOf EXCEPT ![t] = owner]
    BY DEF createSRR, MintAndTransfer
  <2>3. srrs' = [srrs EXCEPT ![t] = srr] /\ UNCHANGED <<collectionOwner, approvals>>
    BY DEF createSRR
  <2>4. royalties' = [royalties EXCEPT ![t] = rate]
    BY <1>1, <1>3 DEF createSRR, Shape
  <2>5. QED
    BY <2>1, <2>2, <2>3, <2>4
<1>5. tokenIdToLockFlag' = [tokenIdToLockFlag EXCEPT ![t] = @ \/ lock]
  BY DEF createSRR
<1>f. PICK flag : flag = tokenIdToLockFlag'[t]
  OBVIOUS
<1>6. LockedAs(lock, flag)
  <2>1. CASE lock = TRUE
    <3>1. flag = (tokenIdToLockFlag[t] \/ TRUE)
      BY <1>1, <1>3, <1>5, <1>f, <2>1 DEF Shape
    <3>2. QED
      BY <2>1, <3>1 DEF LockedAs
  <2>2. CASE lock = FALSE
    BY <2>2 DEF LockedAs
  <2>3. QED
    BY <2>1, <2>2
<1>7. /\ r.event = "RoyaltiesSet" /\ r.address = CollectionAddress /\ r.tokenId = t
      /\ royalty.receiver = r.receiver /\ royalty.basisPoints = r.basisPoints
      /\ e.event = "Transfer" /\ e.address = CollectionAddress /\ e.tokenId = t
      /\ e.from = issuer /\ e.to = to
  BY DEF RoyaltiesSet, Transfer
<1>8. \A other \in TokenId \ {t} : tokenIdToLockFlag'[other] = tokenIdToLockFlag[other]
  BY <1>1, <1>5 DEF Shape
<1>s. /\ srr.metadataCID = cid /\ srr.issuer = issuer
      /\ DOMAIN srr = {"issuer", "artist", "metadataCID"}
  OBVIOUS
<1>k. DOMAIN tokenIdToLockFlag' = TokenId
  BY <1>1, <1>5 DEF Shape
<1> HIDE DEF t, r, e, srr
<1>9. \E made : /\ Makes(d, created, made) /\ Alters(d, made, id)
                /\ Tells(made, id, issuer, srr, flag, royalties[t], commitment)
  <2>1. time \in Nat
    BY <1>1 DEF Shape
  <2>2. AgreesNow(d) /\ t \in TokenId /\ srr.metadataCID = cid /\ srr.issuer = issuer
    BY <1>2, <1>3, <1>s
  <2>3. \E made : Created(d, t, issuer, artist, cid, lock, srr, flag, made)
    BY <1>6, <2>1, <2>2, CreationTells
  <2>4. QED
    BY <2>3 DEF Created
<1> HIDE DEF created, id, commitment
<1>10. PICK made : /\ Makes(d, created, made) /\ Alters(d, made, id)
                   /\ Tells(made, id, issuer, srr, flag, royalties[t], commitment)
  BY <1>9
<1>11. DbOK(made) /\ id \in DOMAIN made["SRR"]
  BY <1>10 DEF Alters, Tells
<1>12. \E rated : /\ Makes(made, rates, rated) /\ Alters(made, rated, id)
                  /\ Tells(rated, id, issuer, srr, flag, rate, commitment)
  <2>1. CASE royalty.receiver = ZERO
    <3>1. Makes(made, rates, made) /\ Alters(made, made, id)
      BY <1>11, <2>1, MakesNothing DEF Alters
    <3>2. rate = royalties[t]
      BY <2>1
    <3>3. QED
      BY <1>10, <3>1, <3>2
  <2>2. CASE royalty.receiver # ZERO
    <3> DEFINE rated == Handled(made, At(r))
    <3>1. Makes(made, rates, rated) /\ rate = royalty
      BY <2>2, MakesOne
    <3>2. rated = Index!handleRoyaltiesSet(made, r) /\ Index!idOf(r) = id
      BY <1>3, <1>7, Dispatch, IdFacts DEF id
    <3> HIDE DEF rated, rates, rate
    <3>3. Alters(made, rated, id) /\ Tells(rated, id, issuer, srr, flag, royalty, commitment)
      BY <1>7, <1>10, <1>11, <2>2, <3>2, RoyaltyHandled
    <3>4. QED
      BY <3>1, <3>3
  <2>3. QED
    BY <2>1, <2>2
<1> HIDE DEF rates
<1>13. PICK rated : /\ Makes(made, rates, rated) /\ Alters(made, rated, id)
                    /\ Tells(rated, id, issuer, srr, flag, rate, commitment)
  BY <1>12
<1>14. DbOK(rated) /\ id \in DOMAIN rated["SRR"]
  BY <1>13 DEF Alters, Tells
<1> HIDE DEF rate
<1>15. \E later : /\ Makes(rated, moves, later) /\ Alters(rated, later, id)
                  /\ Tells(later, id, owner, srr, flag, rate, commitment)
  <2>1. CASE to = ZERO
    <3>1. Makes(rated, moves, rated) /\ Alters(rated, rated, id)
      BY <1>14, <2>1, MakesNothing DEF Alters
    <3>2. owner = issuer
      BY <2>1
    <3>3. QED
      BY <1>13, <3>1, <3>2
  <2>2. CASE to # ZERO
    <3> DEFINE later == Handled(rated, At(e))
               millis == Index!secondsToMillis(time)
    <3>1. Makes(rated, moves, later) /\ owner = to
      BY <2>2, MakesOne
    <3>2. later = Index!handleTransfer(rated, e, millis) /\ Index!idOf(e) = id
      BY <1>3, <1>7, Dispatch, IdFacts DEF id
    <3> HIDE DEF later, moves, owner, millis
    <3>3. e.from # ZERO /\ (e.to # ZERO => issuer # ZERO)
      BY <1>3, <1>7
    <3>4. Alters(rated, later, id) /\ Tells(later, id, e.to, srr, flag, rate, commitment)
      BY <1>13, <1>14, <3>2, <3>3, TransferHandled
    <3>5. QED
      BY <1>7, <3>1, <3>4
  <2>3. QED
    BY <2>1, <2>2
<1> HIDE DEF moves
<1>16. PICK later : /\ Makes(rated, moves, later) /\ Alters(rated, later, id)
                    /\ Tells(later, id, owner, srr, flag, rate, commitment)
  BY <1>15
<1> HIDE DEF owner
<1>17. Makes(d, created \o rates \o moves, later)
  BY <1>10, <1>13, <1>16, MakesMore
<1>18. Alters(d, later, id)
  BY <1>10, <1>13, <1>16, AltersTwice
<1>19. /\ ownerOf'[t] = owner /\ srrs'[t] = srr /\ royalties'[t] = rate
       /\ Shape' /\ ChangesOnly(t)
  BY <1>1, <1>3, <1>4, <1>8, <1>s, <1>k DEF Shape, ChangesOnly, Emit, IInv
<1>20. TellsNext(later, t)
  BY <1>4, <1>f, <1>16, <1>19 DEF TellsNext, id, commitment
<1> DEFINE events == created \o rates \o moves
<1>21. Emit(events) /\ Makes(d, events, later)
  BY <1>4, <1>17
<1> HIDE DEF events
<1>22. QED
  BY <1>2, <1>3, <1>4, <1>18, <1>19, <1>20, <1>21, CallTells DEF id

-----------------------------------------------------------------------------
(* The owner of the collection. *)

LEMMA OwnershipFollows ==
    ASSUME UNCHANGED db, Follows, \/ createCollectionContract
                                  \/ \E caller \in Account, newOwner \in Account :
                                        transferOwnership(caller, newOwner)
    PROVE  Follows'
<1>1. Shape /\ \E d : Leads(db, log, d) /\ AgreesNow(d)
  BY DEF Follows
<1>2. PICK d : Leads(db, log, d) /\ AgreesNow(d)
  BY <1>1
<1>3. UNCHANGED <<ownerOf, srrs, tokenIdToLockFlag, royalties, approvals>>
  BY DEF createCollectionContract, transferOwnership, erc721, records
<1>4. \E e : /\ Emit(<<e>>)
             /\ AltersCollection(d, Handled(d, At(e)))
             /\ ShowsCollection(Handled(d, At(e)), collectionOwner')
  <2>1. CASE createCollectionContract
    <3> DEFINE e == [event |-> "CollectionCreated", address |-> CollectionAddress,
                     owner |-> Creator]
               later == Handled(d, At(e))
               millis == Index!secondsToMillis(time)
    <3>1. Emit(<<e>>) /\ collectionOwner' = Creator
      BY <2>1 DEF createCollectionContract
    <3>2. e.event = "CollectionCreated" /\ e.address = CollectionAddress /\ e.owner = Creator
      OBVIOUS
    <3> HIDE DEF e
    <3>3. later = Index!handleCollectionCreated(d, e, millis)
      BY <3>2, Dispatch
    <3> HIDE DEF later, millis
    <3>4. AltersCollection(d, later) /\ ShowsCollection(later, e.owner)
      BY <1>2, <3>2, <3>3, CollectionCreatedHandled DEF AgreesNow
    <3>5. QED
      BY <3>1, <3>2, <3>4 DEF later
  <2>2. ASSUME NEW caller \in Account, NEW newOwner \in Account, transferOwnership(caller, newOwner)
        PROVE  \E e : /\ Emit(<<e>>)
                      /\ AltersCollection(d, Handled(d, At(e)))
                      /\ ShowsCollection(Handled(d, At(e)), collectionOwner')
    <3> DEFINE e == [event |-> "OwnershipTransferred", address |-> CollectionAddress,
                     owner |-> newOwner]
               later == Handled(d, At(e))
    <3>1. Emit(<<e>>) /\ collectionOwner' = newOwner /\ collectionOwner # ZERO
      BY <2>2, CollectionAssumption DEF transferOwnership
    <3>2. e.event = "OwnershipTransferred" /\ e.address = CollectionAddress /\ e.owner = newOwner
      OBVIOUS
    <3> HIDE DEF e
    <3>3. later = Index!handleOwnershipTransferred(d, e)
      BY <3>2, Dispatch
    <3> HIDE DEF later
    <3>4. DbOK(d) /\ ShowsCollection(d, collectionOwner)
      BY <1>2, <3>1 DEF AgreesNow
    <3>5. AltersCollection(d, later) /\ ShowsCollection(later, e.owner)
      BY <3>2, <3>3, <3>4, OwnershipHandled
    <3>6. QED
      BY <3>1, <3>2, <3>5 DEF later
  <2>3. QED
    BY <2>1, <2>2
<1>5. PICK e : /\ Emit(<<e>>)
               /\ AltersCollection(d, Handled(d, At(e)))
               /\ ShowsCollection(Handled(d, At(e)), collectionOwner')
  BY <1>4
<1> DEFINE later == Handled(d, At(e))
<1>6. Makes(d, <<e>>, later)
  BY MakesOne
<1>7. AltersCollection(d, later) /\ ShowsCollection(later, collectionOwner')
  BY <1>5
<1> HIDE DEF later
<1>8. Leads(db', log', later) /\ time' = time
  BY <1>2, <1>5, <1>6, EmitLeads
<1>9. Shape' /\ AgreesNext(later)
  BY <1>1, <1>2, <1>3, <1>7, <1>8
  DEF Shape, AgreesNow, AgreesNext, RecordAgreesNow, RecordAgreesNext, RecordAgrees,
      AltersCollection
<1>10. QED
  BY <1>8, <1>9 DEF Follows, AgreesNext, AgreesNow, RecordAgreesNext, RecordAgreesNow

-----------------------------------------------------------------------------

LEMMA InitFollows == IndexedInit => Follows
<1> SUFFICES ASSUME IndexedInit PROVE Follows
  OBVIOUS
<1>1. /\ collectionOwner = ZERO /\ time = 1 /\ log = << >>
      /\ ownerOf = [t \in TokenId |-> ZERO]
      /\ srrs = [t \in TokenId |-> NoSRR]
      /\ tokenIdToLockFlag = [t \in TokenId |-> FALSE]
      /\ royalties = [t \in TokenId |-> NoRoyalty]
      /\ approvals = [t \in TokenId |-> NothingCommitted]
  BY DEF IndexedInit, CollectionInit, ChainInit
<1>2. Shape
  BY <1>1 DEF Shape, NoSRR
<1> DEFINE wallets == [a \in LicensedUser |-> [walletAddress |-> a]]
<1>3. db = [Index!EmptyDatabase EXCEPT !["LicensedUserWallet"] = wallets]
  BY DEF IndexedInit
<1> HIDE DEF wallets
<1>4. /\ DOMAIN db = Index!Tables \union {"stopped"} /\ db["stopped"] = FALSE
      /\ db["SRR"] = << >>
  <2>1. DOMAIN Index!EmptyDatabase = Index!Tables \union {"stopped"}
    BY DEF Index!EmptyDatabase
  <2>2. "SRR" \in Index!Tables /\ "SRR" # "stopped" /\ "SRR" # "LicensedUserWallet"
    BY DEF Index!Tables
  <2>3. Index!EmptyDatabase["SRR"] = << >> /\ Index!EmptyDatabase["stopped"] = FALSE
    BY <2>2 DEF Index!EmptyDatabase, Index!NoEntities
  <2>4. QED
    BY <1>3, <2>1, <2>2, <2>3
<1>5. DOMAIN db["SRR"] = {}
  BY <1>4
<1>6. DbOK(db)
  BY <1>4, <1>5 DEF DbOK
<1>7. AgreesNow(db)
  BY <1>1, <1>5, <1>6 DEF AgreesNow, RecordAgreesNow, RecordAgrees, NoRoyalty
<1>8. Leads(db, log, db)
  BY <1>1, LeadsNothing
<1>9. QED
  BY <1>2, <1>7, <1>8 DEF Follows

LEMMA NextFollows == IInv /\ Follows /\ [IndexedNext]_composed => Follows'
<1> SUFFICES ASSUME IInv, Follows, [IndexedNext]_composed PROVE Follows'
  OBVIOUS
<1>1. CASE CollectionCall /\ UNCHANGED db
  <2>1. ASSUME NEW issuer \in Account, Issue(issuer)
        PROVE  Follows'
    BY <1>1, <2>1, IssueFollows DEF Issue
  <2>2. QED
    BY <1>1, <2>1, OwnershipFollows, UpdateFollows, MoveFollows DEF CollectionCall
<1>2. CASE NextBlock /\ UNCHANGED <<collection, db>>
  <2>1. time' \in Nat
    BY <1>2 DEF NextBlock, Follows, Shape
  <2>2. QED
    BY <1>2, <2>1, QuietFollows DEF NextBlock, collection
<1>3. CASE IndexEvent
  <2>1. Shape /\ \E d : Leads(db, log, d) /\ AgreesNow(d)
    BY DEF Follows
  <2>2. PICK d : Leads(db, log, d) /\ AgreesNow(d)
    BY <2>1
  <2>3. log # << >> /\ db' = Handled(db, log[1]) /\ log' = Tail(log)
    BY <1>3 DEF IndexEvent, Handled
  <2>4. Leads(db', log', d)
    BY <2>2, <2>3, LeadsLess
  <2>5. UNCHANGED <<collection, time>>
    BY <1>3 DEF IndexEvent
  <2>6. Shape' /\ AgreesNext(d)
    BY <2>1, <2>2, <2>5
    DEF Shape, AgreesNow, AgreesNext, RecordAgreesNow, RecordAgreesNext, collection
  <2>7. QED
    BY <2>4, <2>6 DEF Follows, AgreesNext, AgreesNow, RecordAgreesNext, RecordAgreesNow
<1>4. CASE UNCHANGED composed
  <2>1. time' \in Nat
    BY <1>4 DEF composed, Follows, Shape
  <2>2. QED
    BY <1>4, <2>1, QuietFollows DEF composed, collection
<1>5. QED
  BY <1>1, <1>2, <1>3, <1>4 DEF IndexedNext

LEMMA IndexFollows == IndexedSpec => []Follows
<1>1. IndexedInit => Follows
  BY InitFollows
<1>2. IInv /\ Follows /\ [IndexedNext]_composed => Follows'
  BY NextFollows
<1>3. IndexedSpec => []IInv
  BY Invariance
<1>4. QED
  BY <1>1, <1>2, <1>3, PTL DEF IndexedSpec

\* Once the index has handled every event of a collection, it shows of the collection
\* and of each of its records what the contract has (collection-factory-mapping.ts and
\* collection-mapping.ts), however far behind it was, whatever calls came in between and
\* whichever records were sent to the zero address and issued again.
THEOREM CollectionAgreesHolds == IndexedSpec => []CollectionAgrees
<1>1. Follows => CollectionAgrees
  <2> SUFFICES ASSUME Follows, CaughtUp, collectionOwner # ZERO
               PROVE  /\ db["Collection"][CollectionAddress].ownerAddress = collectionOwner
                      /\ db["Collection"][CollectionAddress].creatorAddress = Creator
                      /\ \A t \in TokenId : exists(t) =>
                            /\ Indexed(t)
                            /\ Shown(t).ownerAddress = ownerOf[t]
                            /\ Shown(t).metadataDigest = srrs[t].metadataCID
                            /\ Shown(t).collection = CollectionAddress
                            /\ Shown(t).issuer # Null => Shown(t).issuer = srrs[t].issuer
                            /\ ShowsRoyalty(Shown(t), royalties[t])
    BY DEF CollectionAgrees, ShowsRoyalty
  <2>1. AgreesNow(db)
    BY LeadsEmpty DEF Follows, CaughtUp
  <2>2. ShowsCollection(db, collectionOwner)
    BY <2>1 DEF AgreesNow
  <2>3. ASSUME NEW t \in TokenId, exists(t)
        PROVE  /\ Indexed(t) /\ ShowsRoyalty(Shown(t), royalties[t])
               /\ Shown(t).ownerAddress = ownerOf[t]
               /\ ShowsOwned(Shown(t), srrs[t], tokenIdToLockFlag[t])
    BY <2>1, <2>3, KnownRecord DEF TellsNow, Tells, ShowsRecord, Indexed, Shown
  <2>4. QED
    BY <2>2, <2>3 DEF ShowsCollection, ShowsOwned
<1>2. QED
  BY <1>1, IndexFollows, PTL

\* What the index shows as open can be revealed and what it shows as locked is locked
\* (handleCollectionCommitment, handleTransfer, handleLockExternalTransfer and
\* handleCreateSRR): a record that was sent to the zero address and issued again keeps
\* no commitment and no lock that the contract has not.
THEOREM ShownIsInForceHolds == IndexedSpec => []ShownIsInForce
<1>1. Follows => ShownIsInForce
  <2> SUFFICES ASSUME Follows, CaughtUp, NEW t \in TokenId, exists(t)
               PROVE  /\ Shown(t).transferCommitment # Null =>
                            Shown(t).transferCommitment = approvals[t].commitment
                      /\ Shown(t).lockExternalTransfer => tokenIdToLockFlag[t]
    BY DEF ShownIsInForce
  <2>1. AgreesNow(db)
    BY LeadsEmpty DEF Follows, CaughtUp
  <2>2. /\ ShowsCommitment(Shown(t), approvals[t].commitment)
        /\ ShowsOwned(Shown(t), srrs[t], tokenIdToLockFlag[t])
    BY <2>1, KnownRecord DEF TellsNow, Tells, ShowsRecord, Shown
  <2>3. Shown(t).lockExternalTransfer \in {FALSE, tokenIdToLockFlag[t]}
    BY <2>2 DEF ShowsOwned
  <2>4. Shown(t).lockExternalTransfer => tokenIdToLockFlag[t]
    BY <2>3
  <2>5. QED
    BY <2>2, <2>4 DEF ShowsCommitment
<1>2. QED
  BY <1>1, IndexFollows, PTL
=============================================================================
