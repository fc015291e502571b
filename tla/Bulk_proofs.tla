----------------------------- MODULE Bulk_proofs -----------------------------
(***************************************************************************)
(* Proofs about the bulk contracts, for any contracts, batches, trees and  *)
(* width of the count, and lists of any length.                            *)
(*                                                                         *)
(* The inductive invariant adds what the code keeps without saying so: a   *)
(* batch that is not prepared has no processed leaves (so preparing it may *)
(* reset the count), and outside of BulkIssue, whose batches can be        *)
(* migrated, the leaves that are marked are those that took effect.        *)
(* That a record is issued by one leaf rests on a second invariant: what a *)
(* leaf issued is owned from then on.  That the index agrees rests on a    *)
(* third: what the waiting events will make of the database is what the    *)
(* contracts have now.                                                     *)
(***************************************************************************)
EXTENDS IndexedBulk, SequenceFacts, FiniteSetTheorems, TLAPS

Batch == [prepared : BOOLEAN, signer : Licensed \union {ZERO}, processedCount : Nat,
          processedLeaves : SUBSET Leaf]

TookEffect(effect) == {leaf \in Leaf : effect[leaf] = 1}

GoodBatch(c, batch, effect) ==
    /\ batch.processedLeaves # {} => batch.prepared
    /\ TookEffect(effect) \subseteq batch.processedLeaves
    /\ c # "BulkIssue" =>
          /\ TookEffect(effect) = batch.processedLeaves
          /\ batch.processedCount = Cardinality(batch.processedLeaves)

\* A batch after leaves of it were processed, and what took effect then.
Processed(batch, leaves) ==
    [batch EXCEPT !.processedCount = @ + Cardinality(leaves), !.processedLeaves = @ \union leaves]

After(effect, leaves) == [l \in Leaf |-> IF l \in leaves THEN effect[l] + 1 ELSE effect[l]]

IInv ==
    /\ batches \in [BulkContract -> [Root -> Batch]]
    /\ effects \in [BulkContract -> [Root -> [Leaf -> 0..1]]]
    /\ \A c \in BulkContract, root \in Root : GoodBatch(c, batches[c][root], effects[c][root])

-----------------------------------------------------------------------------

\* Preparing a batch that was not prepared.
LEMMA PreparedIsGood ==
    ASSUME NEW c, NEW batch \in Batch, NEW effect \in [Leaf -> 0..1], NEW sender \in Licensed,
           GoodBatch(c, batch, effect), ~batch.prepared
    PROVE  LET new == [batch EXCEPT !.prepared = TRUE, !.signer = sender, !.processedCount = 0]
           IN  new \in Batch /\ GoodBatch(c, new, effect)
<1> DEFINE new == [batch EXCEPT !.prepared = TRUE, !.signer = sender, !.processedCount = 0]
<1>1. /\ new \in Batch /\ new.prepared /\ new.processedCount = 0
      /\ new.processedLeaves = batch.processedLeaves
  BY DEF Batch
<1> HIDE DEF new
<1>2. batch.processedLeaves = {}
  BY DEF GoodBatch
<1>3. Cardinality({}) = 0
  BY FS_EmptySet
<1>4. QED
  BY <1>1, <1>2, <1>3 DEF GoodBatch, new

\* Processing leaves that were not processed.
LEMMA ProcessedIsGood ==
    ASSUME NEW c, NEW batch \in Batch, NEW effect \in [Leaf -> 0..1], NEW leaves \in SUBSET Leaf,
           GoodBatch(c, batch, effect), batch.prepared, leaves \cap batch.processedLeaves = {}
    PROVE  /\ Processed(batch, leaves) \in Batch
           /\ After(effect, leaves) \in [Leaf -> 0..1]
           /\ GoodBatch(c, Processed(batch, leaves), After(effect, leaves))
<1> DEFINE old == batch.processedLeaves
           new == Processed(batch, leaves)
           after == After(effect, leaves)
<1>1. /\ IsFiniteSet(leaves) /\ IsFiniteSet(old)
      /\ Cardinality(leaves) \in Nat /\ Cardinality(old) \in Nat
  BY BulkAssumption, FS_Subset, FS_CardinalityType DEF Batch
<1>2. /\ new \in Batch /\ new.prepared
      /\ new.processedCount = batch.processedCount + Cardinality(leaves)
      /\ new.processedLeaves = old \union leaves
  <2> DEFINE k == batch.processedCount + Cardinality(leaves)
             all == old \union leaves
  <2>1. k \in Nat /\ all \in SUBSET Leaf
    BY <1>1 DEF Batch
  <2>2. new = [batch EXCEPT !.processedCount = k, !.processedLeaves = all]
    BY DEF Processed
  <2> HIDE DEF k, all, new
  <2>3. /\ new \in Batch /\ new.prepared
        /\ new.processedCount = k /\ new.processedLeaves = all
    BY <2>1, <2>2 DEF Batch
  <2>4. QED
    BY <2>3 DEF k, all
<1>3. \A l \in leaves : effect[l] = 0
  BY DEF GoodBatch, TookEffect
<1>4. after \in [Leaf -> 0..1] /\ TookEffect(after) = TookEffect(effect) \union leaves
  BY <1>3 DEF TookEffect, After
<1>5. old \cap leaves = {}
  OBVIOUS
<1>6. c # "BulkIssue" => TookEffect(effect) = old /\ batch.processedCount = Cardinality(old)
  BY DEF GoodBatch
<1>7. TookEffect(effect) \subseteq old
  BY DEF GoodBatch
<1> HIDE DEF old, new, after
<1>8. Cardinality(old \union leaves) = Cardinality(old) + Cardinality(leaves)
  <2>1. Cardinality(old \union leaves)
          = Cardinality(old) + Cardinality(leaves) - Cardinality(old \cap leaves)
    BY <1>1, FS_Union
  <2>2. Cardinality(old \cap leaves) = 0
    BY <1>5, FS_EmptySet
  <2>3. QED
    BY <1>1, <2>1, <2>2
<1>9. GoodBatch(c, new, after)
  BY <1>2, <1>4, <1>6, <1>7, <1>8 DEF GoodBatch
<1>10. QED
  BY <1>2, <1>4, <1>9 DEF new, after

\* A batch that is migrated: its leaves stay marked.
LEMMA MigratedIsGood ==
    ASSUME NEW batch \in Batch, NEW effect \in [Leaf -> 0..1], NEW leaves \in SUBSET Leaf,
           NEW issuer \in Licensed, GoodBatch("BulkIssue", batch, effect)
    PROVE  LET new == [prepared |-> TRUE, signer |-> issuer,
                       processedCount |-> Cardinality(leaves) % (COUNT_MAX + 1),
                       processedLeaves |-> batch.processedLeaves \union leaves]
           IN  new \in Batch /\ GoodBatch("BulkIssue", new, effect)
<1>1. Cardinality(leaves) \in Nat
  BY BulkAssumption, FS_Subset, FS_CardinalityType
<1>2. Cardinality(leaves) % (COUNT_MAX + 1) \in Nat
  BY <1>1, BulkAssumption
<1>3. QED
  BY <1>2 DEF Batch, GoodBatch

-----------------------------------------------------------------------------

LEMMA InitHolds == IndexedInit => IInv
<1> SUFFICES ASSUME IndexedInit PROVE IInv
  OBVIOUS
<1>1. NoBatch \in Batch /\ NoBatch.processedLeaves = {} /\ NoBatch.processedCount = 0
  BY DEF NoBatch, Batch
<1>2. /\ batches = [c \in BulkContract |-> [r \in Root |-> NoBatch]]
      /\ effects = [c \in BulkContract |-> [r \in Root |-> [l \in Leaf |-> 0]]]
  BY DEF IndexedInit, BulkInit
<1>3. ASSUME NEW c PROVE GoodBatch(c, NoBatch, [l \in Leaf |-> 0])
  <2>1. TookEffect([l \in Leaf |-> 0]) = {}
    BY DEF TookEffect
  <2>2. Cardinality({}) = 0
    BY FS_EmptySet
  <2>3. QED
    BY <1>1, <2>1, <2>2 DEF GoodBatch
<1>4. /\ batches \in [BulkContract -> [Root -> Batch]]
      /\ effects \in [BulkContract -> [Root -> [Leaf -> 0..1]]]
  BY <1>1, <1>2
<1>5. QED
  BY <1>2, <1>3, <1>4 DEF IInv

\* One batch is changed, and what took effect of it.
LEMMA OneBatchChanges ==
    ASSUME IInv, NEW c \in BulkContract, NEW root \in Root,
           NEW new \in Batch, NEW after \in [Leaf -> 0..1], GoodBatch(c, new, after),
           batches' = [batches EXCEPT ![c][root] = new],
           effects' = [effects EXCEPT ![c][root] = after]
    PROVE  IInv'
<1>1. batches' \in [BulkContract -> [Root -> Batch]]
  BY DEF IInv
<1>2. effects' \in [BulkContract -> [Root -> [Leaf -> 0..1]]]
  BY DEF IInv
<1>3. ASSUME NEW d \in BulkContract, NEW r \in Root
      PROVE  GoodBatch(d, batches'[d][r], effects'[d][r])
  <2>1. CASE d = c /\ r = root
    <3>1. batches'[d][r] = new /\ effects'[d][r] = after
      BY <2>1 DEF IInv
    <3>2. QED
      BY <2>1, <3>1
  <2>2. CASE ~(d = c /\ r = root)
    <3>1. batches'[d][r] = batches[d][r] /\ effects'[d][r] = effects[d][r]
      BY <2>2 DEF IInv
    <3>2. QED
      BY <3>1 DEF IInv
  <2>3. QED
    BY <2>1, <2>2
<1>4. QED
  BY <1>1, <1>2, <1>3 DEF IInv

LEMMA PrepareKeeps ==
    ASSUME IInv, NEW c \in BulkContract, NEW root \in Root, NEW sender \in Licensed,
           prepareBatchFromLicensedUser(c, root, sender)
    PROVE  IInv'
<1> DEFINE batch == batches[c][root]
           new == [batch EXCEPT !.prepared = TRUE, !.signer = sender, !.processedCount = 0]
<1>1. /\ batch \in Batch /\ effects[c][root] \in [Leaf -> 0..1]
      /\ GoodBatch(c, batch, effects[c][root]) /\ ~batch.prepared
  BY DEF IInv, prepareBatchFromLicensedUser
<1>2. new \in Batch /\ GoodBatch(c, new, effects[c][root])
  BY <1>1, PreparedIsGood
<1>3. batches' = [batches EXCEPT ![c][root] = new]
  BY DEF IInv, prepareBatchFromLicensedUser
<1>4. effects' = [effects EXCEPT ![c][root] = effects[c][root]]
  BY DEF IInv, prepareBatchFromLicensedUser
<1> HIDE DEF new
<1>5. QED
  BY <1>1, <1>2, <1>3, <1>4, OneBatchChanges

LEMMA ProcessKeeps ==
    ASSUME IInv, NEW c \in BulkContract, NEW root \in Root, NEW leaves \in SUBSET Leaf,
           \A leaf \in leaves : Open(c, root, leaf), batches[c][root].prepared,
           Process(c, root, leaves)
    PROVE  IInv'
<1> DEFINE batch == batches[c][root]
           effect == effects[c][root]
           new == Processed(batch, leaves)
           after == After(effect, leaves)
<1>1. /\ batch \in Batch /\ effect \in [Leaf -> 0..1] /\ GoodBatch(c, batch, effect)
      /\ batch.prepared /\ leaves \cap batch.processedLeaves = {}
  BY DEF IInv, Open
<1>2. new \in Batch /\ after \in [Leaf -> 0..1] /\ GoodBatch(c, new, after)
  BY <1>1, ProcessedIsGood
<1>3. batches' = [batches EXCEPT ![c][root] = new]
  BY DEF IInv, Process, Processed
<1>4. effects' = [effects EXCEPT ![c][root] = after]
  BY DEF IInv, Process, After
<1> HIDE DEF new, after
<1>5. QED
  BY <1>2, <1>3, <1>4, OneBatchChanges

LEMMA MigrateKeeps ==
    ASSUME IInv, "BulkIssue" \in BulkContract, NEW root \in Root, NEW leaves \in SUBSET Leaf,
           NEW issuer \in Licensed, migrateBatch(root, leaves, issuer)
    PROVE  IInv'
<1> DEFINE batch == batches["BulkIssue"][root]
           effect == effects["BulkIssue"][root]
           new == [prepared |-> TRUE, signer |-> issuer,
                   processedCount |-> Cardinality(leaves) % (COUNT_MAX + 1),
                   processedLeaves |-> batch.processedLeaves \union leaves]
<1>1. batch \in Batch /\ effect \in [Leaf -> 0..1] /\ GoodBatch("BulkIssue", batch, effect)
  BY DEF IInv
<1>2. new \in Batch /\ GoodBatch("BulkIssue", new, effect)
  BY <1>1, MigratedIsGood
<1>3. batches' = [batches EXCEPT !["BulkIssue"][root] = new]
  BY DEF migrateBatch
<1>4. effects' = [effects EXCEPT !["BulkIssue"][root] = effect]
  BY DEF IInv, migrateBatch
<1> HIDE DEF new
<1>5. QED
  BY <1>1, <1>2, <1>3, <1>4, OneBatchChanges

LEMMA NextKeeps == IInv /\ [IndexedNext]_composed => IInv'
<1> SUFFICES ASSUME IInv, [IndexedNext]_composed PROVE IInv'
  OBVIOUS
<1>1. ASSUME NEW c \in BulkContract, NEW root \in Root, NEW sender \in Licensed,
             prepareBatchFromLicensedUser(c, root, sender)
      PROVE  IInv'
  BY <1>1, PrepareKeeps
<1>2. ASSUME NEW c \in BulkContract, NEW root \in Root,
             NEW list \in SeqOf(leavesOf[root], MaxMulti) \ {<< >>},
             createSRRWithProofMulti(c, root, list)
      PROVE  IInv'
  <2>1. PICK n \in 0..MaxMulti : list \in [1..n -> leavesOf[root]]
    BY <1>2 DEF SeqOf
  <2>2. Range(list) \in SUBSET Leaf
    BY <2>1, BulkAssumption DEF Range
  <2>3. 1 \in DOMAIN list
    BY <1>2, <2>1
  <2>4. \A leaf \in Range(list) : Open(c, root, leaf)
    BY <1>2 DEF createSRRWithProofMulti, Range
  <2>5. batches[c][root].prepared
    BY <1>2, <2>3 DEF createSRRWithProofMulti, Open
  <2>6. Process(c, root, Range(list))
    BY <1>2 DEF createSRRWithProofMulti
  <2>7. QED
    BY <2>2, <2>4, <2>5, <2>6, ProcessKeeps
<1>3. ASSUME NEW c \in BulkContract, NEW root \in Root, NEW leaf \in leavesOf[root],
             \/ approveSRRByCommitmentWithProof(c, root, leaf)
             \/ transferFromWithProvenanceWithProof(c, root, leaf)
      PROVE  IInv'
  <2>1. Open(c, root, leaf) /\ Process(c, root, {leaf})
    BY <1>3 DEF approveSRRByCommitmentWithProof, transferFromWithProvenanceWithProof
  <2>2. {leaf} \in SUBSET Leaf
    BY BulkAssumption
  <2>3. batches[c][root].prepared
    BY <2>1 DEF Open
  <2>4. QED
    BY <2>1, <2>2, <2>3, ProcessKeeps
<1>4. ASSUME NEW root \in Root, "BulkIssue" \in BulkContract, NEW leaves \in SUBSET leavesOf[root],
             NEW issuer \in Licensed, migrateBatch(root, leaves, issuer)
      PROVE  IInv'
  <2>1. leaves \in SUBSET Leaf
    BY BulkAssumption
  <2>2. QED
    BY <1>4, <2>1, MigrateKeeps
<1>5. CASE BulkCall
  BY <1>1, <1>2, <1>3, <1>4, <1>5 DEF BulkCall
<1>6. ASSUME NEW token \in Token, NEW to \in Account, TokenMoves(token, to) PROVE IInv'
  BY <1>6 DEF TokenMoves, IInv
<1>7. CASE IndexEvent
  BY <1>7 DEF IndexEvent, bulk, IInv
<1>8. CASE UNCHANGED composed
  BY <1>8 DEF composed, bulk, IInv
<1>9. QED
  BY <1>5, <1>6, <1>7, <1>8 DEF IndexedNext

LEMMA InvariantSuffices == IInv => LeavesTakeEffectOnce
<1> SUFFICES ASSUME IInv, NEW c \in BulkContract, NEW root \in Root
             PROVE  LET batch == batches[c][root] IN
                    /\ \A leaf \in Leaf :
                          /\ effects[c][root][leaf] <= 1
                          /\ effects[c][root][leaf] = 1 =>
                                batch.prepared /\ leaf \in batch.processedLeaves
                    /\ c # "BulkIssue" =>
                          batch.processedCount =
                            Cardinality({leaf \in Leaf : effects[c][root][leaf] = 1})
  BY DEF LeavesTakeEffectOnce
<1>1. effects[c][root] \in [Leaf -> 0..1] /\ GoodBatch(c, batches[c][root], effects[c][root])
  BY DEF IInv
<1>2. {leaf \in Leaf : effects[c][root][leaf] = 1} = TookEffect(effects[c][root])
  BY DEF TookEffect
<1>3. \A leaf \in Leaf : effects[c][root][leaf] = 1 => leaf \in TookEffect(effects[c][root])
  BY DEF TookEffect
<1>4. QED
  BY <1>1, <1>2, <1>3 DEF GoodBatch

\* A leaf of a batch takes effect at most once, and only once the batch is prepared;
\* the count of a batch that was not migrated is the number of leaves that took effect
\* (the processing of BulkV6, BulkIssue and BulkTransfer).
THEOREM LeavesTakeEffectOnceHolds == IndexedSpec => []LeavesTakeEffectOnce
<1>1. IndexedSpec => []IInv
  BY InitHolds, NextKeeps, PTL DEF IndexedSpec
<1>2. QED
  BY <1>1, InvariantSuffices, PTL

-----------------------------------------------------------------------------
(* A record is issued by one leaf. *)

Holder == Licensed \union Account \union {ZERO, NoOwner} \union {detailOf[leaf].to : leaf \in Leaf}

Owned(token) == tokenOwner[token] # NoOwner

\* leaf took effect in the batch root of c, and issued a record.
Issued(c, root, leaf) == detailOf[leaf].call = "create" /\ effects[c][root][leaf] > 0

\* What a second leaf would have to be, and why none can be: a record that was issued
\* is owned for ever.
IssueInv ==
    /\ tokenOwner \in [Token -> Holder]
    /\ \A c \in BulkContract, root \in Root, leaf \in Leaf :
          Issued(c, root, leaf) => Owned(tokenOf(leaf))
    /\ \A c, d \in BulkContract, r, s \in Root, l, m \in Leaf :
          Issued(c, r, l) /\ Issued(d, s, m) /\ tokenOf(l) = tokenOf(m) =>
              c = d /\ r = s /\ l = m

StillOwned == \A token \in Token : Owned(token) => Owned(token)'

LEMMA LeafHasToken == \A leaf \in Leaf : tokenOf(leaf) \in Token
  BY DEF Token

LEMMA IssueInitHolds == IndexedInit => IssueInv
<1> SUFFICES ASSUME IndexedInit PROVE IssueInv
  OBVIOUS
<1>1. /\ tokenOwner = [t \in Token |-> NoOwner]
      /\ effects = [c \in BulkContract |-> [r \in Root |-> [l \in Leaf |-> 0]]]
  BY DEF IndexedInit, BulkInit
<1>2. tokenOwner \in [Token -> Holder]
  BY <1>1 DEF Holder
<1>3. \A c \in BulkContract, root \in Root, leaf \in Leaf : ~Issued(c, root, leaf)
  BY <1>1 DEF Issued
<1>4. QED
  BY <1>2, <1>3 DEF IssueInv

\* A call that issues nothing.
LEMMA NothingIssued ==
    ASSUME IssueInv, StillOwned, tokenOwner' \in [Token -> Holder],
           \A c \in BulkContract, root \in Root, leaf \in Leaf :
              Issued(c, root, leaf)' => Issued(c, root, leaf)
    PROVE  IssueInv'
<1>1. ASSUME NEW c \in BulkContract, NEW root \in Root, NEW leaf \in Leaf, Issued(c, root, leaf)'
      PROVE  Owned(tokenOf(leaf))'
  <2>1. Issued(c, root, leaf)
    BY <1>1
  <2>2. Owned(tokenOf(leaf))
    BY <2>1 DEF IssueInv
  <2>3. QED
    BY <2>2, LeafHasToken DEF StillOwned, Owned
<1>2. ASSUME NEW c \in BulkContract, NEW d \in BulkContract, NEW r \in Root, NEW s \in Root,
             NEW l \in Leaf, NEW m \in Leaf,
             Issued(c, r, l)', Issued(d, s, m)', tokenOf(l) = tokenOf(m)
      PROVE  c = d /\ r = s /\ l = m
  <2>1. Issued(c, r, l) /\ Issued(d, s, m)
    BY <1>2
  <2>2. QED
    BY <1>2, <2>1 DEF IssueInv
<1>3. QED
  BY <1>1, <1>2 DEF IssueInv

\* A call that issues the records of some leaves, none of which was issued before.
LEMMA SomeIssued ==
    ASSUME IssueInv, StillOwned, tokenOwner' \in [Token -> Holder],
           NEW c \in BulkContract, NEW root \in Root, NEW leaves \in SUBSET Leaf,
           \A d \in BulkContract, r \in Root, leaf \in Leaf :
              Issued(d, r, leaf)' =>
                  Issued(d, r, leaf) \/ (d = c /\ r = root /\ leaf \in leaves),
           \A leaf \in leaves : ~Owned(tokenOf(leaf)) /\ Owned(tokenOf(leaf))',
           \A l, m \in leaves : tokenOf(l) = tokenOf(m) => l = m
    PROVE  IssueInv'
<1>1. ASSUME NEW d \in BulkContract, NEW r \in Root, NEW leaf \in Leaf, Issued(d, r, leaf)'
      PROVE  Owned(tokenOf(leaf))'
  <2>1. CASE Issued(d, r, leaf)
    <3>1. Owned(tokenOf(leaf))
      BY <2>1 DEF IssueInv
    <3>2. QED
      BY <3>1, LeafHasToken DEF StillOwned, Owned
  <2>2. CASE leaf \in leaves
    BY <2>2
  <2>3. QED
    BY <1>1, <2>1, <2>2
<1>2. ASSUME NEW d \in BulkContract, NEW e \in BulkContract, NEW r \in Root, NEW s \in Root,
             NEW l \in Leaf, NEW m \in Leaf,
             Issued(d, r, l)', Issued(e, s, m)', tokenOf(l) = tokenOf(m)
      PROVE  d = e /\ r = s /\ l = m
  <2>1. Issued(d, r, l) \/ (d = c /\ r = root /\ l \in leaves)
    BY <1>2
  <2>2. Issued(e, s, m) \/ (e = c /\ s = root /\ m \in leaves)
    BY <1>2
  <2>3. Issued(d, r, l) => Owned(tokenOf(l))
    BY DEF IssueInv
  <2>4. Issued(e, s, m) => Owned(tokenOf(m))
    BY DEF IssueInv
  <2>5. (l \in leaves => ~Owned(tokenOf(l))) /\ (m \in leaves => ~Owned(tokenOf(m)))
    OBVIOUS
  <2>6. Owned(tokenOf(l)) <=> Owned(tokenOf(m))
    BY <1>2 DEF Owned
  <2>7. CASE Issued(d, r, l) /\ Issued(e, s, m)
    BY <1>2, <2>7 DEF IssueInv
  <2>8. CASE ~(Issued(d, r, l) /\ Issued(e, s, m))
    <3>1. d = c /\ r = root /\ l \in leaves /\ e = c /\ s = root /\ m \in leaves
      BY <2>1, <2>2, <2>3, <2>4, <2>5, <2>6, <2>8
    <3>2. QED
      BY <1>2, <3>1
  <2>9. QED
    BY <2>7, <2>8
<1>3. QED
  BY <1>1, <1>2 DEF IssueInv

\* Whose effects a call of Process changes.
LEMMA ProcessIssues ==
    ASSUME IInv, NEW c \in BulkContract, NEW root \in Root, NEW leaves \in SUBSET Leaf,
           Process(c, root, leaves),
           NEW d \in BulkContract, NEW r \in Root, NEW leaf \in Leaf, Issued(d, r, leaf)'
    PROVE  Issued(d, r, leaf) \/ (d = c /\ r = root /\ leaf \in leaves)
<1>1. effects' = [effects EXCEPT ![c][root] = After(effects[c][root], leaves)]
  BY DEF Process, After
<1>2. CASE d = c /\ r = root
  <2>1. effects'[d][r] = After(effects[c][root], leaves)
    BY <1>1, <1>2 DEF IInv
  <2>2. leaf \notin leaves => effects'[d][r][leaf] = effects[d][r][leaf]
    BY <1>2, <2>1 DEF After
  <2>3. QED
    BY <1>2, <2>2 DEF Issued
<1>3. CASE ~(d = c /\ r = root)
  <2>1. effects'[d][r] = effects[d][r]
    BY <1>1, <1>3 DEF IInv
  <2>2. QED
    BY <2>1 DEF Issued
<1>4. QED
  BY <1>2, <1>3

LEMMA CreateIssues ==
    ASSUME IInv, IssueInv, NEW c \in BulkContract, NEW root \in Root,
           NEW n \in Nat, NEW list \in [1..n -> leavesOf[root]],
           createSRRWithProofMulti(c, root, list)
    PROVE  IssueInv'
<1> DEFINE signer == batches[c][root].signer
           leaves == Range(list)
           newOwner(t) == detailOf[CHOOSE leaf \in leaves : tokenOf(leaf) = t].to
<1>1. leaves \in SUBSET Leaf
  BY BulkAssumption DEF Range
<1>2. signer \in Licensed \union {ZERO}
  BY DEF IInv, Batch
<1>3. Process(c, root, leaves) /\ IsInjective([i \in DOMAIN list |-> tokenOf(list[i])])
  BY DEF createSRRWithProofMulti
<1>4. \A i \in 1..n : ~Owned(tokenOf(list[i]))
  BY DEF createSRRWithProofMulti, CreateAccepted, Owned
<1>5. \A leaf \in leaves : ~Owned(tokenOf(leaf))
  BY <1>4 DEF Range
<1>6. ASSUME NEW l \in leaves, NEW m \in leaves, tokenOf(l) = tokenOf(m) PROVE l = m
  <2>1. PICK i \in 1..n, j \in 1..n : list[i] = l /\ list[j] = m
    BY DEF Range
  <2>2. i = j
    BY <1>3, <1>6, <2>1 DEF IsInjective
  <2>3. QED
    BY <2>1, <2>2
<1>7. \A t \in Token :
         tokenOwner'[t] = IF \E i \in 1..n : tokenOf(list[i]) = t
                          THEN IF newOwner(t) = ZERO THEN signer ELSE newOwner(t)
                          ELSE tokenOwner[t]
  BY DEF createSRRWithProofMulti
<1>8. ASSUME NEW t \in Token, NEW i \in 1..n, tokenOf(list[i]) = t
      PROVE  tokenOwner'[t] \in Holder \ {NoOwner}
  <2>1. list[i] \in leaves
    BY DEF Range
  <2>2. (CHOOSE leaf \in leaves : tokenOf(leaf) = t) \in leaves
    BY <1>8, <2>1
  <2>3. newOwner(t) \in Holder \ {NoOwner}
    BY <1>1, <2>2, NoOwnerAssumption DEF Holder
  <2>4. signer \in Holder \ {NoOwner}
    BY <1>2, NoOwnerAssumption DEF Holder
  <2> HIDE DEF newOwner, signer
  <2>5. QED
    BY <1>7, <1>8, <2>3, <2>4
<1>9. \A t \in Token : (\A i \in 1..n : tokenOf(list[i]) # t) => tokenOwner'[t] = tokenOwner[t]
  BY <1>7
<1>10. tokenOwner' = [t \in Token |-> tokenOwner'[t]]
  BY DEF createSRRWithProofMulti
<1> HIDE DEF leaves
<1>11. tokenOwner' \in [Token -> Holder]
  BY <1>8, <1>9, <1>10 DEF IssueInv
<1>12. StillOwned
  BY <1>8, <1>9 DEF StillOwned, Owned
<1>13. \A leaf \in leaves : Owned(tokenOf(leaf))'
  BY <1>1, <1>8, LeafHasToken DEF Owned, leaves, Range
<1>14. \A d \in BulkContract, r \in Root, leaf \in Leaf :
          Issued(d, r, leaf)' => Issued(d, r, leaf) \/ (d = c /\ r = root /\ leaf \in leaves)
  BY <1>1, <1>3, ProcessIssues
<1>15. QED
  BY <1>1, <1>5, <1>6, <1>11, <1>12, <1>13, <1>14, SomeIssued

\* An approval or a transfer.
LEMMA OtherLeafIssuesNothing ==
    ASSUME IInv, IssueInv, NEW c \in BulkContract, NEW root \in Root, NEW leaf \in Leaf,
           \/ approveSRRByCommitmentWithProof(c, root, leaf)
           \/ transferFromWithProvenanceWithProof(c, root, leaf)
    PROVE  IssueInv'
<1>1. Process(c, root, {leaf}) /\ detailOf[leaf].call # "create"
  BY DEF approveSRRByCommitmentWithProof, transferFromWithProvenanceWithProof
<1>2. \/ tokenOwner' = tokenOwner
      \/ tokenOwner' = [tokenOwner EXCEPT ![tokenOf(leaf)] = detailOf[leaf].to]
  BY DEF approveSRRByCommitmentWithProof, transferFromWithProvenanceWithProof
<1>3. detailOf[leaf].to \in Holder \ {NoOwner}
  BY NoOwnerAssumption DEF Holder
<1>4. tokenOwner' \in [Token -> Holder]
  BY <1>2, <1>3 DEF IssueInv
<1>5. StillOwned
  BY <1>2, <1>3 DEF StillOwned, Owned, IssueInv
<1>6. ASSUME NEW d \in BulkContract, NEW r \in Root, NEW l \in Leaf, Issued(d, r, l)'
      PROVE  Issued(d, r, l)
  <2>1. {leaf} \in SUBSET Leaf
    OBVIOUS
  <2>2. Issued(d, r, l) \/ l \in {leaf}
    BY <1>1, <1>6, <2>1, ProcessIssues
  <2>3. QED
    BY <1>1, <1>6, <2>2 DEF Issued
<1>7. QED
  BY <1>4, <1>5, <1>6, NothingIssued

LEMMA SameEffectsIssueNothing ==
    ASSUME IssueInv, StillOwned, tokenOwner' \in [Token -> Holder], effects' = effects
    PROVE  IssueInv'
<1>1. \A c \in BulkContract, root \in Root, leaf \in Leaf :
         Issued(c, root, leaf)' => Issued(c, root, leaf)
  BY DEF Issued
<1>2. QED
  BY <1>1, NothingIssued

LEMMA IssueNextKeeps == IInv /\ IssueInv /\ [IndexedNext]_composed => IssueInv'
<1> SUFFICES ASSUME IInv, IssueInv, [IndexedNext]_composed PROVE IssueInv'
  OBVIOUS
<1>1. ASSUME effects' = effects, tokenOwner' = tokenOwner PROVE IssueInv'
  <2>1. StillOwned /\ tokenOwner' \in [Token -> Holder]
    BY <1>1 DEF StillOwned, Owned, IssueInv
  <2>2. QED
    BY <1>1, <2>1, SameEffectsIssueNothing
<1>2. ASSUME NEW c \in BulkContract, NEW root \in Root, NEW sender \in Licensed,
             prepareBatchFromLicensedUser(c, root, sender)
      PROVE  IssueInv'
  BY <1>1, <1>2 DEF prepareBatchFromLicensedUser
<1>3. ASSUME NEW c \in BulkContract, NEW root \in Root,
             NEW list \in SeqOf(leavesOf[root], MaxMulti) \ {<< >>},
             createSRRWithProofMulti(c, root, list)
      PROVE  IssueInv'
  <2>1. PICK n \in 0..MaxMulti : list \in [1..n -> leavesOf[root]]
    BY DEF SeqOf
  <2>2. n \in Nat
    OBVIOUS
  <2>3. QED
    BY <1>3, <2>1, <2>2, CreateIssues
<1>4. ASSUME NEW c \in BulkContract, NEW root \in Root, NEW leaf \in leavesOf[root],
             \/ approveSRRByCommitmentWithProof(c, root, leaf)
             \/ transferFromWithProvenanceWithProof(c, root, leaf)
      PROVE  IssueInv'
  <2>1. leaf \in Leaf
    BY BulkAssumption
  <2>2. QED
    BY <1>4, <2>1, OtherLeafIssuesNothing
<1>5. ASSUME NEW root \in Root, NEW leaves, NEW issuer, migrateBatch(root, leaves, issuer)
      PROVE  IssueInv'
  BY <1>1, <1>5 DEF migrateBatch
<1>6. CASE BulkCall
  BY <1>2, <1>3, <1>4, <1>5, <1>6 DEF BulkCall
<1>7. ASSUME NEW token \in Token, NEW to \in Account, TokenMoves(token, to) PROVE IssueInv'
  <2>1. tokenOwner' = [tokenOwner EXCEPT ![token] = to] /\ effects' = effects
    BY <1>7 DEF TokenMoves
  <2>2. to \in Holder /\ to # NoOwner
    BY NoOwnerAssumption DEF Holder
  <2>3. StillOwned /\ tokenOwner' \in [Token -> Holder]
    BY <2>1, <2>2 DEF StillOwned, Owned, IssueInv
  <2>4. QED
    BY <2>1, <2>3, SameEffectsIssueNothing
<1>8. CASE IndexEvent
  BY <1>1, <1>8 DEF IndexEvent, bulk
<1>9. CASE UNCHANGED composed
  BY <1>1, <1>9 DEF composed, bulk
<1>10. QED
  BY <1>6, <1>7, <1>8, <1>9 DEF IndexedNext

LEMMA AtMostOne ==
    ASSUME NEW S, \A x, y \in S : x = y
    PROVE  Cardinality(S) <= 1
<1>1. CASE S = {}
  <2>1. Cardinality({}) = 0
    BY FS_EmptySet
  <2>2. QED
    BY <1>1, <2>1
<1>2. CASE S # {}
  <2>1. PICK x \in S : TRUE
    BY <1>2
  <2>2. S = {x}
    BY <2>1
  <2>3. Cardinality({x}) = 1
    BY FS_Singleton
  <2>4. QED
    BY <2>2, <2>3
<1>3. QED
  BY <1>1, <1>2

LEMMA OneLeafSuffices == IssueInv => IssuedByOneLeaf
<1> SUFFICES ASSUME IssueInv, NEW token \in Token
             PROVE  Cardinality({x \in BulkContract \X Root \X Leaf :
                                    /\ effects[x[1]][x[2]][x[3]] > 0
                                    /\ detailOf[x[3]].call = "create"
                                    /\ tokenOf(x[3]) = token}) <= 1
  BY DEF IssuedByOneLeaf
<1> DEFINE S == {x \in BulkContract \X Root \X Leaf :
                    /\ effects[x[1]][x[2]][x[3]] > 0
                    /\ detailOf[x[3]].call = "create"
                    /\ tokenOf(x[3]) = token}
<1>1. ASSUME NEW x \in S, NEW y \in S PROVE x = y
  <2>1. /\ x[1] \in BulkContract /\ x[2] \in Root /\ x[3] \in Leaf /\ x = <<x[1], x[2], x[3]>>
        /\ y[1] \in BulkContract /\ y[2] \in Root /\ y[3] \in Leaf /\ y = <<y[1], y[2], y[3]>>
    OBVIOUS
  <2>2. Issued(x[1], x[2], x[3]) /\ Issued(y[1], y[2], y[3]) /\ tokenOf(x[3]) = tokenOf(y[3])
    BY DEF Issued
  <2>3. x[1] = y[1] /\ x[2] = y[2] /\ x[3] = y[3]
    BY <2>1, <2>2 DEF IssueInv
  <2>4. QED
    BY <2>1, <2>3
<1> HIDE DEF S
<1>2. Cardinality(S) <= 1
  BY <1>1, AtMostOne
<1>3. QED
  BY <1>2 DEF S

\* A record is issued by one leaf, of one batch of one of the bulk contracts, whatever
\* trees have leaves for it, in whatever lists and order they are submitted
\* (createSRRWithProofMulti, createSRRFromBulk).
THEOREM IssuedByOneLeafHolds == IndexedSpec => []IssuedByOneLeaf
<1>1. IInv /\ IssueInv /\ [IndexedNext]_composed => (IInv /\ IssueInv)'
  BY NextKeeps, IssueNextKeeps
<1>2. IndexedInit => IInv /\ IssueInv
  BY InitHolds, IssueInitHolds
<1>3. IndexedSpec => [](IInv /\ IssueInv)
  BY <1>1, <1>2, PTL DEF IndexedSpec
<1>4. QED
  BY <1>3, OneLeafSuffices, PTL

-----------------------------------------------------------------------------
(* The index.  A handler reads nothing but the database and its event, so what *)
(* the events in the log will have made of the database is determined already; *)
(* the invariant says that this is what the contracts have now.                *)

Handled(d, e) == Index!HandleBulkEvent(d, e)

Replays(S, d, L, later) ==
    /\ S[0] = d /\ S[Len(L)] = later
    /\ \A i \in 1..Len(L) : S[i] = Handled(S[i - 1], L[i][1])

\* The events of the list make later out of d.
Leads(d, L, later) == IsList(L) /\ \E S : Replays(S, d, L, later)

LEMMA LeadsNothing ==
    ASSUME NEW d
    PROVE  Leads(d, << >>, d)
<1> DEFINE S == [i \in {0} |-> d]
<1>1. S[0] = d
  OBVIOUS
<1> HIDE DEF S
<1>2. Replays(S, d, << >>, d)
  BY <1>1 DEF Replays
<1>3. QED
  BY <1>2, ListFacts DEF Leads

LEMMA LeadsEmpty ==
    ASSUME NEW d, NEW later, Leads(d, << >>, later)
    PROVE  later = d
BY DEF Leads, Replays

LEMMA LeadsJoined ==
    ASSUME NEW d, NEW L, NEW mid, Leads(d, L, mid), NEW M, NEW later, Leads(mid, M, later)
    PROVE  Leads(d, L \o M, later)
<1>1. PICK S : Replays(S, d, L, mid)
  BY DEF Leads
<1>2. PICK T : Replays(T, mid, M, later)
  BY DEF Leads
<1> DEFINE m == Len(L)
           n == Len(M)
           N == L \o M
           U == [i \in 0..m + n |-> IF i <= m THEN S[i] ELSE T[i - m]]
<1>3. m \in Nat /\ n \in Nat
  BY ListFacts DEF Leads
<1>4. /\ IsList(N) /\ Len(N) = m + n
      /\ \A i \in 1..m : N[i] = L[i]
      /\ \A i \in m + 1..m + n : N[i] = M[i - m]
  BY ConcatFacts DEF Leads
<1>5. \A i \in 0..m : U[i] = S[i]
  BY <1>3
<1>6. S[m] = T[0]
  BY <1>1, <1>2 DEF Replays
<1>7. \A i \in m..m + n : U[i] = T[i - m]
  BY <1>3, <1>6
<1> HIDE DEF U, N
<1>8. ASSUME NEW i \in 1..m + n
      PROVE  U[i] = Handled(U[i - 1], N[i][1])
  <2>1. CASE i \in 1..m
    <3>1. i \in 0..m /\ i - 1 \in 0..m
      BY <1>3, <2>1
    <3>2. U[i] = S[i] /\ U[i - 1] = S[i - 1] /\ N[i] = L[i]
      BY <1>4, <1>5, <2>1, <3>1
    <3>3. QED
      BY <1>1, <2>1, <3>2 DEF Replays
  <2>2. CASE i \in m + 1..m + n
    <3>1. i \in m..m + n /\ i - 1 \in m..m + n /\ i - m \in 1..n /\ i - 1 - m = i - m - 1
      BY <1>3, <2>2
    <3>2. U[i] = T[i - m] /\ U[i - 1] = T[i - m - 1] /\ N[i] = M[i - m]
      BY <1>4, <1>7, <2>2, <3>1
    <3>3. QED
      BY <1>2, <3>1, <3>2 DEF Replays
  <2>3. QED
    BY <1>3, <2>1, <2>2
<1>9. U[0] = d /\ U[m + n] = later
  <2>1. 0 \in 0..m /\ m + n \in m..m + n /\ m + n - m = n
    BY <1>3
  <2>2. QED
    BY <1>1, <1>2, <1>5, <1>7, <2>1 DEF Replays
<1>10. Replays(U, d, N, later)
  BY <1>4, <1>8, <1>9 DEF Replays
<1>11. QED
  BY <1>4, <1>10 DEF Leads, N

LEMMA LeadsLess ==
    ASSUME NEW d, NEW L, NEW later, Leads(d, L, later), L # << >>
    PROVE  Leads(Handled(d, L[1][1]), Tail(L), later)
<1>1. PICK S : Replays(S, d, L, later)
  BY DEF Leads
<1> DEFINE n == Len(L)
           M == Tail(L)
           T == [i \in 0..n - 1 |-> S[i + 1]]
<1>2. n \in Nat /\ n >= 1
  BY ListFacts DEF Leads
<1>3. /\ IsList(M) /\ Len(M) = n - 1 /\ \A i \in 1..n - 1 : M[i] = L[i + 1]
  BY ListFacts DEF Leads
<1>4. \A i \in 0..n - 1 : T[i] = S[i + 1]
  OBVIOUS
<1> HIDE DEF T, M
<1>5. T[0] = Handled(d, L[1][1]) /\ T[n - 1] = later
  <2>1. 1 \in 1..n /\ 1 - 1 = 0 /\ 0 \in 0..n - 1 /\ n - 1 \in 0..n - 1 /\ n - 1 + 1 = n
    BY <1>2
  <2>2. QED
    BY <1>1, <1>4, <2>1 DEF Replays
<1>6. ASSUME NEW i \in 1..n - 1
      PROVE  T[i] = Handled(T[i - 1], M[i][1])
  <2>1. i + 1 \in 1..n /\ i + 1 - 1 = i /\ i - 1 \in 0..n - 1 /\ i \in 0..n - 1 /\ i - 1 + 1 = i
    BY <1>2
  <2>2. T[i - 1] = S[i] /\ T[i] = S[i + 1] /\ M[i] = L[i + 1]
    BY <1>3, <1>4, <2>1
  <2>3. S[i + 1] = Handled(S[i], L[i + 1][1])
    BY <1>1, <2>1 DEF Replays
  <2>4. QED
    BY <2>2, <2>3
<1>7. Replays(T, Handled(d, L[1][1]), M, later)
  BY <1>3, <1>5, <1>6 DEF Replays
<1>8. QED
  BY <1>3, <1>7 DEF Leads, M

-----------------------------------------------------------------------------
(* What a call's events make of a database. *)

Tables == {"Bulk", "BulkSRR", "BulkIssue", "BulkIssueSRR", "BulkTransfer"}

\* Where the leaves of the two contracts that issue records are entered, and what.
LeafTable(c) == IF c = "Bulk" THEN "BulkSRR" ELSE "BulkIssueSRR"

Entry(c, root, leaf) ==
    IF c = "Bulk"
    THEN [bulk |-> root, tokenId |-> detailOf[leaf].tokenId,
          contractAddress |-> IF detailOf[leaf].contract = ZERO THEN Null
                              ELSE detailOf[leaf].contract]
    ELSE [bulkIssue |-> root, tokenId |-> detailOf[leaf].tokenId]

\* later is d with these leaves of root entered.
Enters(d, c, root, leaves, later) ==
    /\ DOMAIN later = Tables
    /\ \A table \in Tables \ {LeafTable(c)} : later[table] = d[table]
    /\ DOMAIN later[LeafTable(c)] = DOMAIN d[LeafTable(c)] \union leaves
    /\ \A leaf \in leaves : later[LeafTable(c)][leaf] = Entry(c, root, leaf)
    /\ \A leaf \in DOMAIN d[LeafTable(c)] \ leaves :
          later[LeafTable(c)][leaf] = d[LeafTable(c)][leaf]

Entered(d, c, root, leaves) ==
    [d EXCEPT ![LeafTable(c)] =
        [leaf \in DOMAIN @ \union leaves |->
            IF leaf \in leaves THEN Entry(c, root, leaf) ELSE @[leaf]]]

LEMMA EnteredEnters ==
    ASSUME NEW d, DOMAIN d = Tables, NEW c, NEW root, NEW leaves
    PROVE  Enters(d, c, root, leaves, Entered(d, c, root, leaves))
<1>1. LeafTable(c) \in Tables
  BY DEF LeafTable, Tables
<1>2. QED
  BY <1>1 DEF Enters, Entered

\* A leaf is entered after others.
OnTop(e, leaf, d, c, root, all) ==
    Entered(e, c, root, {leaf}) = Entered(d, c, root, all)

LEMMA EnteredOnTop ==
    ASSUME NEW d, DOMAIN d = Tables, NEW c, NEW root, NEW leaves, NEW leaf,
           NEW e, e = Entered(d, c, root, leaves),
           NEW more, \A l : l \in more <=> l \in leaves \/ l = leaf
    PROVE  OnTop(e, leaf, d, c, root, more)
<1> DEFINE table == LeafTable(c)
           old == d[table]
           some == [l \in DOMAIN old \union leaves |->
                      IF l \in leaves THEN Entry(c, root, l) ELSE old[l]]
           all == [l \in DOMAIN some \union {leaf} |->
                     IF l \in {leaf} THEN Entry(c, root, l) ELSE some[l]]
           at == [l \in DOMAIN old \union more |->
                    IF l \in more THEN Entry(c, root, l) ELSE old[l]]
<1>1. table \in DOMAIN d
  BY DEF LeafTable, Tables
<1>2. all = at
  OBVIOUS
<1>3. e = [d EXCEPT ![table] = some]
  BY DEF Entered
<1>4. Entered(d, c, root, more) = [d EXCEPT ![table] = at]
  BY DEF Entered
<1> HIDE DEF some, at
<1>5. e[table] = some
  BY <1>1, <1>3
<1>6. Entered(e, c, root, {leaf}) = [e EXCEPT ![table] = all]
  BY <1>5 DEF Entered
<1> HIDE DEF all, table
<1>7. [e EXCEPT ![table] = all] = [d EXCEPT ![table] = all]
  BY <1>3
<1>8. QED
  BY <1>2, <1>4, <1>6, <1>7 DEF OnTop

\* A leaf is handled when its batch is known.
LEMMA LeafHandled ==
    ASSUME NEW d, DOMAIN d = Tables, NEW c \in {"Bulk", "BulkIssue"}, NEW root \in DOMAIN d[c],
           NEW leaf
    PROVE  Handled(d, WithProof(c, root, leaf)) = Entered(d, c, root, {leaf})
<1> DEFINE e == WithProof(c, root, leaf)
<1>1. /\ e.event = "WithProof" /\ e.source = c /\ e.root = root /\ e.leaf = leaf
      /\ e.contract = detailOf[leaf].contract /\ e.tokenId = detailOf[leaf].tokenId
  BY DEF WithProof
<1> HIDE DEF e
<1>2. Index!Save(d, LeafTable(c), leaf, Entry(c, root, leaf)) = Entered(d, c, root, {leaf})
  <2> DEFINE table == LeafTable(c)
             saved == [l \in DOMAIN d[table] \union {leaf} |->
                         IF l = leaf THEN Entry(c, root, leaf) ELSE d[table][l]]
             entered == [l \in DOMAIN d[table] \union {leaf} |->
                           IF l \in {leaf} THEN Entry(c, root, l) ELSE d[table][l]]
  <2>1. saved = entered
    OBVIOUS
  <2>2. Index!Save(d, table, leaf, Entry(c, root, leaf)) = [d EXCEPT ![table] = saved]
    BY DEF Index!Save
  <2>3. Entered(d, c, root, {leaf}) = [d EXCEPT ![table] = entered]
    BY DEF Entered
  <2> HIDE DEF saved, entered, table
  <2>4. QED
    BY <2>1, <2>2, <2>3 DEF table
<1>3. CASE c = "Bulk"
  <2>1. Handled(d, e) = Index!updateBulkInternal(d, e)
    BY <1>1, <1>3 DEF Handled, Index!HandleBulkEvent
  <2>2. Index!updateBulkInternal(d, e) = Index!Save(d, LeafTable(c), leaf, Entry(c, root, leaf))
    BY <1>1, <1>3 DEF Index!updateBulkInternal, Index!IfKnown, Index!Has, LeafTable, Entry
  <2>3. QED
    BY <1>2, <2>1, <2>2 DEF e
<1>4. CASE c = "BulkIssue"
  <2>1. Handled(d, e) = Index!handleCreateSRRWithProof(d, e)
    BY <1>1, <1>4 DEF Handled, Index!HandleBulkEvent
  <2>2. Index!handleCreateSRRWithProof(d, e)
          = Index!Save(d, LeafTable(c), leaf, Entry(c, root, leaf))
    BY <1>1, <1>4 DEF Index!handleCreateSRRWithProof, Index!IfKnown, Index!Has, LeafTable, Entry
  <2>3. QED
    BY <1>2, <2>1, <2>2 DEF e
<1>5. QED
  BY <1>3, <1>4

Stamped(events) == [i \in 1..Len(events) |-> <<events[i], time>>]

LEMMA StampedFacts ==
    ASSUME NEW n \in Nat, NEW events, DOMAIN events = 1..n, events = [i \in 1..n |-> events[i]]
    PROVE  /\ IsList(Stamped(events)) /\ Len(Stamped(events)) = n
           /\ \A i \in 1..n : Stamped(events)[i][1] = events[i]
<1>1. Len(events) = n
  OBVIOUS
<1> DEFINE E == {<<events[i], time>> : i \in 1..n}
           list == [i \in 1..n |-> <<events[i], time>>]
<1>2. Stamped(events) = list
  BY <1>1 DEF Stamped
<1>3. list \in [1..n -> E]
  OBVIOUS
<1>4. list \in Seq(E)
  <2> HIDE DEF E, list
  <2>1. QED
    BY <1>3
<1>5. Len(list) = n /\ \A i \in 1..n : list[i][1] = events[i]
  OBVIOUS
<1>6. QED
  BY <1>2, <1>4, <1>5 DEF IsList

\* The events of a list of leaves.
LEMMA LeavesHandled ==
    ASSUME NEW d, DOMAIN d = Tables, NEW c \in {"Bulk", "BulkIssue"}, NEW root \in DOMAIN d[c],
           NEW n \in Nat \ {0}, NEW list, DOMAIN list = 1..n,
           NEW events, events = [i \in 1..n |-> WithProof(c, root, list[i])]
    PROVE  Leads(d, Stamped(events), Entered(d, c, root, {list[i] : i \in 1..n}))
<1> DEFINE First(i) == {list[j] : j \in 1..i}
           S == [i \in 0..n |-> IF i = 0 THEN d ELSE Entered(d, c, root, First(i))]
           L == Stamped(events)
<1>1. IsList(L) /\ Len(L) = n /\ \A i \in 1..n : L[i][1] = WithProof(c, root, list[i])
  BY StampedFacts
<1>2. S[0] = d /\ \A i \in 1..n : S[i] = Entered(d, c, root, First(i))
  OBVIOUS
<1> HIDE DEF S, L
<1>3. ASSUME NEW i \in 1..n
      PROVE  S[i] = Handled(S[i - 1], WithProof(c, root, list[i]))
  <2>1. CASE i = 1
    <3>1. First(i) = {list[i]}
      BY <2>1
    <3>2. S[i - 1] = d
      BY <1>2, <2>1
    <3>3. Handled(d, WithProof(c, root, list[i])) = Entered(d, c, root, {list[i]})
      BY LeafHandled
    <3> HIDE DEF First
    <3>4. QED
      BY <1>2, <3>1, <3>2, <3>3
  <2>2. CASE i # 1
    <3>1. i - 1 \in 1..n /\ First(i) = First(i - 1) \union {list[i]}
      BY <2>2
    <3>2. S[i - 1] = Entered(d, c, root, First(i - 1))
      BY <1>2, <3>1
    <3> HIDE DEF First
    <3>3. Enters(d, c, root, First(i - 1), S[i - 1])
      BY <3>2, EnteredEnters
    <3>4. DOMAIN S[i - 1] = Tables /\ root \in DOMAIN S[i - 1][c]
      BY <3>3 DEF Enters, Tables, LeafTable
    <3>5. Handled(S[i - 1], WithProof(c, root, list[i])) = Entered(S[i - 1], c, root, {list[i]})
      BY <3>4, LeafHandled
    <3>6. Entered(S[i - 1], c, root, {list[i]}) = Entered(d, c, root, First(i))
      <4>1. OnTop(S[i - 1], list[i], d, c, root, First(i))
        BY <3>1, <3>2, EnteredOnTop
      <4>2. QED
        BY <4>1 DEF OnTop
    <3>7. QED
      BY <1>2, <3>1, <3>5, <3>6
  <2>3. QED
    BY <2>1, <2>2
<1>4. Replays(S, d, L, S[n])
  BY <1>1, <1>2, <1>3 DEF Replays
<1>5. S[n] = Entered(d, c, root, First(n))
  BY <1>2
<1>6. QED
  BY <1>1, <1>4, <1>5 DEF Leads, L

-----------------------------------------------------------------------------
(* What a database that agrees with the contracts shows. *)

EntryAgrees(leaf, entry, ofContract) ==
    /\ entry.bulk \in Root /\ leaf \in ofContract[entry.bulk].processedLeaves
    /\ entry.tokenId = detailOf[leaf].tokenId
    /\ entry.contractAddress = IF detailOf[leaf].contract = ZERO THEN Null
                               ELSE detailOf[leaf].contract

LeavesAgree(d, c, ofContract) ==
    /\ \A leaf : leaf \in DOMAIN d[LeafTable(c)]
                    <=> \E root \in Root : leaf \in ofContract[root].processedLeaves
    /\ c = "Bulk" => \A leaf \in DOMAIN d[LeafTable(c)] :
                        EntryAgrees(leaf, d[LeafTable(c)][leaf], ofContract)

\* srrApproveHashes lists each of the leaves once.
ListAgrees(entity, leaves) ==
    LET listed == entity.srrApproveHashes IN
    /\ DOMAIN entity = {"sender", "srrApproveHashes", "tokenId"}
    /\ IsList(listed)
    /\ \A leaf : leaf \in leaves <=> \E i \in 1..Len(listed) : listed[i] = leaf
    /\ \A i, j \in 1..Len(listed) : listed[i] = listed[j] => i = j

\* The batch of a root, as its contract has it, and as d shows it.
BatchAgrees(d, c, root, batch) ==
    /\ root \in DOMAIN d[c] <=> batch.prepared
    /\ batch.prepared =>
          /\ d[c][root].sender = batch.signer
          /\ c = "BulkTransfer" => ListAgrees(d[c][root], batch.processedLeaves)

Agrees(d, theBatches) ==
    /\ DOMAIN d = Tables
    /\ \A c \in BulkContract, root \in Root : BatchAgrees(d, c, root, theBatches[c][root])
    /\ \A c \in BulkContract \ {"BulkTransfer"} : LeavesAgree(d, c, theBatches[c])

\* The index will show what the contracts have.
Follows == \E later : Leads(db, log, later) /\ Agrees(later, batches)

\* The call changes no batch but root of c.
ChangesOnly(c, root) ==
    \A d \in BulkContract, r \in Root : d # c \/ r # root => batches'[d][r] = batches[d][r]

LEMMA CallTells ==
    ASSUME UNCHANGED db, NEW d, Leads(db, log, d), NEW events, Emit(events),
           NEW later, Leads(d, Stamped(events), later), Agrees(later, batches')
    PROVE  Follows'
<1>1. log' = log \o Stamped(events)
  BY DEF Emit, Stamped
<1>2. Leads(db, log \o Stamped(events), later)
  BY LeadsJoined
<1>3. Leads(db', log', later)
  BY <1>1, <1>2
<1>4. QED
  BY <1>3 DEF Follows

\* A call with one event.
LEMMA CallTellsOne ==
    ASSUME UNCHANGED db, NEW d, Leads(db, log, d), NEW e, Emit(<<e>>),
           Agrees(Handled(d, e), batches')
    PROVE  Follows'
<1> DEFINE L == Stamped(<<e>>)
           S == [i \in 0..1 |-> IF i = 0 THEN d ELSE Handled(d, e)]
<1>1. IsList(L) /\ Len(L) = 1 /\ \A i \in 1..1 : L[i][1] = e
  <2> DEFINE events == <<e>>
  <2>1. DOMAIN events = 1..1 /\ events[1] = e /\ events = [i \in 1..1 |-> events[i]]
    OBVIOUS
  <2> HIDE DEF events
  <2>2. IsList(Stamped(events)) /\ Len(Stamped(events)) = 1
        /\ \A i \in 1..1 : Stamped(events)[i][1] = events[i]
    BY <2>1, StampedFacts
  <2>3. QED
    BY <2>1, <2>2 DEF events
<1>2. S[0] = d /\ S[1] = Handled(d, e)
  OBVIOUS
<1> HIDE DEF L, S
<1>3. \A i \in 1..1 : S[i] = Handled(S[i - 1], L[i][1])
  BY <1>1, <1>2
<1>4. Replays(S, d, L, Handled(d, e))
  BY <1>1, <1>2, <1>3 DEF Replays
<1>5. Leads(d, L, Handled(d, e))
  BY <1>1, <1>4 DEF Leads
<1>6. QED
  BY <1>5, CallTells DEF L

LEMMA Deployed == BulkContract \subseteq {"Bulk", "BulkIssue", "BulkTransfer"}
BY BulkAssumption

\* The leaves of a batch that are processed.
LEMMA ProcessChanges ==
    ASSUME IInv, NEW c \in BulkContract, NEW root \in Root, NEW leaves, Process(c, root, leaves)
    PROVE  /\ ChangesOnly(c, root)
           /\ batches'[c][root].prepared = batches[c][root].prepared
           /\ batches'[c][root].signer = batches[c][root].signer
           /\ batches'[c][root].processedLeaves = batches[c][root].processedLeaves \union leaves
<1>1. batches[c][root] \in Batch
  BY DEF IInv
<1>2. batches' = [batches EXCEPT ![c][root] = Processed(batches[c][root], leaves)]
  BY DEF IInv, Process, Processed
<1>3. batches'[c][root] = Processed(batches[c][root], leaves)
  BY <1>2 DEF IInv
<1>4. ChangesOnly(c, root)
  <2> DEFINE new == Processed(batches[c][root], leaves)
  <2> HIDE DEF new
  <2>1. batches' = [batches EXCEPT ![c][root] = new]
    BY <1>2 DEF new
  <2>2. QED
    BY <2>1 DEF ChangesOnly, IInv
<1>5. QED
  BY <1>1, <1>3, <1>4 DEF Processed, Batch

\* What the call does not touch still agrees.
LEMMA OthersAgree ==
    ASSUME NEW d, Agrees(d, batches), NEW c \in BulkContract, NEW root \in Root,
           ChangesOnly(c, root), NEW later,
           \A b \in BulkContract, r \in Root : b # c \/ r # root =>
              /\ r \in DOMAIN later[b] <=> r \in DOMAIN d[b]
              /\ r \in DOMAIN d[b] => later[b][r] = d[b][r],
           NEW b \in BulkContract, NEW r \in Root, b # c \/ r # root
    PROVE  BatchAgrees(later, b, r, batches'[b][r])
<1>1. BatchAgrees(d, b, r, batches[b][r])
  BY DEF Agrees
<1>2. batches'[b][r] = batches[b][r]
  BY DEF ChangesOnly
<1>3. /\ r \in DOMAIN later[b] <=> r \in DOMAIN d[b]
      /\ r \in DOMAIN d[b] => later[b][r] = d[b][r]
  OBVIOUS
<1>4. BatchAgrees(later, b, r, batches[b][r])
  BY <1>1, <1>3 DEF BatchAgrees
<1>5. QED
  BY <1>2, <1>4

\* The leaves of the other contracts.
LEMMA OtherLeavesAgree ==
    ASSUME NEW d, Agrees(d, batches), NEW c \in BulkContract, NEW root \in Root,
           ChangesOnly(c, root), NEW later,
           NEW b \in BulkContract \ {"BulkTransfer"}, b # c, later[LeafTable(b)] = d[LeafTable(b)]
    PROVE  LeavesAgree(later, b, batches'[b])
<1>1. LeavesAgree(d, b, batches[b])
  BY DEF Agrees
<1>2. \A r \in Root : batches'[b][r] = batches[b][r]
  BY DEF ChangesOnly
<1>3. \A leaf : leaf \in DOMAIN later[LeafTable(b)]
                   <=> \E r \in Root : leaf \in batches'[b][r].processedLeaves
  BY <1>1, <1>2 DEF LeavesAgree
<1>4. ASSUME b = "Bulk", NEW leaf \in DOMAIN later[LeafTable(b)]
      PROVE  EntryAgrees(leaf, later[LeafTable(b)][leaf], batches'[b])
  <2>1. EntryAgrees(leaf, d[LeafTable(b)][leaf], batches[b])
    BY <1>1, <1>4 DEF LeavesAgree
  <2>2. QED
    BY <1>2, <2>1 DEF EntryAgrees
<1>5. QED
  BY <1>3, <1>4 DEF LeavesAgree

\* Leaves are entered.
LEMMA EnterAgrees ==
    ASSUME IInv, NEW d, Agrees(d, batches), NEW c \in BulkContract, c # "BulkTransfer",
           NEW root \in Root, batches[c][root].prepared,
           NEW leaves, Process(c, root, leaves),
           NEW later, Enters(d, c, root, leaves, later)
    PROVE  Agrees(later, batches')
<1>1. /\ ChangesOnly(c, root)
      /\ batches'[c][root].prepared = batches[c][root].prepared
      /\ batches'[c][root].signer = batches[c][root].signer
      /\ batches'[c][root].processedLeaves = batches[c][root].processedLeaves \union leaves
  BY ProcessChanges
<1>2. DOMAIN later = Tables
  BY DEF Enters
<1>3. \A b \in BulkContract : later[b] = d[b]
  BY Deployed DEF Enters, LeafTable, Tables
<1>4. BatchAgrees(later, c, root, batches'[c][root])
  <2>1. BatchAgrees(d, c, root, batches[c][root])
    BY DEF Agrees
  <2>2. QED
    BY <1>1, <1>3, <2>1 DEF BatchAgrees
<1>5. \A b \in BulkContract, r \in Root : b # c \/ r # root => BatchAgrees(later, b, r, batches'[b][r])
  BY <1>1, <1>3, OthersAgree
<1>6. LeavesAgree(later, c, batches'[c])
  <2>1. LeavesAgree(d, c, batches[c])
    BY DEF Agrees
  <2>2. \A r \in Root : r # root => batches'[c][r] = batches[c][r]
    BY <1>1 DEF ChangesOnly
  <2>3. \A leaf : (\E r \in Root : leaf \in batches'[c][r].processedLeaves)
                     <=> leaf \in leaves \/ \E r \in Root : leaf \in batches[c][r].processedLeaves
    BY <1>1, <2>2
  <2>4. \A leaf : leaf \in DOMAIN later[LeafTable(c)]
                     <=> \E r \in Root : leaf \in batches'[c][r].processedLeaves
    BY <2>1, <2>3 DEF LeavesAgree, Enters
  <2>5. ASSUME c = "Bulk", NEW leaf \in DOMAIN later[LeafTable(c)]
        PROVE  EntryAgrees(leaf, later[LeafTable(c)][leaf], batches'[c])
    <3>1. CASE leaf \in leaves
      <4>1. later[LeafTable(c)][leaf] = Entry(c, root, leaf)
        BY <3>1 DEF Enters
      <4>2. leaf \in batches'[c][root].processedLeaves
        BY <1>1, <3>1
      <4>3. EntryAgrees(leaf, Entry(c, root, leaf), batches'[c])
        BY <2>5, <4>2 DEF EntryAgrees, Entry
      <4>4. QED
        BY <4>1, <4>3
    <3>2. CASE leaf \notin leaves
      <4>1. leaf \in DOMAIN d[LeafTable(c)]
        BY <2>5, <3>2 DEF Enters
      <4>2. later[LeafTable(c)][leaf] = d[LeafTable(c)][leaf]
        BY <3>2, <4>1 DEF Enters
      <4>3. EntryAgrees(leaf, d[LeafTable(c)][leaf], batches[c])
        BY <2>1, <2>5, <4>1 DEF LeavesAgree
      <4>4. \A r \in Root : leaf \in batches[c][r].processedLeaves
                               => leaf \in batches'[c][r].processedLeaves
        BY <1>1, <2>2
      <4>5. EntryAgrees(leaf, d[LeafTable(c)][leaf], batches'[c])
        BY <4>3, <4>4 DEF EntryAgrees
      <4>6. QED
        BY <4>2, <4>5
    <3>3. QED
      BY <3>1, <3>2
  <2>6. QED
    BY <2>4, <2>5 DEF LeavesAgree
<1>7. ASSUME NEW b \in BulkContract \ {"BulkTransfer"}, b # c
      PROVE  LeavesAgree(later, b, batches'[b])
  <2>1. later[LeafTable(b)] = d[LeafTable(b)]
    BY <1>7, Deployed DEF Enters, LeafTable, Tables
  <2>2. QED
    BY <1>1, <1>7, <2>1, OtherLeavesAgree
<1>8. QED
  BY <1>2, <1>4, <1>5, <1>6, <1>7 DEF Agrees

-----------------------------------------------------------------------------
(* The calls. *)

LEMMA CreateFollows ==
    ASSUME UNCHANGED db, IInv, Follows, NEW c \in BulkContract, NEW root \in Root,
           NEW n \in Nat \ {0}, NEW list \in [1..n -> leavesOf[root]],
           createSRRWithProofMulti(c, root, list)
    PROVE  Follows'
<1>1. PICK d : Leads(db, log, d) /\ Agrees(d, batches)
  BY DEF Follows
<1> DEFINE events == [i \in 1..n |-> WithProof(c, root, list[i])]
           leaves == {list[i] : i \in 1..n}
           later == Entered(d, c, root, leaves)
<1>2. c # "BulkTransfer" /\ Process(c, root, leaves) /\ Emit(events)
  BY DEF createSRRWithProofMulti, Range
<1>3. batches[c][root].prepared
  <2>1. 1 \in DOMAIN list
    OBVIOUS
  <2>2. QED
    BY <2>1 DEF createSRRWithProofMulti, Open
<1>4. DOMAIN d = Tables /\ root \in DOMAIN d[c]
  BY <1>1, <1>3 DEF Agrees, BatchAgrees
<1>5. c \in {"Bulk", "BulkIssue"}
  BY <1>2, Deployed
<1>6. DOMAIN list = 1..n
  OBVIOUS
<1>7. Leads(d, Stamped(events), later)
  <2> HIDE DEF events
  <2>1. \A L : L = [i \in 1..n |-> WithProof(c, root, list[i])] =>
           Leads(d, Stamped(L), Entered(d, c, root, {list[i] : i \in 1..n}))
    BY <1>4, <1>5, <1>6, LeavesHandled
  <2>2. QED
    BY <2>1 DEF events
<1> HIDE DEF leaves, events
<1>8. Enters(d, c, root, leaves, later)
  BY <1>4, EnteredEnters
<1> HIDE DEF later
<1>9. Agrees(later, batches')
  BY <1>1, <1>2, <1>3, <1>8, EnterAgrees
<1>10. QED
  BY <1>1, <1>2, <1>7, <1>9, CallTells

\* An approval or a transfer by BulkV6.
LEMMA LeafFollows ==
    ASSUME UNCHANGED db, IInv, Follows, "Bulk" \in BulkContract, NEW root \in Root, NEW leaf,
           Open("Bulk", root, leaf), Process("Bulk", root, {leaf}),
           Emit(<<WithProof("Bulk", root, leaf)>>)
    PROVE  Follows'
<1>1. PICK d : Leads(db, log, d) /\ Agrees(d, batches)
  BY DEF Follows
<1>2. batches["Bulk"][root].prepared
  BY DEF Open
<1>3. DOMAIN d = Tables /\ root \in DOMAIN d["Bulk"]
  BY <1>1, <1>2 DEF Agrees, BatchAgrees
<1>4. Handled(d, WithProof("Bulk", root, leaf)) = Entered(d, "Bulk", root, {leaf})
  BY <1>3, LeafHandled
<1>5. Enters(d, "Bulk", root, {leaf}, Entered(d, "Bulk", root, {leaf}))
  BY <1>3, EnteredEnters
<1>6. Agrees(Entered(d, "Bulk", root, {leaf}), batches')
  BY <1>1, <1>2, <1>5, EnterAgrees
<1>7. QED
  BY <1>1, <1>4, <1>6, CallTellsOne

\* A batch is saved in the table of its contract.
SavesBatch(d, c, root, entity, later) ==
    /\ DOMAIN later = Tables
    /\ \A table \in Tables \ {c} : later[table] = d[table]
    /\ DOMAIN later[c] = DOMAIN d[c] \union {root}
    /\ later[c][root] = entity
    /\ \A r \in DOMAIN d[c] \ {root} : later[c][r] = d[c][r]

LEMMA SaveSavesBatch ==
    ASSUME NEW d, DOMAIN d = Tables, NEW c \in Tables, NEW root, NEW entity
    PROVE  SavesBatch(d, c, root, entity, Index!Save(d, c, root, entity))
BY DEF SavesBatch, Index!Save

\* A batch is saved, and no leaf entered that was not.
LEMMA SaveAgrees ==
    ASSUME NEW d, Agrees(d, batches), NEW c \in BulkContract, NEW root \in Root,
           ChangesOnly(c, root), NEW entity, NEW later, SavesBatch(d, c, root, entity, later),
           BatchAgrees(later, c, root, batches'[c][root]),
           c # "BulkTransfer" => batches'[c][root].processedLeaves = batches[c][root].processedLeaves
    PROVE  Agrees(later, batches')
<1>1. DOMAIN later = Tables
  BY DEF SavesBatch
<1>2. \A b \in BulkContract, r \in Root : b # c \/ r # root =>
         /\ r \in DOMAIN later[b] <=> r \in DOMAIN d[b]
         /\ r \in DOMAIN d[b] => later[b][r] = d[b][r]
  BY Deployed DEF SavesBatch, Tables
<1>3. \A b \in BulkContract, r \in Root : BatchAgrees(later, b, r, batches'[b][r])
  BY <1>2, OthersAgree
<1>4. \A b : later[LeafTable(b)] = d[LeafTable(b)]
  BY Deployed DEF SavesBatch, LeafTable, Tables
<1>5. ASSUME NEW b \in BulkContract \ {"BulkTransfer"}
      PROVE  LeavesAgree(later, b, batches'[b])
  <2>1. CASE b # c
    BY <1>4, <2>1, OtherLeavesAgree
  <2>2. CASE b = c
    <3>1. LeavesAgree(d, c, batches[c])
      BY <2>2 DEF Agrees
    <3>2. \A r \in Root : batches'[c][r].processedLeaves = batches[c][r].processedLeaves
      BY <2>2 DEF ChangesOnly
    <3>3. LeavesAgree(later, c, batches'[c])
      BY <1>4, <3>1, <3>2 DEF LeavesAgree, EntryAgrees
    <3>4. QED
      BY <2>2, <3>3
  <2>3. QED
    BY <2>1, <2>2
<1>6. QED
  BY <1>1, <1>3, <1>5 DEF Agrees

\* A batch is prepared: the event is the first of its root.
LEMMA PrepareFollows ==
    ASSUME UNCHANGED db, IInv, Follows, NEW c \in BulkContract, NEW root \in Root, NEW sender,
           prepareBatchFromLicensedUser(c, root, sender)
    PROVE  Follows'
<1>1. PICK d : Leads(db, log, d) /\ Agrees(d, batches)
  BY DEF Follows
<1> DEFINE e == [event |-> "BatchPrepared", source |-> c, root |-> root, sender |-> sender]
           entity == IF c = "BulkTransfer"
                     THEN [sender |-> sender, srrApproveHashes |-> << >>, tokenId |-> Null]
                     ELSE [sender |-> sender]
           new == [batches[c][root] EXCEPT !.prepared = TRUE, !.signer = sender,
                                           !.processedCount = 0]
<1>2. ~batches[c][root].prepared /\ Emit(<<e>>)
  BY DEF prepareBatchFromLicensedUser
<1>3. DOMAIN d = Tables /\ root \notin DOMAIN d[c] /\ c \in Tables
  BY <1>1, <1>2, Deployed DEF Agrees, BatchAgrees, Tables
<1>4. e.event = "BatchPrepared" /\ e.source = c /\ e.root = root /\ e.sender = sender
  OBVIOUS
<1> HIDE DEF e
<1>5. Handled(d, e) = Index!Save(d, c, root, entity)
  <2>1. Handled(d, e) = Index!handleBatchPrepared(d, e)
    BY <1>4 DEF Handled, Index!HandleBulkEvent
  <2>2. Index!handleBatchPrepared(d, e) = Index!Save(d, c, root, entity)
    BY <1>3, <1>4 DEF Index!handleBatchPrepared, Index!Has
  <2>3. QED
    BY <2>1, <2>2
<1>6. entity.sender = sender
      /\ (c = "BulkTransfer" => /\ DOMAIN entity = {"sender", "srrApproveHashes", "tokenId"}
                                /\ entity.srrApproveHashes = << >>)
  OBVIOUS
<1> HIDE DEF entity
<1>7. SavesBatch(d, c, root, entity, Handled(d, e))
  BY <1>3, <1>5, SaveSavesBatch
<1>8. batches[c][root] \in Batch /\ batches[c][root].processedLeaves = {}
  BY <1>2 DEF IInv, GoodBatch
<1>9. new.prepared /\ new.signer = sender /\ new.processedLeaves = {}
  BY <1>8 DEF Batch
<1>10. batches' = [batches EXCEPT ![c][root] = new]
  BY DEF prepareBatchFromLicensedUser, IInv
<1> HIDE DEF new
<1>11. batches'[c][root] = new /\ ChangesOnly(c, root)
  BY <1>10 DEF IInv, ChangesOnly
<1>12. ListAgrees(entity, {}) \/ c # "BulkTransfer"
  <2>1. IsList(<< >>) /\ Len(<< >>) = 0
    BY ListFacts
  <2>2. QED
    BY <1>6, <2>1 DEF ListAgrees
<1>13. BatchAgrees(Handled(d, e), c, root, batches'[c][root])
  <2>1. root \in DOMAIN Handled(d, e)[c] /\ Handled(d, e)[c][root] = entity
    BY <1>7 DEF SavesBatch
  <2>2. QED
    BY <1>6, <1>9, <1>11, <1>12, <2>1 DEF BatchAgrees
<1>14. Agrees(Handled(d, e), batches')
  BY <1>1, <1>7, <1>8, <1>9, <1>11, <1>13, SaveAgrees
<1>15. QED
  BY <1>1, <1>2, <1>14, CallTellsOne

\* A leaf that is not listed is listed.
LEMMA AppendAgrees ==
    ASSUME NEW entity, NEW leaves, ListAgrees(entity, leaves), NEW leaf, leaf \notin leaves,
           NEW token, NEW new,
           new = [entity EXCEPT !.srrApproveHashes = Append(@, leaf), !.tokenId = token]
    PROVE  ListAgrees(new, leaves \union {leaf}) /\ new.sender = entity.sender
<1> DEFINE listed == entity.srrApproveHashes
           more == Append(listed, leaf)
           n == Len(listed)
<1>1. /\ DOMAIN entity = {"sender", "srrApproveHashes", "tokenId"} /\ IsList(listed)
      /\ \A l : l \in leaves <=> \E i \in 1..n : listed[i] = l
      /\ \A i, j \in 1..n : listed[i] = listed[j] => i = j
  BY DEF ListAgrees
<1>2. /\ n \in Nat /\ IsList(more) /\ Len(more) = n + 1 /\ more[n + 1] = leaf
      /\ \A i \in 1..n : more[i] = listed[i]
  BY <1>1, ListFacts
<1>3. new = [entity EXCEPT !.srrApproveHashes = more, !.tokenId = token]
  OBVIOUS
<1> HIDE DEF more, n, listed
<1>4. /\ DOMAIN new = {"sender", "srrApproveHashes", "tokenId"}
      /\ new.srrApproveHashes = more /\ new.sender = entity.sender
  BY <1>1, <1>3
<1>5. \A l : l \in leaves \union {leaf} <=> \E i \in 1..n + 1 : more[i] = l
  <2>1. ASSUME NEW l
        PROVE  l \in leaves \union {leaf} <=> \E i \in 1..n + 1 : more[i] = l
    <3>1. n + 1 \in 1..n + 1 /\ \A i \in 1..n : i \in 1..n + 1
      BY <1>2
    <3>2. \A i \in 1..n + 1 : i = n + 1 \/ i \in 1..n
      BY <1>2
    <3>3. QED
      BY <1>1, <1>2, <3>1, <3>2
  <2>2. QED
    BY <2>1
<1>6. \A i, j \in 1..n + 1 : more[i] = more[j] => i = j
  <2>1. \A i \in 1..n + 1 : i = n + 1 \/ i \in 1..n
    BY <1>2
  <2>2. \A i \in 1..n : more[i] \in leaves
    BY <1>1, <1>2
  <2>3. QED
    BY <1>1, <1>2, <2>1, <2>2
<1>7. /\ IsList(new.srrApproveHashes) /\ Len(new.srrApproveHashes) = n + 1
      /\ \A i : new.srrApproveHashes[i] = more[i]
  BY <1>2, <1>4
<1>8. QED
  BY <1>4, <1>5, <1>6, <1>7 DEF ListAgrees

\* An approval by BulkTransfer.
LEMMA ApproveFollows ==
    ASSUME UNCHANGED db, IInv, Follows, "BulkTransfer" \in BulkContract, NEW root \in Root, NEW leaf,
           Open("BulkTransfer", root, leaf), Process("BulkTransfer", root, {leaf}),
           Emit(<<WithProof("BulkTransfer", root, leaf)>>)
    PROVE  Follows'
<1>1. PICK d : Leads(db, log, d) /\ Agrees(d, batches)
  BY DEF Follows
<1> DEFINE c == "BulkTransfer"
           e == WithProof(c, root, leaf)
           old == batches[c][root]
           entity == [d[c][root] EXCEPT !.srrApproveHashes = Append(@, leaf),
                                        !.tokenId = e.tokenId]
<1>2. old.prepared /\ leaf \notin old.processedLeaves
  BY DEF Open
<1>3. DOMAIN d = Tables /\ BatchAgrees(d, c, root, old) /\ c \in Tables
  BY <1>1 DEF Agrees, Tables
<1>4. root \in DOMAIN d[c] /\ d[c][root].sender = old.signer
      /\ ListAgrees(d[c][root], old.processedLeaves)
  BY <1>2, <1>3 DEF BatchAgrees
<1>5. e.event = "WithProof" /\ e.source = c /\ e.root = root /\ e.leaf = leaf
  BY DEF WithProof
<1> HIDE DEF e
<1>6. Handled(d, e) = Index!Save(d, c, root, entity)
  <2>1. Handled(d, e) = Index!handleApproveSRRByCommitmentWithProof(d, e)
    BY <1>5 DEF Handled, Index!HandleBulkEvent
  <2>2. Index!handleApproveSRRByCommitmentWithProof(d, e) = Index!Save(d, c, root, entity)
    BY <1>4, <1>5 DEF Index!handleApproveSRRByCommitmentWithProof, Index!IfKnown, Index!Has
  <2>3. QED
    BY <2>1, <2>2
<1>7. ListAgrees(entity, old.processedLeaves \union {leaf}) /\ entity.sender = old.signer
  BY <1>2, <1>4, AppendAgrees
<1> HIDE DEF entity
<1>8. SavesBatch(d, c, root, entity, Handled(d, e))
  BY <1>3, <1>6, SaveSavesBatch
<1>9. /\ ChangesOnly(c, root)
      /\ batches'[c][root].prepared = old.prepared
      /\ batches'[c][root].signer = old.signer
      /\ batches'[c][root].processedLeaves = old.processedLeaves \union {leaf}
  BY ProcessChanges
<1>10. BatchAgrees(Handled(d, e), c, root, batches'[c][root])
  <2>1. root \in DOMAIN Handled(d, e)[c] /\ Handled(d, e)[c][root] = entity
    BY <1>8 DEF SavesBatch
  <2>2. QED
    BY <1>2, <1>7, <1>9, <2>1 DEF BatchAgrees
<1>11. Agrees(Handled(d, e), batches')
  BY <1>1, <1>8, <1>9, <1>10, SaveAgrees
<1>12. QED
  BY <1>1, <1>11, CallTellsOne DEF e

\* What the event of a migration makes of a database.
Migrates(d, root, leaves, entity, later) ==
    /\ DOMAIN later = Tables
    /\ \A table \in Tables \ {"BulkIssue", "BulkIssueSRR"} : later[table] = d[table]
    /\ DOMAIN later["BulkIssue"] = DOMAIN d["BulkIssue"] \union {root}
    /\ later["BulkIssue"][root] = entity
    /\ \A r \in DOMAIN d["BulkIssue"] \ {root} : later["BulkIssue"][r] = d["BulkIssue"][r]
    /\ DOMAIN later["BulkIssueSRR"] = DOMAIN d["BulkIssueSRR"] \union leaves

LEMMA MigrationHandled ==
    ASSUME NEW d, DOMAIN d = Tables, NEW root, NEW leaves, NEW issuer, NEW e,
           e = [event |-> "MigrateBatch", source |-> "BulkIssue", root |-> root,
                leaves |-> leaves, sender |-> issuer]
    PROVE  Migrates(d, root, leaves, [sender |-> issuer], Handled(d, e))
<1> DEFINE entity == [sender |-> issuer]
           shown == Index!Save(d, "BulkIssue", root, entity)
           marked == [l \in DOMAIN shown["BulkIssueSRR"] \union leaves |->
                        IF l \in leaves THEN [bulkIssue |-> root, tokenId |-> Null]
                        ELSE shown["BulkIssueSRR"][l]]
<1>1. /\ e.event = "MigrateBatch" /\ e.root = root /\ e.leaves = leaves
      /\ [sender |-> e.sender] = entity
  OBVIOUS
<1>2. Handled(d, e) = Index!handleMigrateBatch(d, e)
  BY <1>1 DEF Handled, Index!HandleBulkEvent
<1>3. Index!handleMigrateBatch(d, e) = [shown EXCEPT !["BulkIssueSRR"] = marked]
  BY <1>1 DEF Index!handleMigrateBatch
<1>4. DOMAIN marked = DOMAIN shown["BulkIssueSRR"] \union leaves
  OBVIOUS
<1> HIDE DEF marked, entity
<1>5. SavesBatch(d, "BulkIssue", root, entity, shown)
  BY SaveSavesBatch DEF Tables
<1> HIDE DEF shown
<1>6. Handled(d, e) = [shown EXCEPT !["BulkIssueSRR"] = marked]
  BY <1>2, <1>3
<1>7. Migrates(d, root, leaves, entity, Handled(d, e))
  <2> DEFINE later == Handled(d, e)
  <2>1. later = [shown EXCEPT !["BulkIssueSRR"] = marked]
    BY <1>6
  <2> HIDE DEF later
  <2>2. /\ DOMAIN later = Tables /\ later["BulkIssueSRR"] = marked
        /\ \A table \in Tables \ {"BulkIssueSRR"} : later[table] = shown[table]
    BY <1>5, <2>1 DEF SavesBatch, Tables
  <2>3. \A table \in Tables \ {"BulkIssue"} : shown[table] = d[table]
    BY <1>5 DEF SavesBatch
  <2>4. later["BulkIssue"] = shown["BulkIssue"] /\ shown["BulkIssueSRR"] = d["BulkIssueSRR"]
    BY <2>2, <2>3 DEF Tables
  <2>5. Migrates(d, root, leaves, entity, later)
    BY <1>4, <1>5, <2>2, <2>3, <2>4 DEF Migrates, SavesBatch
  <2>6. QED
    BY <2>5 DEF later
<1>8. QED
  BY <1>7 DEF entity

\* A batch of another chain is taken over, shown before or not.
LEMMA MigrateFollows ==
    ASSUME UNCHANGED db, IInv, Follows, "BulkIssue" \in BulkContract, NEW root \in Root,
           NEW leaves, NEW issuer, migrateBatch(root, leaves, issuer)
    PROVE  Follows'
<1>1. PICK d : Leads(db, log, d) /\ Agrees(d, batches)
  BY DEF Follows
<1> DEFINE c == "BulkIssue"
           e == [event |-> "MigrateBatch", source |-> c, root |-> root,
                 leaves |-> leaves, sender |-> issuer]
           later == Handled(d, e)
           new == [prepared |-> TRUE, signer |-> issuer,
                   processedCount |-> Cardinality(leaves) % (COUNT_MAX + 1),
                   processedLeaves |-> batches[c][root].processedLeaves \union leaves]
<1>2. DOMAIN d = Tables
  BY <1>1 DEF Agrees
<1>3. Migrates(d, root, leaves, [sender |-> issuer], later)
  BY <1>2, MigrationHandled
<1>4. Emit(<<e>>)
  BY DEF migrateBatch
<1>5. /\ new.prepared /\ new.signer = issuer
      /\ new.processedLeaves = batches[c][root].processedLeaves \union leaves
  OBVIOUS
<1>6. batches' = [batches EXCEPT ![c][root] = new]
  BY DEF migrateBatch
<1> HIDE DEF new, later, e
<1>7. batches'[c][root] = new /\ ChangesOnly(c, root)
  BY <1>6 DEF IInv, ChangesOnly
<1>8. /\ DOMAIN later = Tables
      /\ \A table \in Tables \ {c, "BulkIssueSRR"} : later[table] = d[table]
      /\ DOMAIN later[c] = DOMAIN d[c] \union {root}
      /\ later[c][root].sender = issuer
      /\ \A r \in DOMAIN d[c] \ {root} : later[c][r] = d[c][r]
      /\ DOMAIN later["BulkIssueSRR"] = DOMAIN d["BulkIssueSRR"] \union leaves
  BY <1>3 DEF Migrates
<1>9. BatchAgrees(later, c, root, batches'[c][root])
  BY <1>5, <1>7, <1>8 DEF BatchAgrees
<1>10. ASSUME NEW b \in BulkContract, NEW r \in Root, b # c \/ r # root
       PROVE  /\ r \in DOMAIN later[b] <=> r \in DOMAIN d[b]
              /\ r \in DOMAIN d[b] => later[b][r] = d[b][r]
  <2>1. CASE b = c
    BY <1>8, <1>10, <2>1
  <2>2. CASE b # c
    <3>1. later[b] = d[b]
      BY <1>8, <2>2, Deployed DEF Tables
    <3>2. QED
      BY <3>1
  <2>3. QED
    BY <2>1, <2>2
<1>11. \A b \in BulkContract, r \in Root : b # c \/ r # root => BatchAgrees(later, b, r, batches'[b][r])
  BY <1>1, <1>7, <1>10, OthersAgree
<1>12. LeavesAgree(later, c, batches'[c])
  <2>1. LeavesAgree(d, c, batches[c]) /\ LeafTable(c) = "BulkIssueSRR"
    BY <1>1 DEF Agrees, LeafTable
  <2>2. \A r \in Root : r # root => batches'[c][r] = batches[c][r]
    BY <1>7 DEF ChangesOnly
  <2>3. \A leaf : (\E r \in Root : leaf \in batches'[c][r].processedLeaves)
                     <=> leaf \in leaves \/ \E r \in Root : leaf \in batches[c][r].processedLeaves
    BY <1>5, <1>7, <2>2
  <2>4. QED
    BY <1>8, <2>1, <2>3 DEF LeavesAgree
<1>13. ASSUME NEW b \in BulkContract \ {"BulkTransfer"}, b # c
       PROVE  LeavesAgree(later, b, batches'[b])
  <2>1. later[LeafTable(b)] = d[LeafTable(b)]
    BY <1>8, <1>13, Deployed DEF LeafTable, Tables
  <2>2. QED
    BY <1>1, <1>7, <1>13, <2>1, OtherLeavesAgree
<1>14. Agrees(later, batches')
  BY <1>8, <1>9, <1>11, <1>12, <1>13 DEF Agrees
<1>15. QED
  BY <1>1, <1>4, <1>14, CallTellsOne DEF later

-----------------------------------------------------------------------------

LEMMA FollowsAtFirst == IndexedInit => Follows
<1> SUFFICES ASSUME IndexedInit PROVE Follows
  OBVIOUS
<1>1. db = Index!NoBatches /\ log = << >>
  BY DEF IndexedInit, BulkInit, ChainInit
<1>2. \A c \in BulkContract, root \in Root : batches[c][root] = NoBatch
  BY DEF IndexedInit, BulkInit
<1>3. ~NoBatch.prepared /\ NoBatch.processedLeaves = {}
  BY DEF NoBatch
<1>4. DOMAIN db = Tables /\ \A table \in Tables : DOMAIN db[table] = {}
  BY <1>1 DEF Index!NoBatches, Index!NoEntities, Tables
<1>5. \A c \in BulkContract, root \in Root : BatchAgrees(db, c, root, batches[c][root])
  BY <1>2, <1>3, <1>4, Deployed DEF BatchAgrees, Tables
<1>6. ASSUME NEW c \in BulkContract
      PROVE  LeavesAgree(db, c, batches[c])
  <2>1. DOMAIN db[LeafTable(c)] = {}
    BY <1>4 DEF LeafTable, Tables
  <2>2. QED
    BY <1>2, <1>3, <2>1 DEF LeavesAgree
<1>7. Agrees(db, batches)
  BY <1>4, <1>5, <1>6 DEF Agrees
<1>8. Leads(db, log, db)
  BY <1>1, LeadsNothing
<1>9. QED
  BY <1>7, <1>8 DEF Follows

LEMMA FollowsNextKeeps == IInv /\ Follows /\ [IndexedNext]_composed => Follows'
<1> SUFFICES ASSUME IInv, Follows, [IndexedNext]_composed PROVE Follows'
  OBVIOUS
<1>1. ASSUME NEW c \in BulkContract, NEW root \in Root, NEW sender \in Licensed,
             prepareBatchFromLicensedUser(c, root, sender), UNCHANGED db
      PROVE  Follows'
  BY <1>1, PrepareFollows
<1>2. ASSUME NEW c \in BulkContract, NEW root \in Root,
             NEW list \in SeqOf(leavesOf[root], MaxMulti) \ {<< >>},
             createSRRWithProofMulti(c, root, list), UNCHANGED db
      PROVE  Follows'
  <2>1. PICK n \in 0..MaxMulti : list \in [1..n -> leavesOf[root]]
    BY DEF SeqOf
  <2>2. n \in Nat \ {0}
    BY <2>1
  <2>3. QED
    BY <1>2, <2>1, <2>2, CreateFollows
<1>3. ASSUME NEW c \in BulkContract, NEW root \in Root, NEW leaf \in leavesOf[root], UNCHANGED db,
             approveSRRByCommitmentWithProof(c, root, leaf)
      PROVE  Follows'
  <2>1. /\ c # "BulkIssue" /\ Open(c, root, leaf) /\ Process(c, root, {leaf})
        /\ Emit(<<WithProof(c, root, leaf)>>)
    BY <1>3 DEF approveSRRByCommitmentWithProof
  <2>2. CASE c = "Bulk"
    BY <1>3, <2>1, <2>2, LeafFollows
  <2>3. CASE c = "BulkTransfer"
    BY <1>3, <2>1, <2>3, ApproveFollows
  <2>4. QED
    BY <2>1, <2>2, <2>3, Deployed
<1>4. ASSUME NEW c \in BulkContract, NEW root \in Root, NEW leaf \in leavesOf[root], UNCHANGED db,
             transferFromWithProvenanceWithProof(c, root, leaf)
      PROVE  Follows'
  <2>1. /\ c = "Bulk" /\ Open(c, root, leaf) /\ Process(c, root, {leaf})
        /\ Emit(<<WithProof(c, root, leaf)>>)
    BY <1>4 DEF transferFromWithProvenanceWithProof
  <2>2. QED
    BY <1>4, <2>1, LeafFollows
<1>5. ASSUME NEW root \in Root, "BulkIssue" \in BulkContract, NEW leaves \in SUBSET leavesOf[root],
             NEW issuer \in Licensed, migrateBatch(root, leaves, issuer), UNCHANGED db
      PROVE  Follows'
  BY <1>5, MigrateFollows
<1>6. CASE BulkCall /\ UNCHANGED db
  BY <1>1, <1>2, <1>3, <1>4, <1>5, <1>6 DEF BulkCall
<1>7. CASE UNCHANGED <<db, log, batches>>
  BY <1>7 DEF Follows
<1>8. ASSUME NEW token \in Token, NEW to \in Account, TokenMoves(token, to), UNCHANGED db
      PROVE  Follows'
  BY <1>7, <1>8 DEF TokenMoves, chain
<1>9. CASE IndexEvent
  <2>1. PICK d : Leads(db, log, d) /\ Agrees(d, batches)
    BY DEF Follows
  <2>2. log # << >> /\ db' = Handled(db, log[1][1]) /\ log' = Tail(log) /\ batches' = batches
    BY <1>9 DEF IndexEvent, Handled, bulk
  <2>3. Leads(db', log', d)
    BY <2>1, <2>2, LeadsLess
  <2>4. QED
    BY <2>1, <2>2, <2>3 DEF Follows
<1>10. CASE UNCHANGED composed
  BY <1>7, <1>10 DEF composed, bulk, chain
<1>11. QED
  BY <1>6, <1>8, <1>9, <1>10 DEF IndexedNext

LEMMA FollowsSuffices == Follows => BulkAgrees
<1> SUFFICES ASSUME Follows, CaughtUp
             PROVE  /\ "Bulk" \in BulkContract => CurrentBulkAgrees
                    /\ ReplacedBulkAgrees
  BY DEF BulkAgrees
<1>1. Agrees(db, batches)
  BY LeadsEmpty DEF Follows, CaughtUp
<1>2. ASSUME NEW c \in BulkContract, NEW root \in Root
      PROVE  /\ IsIndexed(c, root) <=> batches[c][root].prepared
             /\ IsIndexed(c, root) => db[c][root].sender = batches[c][root].signer
             /\ IsIndexed(c, root) /\ c = "BulkTransfer" =>
                   ListAgrees(db[c][root], batches[c][root].processedLeaves)
  BY <1>1 DEF Agrees, BatchAgrees, IsIndexed
<1>3. ASSUME NEW c \in BulkContract, c # "BulkTransfer"
      PROVE  /\ DOMAIN db[LeafTable(c)] = UNION {batches[c][root].processedLeaves : root \in Root}
             /\ c = "Bulk" => \A leaf \in DOMAIN db[LeafTable(c)] :
                                 EntryAgrees(leaf, db[LeafTable(c)][leaf], batches[c])
  <2>1. LeavesAgree(db, c, batches[c])
    BY <1>1, <1>3 DEF Agrees
  <2>2. QED
    BY <2>1 DEF LeavesAgree
<1>4. ASSUME "Bulk" \in BulkContract
      PROVE  CurrentBulkAgrees
  <2>1. LeafTable("Bulk") = "BulkSRR"
    BY DEF LeafTable
  <2>2. DOMAIN db["BulkSRR"] = UNION {batches["Bulk"][root].processedLeaves : root \in Root}
    BY <1>3, <1>4, <2>1
  <2>3. \A leaf \in DOMAIN db["BulkSRR"] :
           EntryAgrees(leaf, db["BulkSRR"][leaf], batches["Bulk"])
    BY <1>3, <1>4, <2>1
  <2>4. QED
    BY <1>2, <1>4, <2>2, <2>3 DEF CurrentBulkAgrees, EntryAgrees
<1>5. ASSUME "BulkIssue" \in BulkContract
      PROVE  DOMAIN db["BulkIssueSRR"] =
                UNION {batches["BulkIssue"][root].processedLeaves : root \in Root}
  <2>1. LeafTable("BulkIssue") = "BulkIssueSRR"
    BY DEF LeafTable
  <2>2. QED
    BY <1>3, <1>5, <2>1
<1>6. ASSUME "BulkTransfer" \in BulkContract, NEW root \in Root, IsIndexed("BulkTransfer", root)
      PROVE  LET listed == db["BulkTransfer"][root].srrApproveHashes IN
             /\ Range(listed) = batches["BulkTransfer"][root].processedLeaves
             /\ Len(listed) = Cardinality(Range(listed))
  <2> DEFINE listed == db["BulkTransfer"][root].srrApproveHashes
             leaves == batches["BulkTransfer"][root].processedLeaves
             n == Len(listed)
  <2>1. /\ IsList(listed)
        /\ \A leaf : leaf \in leaves <=> \E i \in 1..n : listed[i] = leaf
        /\ \A i, j \in 1..n : listed[i] = listed[j] => i = j
    BY <1>2, <1>6 DEF ListAgrees
  <2> HIDE DEF listed, leaves
  <2>2. DOMAIN listed = 1..n /\ n \in Nat
    BY <2>1 DEF IsList
  <2>3. Range(listed) = leaves
    BY <2>1, <2>2 DEF Range
  <2>4. \A x : x \in Range(listed) <=> \E i \in 1..n : x = listed[i]
    BY <2>1, <2>3
  <2> HIDE DEF n
  <2>5. Cardinality(Range(listed)) = n
    BY <2>1, <2>2, <2>4, DistinctValues
  <2>6. QED
    BY <2>3, <2>5 DEF n, listed, leaves
<1>7. ReplacedBulkAgrees
  BY <1>2, <1>5, <1>6 DEF ReplacedBulkAgrees
<1>8. QED
  BY <1>4, <1>7

\* An index that has handled every event shows each prepared batch of the three contracts
\* under its signer, the leaves that were processed and no other, each under a batch that
\* processed it, and each approval of BulkTransfer once, however far the index was behind
\* before (generalized-bulk-mapping.ts, bulk-mapping.ts, bulk-transfer-mapping.ts).
THEOREM BulkAgreesHolds == IndexedSpec => []BulkAgrees
<1>1. IndexedInit => IInv /\ Follows
  BY InitHolds, FollowsAtFirst
<1>2. IInv /\ Follows /\ [IndexedNext]_composed => (IInv /\ Follows)'
  BY NextKeeps, FollowsNextKeeps
<1>3. IndexedSpec => [](IInv /\ Follows)
  BY <1>1, <1>2, PTL DEF IndexedSpec
<1>4. QED
  BY <1>3, FollowsSuffices, PTL
=============================================================================
