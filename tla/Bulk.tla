-------------------------------- MODULE Bulk --------------------------------
(***************************************************************************)
(* The bulk contracts: BulkV6, which issues, approves and transfers        *)
(* records of the registry and of the collections, and the two it          *)
(* replaced, BulkIssue (V1 to V5, which issue records of the registry, and *)
(* whose V1 took over the batches of another chain) and BulkTransfer       *)
(* (which approves).  A licensed user prepares a batch by the merkle root  *)
(* of its leaves; anybody then submits leaves with their proofs, and the   *)
(* destination acts for the signer who prepared the batch.  Every call     *)
(* emits its events.                                                       *)
(*                                                                         *)
(* A root stands for the set of the leaves that have a proof for it, and a *)
(* leaf for the arguments it is the hash of.  Of the destination only the  *)
(* owners of the tokens are kept: they decide which leaves it accepts.     *)
(***************************************************************************)
EXTENDS FiniteSets, Functions, ChainLog

CONSTANTS
    BulkContract,       \* which of "Bulk", "BulkIssue" and "BulkTransfer" are deployed
    Account,
    ZERO,               \* the zero address: as a contract, the registry is meant
    CollectionOwner,    \* the account that owns the collections
    Root,
    Leaf,
    leavesOf,           \* leavesOf[root]: the leaves of the tree
    detailOf,           \* detailOf[leaf]: its call, contract, tokenId and recipient
    COUNT_MAX,          \* the largest processedCount, a uint8: 255 in the code
    NoOwner,            \* the owner of a token that is not issued
    Null

VARIABLES
    batches,            \* batches[contract][root]
    tokenOwner,         \* tokenOwner[<<contract, tokenId>>]
    effects             \* effects[contract][root][leaf]: calls the destination accepted

bulk == <<batches, tokenOwner, effects>>

ASSUME BulkAssumption ==
    /\ BulkContract \subseteq {"Bulk", "BulkIssue", "BulkTransfer"}
    /\ IsFiniteSet(Leaf)
    /\ leavesOf \in [Root -> SUBSET Leaf]
    /\ COUNT_MAX \in Nat

tokenOf(leaf) == <<detailOf[leaf].contract, detailOf[leaf].tokenId>>

Token == {tokenOf(leaf) : leaf \in Leaf}

NoBatch == [prepared |-> FALSE, signer |-> ZERO, processedCount |-> 0, processedLeaves |-> {}]

BulkInit ==
    /\ batches = [c \in BulkContract |-> [r \in Root |-> NoBatch]]
    /\ tokenOwner = [t \in Token |-> NoOwner]
    /\ effects = [c \in BulkContract |-> [r \in Root |-> [l \in Leaf |-> 0]]]
    /\ ChainInit

-----------------------------------------------------------------------------

\* Seeded fault: a batch can be prepared again, counting from nothing.
prepareBatchAgain(c, root, sender) ==
    /\ batches' = [batches EXCEPT ![c][root].prepared = TRUE, ![c][root].signer = sender,
                                  ![c][root].processedCount = 0]
    /\ Emit(<<[event |-> "BatchPrepared", source |-> c, root |-> root, sender |-> sender]>>)
    /\ UNCHANGED <<tokenOwner, effects>>

\* sender is the licensed user whose request the forwarder executes.
prepareBatchFromLicensedUser(c, root, sender) ==
    /\ ~batches[c][root].prepared
    /\ batches' = [batches EXCEPT ![c][root].prepared = TRUE, ![c][root].signer = sender,
                                  ![c][root].processedCount = 0]
    /\ Emit(<<[event |-> "BatchPrepared", source |-> c, root |-> root, sender |-> sender]>>)
    /\ UNCHANGED <<tokenOwner, effects>>

WithProof(c, root, leaf) ==
    [event |-> "WithProof", source |-> c, root |-> root, leaf |-> leaf,
     contract |-> detailOf[leaf].contract, tokenId |-> detailOf[leaf].tokenId]

\* The proof of leaf is one of root, and root is of a batch that has not processed it.
Open(c, root, leaf) ==
    /\ batches[c][root].prepared
    /\ leaf \in leavesOf[root] \ batches[c][root].processedLeaves

\* Seeded fault: the leaf is not marked.
ProcessUnmarked(c, root, leaves) ==
    /\ batches[c][root].processedCount + Cardinality(leaves) <= COUNT_MAX
    /\ batches' = [batches EXCEPT
                     ![c][root].processedCount = @ + Cardinality(leaves)]
    /\ effects' = [effects EXCEPT ![c][root] =
                     [l \in Leaf |-> IF l \in leaves THEN @[l] + 1 ELSE @[l]]]

\* The count is a uint8 and its increment is checked.
Process(c, root, leaves) ==
    /\ batches[c][root].processedCount + Cardinality(leaves) <= COUNT_MAX
    /\ batches' = [batches EXCEPT
                     ![c][root].processedCount = @ + Cardinality(leaves),
                     ![c][root].processedLeaves = @ \union leaves]
    /\ effects' = [effects EXCEPT ![c][root] =
                     [l \in Leaf |-> IF l \in leaves THEN @[l] + 1 ELSE @[l]]]

\* Seeded fault: a token that was issued before is taken as it is.
CreateAcceptedAgain(leaf, signer) ==
    /\ detailOf[leaf].call = "create"
    /\ detailOf[leaf].contract # ZERO => signer = CollectionOwner

\* createSRRFromBulk of the registry and of a collection.
CreateAccepted(leaf, signer) ==
    /\ detailOf[leaf].call = "create"
    /\ tokenOwner[tokenOf(leaf)] = NoOwner
    /\ detailOf[leaf].contract # ZERO => signer = CollectionOwner

\* All leaves or none; a list that names a leaf or a token twice reverts.
createSRRWithProofMulti(c, root, list) ==
    LET signer == batches[c][root].signer IN
    /\ c # "BulkTransfer"
    /\ \A i \in DOMAIN list :
          /\ Open(c, root, list[i])
          /\ CreateAccepted(list[i], signer)
          /\ c = "BulkIssue" => detailOf[list[i]].contract = ZERO
    /\ IsInjective([i \in DOMAIN list |-> tokenOf(list[i])])
    /\ Process(c, root, Range(list))
    /\ tokenOwner' =
         [t \in Token |->
            IF \E i \in DOMAIN list : tokenOf(list[i]) = t
            THEN LET to == detailOf[CHOOSE leaf \in Range(list) : tokenOf(leaf) = t].to
                 IN  IF to = ZERO THEN signer ELSE to
            ELSE tokenOwner[t]]
    /\ Emit([i \in DOMAIN list |-> WithProof(c, root, list[i])])

\* onlySRROwner of the registry, onlyCollectionOwnerOrSRROwner of a collection.
ActsFor(signer, token) ==
    /\ tokenOwner[token] # NoOwner
    /\ signer = tokenOwner[token] \/ (token[1] # ZERO /\ signer = CollectionOwner)

approveSRRByCommitmentWithProof(c, root, leaf) ==
    /\ c # "BulkIssue"
    /\ Open(c, root, leaf)
    /\ detailOf[leaf].call = "approve"
    /\ c = "BulkTransfer" => detailOf[leaf].contract = ZERO
    /\ ActsFor(batches[c][root].signer, tokenOf(leaf))
    /\ Process(c, root, {leaf})
    /\ Emit(<<WithProof(c, root, leaf)>>)
    /\ UNCHANGED tokenOwner

transferFromWithProvenanceWithProof(c, root, leaf) ==
    /\ c = "Bulk"
    /\ Open(c, root, leaf)
    /\ detailOf[leaf].call = "transfer"
    /\ ActsFor(batches[c][root].signer, tokenOf(leaf))
    /\ Process(c, root, {leaf})
    /\ tokenOwner' = [tokenOwner EXCEPT ![tokenOf(leaf)] = detailOf[leaf].to]
    /\ Emit(<<WithProof(c, root, leaf)>>)

\* BulkIssueV1, by the administrator: the batch of another chain, prepared or
\* migrated before or not.  Leaves that were processed stay so, and the count is
\* the list's, cut to a uint8.
migrateBatch(root, leaves, issuer) ==
    /\ batches' = [batches EXCEPT
                     !["BulkIssue"][root] =
                       [prepared |-> TRUE, signer |-> issuer,
                        processedCount |-> Cardinality(leaves) % (COUNT_MAX + 1),
                        processedLeaves |-> @.processedLeaves \union leaves]]
    /\ Emit(<<[event |-> "MigrateBatch", source |-> "BulkIssue", root |-> root,
               leaves |-> leaves, sender |-> issuer]>>)
    /\ UNCHANGED <<tokenOwner, effects>>

\* The owner of a token hands it over by a call of the registry or collection.
TokenMoves(token, to) ==
    /\ tokenOwner[token] \notin {NoOwner, to}
    /\ tokenOwner' = [tokenOwner EXCEPT ![token] = to]
    /\ UNCHANGED <<batches, effects, chain>>
=============================================================================
