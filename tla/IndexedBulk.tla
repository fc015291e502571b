----------------------------- MODULE IndexedBulk -----------------------------
(***************************************************************************)
(* The bulk contracts and the index of their batches, which follows some   *)
(* events behind.                                                          *)
(***************************************************************************)
EXTENDS Bulk, SequencesExt

CONSTANTS
    Licensed,       \* the licensed users, who prepare batches
    MaxMulti        \* bound: leaves of one createSRRWithProofMulti

VARIABLE db             \* the database of the subgraph

\* Whoever may come to own a token is not the owner of tokens that are not issued.
ASSUME NoOwnerAssumption ==
    /\ NoOwner \notin Licensed \union Account \union {ZERO}
    /\ \A leaf \in Leaf : detailOf[leaf].to # NoOwner

Index == INSTANCE BulkIndex WITH ZERO_ADDRESS <- ZERO

composed == <<bulk, chain, db>>

IndexedInit == BulkInit /\ db = Index!NoBatches

BulkCall ==
    \E c \in BulkContract, root \in Root :
        \/ \E sender \in Licensed : prepareBatchFromLicensedUser(c, root, sender)
        \/ \E list \in SeqOf(leavesOf[root], MaxMulti) \ {<< >>} :
              createSRRWithProofMulti(c, root, list)
        \/ \E leaf \in leavesOf[root] : approveSRRByCommitmentWithProof(c, root, leaf)
        \/ \E leaf \in leavesOf[root] : transferFromWithProvenanceWithProof(c, root, leaf)
        \/ /\ c = "BulkIssue"
           /\ \E leaves \in SUBSET leavesOf[root], issuer \in Licensed :
                 migrateBatch(root, leaves, issuer)

IndexEvent ==
    /\ log # << >>
    /\ db' = Index!HandleBulkEvent(db, log[1][1])
    /\ log' = Tail(log)
    /\ UNCHANGED <<bulk, time>>

IndexedNext ==
    \/ BulkCall /\ UNCHANGED db
    \/ \E token \in Token, to \in Account : TokenMoves(token, to) /\ UNCHANGED db
    \/ IndexEvent

IndexedSpec == IndexedInit /\ [][IndexedNext]_composed

-----------------------------------------------------------------------------
(* Properties. *)

\* A leaf takes effect at most once for each batch, only once that batch is
\* prepared, and the count is the number of leaves that took effect: nobody who
\* submits a leaf again, in another list or after its token came back, repeats it.
\* (A batch that was migrated counts what the administrator says.)
LeavesTakeEffectOnce ==
    \A c \in BulkContract, root \in Root :
        LET batch == batches[c][root] IN
        /\ \A leaf \in Leaf :
              /\ effects[c][root][leaf] <= 1
              /\ effects[c][root][leaf] = 1 => batch.prepared /\ leaf \in batch.processedLeaves
        /\ c # "BulkIssue" =>
              batch.processedCount = Cardinality({leaf \in Leaf : effects[c][root][leaf] = 1})

\* A record is issued once, whichever contracts and batches name it.
IssuedByOneLeaf ==
    \A token \in Token :
        Cardinality({x \in BulkContract \X Root \X Leaf :
                        /\ effects[x[1]][x[2]][x[3]] > 0
                        /\ detailOf[x[3]].call = "create"
                        /\ tokenOf(x[3]) = token}) <= 1

IsIndexed(c, root) == root \in DOMAIN db[c]

\* An index that has handled every event has each prepared batch under the signer
\* its leaves act for, an entry for every leaf that was processed in some batch and
\* for no other, under a batch that processed it and with the token and collection
\* it was about.
CurrentBulkAgrees ==
    /\ \A root \in Root :
          /\ IsIndexed("Bulk", root) <=> batches["Bulk"][root].prepared
          /\ IsIndexed("Bulk", root) =>
                db["Bulk"][root].sender = batches["Bulk"][root].signer
    /\ DOMAIN db["BulkSRR"] = UNION {batches["Bulk"][root].processedLeaves : root \in Root}
    /\ \A leaf \in DOMAIN db["BulkSRR"] :
          LET entry == db["BulkSRR"][leaf] IN
          /\ leaf \in batches["Bulk"][entry.bulk].processedLeaves
          /\ entry.tokenId = detailOf[leaf].tokenId
          /\ IF detailOf[leaf].contract = ZERO THEN entry.contractAddress = Null
             ELSE entry.contractAddress = detailOf[leaf].contract

\* The same of the replaced contracts: a batch is shown under its issuer even when
\* a migration changed it, an entry of BulkIssueSRR for exactly the leaves that are
\* marked, and srrApproveHashes lists each approval of a batch once.
ReplacedBulkAgrees ==
    /\ "BulkIssue" \in BulkContract =>
          /\ \A root \in Root :
                /\ IsIndexed("BulkIssue", root) <=> batches["BulkIssue"][root].prepared
                /\ IsIndexed("BulkIssue", root) =>
                      db["BulkIssue"][root].sender = batches["BulkIssue"][root].signer
          /\ DOMAIN db["BulkIssueSRR"] =
                UNION {batches["BulkIssue"][root].processedLeaves : root \in Root}
    /\ "BulkTransfer" \in BulkContract =>
          \A root \in Root :
             /\ IsIndexed("BulkTransfer", root) <=> batches["BulkTransfer"][root].prepared
             /\ IsIndexed("BulkTransfer", root) =>
                  LET listed == db["BulkTransfer"][root].srrApproveHashes IN
                  /\ Range(listed) = batches["BulkTransfer"][root].processedLeaves
                  /\ Len(listed) = Cardinality(Range(listed))

\* Once every event is handled, the index shows the batches and the leaves of the
\* three contracts as the contracts have them (generalized-bulk-mapping.ts,
\* bulk-mapping.ts, bulk-transfer-mapping.ts).
BulkAgrees == CaughtUp => /\ "Bulk" \in BulkContract => CurrentBulkAgrees
                          /\ ReplacedBulkAgrees
=============================================================================
