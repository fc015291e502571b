------------------------------- MODULE ERC721 -------------------------------
(***************************************************************************)
(* contracts/startrailregistry/ERC721.sol: token ownership, the balances   *)
(* kept beside it, and the standard approvals.                             *)
(*                                                                         *)
(* A safe transfer to a contract calls the receiver after everything is    *)
(* written, and does nothing after it but check the answer.  A call that   *)
(* the receiver makes meanwhile is therefore one that follows the          *)
(* transfer, and a receiver that rejects reverts the transfer and          *)
(* everything it did itself: the safe transfer is a step that either is    *)
(* taken or is not.  Names lose their leading underscore (approveTo is     *)
(* _approve); token URIs, names and interface ids are left out.            *)
(***************************************************************************)
EXTENDS Integers, FiniteSets

CONSTANTS
    Account,        \* the addresses that may own tokens or call
    ZERO,           \* the zero address
    TokenId         \* token ids

ASSUME ZeroAssumption == ZERO \notin Account
ASSUME TokenAssumption == IsFiniteSet(TokenId)   \* ids are uint256

VARIABLES
    tokenOwner,        \* tokenOwner[t]: ZERO for a token that does not exist
    ownedTokensCount,  \* ownedTokensCount[a]
    tokenApprovals,    \* tokenApprovals[t]: who may transfer t
    operatorApprovals  \* pairs <<owner, operator>> for which it is TRUE

erc721 == <<tokenOwner, ownedTokensCount, tokenApprovals, operatorApprovals>>

Address == Account \union {ZERO}

ERC721TypeOK ==
    /\ tokenOwner \in [TokenId -> Address]
    /\ ownedTokensCount \in [Account -> Nat]
    /\ tokenApprovals \in [TokenId -> Address]
    /\ operatorApprovals \subseteq Account \X Account

ERC721Init ==
    /\ tokenOwner = [t \in TokenId |-> ZERO]
    /\ ownedTokensCount = [a \in Account |-> 0]
    /\ tokenApprovals = [t \in TokenId |-> ZERO]
    /\ operatorApprovals = {}

exists(t) == tokenOwner[t] # ZERO

\* ownerOf(t) = a, which reverts for a token that does not exist.
ownerIs(t, a) == exists(t) /\ tokenOwner[t] = a

mint(to, t) ==
    /\ to # ZERO
    /\ ~exists(t)
    /\ ownedTokensCount' = [ownedTokensCount EXCEPT ![to] = @ + 1]
    /\ tokenOwner' = [tokenOwner EXCEPT ![t] = to]
    /\ UNCHANGED <<tokenApprovals, operatorApprovals>>

\* mint(from, t) and then transfer(from, to, t), in one call.
mintAndTransfer(from, to, t) ==
    /\ from # ZERO /\ to # ZERO
    /\ ~exists(t)
    /\ ownedTokensCount' = [ownedTokensCount EXCEPT ![to] = @ + 1]
    /\ tokenOwner' = [tokenOwner EXCEPT ![t] = to]
    /\ tokenApprovals' = [tokenApprovals EXCEPT ![t] = ZERO]
    /\ UNCHANGED operatorApprovals

\* Seeded fault: the two balances are read before either is written.
transferStaleCount(from, to, t) ==
    /\ ownerIs(t, from)
    /\ to # ZERO
    /\ tokenApprovals' = [tokenApprovals EXCEPT ![t] = ZERO]
    /\ ownedTokensCount' = [ownedTokensCount EXCEPT
          ![from] = ownedTokensCount[from] - 1, ![to] = ownedTokensCount[to] + 1]
    /\ tokenOwner' = [tokenOwner EXCEPT ![t] = to]
    /\ UNCHANGED operatorApprovals

\* Seeded fault: the approval survives the transfer.
transferKeepsApproval(from, to, t) ==
    /\ ownerIs(t, from)
    /\ to # ZERO
    /\ ownedTokensCount' = [ownedTokensCount EXCEPT ![from] = @ - 1, ![to] = @ + 1]
    /\ tokenOwner' = [tokenOwner EXCEPT ![t] = to]
    /\ UNCHANGED <<tokenApprovals, operatorApprovals>>

\* The sender's balance is written before the recipient's is read, so a
\* transfer to oneself leaves the balance as it was.
transfer(from, to, t) ==
    /\ ownerIs(t, from)
    /\ to # ZERO
    /\ tokenApprovals' = [tokenApprovals EXCEPT ![t] = ZERO]
    /\ ownedTokensCount' = [ownedTokensCount EXCEPT ![from] = @ - 1, ![to] = @ + 1]
    /\ tokenOwner' = [tokenOwner EXCEPT ![t] = to]
    /\ UNCHANGED operatorApprovals

approveTo(to, t) ==
    /\ tokenApprovals' = [tokenApprovals EXCEPT ![t] = to]
    /\ UNCHANGED <<tokenOwner, ownedTokensCount, operatorApprovals>>

setApprovalForAll(caller, operator, approved) ==
    /\ operator # caller
    /\ operatorApprovals' = IF approved
                             THEN operatorApprovals \union {<<caller, operator>>}
                             ELSE operatorApprovals \ {<<caller, operator>>}
    /\ UNCHANGED <<tokenOwner, ownedTokensCount, tokenApprovals>>

\* An owner's balance is the number of tokens it owns, whatever the route by
\* which tokens came and went: minted, minted and passed on in one call,
\* transferred, transferred to oneself.
BalancesCountTokens ==
    \A a \in Account : ownedTokensCount[a] = Cardinality({t \in TokenId : tokenOwner[t] = a})
=============================================================================
