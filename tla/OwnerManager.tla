---------------------------- MODULE OwnerManager ----------------------------
(***************************************************************************)
(* The multi-signature wallets of contracts/licensedUser/OwnerManager.sol. *)
(* The owners of a wallet are a linked list threaded through a mapping     *)
(* `owners` (owner => next owner) that starts and ends at SENTINEL_OWNERS; *)
(* beside it the wallet keeps the length it believes the list has          *)
(* (ownerCount, a uint8) and the signature threshold (a uint8).            *)
(*                                                                         *)
(* An address is a natural number, because SignatureChecker compares       *)
(* addresses.  0 is the zero address (the value of an absent mapping       *)
(* entry), 1 the sentinel.  A call that reverts is a step that is not      *)
(* taken: its requires are the conjuncts of the action's guard.  Whether   *)
(* the caller is the administrator or the forwarder acting for a wallet is *)
(* the parameter `caller`; events are left out.                            *)
(***************************************************************************)
EXTENDS Integers, Sequences, FiniteSets

CONSTANTS
    Wallet,         \* wallet addresses that may be managed
    Owner,          \* externally owned accounts, as naturals above the sentinel
    OwnerLists,     \* the address lists a wallet may be created with
    MaxUint8,       \* the largest uint8 (255 on the chain, small in a model)
    Administrator   \* the administrator, as a caller

VARIABLE wallets    \* wallets[w]: the struct Wallet of wallet w

ZERO == 0
SENTINEL_OWNERS == 1
Addr == Owner \union {ZERO, SENTINEL_OWNERS}
Uint8 == 0..MaxUint8

ASSUME OwnerAssumption ==
    /\ Owner \subseteq Nat \ {ZERO, SENTINEL_OWNERS}
    /\ IsFiniteSet(Owner)
ASSUME Uint8Assumption == MaxUint8 \in Nat /\ MaxUint8 >= 2
ASSUME ListAssumption == OwnerLists \subseteq Seq(Addr)

WalletStruct == [owners: [Addr -> Addr], ownerCount: Uint8, threshold: Uint8]

EmptyWallet == [owners |-> [a \in Addr |-> ZERO], ownerCount |-> 0, threshold |-> 0]

OMInit == wallets = [w \in Wallet |-> EmptyWallet]

Caller == Wallet \union {Administrator}

onlyWalletOrAdministrator(caller, w) == caller = Administrator \/ caller = w

NoOwner == {ZERO, SENTINEL_OWNERS}

-----------------------------------------------------------------------------
(* Views. *)

Linked(wallet) == {a \in Addr \ NoOwner : wallet.owners[a] # ZERO}

\* The loop of getOwners, cut off after one node more than there are addresses:
\* Visit(wallet)[n] is the list of the first n nodes after the sentinel.
Visit(wallet) ==
    LET visit[n \in 0..(Cardinality(Addr) + 1)] ==
            IF n = 0 THEN << >>
            ELSE LET before == visit[n - 1]
                     last == IF before = << >> THEN SENTINEL_OWNERS
                             ELSE before[Len(before)]
                     next == wallet.owners[last]
                 IN  IF Len(before) < n - 1 \/ next = SENTINEL_OWNERS
                     THEN before
                     ELSE Append(before, next)
    IN  visit[Cardinality(Addr) + 1]

\* getOwners indexes an array of ownerCount entries: a longer list panics.
GetOwnersReturns(wallet) == Cardinality(Linked(wallet)) <= wallet.ownerCount

-----------------------------------------------------------------------------
(* setupOwners.  Iteration i of its loop requires owners[list[i]] to be    *)
(* empty and only then writes owners[list[i - 1]], so when list[i] is      *)
(* looked up the entries of list[1] .. list[i - 2] are the ones written.   *)

SetupAccepts(wallet, list, threshold) ==
    /\ wallet.threshold = 0
    /\ threshold <= Len(list)
    /\ threshold >= 1
    /\ \A i \in 1..Len(list) :
          /\ list[i] \notin NoOwner
          /\ wallet.owners[list[i]] = ZERO
          /\ \A j \in 1..Len(list) : j <= i - 2 => list[j] # list[i]

\* The entry of an owner is written last for its last occurrence in the list.
LastOccurrence(list, i) == i = Len(list) \/ list[i + 1] # list[i]

SetupLinks(wallet, list) ==
    [a \in Addr |->
        IF a = SENTINEL_OWNERS THEN list[1]
        ELSE IF \E i \in 1..Len(list) : list[i] = a
             THEN LET i == CHOOSE i \in 1..Len(list) :
                               list[i] = a /\ LastOccurrence(list, i)
                  IN  IF i = Len(list) THEN SENTINEL_OWNERS ELSE list[i + 1]
             ELSE wallet.owners[a]]

\* uint8(_owners.length) keeps the low bits of the length.
SetupResult(wallet, list, threshold) ==
    [owners     |-> SetupLinks(wallet, list),
     ownerCount |-> Len(list) % (MaxUint8 + 1),
     threshold  |-> threshold]

setupOwners(w, list, threshold) ==
    /\ SetupAccepts(wallets[w], list, threshold)
    /\ wallets' = [wallets EXCEPT ![w] = SetupResult(@, list, threshold)]

-----------------------------------------------------------------------------
(* The calls that change the owners of a wallet. *)

\* What changeThreshold requires of the new threshold, given the owner count.
ThresholdFits(threshold, ownerCount) == threshold <= ownerCount /\ threshold >= 1

\* Seeded fault: the owner count wraps past a uint8.
addOwnerMultiUnchecked(w, owner, threshold) ==
    LET wallet == wallets[w] IN
    /\ owner \notin NoOwner
    /\ wallet.owners[owner] = ZERO
    /\ wallet.threshold # threshold => ThresholdFits(threshold, wallet.ownerCount + 1)
    /\ wallets' = [wallets EXCEPT ![w] =
          [owners     |-> [wallet.owners EXCEPT
                              ![owner] = wallet.owners[SENTINEL_OWNERS],
                              ![SENTINEL_OWNERS] = owner],
           ownerCount |-> wallet.ownerCount + 1,
           threshold  |-> threshold]]

\* Seeded fault: the owner is linked but not counted.
addOwnerMultiUncounted(w, owner, threshold) ==
    LET wallet == wallets[w] IN
    /\ owner \notin NoOwner
    /\ wallet.owners[owner] = ZERO
    /\ wallet.threshold = threshold
    /\ wallets' = [wallets EXCEPT ![w].owners =
          [@ EXCEPT ![owner] = wallet.owners[SENTINEL_OWNERS], ![SENTINEL_OWNERS] = owner]]

\* addOwner of the base contract; LicensedUserManager overrides it.
addOwnerMulti(w, owner, threshold) ==
    LET wallet == wallets[w] IN
    /\ owner \notin NoOwner
    /\ wallet.owners[owner] = ZERO
    /\ wallet.ownerCount < MaxUint8      \* ownerCount++ is a checked uint8 addition
    /\ wallet.threshold # threshold => ThresholdFits(threshold, wallet.ownerCount + 1)
    /\ wallets' = [wallets EXCEPT ![w] =
          [owners     |-> [wallet.owners EXCEPT
                              ![owner] = wallet.owners[SENTINEL_OWNERS],
                              ![SENTINEL_OWNERS] = owner],
           ownerCount |-> wallet.ownerCount + 1,
           threshold  |-> threshold]]

\* Seeded fault: the threshold may exceed the remaining owners by one.
removeOwnerOffByOne(caller, w, prevOwner, owner, threshold) ==
    LET wallet == wallets[w] IN
    /\ onlyWalletOrAdministrator(caller, w)
    /\ wallet.ownerCount >= 1
    /\ wallet.ownerCount >= threshold
    /\ owner \notin NoOwner
    /\ wallet.owners[prevOwner] = owner
    /\ wallet.threshold # threshold => ThresholdFits(threshold, wallet.ownerCount - 1)
    /\ wallets' = [wallets EXCEPT ![w] =
          [owners     |-> [wallet.owners EXCEPT
                              ![prevOwner] = wallet.owners[owner],
                              ![owner] = ZERO],
           ownerCount |-> wallet.ownerCount - 1,
           threshold  |-> threshold]]

removeOwner(caller, w, prevOwner, owner, threshold) ==
    LET wallet == wallets[w] IN
    /\ onlyWalletOrAdministrator(caller, w)
    /\ wallet.ownerCount >= 1            \* ownerCount - 1 is a checked subtraction
    /\ wallet.ownerCount - 1 >= threshold
    /\ owner \notin NoOwner
    /\ wallet.owners[prevOwner] = owner
    /\ wallet.threshold # threshold => ThresholdFits(threshold, wallet.ownerCount - 1)
    /\ wallets' = [wallets EXCEPT ![w] =
          [owners     |-> [wallet.owners EXCEPT
                              ![prevOwner] = wallet.owners[owner],
                              ![owner] = ZERO],
           ownerCount |-> wallet.ownerCount - 1,
           threshold  |-> threshold]]

\* Seeded fault: the entry of the owner who was swapped out stays.
swapOwnerLeavesEntry(caller, w, prevOwner, oldOwner, newOwner) ==
    LET wallet == wallets[w] IN
    /\ onlyWalletOrAdministrator(caller, w)
    /\ newOwner \notin NoOwner /\ wallet.owners[newOwner] = ZERO
    /\ oldOwner \notin NoOwner /\ wallet.owners[prevOwner] = oldOwner
    /\ wallets' = [wallets EXCEPT ![w].owners =
          [@ EXCEPT ![newOwner] = wallet.owners[oldOwner], ![prevOwner] = newOwner]]

\* Seeded fault: the new owner may be an owner already.
swapOwnerUnchecked(caller, w, prevOwner, oldOwner, newOwner) ==
    LET wallet == wallets[w] IN
    /\ onlyWalletOrAdministrator(caller, w)
    /\ newOwner \notin NoOwner
    /\ oldOwner \notin NoOwner /\ wallet.owners[prevOwner] = oldOwner
    /\ wallets' = [wallets EXCEPT ![w].owners =
          [@ EXCEPT ![newOwner] = wallet.owners[oldOwner],
                    ![prevOwner] = newOwner,
                    ![oldOwner] = ZERO]]

swapOwner(caller, w, prevOwner, oldOwner, newOwner) ==
    LET wallet == wallets[w] IN
    /\ onlyWalletOrAdministrator(caller, w)
    /\ newOwner \notin NoOwner
    /\ wallet.owners[newOwner] = ZERO
    /\ oldOwner \notin NoOwner
    /\ wallet.owners[prevOwner] = oldOwner
    /\ wallets' = [wallets EXCEPT ![w].owners =
          [@ EXCEPT ![newOwner] = wallet.owners[oldOwner],
                    ![prevOwner] = newOwner,
                    ![oldOwner] = ZERO]]

changeThreshold(caller, w, threshold) ==
    /\ onlyWalletOrAdministrator(caller, w)
    /\ ThresholdFits(threshold, wallets[w].ownerCount)
    /\ wallets' = [wallets EXCEPT ![w].threshold = threshold]
=============================================================================
