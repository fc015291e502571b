-------------------------- MODULE MCIndexedWallets --------------------------
(***************************************************************************)
(* Model checking of IndexedWallets, in two parts whose states add up      *)
(* instead of multiplying: "lists" creates wallets from every list and     *)
(* leaves the second name and the clock alone, "names" has wallets of up   *)
(* to two owners and changes both.                                         *)
(***************************************************************************)
EXTENDS IndexedWallets

VARIABLE part

SeqsUpTo(S, n) == UNION {[1..k -> S] : k \in 0..n}

\* Every list of up to three addresses, the invalid ones included, and every
\* list of owners with at most two more entries than a uint8 counts.
AllLists == SeqsUpTo(Addr, 3) \union SeqsUpTo(Owner, MaxUint8 + 2)

MCInit == IndexedInit /\ part \in {"lists", "names"}

MCNext ==
    /\ IndexedNext
    /\ UNCHANGED part
    /\ part = "lists" =>
          /\ UNCHANGED time
          /\ \A w \in Wallet : {luws'[w].englishName, luws'[w].originalName}
                                \subseteq {"gallery", EmptyString}
          /\ \A i \in DOMAIN log' : log'[i][1].event # "MigrateLicensedUserWallet"
    /\ part = "names" =>
          \A w \in Wallet : wallets'[w].ownerCount <= 2 /\ Cardinality(OwnersOf(w)') <= 2

MCSpec == MCInit /\ [][MCNext]_<<composed, part>>
=============================================================================
