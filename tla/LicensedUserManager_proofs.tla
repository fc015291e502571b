--------------------- MODULE LicensedUserManager_proofs ---------------------
(***************************************************************************)
(* Proofs about the licensed users' wallets, for every set of wallets and  *)
(* owners, every list of owners a wallet is created with, and every width  *)
(* of the owner counter.                                                   *)
(*                                                                         *)
(* The inductive invariant says that the list of a multi-owner wallet is   *)
(* one ring: every entry leads to another entry, no two entries lead to    *)
(* the same owner, every entry but ZERO's is led to, and a rank grows      *)
(* along the list until it is back at the sentinel (so there is no second, *)
(* detached ring).  removeOwner and swapOwner cut the list at an owner the *)
(* caller names the predecessor of, and need all of it.                    *)
(*                                                                         *)
(* The loops that read the list (getOwners, checkSignatures) are followed  *)
(* turn by turn.  A claim about every turn is proved from the least turn   *)
(* it would fail at.                                                       *)
(*                                                                         *)
(* The index of the wallets reads only its database and the event, so the  *)
(* database that the waiting events will make is determined: the invariant *)
(* of the last part is that this database agrees with the contract.        *)
(***************************************************************************)
EXTENDS IndexedWallets, SequenceFacts, FiniteSetTheorems, TLAPS

Ascends(o, rank) == \A a \in Addr : o[a] \notin NoOwner => rank[a] < rank[o[a]]

Ring(o) ==
    /\ o \in [Addr -> Addr]
    /\ o[ZERO] = ZERO
    /\ o[SENTINEL_OWNERS] # ZERO
    /\ \A a \in Addr : o[a] \notin NoOwner => o[o[a]] # ZERO
    /\ \A a, b \in Addr : o[a] = o[b] /\ o[a] # ZERO => a = b
    /\ \A a \in Addr : o[a] # ZERO => \E p \in Addr : o[p] = a
    /\ \E rank \in [Addr -> Nat] : Ascends(o, rank)

GoodWallet(wallet) ==
    /\ Ring(wallet.owners)
    /\ ThresholdFits(wallet.threshold, wallet.ownerCount)
    /\ GetOwnersReturns(wallet)

GoodLicensedUser(w) ==
    /\ isActiveWallet(w) <=> walletExists(w)
    /\ ~MultiOwner(w) => wallets[w] = EmptyWallet
    /\ MultiOwner(w) => GoodWallet(wallets[w])

IInv == TypeOK /\ \A w \in Wallet : GoodLicensedUser(w)

LEMMA AddrFacts == /\ ZERO \in Addr /\ SENTINEL_OWNERS \in Addr
                   /\ ZERO # SENTINEL_OWNERS
                   /\ Addr \subseteq Nat
BY OwnerAssumption DEF Addr, ZERO, SENTINEL_OWNERS

\* Prepending an owner who is not linked keeps the ring.
LEMMA AddRing ==
    ASSUME NEW o, Ring(o), NEW owner \in Addr, owner \notin NoOwner, o[owner] = ZERO
    PROVE  Ring([o EXCEPT ![owner] = o[SENTINEL_OWNERS], ![SENTINEL_OWNERS] = owner])
<1> DEFINE n == [o EXCEPT ![owner] = o[SENTINEL_OWNERS], ![SENTINEL_OWNERS] = owner]
<1>1. /\ n \in [Addr -> Addr]
      /\ n[owner] = o[SENTINEL_OWNERS]
      /\ n[SENTINEL_OWNERS] = owner
      /\ \A a \in Addr : a # owner /\ a # SENTINEL_OWNERS => n[a] = o[a]
  BY AddrFacts DEF Ring, NoOwner
<1>2. n[ZERO] = ZERO /\ n[SENTINEL_OWNERS] # ZERO
  BY <1>1, AddrFacts DEF Ring, NoOwner
<1>3. \A a \in Addr : n[a] \notin NoOwner => n[n[a]] # ZERO
  <2>1. SUFFICES ASSUME NEW a \in Addr, n[a] \notin NoOwner
                 PROVE  n[n[a]] # ZERO
    OBVIOUS
  <2>2. o[SENTINEL_OWNERS] \in Addr /\ o[SENTINEL_OWNERS] # ZERO /\ owner # ZERO
    BY AddrFacts DEF Ring, NoOwner
  <2>3. n[a] \in Addr /\ n[a] # SENTINEL_OWNERS /\ n[a] # ZERO
    BY <1>1, <2>1 DEF NoOwner
  <2> HIDE DEF n
  <2>4. CASE n[a] = owner
    BY <1>1, <2>2, <2>4
  <2>5. CASE n[a] # owner
    <3>1. n[n[a]] = o[n[a]]
      BY <1>1, <2>3, <2>5
    <3>2. n[a] = o[a] \/ n[a] = o[SENTINEL_OWNERS]
      BY <1>1, <2>1, <2>5
    <3>3. \A b \in Addr : o[b] \notin NoOwner => o[o[b]] # ZERO
      BY DEF Ring
    <3>4. PICK b \in Addr : n[a] = o[b]
      BY <2>1, <3>2, AddrFacts
    <3>5. QED
      BY <2>3, <3>1, <3>3, <3>4 DEF NoOwner
  <2>6. QED
    BY <2>4, <2>5
<1>4. \A a, b \in Addr : n[a] = n[b] /\ n[a] # ZERO => a = b
  <2>1. \A a \in Addr : o[a] # owner
    BY AddrFacts DEF Ring, NoOwner
  <2>2. QED
    BY <1>1, <2>1, AddrFacts DEF Ring, NoOwner
<1>5. \A a \in Addr : n[a] # ZERO => \E p \in Addr : n[p] = a
  <2>1. SUFFICES ASSUME NEW a \in Addr, n[a] # ZERO
                 PROVE  \E p \in Addr : n[p] = a
    OBVIOUS
  <2>2. CASE a = owner
    BY <1>1, <2>2, AddrFacts
  <2>3. CASE a # owner
    <3>1. o[a] # ZERO
      BY <1>1, <2>1, <2>3, AddrFacts DEF Ring
    <3>2. PICK p \in Addr : o[p] = a
      BY <3>1 DEF Ring
    <3>3. CASE p = SENTINEL_OWNERS
      BY <1>1, <3>2, <3>3
    <3>4. CASE p # SENTINEL_OWNERS
      BY <1>1, <2>1, <3>1, <3>2, <3>4, AddrFacts DEF Ring
    <3>5. QED
      BY <3>3, <3>4
  <2>4. QED
    BY <2>2, <2>3
<1>6. \E rank \in [Addr -> Nat] : Ascends(n, rank)
  <2>1. PICK rank \in [Addr -> Nat] : Ascends(o, rank)
    BY DEF Ring
  <2> DEFINE later == [a \in Addr |-> IF a = SENTINEL_OWNERS THEN 0
                                      ELSE IF a = owner THEN 1 ELSE rank[a] + 1]
  <2>2. later \in [Addr -> Nat]
    OBVIOUS
  <2>3. ASSUME NEW a \in Addr, n[a] \notin NoOwner
        PROVE  later[a] < later[n[a]]
    <3>1. CASE a = SENTINEL_OWNERS
      BY <1>1, <3>1, AddrFacts DEF NoOwner
    <3>2. CASE a = owner
      <4>1. rank[SENTINEL_OWNERS] < rank[n[a]]
        BY <1>1, <2>1, <2>3, <3>2, AddrFacts DEF Ascends
      <4>2. n[a] # owner /\ n[a] # SENTINEL_OWNERS /\ n[a] \in Addr
        BY <1>1, <2>3, <3>2, AddrFacts DEF Ring, NoOwner
      <4>3. QED
        BY <3>2, <4>1, <4>2, AddrFacts DEF NoOwner
    <3>3. CASE a # SENTINEL_OWNERS /\ a # owner
      <4>1. n[a] = o[a] /\ n[a] \in Addr /\ n[a] # SENTINEL_OWNERS
        BY <1>1, <2>3, <3>3, AddrFacts DEF NoOwner
      <4>2. n[a] # owner
        BY <1>1, <2>3, <3>3, <4>1, AddrFacts DEF Ring, NoOwner
      <4>3. rank[a] < rank[n[a]]
        BY <2>1, <2>3, <4>1 DEF Ascends
      <4>4. QED
        BY <3>3, <4>1, <4>2, <4>3
    <3>4. QED
      BY <3>1, <3>2, <3>3
  <2>4. QED
    BY <2>2, <2>3 DEF Ascends
<1>7. QED
  BY <1>1, <1>2, <1>3, <1>4, <1>5, <1>6 DEF Ring

\* Unlinking an owner through its predecessor keeps the ring.
LEMMA RemoveRing ==
    ASSUME NEW o, Ring(o), NEW prev \in Addr, NEW owner \in Addr,
           owner \notin NoOwner, o[prev] = owner
    PROVE  /\ Ring([o EXCEPT ![prev] = o[owner], ![owner] = ZERO])
           /\ prev # owner
<1> DEFINE n == [o EXCEPT ![prev] = o[owner], ![owner] = ZERO]
<1>1. PICK rank \in [Addr -> Nat] : Ascends(o, rank)
  BY DEF Ring
<1>2. prev # owner /\ prev # ZERO
  <2>1. rank[prev] < rank[owner]
    BY <1>1 DEF Ascends
  <2>2. rank[prev] \in Nat
    OBVIOUS
  <2>3. QED
    BY <2>1, <2>2 DEF Ring, NoOwner
<1>3. /\ n \in [Addr -> Addr]
      /\ n[prev] = o[owner]
      /\ n[owner] = ZERO
      /\ \A a \in Addr : a # owner /\ a # prev => n[a] = o[a]
  BY <1>2, AddrFacts DEF Ring, NoOwner
<1>4. o[owner] # ZERO /\ o[owner] \in Addr /\ o[owner] # owner
  <2>1. o[owner] # ZERO /\ o[owner] \in Addr
    BY DEF Ring
  <2>2. o[owner] # owner
    BY <1>2, <2>1 DEF Ring
  <2>3. QED
    BY <2>1, <2>2
<1>5. n[ZERO] = ZERO /\ n[SENTINEL_OWNERS] # ZERO
  BY <1>2, <1>3, <1>4, AddrFacts DEF Ring, NoOwner
<1>6. \A a \in Addr : n[a] # ZERO => a # owner /\ n[a] # owner
  BY <1>2, <1>3, <1>4, AddrFacts DEF Ring, NoOwner
<1>7. \A a \in Addr : n[a] \notin NoOwner => n[n[a]] # ZERO
  <2>1. SUFFICES ASSUME NEW a \in Addr, n[a] \notin NoOwner
                 PROVE  n[n[a]] # ZERO
    OBVIOUS
  <2>2. n[a] \in Addr /\ n[a] # owner /\ o[n[a]] # ZERO
    BY <1>3, <1>6, <2>1, AddrFacts DEF Ring, NoOwner
  <2>3. QED
    BY <1>3, <1>4, <2>2
<1>8. \A a, b \in Addr : n[a] = n[b] /\ n[a] # ZERO => a = b
  BY <1>2, <1>3, <1>4, <1>6, AddrFacts DEF Ring
<1>9. \A a \in Addr : n[a] # ZERO => \E p \in Addr : n[p] = a
  <2>1. SUFFICES ASSUME NEW a \in Addr, n[a] # ZERO
                 PROVE  \E p \in Addr : n[p] = a
    OBVIOUS
  <2>2. a # owner /\ o[a] # ZERO
    BY <1>2, <1>3, <1>6, <2>1 DEF Ring, NoOwner
  <2>3. PICK p \in Addr : o[p] = a
    BY <2>2 DEF Ring
  <2>4. CASE p = owner
    BY <1>3, <2>3, <2>4
  <2>5. CASE p # owner
    BY <1>3, <2>2, <2>3, <2>5
  <2>6. QED
    BY <2>4, <2>5
<1>10. Ascends(n, rank)
  <2>1. SUFFICES ASSUME NEW a \in Addr, n[a] \notin NoOwner
                 PROVE  rank[a] < rank[n[a]]
    BY DEF Ascends
  <2>2. CASE a = prev
    <3>1. rank[prev] < rank[owner] /\ rank[owner] < rank[o[owner]]
      BY <1>1, <1>3, <2>1, <2>2 DEF Ascends
    <3>2. rank[prev] \in Nat /\ rank[owner] \in Nat /\ rank[o[owner]] \in Nat
      BY <1>4
    <3>3. QED
      BY <1>3, <2>2, <3>1, <3>2
  <2>3. CASE a # prev
    BY <1>1, <1>3, <2>1, <2>3, AddrFacts DEF Ascends, NoOwner
  <2>4. QED
    BY <2>2, <2>3
<1>11. QED
  BY <1>2, <1>3, <1>5, <1>7, <1>8, <1>9, <1>10 DEF Ring

\* Putting a new owner in the place of a linked one keeps the ring.
LEMMA SwapRing ==
    ASSUME NEW o, Ring(o), NEW prev \in Addr, NEW old \in Addr, NEW new \in Addr,
           old \notin NoOwner, new \notin NoOwner, o[prev] = old, o[new] = ZERO
    PROVE  /\ Ring([o EXCEPT ![new] = o[old], ![prev] = new, ![old] = ZERO])
           /\ prev # old /\ prev # new /\ old # new
<1> DEFINE n == [o EXCEPT ![new] = o[old], ![prev] = new, ![old] = ZERO]
<1>1. PICK rank \in [Addr -> Nat] : Ascends(o, rank)
  BY DEF Ring
<1>2. prev # old /\ prev # new /\ old # new /\ prev # ZERO
  <2>1. rank[prev] < rank[old]
    BY <1>1 DEF Ascends
  <2>2. rank[prev] \in Nat
    OBVIOUS
  <2>3. o[old] # ZERO
    BY DEF Ring
  <2>4. QED
    BY <2>1, <2>2, <2>3 DEF Ring, NoOwner
<1>3. /\ n \in [Addr -> Addr]
      /\ n[new] = o[old]
      /\ n[prev] = new
      /\ n[old] = ZERO
      /\ \A a \in Addr : a # new /\ a # prev /\ a # old => n[a] = o[a]
  BY <1>2, AddrFacts DEF Ring, NoOwner
<1>4. o[old] # ZERO /\ o[old] \in Addr /\ o[old] # old
  <2>1. o[old] # ZERO /\ o[old] \in Addr
    BY DEF Ring
  <2>2. QED
    BY <1>2, <2>1 DEF Ring
<1>5. \A a \in Addr : o[a] # new
  BY DEF Ring, NoOwner
<1>6. n[ZERO] = ZERO /\ n[SENTINEL_OWNERS] # ZERO
  BY <1>2, <1>3, <1>4, AddrFacts DEF Ring, NoOwner
<1>7. \A a \in Addr : n[a] # ZERO => a # old /\ n[a] # old
  BY <1>2, <1>3, <1>4, AddrFacts DEF Ring, NoOwner
<1>8. \A a \in Addr : n[a] \notin NoOwner => n[n[a]] # ZERO
  <2>1. SUFFICES ASSUME NEW a \in Addr, n[a] \notin NoOwner
                 PROVE  n[n[a]] # ZERO
    OBVIOUS
  <2>2. CASE n[a] = new
    BY <1>3, <1>4, <2>2
  <2>3. CASE n[a] # new
    <3>1. \E b \in Addr : o[b] = n[a]
      BY <1>3, <2>1, <2>3, AddrFacts DEF NoOwner
    <3>2. o[n[a]] # ZERO /\ n[a] # old /\ n[a] \in Addr
      BY <1>3, <1>7, <2>1, <3>1, AddrFacts DEF Ring, NoOwner
    <3>3. QED
      BY <1>2, <1>3, <2>3, <3>2, AddrFacts DEF NoOwner
  <2>4. QED
    BY <2>2, <2>3
<1>9. \A a, b \in Addr : n[a] = n[b] /\ n[a] # ZERO => a = b
  BY <1>2, <1>3, <1>4, <1>5, <1>7, AddrFacts DEF Ring
<1>10. \A a \in Addr : n[a] # ZERO => \E p \in Addr : n[p] = a
  <2>1. SUFFICES ASSUME NEW a \in Addr, n[a] # ZERO
                 PROVE  \E p \in Addr : n[p] = a
    OBVIOUS
  <2>2. CASE a = new
    BY <1>3, <2>2
  <2>3. CASE a # new
    <3>1. a # old /\ o[a] # ZERO
      BY <1>2, <1>3, <1>7, <2>1, <2>3 DEF Ring, NoOwner
    <3>2. PICK p \in Addr : o[p] = a
      BY <3>1 DEF Ring
    <3>3. CASE p = old
      BY <1>3, <3>2, <3>3
    <3>4. CASE p # old
      <4>1. p # prev /\ p # new
        BY <2>1, <3>1, <3>2, <1>7, AddrFacts, <1>3 DEF Ring
      <4>2. QED
        BY <1>3, <3>2, <3>4, <4>1
    <3>5. QED
      BY <3>3, <3>4
  <2>4. QED
    BY <2>2, <2>3
<1>11. \E r \in [Addr -> Nat] : Ascends(n, r)
  <2> DEFINE later == [rank EXCEPT ![new] = rank[old]]
  <2>1. later \in [Addr -> Nat]
    OBVIOUS
  <2>2. ASSUME NEW a \in Addr, n[a] \notin NoOwner
        PROVE  later[a] < later[n[a]]
    <3>1. CASE a = prev
      BY <1>1, <1>2, <1>3, <3>1 DEF Ascends
    <3>2. CASE a = new
      <4>1. o[old] # new
        BY <1>5
      <4>2. rank[old] < rank[o[old]]
        BY <1>1, <1>3, <2>2, <3>2 DEF Ascends
      <4>3. QED
        BY <1>3, <1>4, <3>2, <4>1, <4>2
    <3>3. CASE a # prev /\ a # new
      <4>1. a # old
        BY <1>7, <2>2, AddrFacts DEF NoOwner
      <4>2. n[a] = o[a] /\ n[a] # new /\ n[a] \in Addr
        BY <1>3, <1>5, <3>3, <4>1
      <4>3. rank[a] < rank[n[a]]
        BY <1>1, <2>2, <4>2 DEF Ascends
      <4>4. QED
        BY <3>3, <4>2, <4>3
    <3>4. QED
      BY <3>1, <3>2, <3>3
  <2>3. QED
    BY <2>1, <2>2 DEF Ascends
<1>12. QED
  BY <1>2, <1>3, <1>6, <1>8, <1>9, <1>10, <1>11 DEF Ring

\* setupOwners on an untouched list builds a ring of exactly the listed owners,
\* also when it lets a repeated owner through.
LEMMA SetupRing ==
    ASSUME NEW list \in Seq(Addr), NEW threshold \in Uint8,
           SetupAccepts(EmptyWallet, list, threshold)
    PROVE  /\ Ring(SetupLinks(EmptyWallet, list))
           /\ \A a \in Addr : SetupLinks(EmptyWallet, list)[a] # ZERO
                  <=> a = SENTINEL_OWNERS \/ \E i \in 1..Len(list) : list[i] = a
<1> DEFINE n == SetupLinks(EmptyWallet, list)
           N == Len(list)
           Listed(a) == \E i \in 1..N : list[i] = a
           IsLast(a, i) == i \in 1..N /\ list[i] = a /\ LastOccurrence(list, i)
           LastOf(a) == CHOOSE i \in 1..N : list[i] = a /\ LastOccurrence(list, i)
<1>1. /\ N \in Nat /\ N >= 1
      /\ \A i \in 1..N : list[i] \in Addr /\ list[i] \notin NoOwner
      /\ \A i, j \in 1..N : j <= i - 2 => list[j] # list[i]
  BY Uint8Assumption DEF SetupAccepts, Uint8
<1>n. \A i \in 1..N : LastOccurrence(list, i) <=> i = N \/ list[i + 1] # list[i]
  BY DEF LastOccurrence
<1>4. /\ n[SENTINEL_OWNERS] = list[1]
      /\ \A a \in Addr : a # SENTINEL_OWNERS /\ Listed(a) =>
            n[a] = IF LastOf(a) = N THEN SENTINEL_OWNERS ELSE list[LastOf(a) + 1]
      /\ \A a \in Addr : a # SENTINEL_OWNERS /\ ~Listed(a) => n[a] = ZERO
      /\ n = [a \in Addr |-> n[a]]
  BY AddrFacts DEF SetupLinks, EmptyWallet
<1> HIDE DEF N, n
<1>2. ASSUME NEW i \in 1..N, NEW j \in 1..N, LastOccurrence(list, i), list[j] = list[i]
      PROVE  j <= i
  <2>1. SUFFICES ASSUME j > i PROVE FALSE
    BY <1>1
  <2>2. i # N /\ j # i + 1
    BY <1>1, <1>n, <1>2, <2>1
  <2>3. i <= j - 2
    BY <1>1, <2>1, <2>2
  <2>4. QED
    BY <1>1, <1>2, <2>3
<1>3. \A a \in Addr : Listed(a) => IsLast(a, LastOf(a))
  <2>1. SUFFICES ASSUME NEW i \in 1..N
                 PROVE  \E k \in 1..N : list[k] = list[i] /\ LastOccurrence(list, k)
    BY <1>1
  <2>2. CASE LastOccurrence(list, i)
    BY <2>2
  <2>3. CASE ~LastOccurrence(list, i)
    <3>1. i + 1 \in 1..N /\ list[i + 1] = list[i]
      BY <1>1, <1>n, <2>3
    <3>2. LastOccurrence(list, i + 1)
      <4>1. SUFFICES ASSUME i + 1 # N PROVE list[i + 2] # list[i]
        BY <1>n, <3>1
      <4>2. i + 2 \in 1..N /\ i <= (i + 2) - 2
        BY <3>1, <4>1, <1>1
      <4>3. QED
        BY <4>2, <1>1
    <3>3. QED
      BY <3>1, <3>2
  <2>4. QED
    BY <2>2, <2>3
<1>5. \A i \in 1..N : LastOccurrence(list, i) => LastOf(list[i]) = i
  <2>1. SUFFICES ASSUME NEW i \in 1..N, LastOccurrence(list, i)
                 PROVE  LastOf(list[i]) = i
    OBVIOUS
  <2>2. IsLast(list[i], LastOf(list[i])) /\ IsLast(list[i], i)
    BY <1>1, <1>3, <2>1
  <2>3. LastOf(list[i]) <= i /\ i <= LastOf(list[i])
    BY <1>1, <1>2, <2>2
  <2>4. QED
    BY <1>1, <2>2, <2>3
<1> HIDE DEF LastOf
<1>6. \A a \in Addr : Listed(a) =>
         /\ a \notin NoOwner
         /\ LastOf(a) \in 1..N
         /\ LastOf(a) = N => n[a] = SENTINEL_OWNERS
         /\ LastOf(a) # N => /\ LastOf(a) + 1 \in 1..N
                             /\ n[a] = list[LastOf(a) + 1]
  <2>1. SUFFICES ASSUME NEW a \in Addr, Listed(a)
                 PROVE  /\ a \notin NoOwner
                        /\ LastOf(a) \in 1..N
                        /\ LastOf(a) = N => n[a] = SENTINEL_OWNERS
                        /\ LastOf(a) # N => /\ LastOf(a) + 1 \in 1..N
                                            /\ n[a] = list[LastOf(a) + 1]
    OBVIOUS
  <2>2. a \notin NoOwner
    BY <1>1, <2>1
  <2>3. LastOf(a) \in 1..N
    BY <1>3, <2>1
  <2>4. n[a] = IF LastOf(a) = N THEN SENTINEL_OWNERS ELSE list[LastOf(a) + 1]
    BY <1>4, <2>1, <2>2 DEF NoOwner
  <2>5. LastOf(a) # N => LastOf(a) + 1 \in 1..N
    BY <1>1, <2>3
  <2>6. QED
    BY <2>2, <2>3, <2>4, <2>5
<1>6a. \A i \in 1..N : LastOccurrence(list, i) =>
          n[list[i]] = IF i = N THEN SENTINEL_OWNERS ELSE list[i + 1]
  <2>1. SUFFICES ASSUME NEW i \in 1..N, LastOccurrence(list, i)
                 PROVE  n[list[i]] = IF i = N THEN SENTINEL_OWNERS ELSE list[i + 1]
    OBVIOUS
  <2>2. LastOf(list[i]) = i /\ list[i] \in Addr
    BY <1>1, <1>5, <2>1
  <2>3. QED
    BY <1>6, <2>2
<1>9. \A a \in Addr : \/ n[a] = SENTINEL_OWNERS
                      \/ Listed(n[a]) /\ n[a] \in Addr
                      \/ n[a] = ZERO /\ a # SENTINEL_OWNERS /\ ~Listed(a)
  <2>1. SUFFICES ASSUME NEW a \in Addr
                 PROVE  \/ n[a] = SENTINEL_OWNERS
                        \/ Listed(n[a]) /\ n[a] \in Addr
                        \/ n[a] = ZERO /\ a # SENTINEL_OWNERS /\ ~Listed(a)
    OBVIOUS
  <2>2. CASE a = SENTINEL_OWNERS
    <3>1. 1 \in 1..N
      BY <1>1
    <3>2. QED
      BY <1>1, <1>4, <2>2, <3>1
  <2>3. CASE Listed(a)
    BY <1>1, <1>6, <2>3
  <2>4. CASE a # SENTINEL_OWNERS /\ ~Listed(a)
    BY <1>4, <2>4
  <2>5. QED
    BY <2>2, <2>3, <2>4
<1>7. \A a \in Addr : n[a] # ZERO <=> a = SENTINEL_OWNERS \/ Listed(a)
  <2>1. \A a \in Addr : Listed(a) => a # ZERO
    BY <1>1 DEF NoOwner
  <2>2. QED
    BY <1>4, <1>6, <1>9, <2>1, AddrFacts DEF NoOwner
<1>8. n \in [Addr -> Addr]
  <2>1. \A a \in Addr : n[a] \in Addr
    BY <1>9, AddrFacts
  <2>2. QED
    BY <1>4, <2>1
<1>10. \A a, b \in Addr : n[a] = n[b] /\ n[a] # ZERO => a = b
  <2>1. SUFFICES ASSUME NEW a \in Addr, NEW b \in Addr, n[a] = n[b], n[a] # ZERO
                 PROVE  a = b
    OBVIOUS
  <2>2. \A i \in 1..N : LastOccurrence(list, i) => n[list[i]] # list[1]
    BY <1>1, <1>n, <1>6a DEF NoOwner
  <2>3. CASE a = SENTINEL_OWNERS \/ b = SENTINEL_OWNERS
    BY <1>1, <1>3, <1>4, <1>7, <2>1, <2>2, <2>3
  <2>4. CASE Listed(a) /\ Listed(b)
    <3>1. PICK i \in 1..N : list[i] = a /\ LastOccurrence(list, i)
      BY <1>1, <1>3, <2>4
    <3>2. PICK j \in 1..N : list[j] = b /\ LastOccurrence(list, j)
      BY <1>1, <1>3, <2>4
    <3>3. CASE i = N \/ j = N
      BY <1>1, <1>6a, <2>1, <3>1, <3>2, <3>3 DEF NoOwner
    <3>4. CASE i # N /\ j # N
      <4>1. list[i + 1] = list[j + 1] /\ i + 1 \in 1..N /\ j + 1 \in 1..N
        BY <1>1, <1>6a, <2>1, <3>1, <3>2, <3>4
      <4>2. i - j <= 1 /\ j - i <= 1
        BY <1>1, <4>1
      <4>3. i # j + 1 /\ j # i + 1
        BY <3>1, <3>2, <3>4, <4>1, <1>n
      <4>4. QED
        BY <3>1, <3>2, <4>2, <4>3
    <3>5. QED
      BY <3>3, <3>4
  <2>5. QED
    BY <1>7, <2>1, <2>3, <2>4
<1>11. \A a \in Addr : n[a] # ZERO => \E p \in Addr : n[p] = a
  <2>1. SUFFICES ASSUME NEW a \in Addr, n[a] # ZERO
                 PROVE  \E p \in Addr : n[p] = a
    OBVIOUS
  <2>2. CASE a = SENTINEL_OWNERS
    <3>1. LastOccurrence(list, N)
      BY <1>1, <1>n
    <3>2. QED
      BY <1>1, <1>6a, <2>2, <3>1
  <2>3. CASE a # SENTINEL_OWNERS
    <3>1. PICK i \in 1..N : list[i] = a
      BY <1>1, <1>7, <2>1, <2>3
    <3>2. \A k \in 1..N : list[k] = a /\ k # 1 /\ list[k - 1] # a
              => \E p \in Addr : n[p] = a
      <4>1. SUFFICES ASSUME NEW k \in 1..N, list[k] = a, k # 1, list[k - 1] # a
                     PROVE  n[list[k - 1]] = a /\ list[k - 1] \in Addr
        OBVIOUS
      <4>2. k - 1 \in 1..N /\ LastOccurrence(list, k - 1)
        BY <1>1, <1>n, <4>1
      <4>3. QED
        BY <1>1, <1>6a, <4>1, <4>2
    <3>3. CASE i = 1
      BY <1>4, <3>1, <3>3, AddrFacts
    <3>4. CASE i # 1 /\ list[i - 1] # a
      BY <3>1, <3>2, <3>4
    <3>5. CASE i # 1 /\ list[i - 1] = a
      <4>1. CASE i - 1 = 1
        BY <1>4, <3>5, <4>1, AddrFacts
      <4>2. CASE i - 1 # 1
        <5>1. i - 1 \in 1..N /\ i - 2 \in 1..N
          BY <1>1, <3>5, <4>2
        <5>2. list[i - 2] # a
          BY <1>1, <3>1, <5>1
        <5>3. QED
          BY <3>2, <3>5, <4>2, <5>1, <5>2, (i - 1) - 1 = i - 2
      <4>3. QED
        BY <4>1, <4>2
    <3>6. QED
      BY <3>3, <3>4, <3>5
  <2>4. QED
    BY <2>2, <2>3
<1>12. \E rank \in [Addr -> Nat] : Ascends(n, rank)
  <2> DEFINE rank == [a \in Addr |-> IF Listed(a) THEN LastOf(a) ELSE 0]
  <2>1. rank \in [Addr -> Nat]
    BY <1>1, <1>3
  <2>2. ASSUME NEW a \in Addr, n[a] \notin NoOwner
        PROVE  rank[a] < rank[n[a]]
    <3>1. Listed(n[a]) /\ n[a] \in Addr /\ rank[n[a]] = LastOf(n[a])
      BY <1>9, <2>2 DEF NoOwner
    <3>2. IsLast(n[a], LastOf(n[a]))
      BY <1>3, <3>1
    <3>3. CASE a = SENTINEL_OWNERS
      BY <1>1, <3>1, <3>2, <3>3, AddrFacts DEF NoOwner
    <3>4. CASE a # SENTINEL_OWNERS
      <4>1. IsLast(a, LastOf(a)) /\ rank[a] = LastOf(a)
        BY <1>3, <1>4, <2>2, <3>4 DEF NoOwner
      <4>2. LastOf(a) # N /\ n[a] = list[LastOf(a) + 1]
        BY <1>6, <2>2, <4>1 DEF NoOwner
      <4>3. LastOf(a) + 1 <= LastOf(n[a])
        BY <1>1, <1>2, <3>2, <4>1, <4>2
      <4>4. QED
        BY <1>1, <3>1, <3>2, <4>1, <4>3
    <3>5. QED
      BY <3>3, <3>4
  <2>3. QED
    BY <2>1, <2>2 DEF Ascends
<1>13. n[ZERO] = ZERO /\ n[SENTINEL_OWNERS] # ZERO
  BY <1>1, <1>4, AddrFacts DEF NoOwner
<1>14. \A a \in Addr : n[a] \notin NoOwner => n[n[a]] # ZERO
  BY <1>7, <1>9 DEF NoOwner
<1>15. QED
  BY <1>7, <1>8, <1>10, <1>11, <1>12, <1>13, <1>14 DEF Ring, n, N

LEMMA LinkedFinite ==
    ASSUME NEW wallet
    PROVE  IsFiniteSet(Addr) /\ IsFiniteSet(Linked(wallet)) /\ Cardinality(Linked(wallet)) \in Nat
<1>1. IsFiniteSet(Addr)
  <2>1. IsFiniteSet({ZERO, SENTINEL_OWNERS})
    <3>1. IsFiniteSet({ZERO} \union {SENTINEL_OWNERS})
      BY FS_Singleton, FS_AddElement
    <3>2. {ZERO} \union {SENTINEL_OWNERS} = {ZERO, SENTINEL_OWNERS}
      OBVIOUS
    <3>3. QED
      BY <3>1, <3>2
  <2>2. QED
    BY <2>1, OwnerAssumption, FS_Union DEF Addr
<1>2. Linked(wallet) \in SUBSET Addr
  BY DEF Linked
<1>3. QED
  BY <1>1, <1>2, FS_Subset, FS_CardinalityType

LEMMA RemainderFacts ==
    ASSUME NEW n \in Nat, NEW m \in Nat, m > 0
    PROVE  /\ n % m \in 0..(m - 1)
           /\ n < m => n % m = n
           /\ n >= m => n % m <= n - m
<1>1. n % m \in 0..(m - 1)
  OBVIOUS
<1>2. ASSUME n < m PROVE n % m = n
  BY <1>2
<1>3. ASSUME n >= m PROVE n % m <= n - m
  BY <1>3
<1>4. QED
  BY <1>1, <1>2, <1>3

\* A length that overflows a uint8 loses more than half of itself.
LEMMA TruncationHalves ==
    ASSUME NEW n \in Nat
    PROVE  /\ n % (MaxUint8 + 1) \in Uint8
           /\ n <= MaxUint8 => n % (MaxUint8 + 1) = n
           /\ n > MaxUint8 => 2 * (n % (MaxUint8 + 1)) < n
<1> DEFINE m == MaxUint8 + 1
           r == n % m
<1>1. m \in Nat /\ m > 0 /\ Uint8 = 0..(m - 1)
  BY Uint8Assumption DEF Uint8
<1> HIDE DEF m
<1>2. r \in 0..(m - 1) /\ (n < m => r = n) /\ (n >= m => r <= n - m)
  BY <1>1, RemainderFacts
<1> HIDE DEF r
<1>3. r \in Uint8 /\ (n < m => r = n) /\ (n >= m => 2 * r < n)
  BY <1>1, <1>2
<1>4. QED
  BY <1>3, Uint8Assumption DEF m, r

\* At least every second entry of an accepted list is a different owner.
LEMMA SetupLinksHalf ==
    ASSUME NEW list \in Seq(Addr), NEW threshold \in Uint8,
           SetupAccepts(EmptyWallet, list, threshold)
    PROVE  Len(list) <= 2 * Cardinality(Linked(SetupResult(EmptyWallet, list, threshold)))
<1> DEFINE wallet == SetupResult(EmptyWallet, list, threshold)
           N == Len(list)
<1>1. /\ N \in Nat
      /\ \A i \in 1..N : list[i] \in Addr /\ list[i] \notin NoOwner
      /\ \A i, j \in 1..N : j <= i - 2 => list[j] # list[i]
  BY DEF SetupAccepts
<1>2. \A i \in 1..N : list[i] \in Linked(wallet)
  <2>1. \A i \in 1..N : SetupLinks(EmptyWallet, list)[list[i]] # ZERO
    BY <1>1, SetupRing
  <2>2. QED
    BY <1>1, <2>1 DEF Linked, SetupResult
<1> HIDE DEF wallet, N
<1>3. PICK h \in Nat : N <= 2 * h /\ 2 * h - 1 <= N
  <2>1. CASE N % 2 = 0
    <3>1. N = 2 * (N \div 2) /\ N \div 2 \in Nat
      BY <1>1, <2>1
    <3>2. QED
      BY <1>1, <3>1
  <2>2. CASE N % 2 = 1
    <3> DEFINE half == N \div 2
    <3>1. N = 2 * half + 1 /\ half \in Nat
      BY SMTT(60), <1>1, <2>2
    <3> HIDE DEF half
    <3>2. half + 1 \in Nat /\ N <= 2 * (half + 1) /\ 2 * (half + 1) - 1 <= N
      BY <3>1
    <3>3. QED
      BY <3>2 DEF half
  <2>3. QED
    BY <1>1, <2>1, <2>2
<1> DEFINE f == [k \in 1..h |-> list[2 * k - 1]]
<1>4. \A k \in 1..h : 2 * k - 1 \in 1..N
  BY <1>1, <1>3
<1>5. f \in Injection(1..h, Linked(wallet))
  <2>1. f \in [1..h -> Linked(wallet)]
    BY <1>2, <1>4
  <2>2. ASSUME NEW k \in 1..h, NEW l \in 1..h, k # l PROVE f[k] # f[l]
    <3>1. \/ 2 * k - 1 <= (2 * l - 1) - 2
          \/ 2 * l - 1 <= (2 * k - 1) - 2
      BY <1>3, <2>2
    <3>2. QED
      BY <1>1, <1>4, <3>1
  <2>3. QED
    BY <2>1, <2>2 DEF Injection, IsInjective
<1>6. h <= Cardinality(Linked(wallet))
  <2>1. Cardinality(1..h) <= Cardinality(Linked(wallet))
    BY <1>5, LinkedFinite, FS_Injection
  <2>2. Cardinality(1..h) = h
    BY <1>3, FS_Interval
  <2>3. QED
    BY <2>1, <2>2
<1>7. Cardinality(Linked(wallet)) \in Nat
  BY LinkedFinite
<1>8. QED
  BY <1>1, <1>3, <1>6, <1>7 DEF N, wallet

-----------------------------------------------------------------------------
(* What each change does to a wallet. *)

\* A wallet set up by createWallet or singleToMulti that getOwners can read.
LEMMA SetupGood ==
    ASSUME NEW list \in Seq(Addr), NEW threshold \in Uint8,
           SetupAccepts(EmptyWallet, list, threshold),
           GetOwnersReturns(SetupResult(EmptyWallet, list, threshold))
    PROVE  /\ SetupResult(EmptyWallet, list, threshold) \in WalletStruct
           /\ GoodWallet(SetupResult(EmptyWallet, list, threshold))
<1> DEFINE wallet == SetupResult(EmptyWallet, list, threshold)
<1>1. /\ Len(list) \in Nat
      /\ wallet.ownerCount = Len(list) % (MaxUint8 + 1)
      /\ wallet.threshold = threshold
      /\ wallet.owners = SetupLinks(EmptyWallet, list)
  BY DEF SetupResult
<1>2. Ring(wallet.owners) /\ wallet.owners \in [Addr -> Addr]
  BY <1>1, SetupRing DEF Ring
<1>3. Len(list) <= MaxUint8 /\ wallet.ownerCount = Len(list)
  <2>1. Cardinality(Linked(wallet)) <= wallet.ownerCount
    BY DEF GetOwnersReturns
  <2>2. Len(list) <= 2 * Cardinality(Linked(wallet))
    BY SetupLinksHalf
  <2>3. Cardinality(Linked(wallet)) \in Nat
    BY LinkedFinite
  <2>4. /\ wallet.ownerCount \in Uint8
        /\ Len(list) <= MaxUint8 => wallet.ownerCount = Len(list)
        /\ Len(list) > MaxUint8 => 2 * wallet.ownerCount < Len(list)
    BY <1>1, TruncationHalves
  <2> HIDE DEF wallet
  <2>5. QED
    BY <1>1, <2>1, <2>2, <2>3, <2>4, Uint8Assumption DEF Uint8
<1>4. ThresholdFits(wallet.threshold, wallet.ownerCount)
  BY <1>1, <1>3 DEF SetupAccepts, ThresholdFits
<1>5. wallet \in WalletStruct
  BY <1>1, <1>2, <1>3, Uint8Assumption DEF WalletStruct, SetupResult, Uint8
<1>6. QED
  BY <1>2, <1>4, <1>5 DEF GoodWallet

\* The two owners of an upgraded single-owner wallet always fit.
LEMMA PairGood ==
    ASSUME NEW a \in Addr, NEW b \in Addr, NEW threshold \in Uint8,
           SetupAccepts(EmptyWallet, <<a, b>>, threshold)
    PROVE  /\ SetupResult(EmptyWallet, <<a, b>>, threshold) \in WalletStruct
           /\ GoodWallet(SetupResult(EmptyWallet, <<a, b>>, threshold))
           /\ Linked(SetupResult(EmptyWallet, <<a, b>>, threshold)) = {a, b}
           /\ SetupResult(EmptyWallet, <<a, b>>, threshold).ownerCount = 2
<1> DEFINE list == <<a, b>>
           wallet == SetupResult(EmptyWallet, list, threshold)
<1>1. list \in Seq(Addr) /\ Len(list) = 2
  OBVIOUS
<1>2. wallet.ownerCount = 2
  BY <1>1, TruncationHalves, Uint8Assumption DEF SetupResult
<1>3. Linked(wallet) = {a, b}
  <2>1. \A x \in Addr : wallet.owners[x] # ZERO
           => x = SENTINEL_OWNERS \/ \E i \in 1..Len(list) : list[i] = x
    BY <1>1, SetupRing DEF SetupResult
  <2>2. \A i \in 1..Len(list) : list[i] \in Addr => wallet.owners[list[i]] # ZERO
    BY <1>1, SetupRing DEF SetupResult
  <2>3. a \notin NoOwner /\ b \notin NoOwner
    BY <1>1 DEF SetupAccepts
  <2>4. wallet.owners[a] # ZERO /\ wallet.owners[b] # ZERO
    BY <1>1, <2>2
  <2>5. QED
    BY <1>1, <2>1, <2>3, <2>4 DEF Linked, NoOwner
<1>4. Cardinality(Linked(wallet)) <= 2
  <2>1. IsFiniteSet({a}) /\ Cardinality({a}) = 1
    BY FS_Singleton
  <2>2. /\ IsFiniteSet({a} \union {b})
        /\ Cardinality({a} \union {b}) <= 2
    <3>1. /\ IsFiniteSet({a} \union {b})
          /\ Cardinality({a} \union {b}) = IF b \in {a} THEN Cardinality({a})
                                           ELSE Cardinality({a}) + 1
      BY <2>1, FS_AddElement
    <3>2. QED
      BY <2>1, <3>1
  <2>3. {a} \union {b} = {a, b}
    OBVIOUS
  <2>4. /\ Linked(wallet) \in SUBSET {a, b}
        /\ IsFiniteSet({a, b})
        /\ Cardinality({a, b}) <= 2
    BY <1>3, <2>2, <2>3
  <2>5. Cardinality(Linked(wallet)) <= Cardinality({a, b})
    BY <2>4, FS_Subset
  <2>6. Cardinality(Linked(wallet)) \in Nat /\ Cardinality({a, b}) \in Nat
    BY <2>4, LinkedFinite, FS_CardinalityType
  <2>7. QED
    BY <2>4, <2>5, <2>6
<1>5. GetOwnersReturns(wallet)
  BY <1>2, <1>4 DEF GetOwnersReturns
<1>6. QED
  BY <1>1, <1>2, <1>3, <1>5, SetupGood

\* Adding, removing and swapping keep a wallet good and its drift as it was.
WalletWith(owners, ownerCount, threshold) ==
    [owners |-> owners, ownerCount |-> ownerCount, threshold |-> threshold]

LEMMA AddGood ==
    ASSUME NEW wallet \in WalletStruct, GoodWallet(wallet),
           NEW owner \in Addr, owner \notin NoOwner, wallet.owners[owner] = ZERO,
           NEW threshold \in Uint8, wallet.ownerCount < MaxUint8,
           wallet.threshold # threshold => ThresholdFits(threshold, wallet.ownerCount + 1),
           NEW new, new = WalletWith(
               [wallet.owners EXCEPT ![owner] = wallet.owners[SENTINEL_OWNERS],
                                     ![SENTINEL_OWNERS] = owner],
               wallet.ownerCount + 1, threshold)
    PROVE  /\ new \in WalletStruct /\ GoodWallet(new) /\ Drift(new) = Drift(wallet)
           /\ Linked(new) = Linked(wallet) \union {owner} /\ owner \notin Linked(wallet)
<1>1. Ring(new.owners)
  BY AddRing DEF GoodWallet, WalletWith
<1>2. Linked(new) = Linked(wallet) \union {owner}
  <2>1. /\ new.owners[owner] = wallet.owners[SENTINEL_OWNERS]
        /\ \A a \in Addr : a # owner /\ a # SENTINEL_OWNERS
                              => new.owners[a] = wallet.owners[a]
    BY AddrFacts DEF WalletWith, WalletStruct, NoOwner
  <2>2. wallet.owners[SENTINEL_OWNERS] # ZERO
    BY DEF GoodWallet, Ring
  <2>3. QED
    BY <2>1, <2>2 DEF Linked, NoOwner
<1>3. owner \notin Linked(wallet)
  BY DEF Linked
<1>4. /\ Cardinality(Linked(wallet)) \in Nat
      /\ Cardinality(Linked(new)) = Cardinality(Linked(wallet)) + 1
  BY <1>2, <1>3, LinkedFinite, FS_AddElement
<1>5. /\ wallet.ownerCount \in Uint8 /\ wallet.threshold \in Uint8
      /\ new.ownerCount = wallet.ownerCount + 1 /\ new.threshold = threshold
  BY DEF WalletWith, WalletStruct
<1>6. ThresholdFits(new.threshold, new.ownerCount)
  BY <1>5, Uint8Assumption DEF GoodWallet, ThresholdFits, Uint8
<1>7. GetOwnersReturns(new) /\ Drift(new) = Drift(wallet)
  <2>1. Cardinality(Linked(wallet)) <= wallet.ownerCount
    BY DEF GoodWallet, GetOwnersReturns
  <2>2. QED
    BY <1>4, <1>5, <2>1, Uint8Assumption DEF GetOwnersReturns, Drift, Uint8
<1>8. new \in WalletStruct
  <2>1. wallet.ownerCount + 1 \in Uint8
    BY <1>5, Uint8Assumption DEF Uint8
  <2>2. new.owners \in [Addr -> Addr]
    BY <1>1 DEF Ring
  <2>3. QED
    BY <2>1, <2>2 DEF WalletStruct, WalletWith
<1>9. QED
  BY <1>1, <1>2, <1>3, <1>6, <1>7, <1>8 DEF GoodWallet

LEMMA RemoveGood ==
    ASSUME NEW wallet \in WalletStruct, GoodWallet(wallet),
           NEW prev \in Addr, NEW owner \in Addr, owner \notin NoOwner,
           wallet.owners[prev] = owner, NEW threshold \in Uint8,
           wallet.ownerCount >= 1, wallet.ownerCount - 1 >= threshold,
           wallet.threshold # threshold => ThresholdFits(threshold, wallet.ownerCount - 1),
           NEW new, new = WalletWith(
               [wallet.owners EXCEPT ![prev] = wallet.owners[owner], ![owner] = ZERO],
               wallet.ownerCount - 1, threshold)
    PROVE  /\ new \in WalletStruct /\ GoodWallet(new) /\ Drift(new) = Drift(wallet)
           /\ Linked(new) = Linked(wallet) \ {owner} /\ owner \in Linked(wallet)
<1>1. Ring(new.owners) /\ prev # owner
  BY RemoveRing DEF GoodWallet, WalletWith
<1>2. wallet.owners[owner] # ZERO
  BY DEF GoodWallet, Ring
<1>3. Linked(new) = Linked(wallet) \ {owner}
  <2>1. /\ new.owners[owner] = ZERO
        /\ new.owners[prev] = wallet.owners[owner]
        /\ \A a \in Addr : a # owner /\ a # prev => new.owners[a] = wallet.owners[a]
    BY <1>1 DEF WalletWith, WalletStruct
  <2>2. QED
    BY <1>2, <2>1 DEF Linked, NoOwner
<1>4. owner \in Linked(wallet)
  BY <1>2 DEF Linked
<1>5. /\ Cardinality(Linked(wallet)) \in Nat
      /\ Cardinality(Linked(new)) = Cardinality(Linked(wallet)) - 1
  BY <1>3, <1>4, LinkedFinite, FS_RemoveElement
<1>6. /\ wallet.ownerCount \in Uint8 /\ wallet.threshold \in Uint8
      /\ new.ownerCount = wallet.ownerCount - 1 /\ new.threshold = threshold
  BY DEF WalletWith, WalletStruct
<1>7. ThresholdFits(new.threshold, new.ownerCount)
  BY <1>6, Uint8Assumption DEF GoodWallet, ThresholdFits, Uint8
<1>8. GetOwnersReturns(new) /\ Drift(new) = Drift(wallet)
  <2>1. Cardinality(Linked(wallet)) <= wallet.ownerCount
    BY DEF GoodWallet, GetOwnersReturns
  <2>2. QED
    BY <1>5, <1>6, <2>1, Uint8Assumption DEF GetOwnersReturns, Drift, Uint8
<1>9. new \in WalletStruct
  <2>1. wallet.ownerCount - 1 \in Uint8
    BY <1>6, Uint8Assumption DEF Uint8
  <2>2. new.owners \in [Addr -> Addr]
    BY <1>1 DEF Ring
  <2>3. QED
    BY <2>1, <2>2 DEF WalletStruct, WalletWith
<1>10. QED
  BY <1>1, <1>3, <1>4, <1>7, <1>8, <1>9 DEF GoodWallet

LEMMA SwapGood ==
    ASSUME NEW wallet \in WalletStruct, GoodWallet(wallet),
           NEW prev \in Addr, NEW old \in Addr, NEW owner \in Addr,
           old \notin NoOwner, owner \notin NoOwner,
           wallet.owners[prev] = old, wallet.owners[owner] = ZERO,
           NEW new, new = WalletWith(
               [wallet.owners EXCEPT ![owner] = wallet.owners[old],
                                     ![prev] = owner, ![old] = ZERO],
               wallet.ownerCount, wallet.threshold)
    PROVE  /\ new \in WalletStruct /\ GoodWallet(new) /\ Drift(new) = Drift(wallet)
           /\ Linked(new) = (Linked(wallet) \ {old}) \union {owner}
           /\ old \in Linked(wallet) /\ owner \notin Linked(wallet)
<1>1. Ring(new.owners) /\ prev # old /\ prev # owner /\ old # owner
  BY SwapRing DEF GoodWallet, WalletWith
<1>2. wallet.owners[old] # ZERO /\ wallet.owners[prev] # ZERO
  BY DEF GoodWallet, Ring, NoOwner
<1>3. Linked(new) = (Linked(wallet) \ {old}) \union {owner}
  <2>1. /\ new.owners[old] = ZERO
        /\ new.owners[prev] = owner
        /\ new.owners[owner] = wallet.owners[old]
        /\ \A a \in Addr : a # old /\ a # prev /\ a # owner
                              => new.owners[a] = wallet.owners[a]
    BY <1>1 DEF WalletWith, WalletStruct
  <2>2. QED
    BY <1>1, <1>2, <2>1 DEF Linked, NoOwner
<1>4. old \in Linked(wallet) /\ owner \notin Linked(wallet)
  BY <1>2 DEF Linked
<1>5. IsFiniteSet(Linked(wallet) \ {old})
  BY LinkedFinite, FS_RemoveElement
<1>6. /\ Cardinality(Linked(wallet)) \in Nat
      /\ Cardinality(Linked(new)) = Cardinality(Linked(wallet))
  <2>1. Cardinality(Linked(wallet) \ {old}) = Cardinality(Linked(wallet)) - 1
    BY <1>4, LinkedFinite, FS_RemoveElement
  <2>2. Cardinality(Linked(new)) = Cardinality(Linked(wallet) \ {old}) + 1
    BY <1>3, <1>4, <1>5, FS_AddElement
  <2>3. QED
    BY <2>1, <2>2, LinkedFinite
<1>7. new.ownerCount = wallet.ownerCount /\ new.threshold = wallet.threshold
  BY DEF WalletWith
<1>8. new \in WalletStruct
  <2>1. new.owners \in [Addr -> Addr]
    BY <1>1 DEF Ring
  <2>2. QED
    BY <2>1 DEF WalletStruct, WalletWith
<1>9. QED
  BY <1>1, <1>3, <1>4, <1>6, <1>7, <1>8 DEF GoodWallet, GetOwnersReturns, Drift

-----------------------------------------------------------------------------
(* The invariant. *)

LEMMA InitInvariant == Init => IInv
<1>1. Init => TypeOK
  BY AddrFacts, Uint8Assumption
     DEF Init, OMInit, EmptyWallet, TypeOK, WalletStruct, Uint8, LicensedUser, NoLicensedUser
<1>2. Init => \A w \in Wallet : GoodLicensedUser(w)
  BY DEF Init, OMInit, NoLicensedUser, GoodLicensedUser, isActiveWallet, walletExists,
         MultiOwner
<1>3. QED
  BY <1>1, <1>2 DEF IInv

\* A step changes the wallet of one licensed user w, to one that is good again,
\* and it moves the drift of a wallet only when it sets the list up.
Keeps(w) ==
    /\ TypeOK'
    /\ \A v \in Wallet \ {w} : wallets'[v] = wallets[v] /\ luws'[v] = luws[v]
    /\ GoodLicensedUser(w)'
    /\ MultiOwner(w) => Drift(wallets[w])' = Drift(wallets[w])

LEMMA KeepsInvariant ==
    ASSUME NEW w \in Wallet, IInv, Keeps(w)
    PROVE  /\ IInv'
           /\ \A v \in Wallet : MultiOwner(v) => Drift(wallets[v])' = Drift(wallets[v])
<1>1. \A v \in Wallet \ {w} : GoodLicensedUser(v)'
  BY DEF IInv, Keeps, GoodLicensedUser, isActiveWallet, walletExists, MultiOwner,
         isSingleOwner
<1>2. \A v \in Wallet \ {w} : Drift(wallets[v])' = Drift(wallets[v])
  BY DEF Keeps, Drift, Linked
<1>3. QED
  BY <1>1, <1>2 DEF IInv, Keeps

\* Calls that rewrite the list of a multi-owner wallet and leave luws alone.
LEMMA RewriteKeeps ==
    ASSUME IInv, NEW w \in Wallet, MultiOwner(w), UNCHANGED luws,
           NEW new \in WalletStruct, GoodWallet(new), Drift(new) = Drift(wallets[w]),
           wallets' = [wallets EXCEPT ![w] = new]
    PROVE  Keeps(w)
<1>1. /\ wallets'[w] = new
      /\ \A v \in Wallet \ {w} : wallets'[v] = wallets[v]
      /\ wallets' \in [Wallet -> WalletStruct]
  BY DEF IInv, TypeOK
<1>2. TypeOK'
  BY <1>1 DEF IInv, TypeOK
<1>3. MultiOwner(w)' /\ (isActiveWallet(w) <=> walletExists(w))'
  BY DEF IInv, GoodLicensedUser, MultiOwner, walletExists, isSingleOwner, isActiveWallet
<1>4. GoodWallet(wallets[w])'
  BY <1>1 DEF GoodWallet, GetOwnersReturns, Linked
<1>5. Drift(wallets[w])' = Drift(wallets[w])
  BY <1>1 DEF Drift, Linked
<1>6. QED
  BY <1>1, <1>2, <1>3, <1>4, <1>5 DEF Keeps, GoodLicensedUser

LEMMA CreateKeeps ==
    ASSUME IInv, NEW w \in Wallet, NEW caller \in Caller, CreateWallet(caller, w)
    PROVE  Keeps(w)
<1>1. PICK list \in OwnerLists, t \in Uint8,
           english \in Name \union {EmptyString}, original \in Name \union {EmptyString} :
              createWallet(caller, w, list, t, english, original)
  BY DEF CreateWallet
<1>2. list \in Seq(Addr) /\ list # << >> /\ list[1] \in Addr
  BY <1>1, ListAssumption DEF createWallet
<1>3. ~MultiOwner(w) /\ wallets[w] = EmptyWallet
  BY <1>1 DEF IInv, GoodLicensedUser, MultiOwner, createWallet
<1>4. /\ luws' \in [Wallet -> LicensedUser]
      /\ luws'[w] = [owner |-> IF Len(list) = 1 THEN list[1] ELSE ZERO, active |-> TRUE,
                     englishName |-> english, originalName |-> original]
      /\ \A v \in Wallet \ {w} : luws'[v] = luws[v]
  BY <1>1, <1>2, AddrFacts DEF createWallet, IInv, TypeOK, LicensedUser
<1>5. walletExists(w)' /\ isActiveWallet(w)'
  BY <1>1, <1>4 DEF createWallet, walletExists, isActiveWallet
<1>6. CASE Len(list) = 1
  <2>1. wallets' = wallets /\ ~MultiOwner(w)'
    BY <1>1, <1>4, <1>6 DEF createWallet, MultiOwner, isSingleOwner
  <2>2. QED
    BY <1>3, <1>4, <1>5, <2>1 DEF Keeps, GoodLicensedUser, IInv, TypeOK
<1>7. CASE Len(list) # 1
  <2> DEFINE new == SetupResult(EmptyWallet, list, t)
  <2>1. /\ SetupAccepts(EmptyWallet, list, t)
        /\ GetOwnersReturns(new)
        /\ wallets' = [wallets EXCEPT ![w] = new]
    BY <1>1, <1>3, <1>7 DEF createWallet, setupOwners, IInv, TypeOK
  <2>2. new \in WalletStruct /\ GoodWallet(new)
    BY <1>2, <2>1, SetupGood
  <2>3. /\ wallets'[w] = new
        /\ \A v \in Wallet \ {w} : wallets'[v] = wallets[v]
        /\ wallets' \in [Wallet -> WalletStruct]
    BY <2>1, <2>2 DEF IInv, TypeOK
  <2>4. GoodWallet(wallets[w])'
    BY <2>2, <2>3 DEF GoodWallet, GetOwnersReturns, Linked
  <2>5. MultiOwner(w)'
    BY <1>4, <1>5, <1>7 DEF MultiOwner, isSingleOwner
  <2>6. QED
    BY <1>3, <1>4, <1>5, <2>3, <2>4, <2>5 DEF Keeps, GoodLicensedUser, TypeOK
<1>8. QED
  BY <1>6, <1>7

LEMMA AddKeeps ==
    ASSUME IInv, NEW w \in Wallet, NEW caller \in Caller, AddOwner(caller, w)
    PROVE  Keeps(w)
<1>1. PICK owner \in Addr, t \in Uint8 : addOwner(caller, w, owner, t)
  BY DEF AddOwner
<1>2. walletExists(w)
  BY <1>1 DEF addOwner, IInv, GoodLicensedUser
<1>3. CASE isSingleOwner(w)
  <2> DEFINE list == <<luws[w].owner, owner>>
             new == SetupResult(EmptyWallet, list, t)
  <2>1. singleToMulti(w, list, t)
    BY <1>1, <1>3 DEF addOwner
  <2>2. ~MultiOwner(w) /\ wallets[w] = EmptyWallet
    BY <1>3 DEF MultiOwner, IInv, GoodLicensedUser
  <2>3. SetupAccepts(EmptyWallet, list, t) /\ wallets' = [wallets EXCEPT ![w] = new]
    BY <2>1, <2>2 DEF singleToMulti, setupOwners, IInv, TypeOK
  <2>4. luws[w].owner \in Addr
    BY DEF IInv, TypeOK, LicensedUser
  <2>5. new \in WalletStruct /\ GoodWallet(new)
    BY <2>3, <2>4, PairGood
  <2>6. /\ wallets'[w] = new
        /\ \A v \in Wallet \ {w} : wallets'[v] = wallets[v]
        /\ wallets' \in [Wallet -> WalletStruct]
    BY <2>3, <2>5 DEF IInv, TypeOK
  <2>7. /\ luws' \in [Wallet -> LicensedUser]
        /\ luws'[w].owner = ZERO
        /\ luws'[w].active = luws[w].active
        /\ luws'[w].originalName = luws[w].originalName
        /\ \A v \in Wallet \ {w} : luws'[v] = luws[v]
    BY <2>1, AddrFacts DEF singleToMulti, IInv, TypeOK, LicensedUser
  <2>8. GoodWallet(wallets[w])'
    BY <2>5, <2>6 DEF GoodWallet, GetOwnersReturns, Linked
  <2>9. MultiOwner(w)' /\ isActiveWallet(w)'
    BY <1>1, <1>2, <2>7 DEF addOwner, MultiOwner, walletExists, isSingleOwner, isActiveWallet
  <2>10. QED
    BY <2>2, <2>6, <2>7, <2>8, <2>9 DEF Keeps, GoodLicensedUser, TypeOK, MultiOwner
<1>4. CASE ~isSingleOwner(w)
  <2>1. addOwnerMulti(w, owner, t) /\ UNCHANGED luws
    BY <1>1, <1>4 DEF addOwner
  <2>2. MultiOwner(w) /\ GoodWallet(wallets[w]) /\ wallets[w] \in WalletStruct
    BY <1>2, <1>4 DEF MultiOwner, IInv, GoodLicensedUser, TypeOK
  <2> DEFINE new == WalletWith([wallets[w].owners EXCEPT
                                   ![owner] = wallets[w].owners[SENTINEL_OWNERS],
                                   ![SENTINEL_OWNERS] = owner],
                               wallets[w].ownerCount + 1, t)
  <2>3. new \in WalletStruct /\ GoodWallet(new) /\ Drift(new) = Drift(wallets[w])
    BY <2>1, <2>2, AddGood DEF addOwnerMulti
  <2>4. wallets' = [wallets EXCEPT ![w] = new]
    BY <2>1 DEF addOwnerMulti, WalletWith
  <2>5. QED
    BY <2>1, <2>2, <2>3, <2>4, RewriteKeeps
<1>5. QED
  BY <1>3, <1>4

\* A wallet without a list has nothing that the other three calls accept.
LEMMA OnlyMulti ==
    ASSUME IInv, NEW w \in Wallet, ~MultiOwner(w)
    PROVE  wallets[w].ownerCount = 0 /\ \A a \in Addr : wallets[w].owners[a] = ZERO
BY DEF IInv, GoodLicensedUser, EmptyWallet

LEMMA RemoveKeeps ==
    ASSUME IInv, NEW w \in Wallet, NEW caller \in Caller, RemoveOwner(caller, w)
    PROVE  Keeps(w)
<1>1. PICK prev \in Addr, owner \in Addr, t \in Uint8 :
         removeOwner(caller, w, prev, owner, t) /\ UNCHANGED luws
  BY DEF RemoveOwner
<1>2. MultiOwner(w) /\ GoodWallet(wallets[w]) /\ wallets[w] \in WalletStruct
  <2>1. MultiOwner(w)
    BY <1>1, OnlyMulti DEF removeOwner
  <2>2. QED
    BY <2>1 DEF IInv, GoodLicensedUser, TypeOK
<1> DEFINE new == WalletWith([wallets[w].owners EXCEPT
                                 ![prev] = wallets[w].owners[owner], ![owner] = ZERO],
                             wallets[w].ownerCount - 1, t)
<1>3. new \in WalletStruct /\ GoodWallet(new) /\ Drift(new) = Drift(wallets[w])
  BY <1>1, <1>2, RemoveGood DEF removeOwner
<1>4. wallets' = [wallets EXCEPT ![w] = new]
  BY <1>1 DEF removeOwner, WalletWith
<1>5. QED
  BY <1>1, <1>2, <1>3, <1>4, RewriteKeeps

LEMMA SwapKeeps ==
    ASSUME IInv, NEW w \in Wallet, NEW caller \in Caller, SwapOwner(caller, w)
    PROVE  Keeps(w)
<1>1. PICK prev \in Addr, old \in Addr, owner \in Addr :
         swapOwner(caller, w, prev, old, owner) /\ UNCHANGED luws
  BY DEF SwapOwner
<1>2. MultiOwner(w) /\ GoodWallet(wallets[w]) /\ wallets[w] \in WalletStruct
  <2>1. MultiOwner(w)
    BY <1>1, OnlyMulti DEF swapOwner, NoOwner
  <2>2. QED
    BY <2>1 DEF IInv, GoodLicensedUser, TypeOK
<1> DEFINE new == WalletWith([wallets[w].owners EXCEPT
                                 ![owner] = wallets[w].owners[old],
                                 ![prev] = owner, ![old] = ZERO],
                             wallets[w].ownerCount, wallets[w].threshold)
<1>3. new \in WalletStruct /\ GoodWallet(new) /\ Drift(new) = Drift(wallets[w])
  <2> DEFINE wallet == wallets[w]
  <2>1. /\ old \notin NoOwner /\ owner \notin NoOwner
        /\ wallet.owners[prev] = old /\ wallet.owners[owner] = ZERO
    BY <1>1 DEF swapOwner
  <2>2. wallet \in WalletStruct /\ GoodWallet(wallet)
    BY <1>2
  <2>3. new = WalletWith([wallet.owners EXCEPT ![owner] = wallet.owners[old],
                                               ![prev] = owner, ![old] = ZERO],
                         wallet.ownerCount, wallet.threshold)
    OBVIOUS
  <2> HIDE DEF wallet, new
  <2>4. new \in WalletStruct /\ GoodWallet(new) /\ Drift(new) = Drift(wallet)
    BY <2>1, <2>2, <2>3, SwapGood
  <2>5. QED
    BY <2>4 DEF wallet
<1>4. wallets' = [wallets EXCEPT ![w] = new]
  <2>1. \A x : [wallets[w] EXCEPT !.owners = x]
                  = WalletWith(x, wallets[w].ownerCount, wallets[w].threshold)
    BY <1>2 DEF WalletWith, WalletStruct
  <2>2. wallets' = [wallets EXCEPT ![w] = [wallets[w] EXCEPT !.owners =
                       [wallets[w].owners EXCEPT ![owner] = wallets[w].owners[old],
                                                 ![prev] = owner, ![old] = ZERO]]]
    BY <1>1 DEF swapOwner
  <2>3. QED
    BY <2>1, <2>2
<1>5. QED
  BY <1>1, <1>2, <1>3, <1>4, RewriteKeeps

LEMMA ThresholdKeeps ==
    ASSUME IInv, NEW w \in Wallet, NEW caller \in Caller, ChangeThreshold(caller, w)
    PROVE  Keeps(w)
<1>1. PICK t \in Uint8 : changeThreshold(caller, w, t) /\ UNCHANGED luws
  BY DEF ChangeThreshold
<1>2. MultiOwner(w) /\ GoodWallet(wallets[w]) /\ wallets[w] \in WalletStruct
  <2>1. MultiOwner(w)
    BY <1>1, OnlyMulti, Uint8Assumption DEF changeThreshold, ThresholdFits, Uint8
  <2>2. QED
    BY <2>1 DEF IInv, GoodLicensedUser, TypeOK
<1> DEFINE new == [wallets[w] EXCEPT !.threshold = t]
<1>3. /\ new \in WalletStruct
      /\ new.owners = wallets[w].owners /\ new.ownerCount = wallets[w].ownerCount
      /\ new.threshold = t
  BY <1>2 DEF WalletStruct
<1>4. GoodWallet(new) /\ Drift(new) = Drift(wallets[w])
  BY <1>1, <1>2, <1>3 DEF GoodWallet, changeThreshold, GetOwnersReturns, Linked, Drift
<1>5. wallets' = [wallets EXCEPT ![w] = new]
  BY <1>1 DEF changeThreshold
<1>6. QED
  BY <1>1, <1>2, <1>3, <1>4, <1>5, RewriteKeeps

LEMMA NameKeeps ==
    ASSUME IInv, NEW w \in Wallet, NEW caller \in Caller, SetName(caller, w)
    PROVE  Keeps(w)
<1>1. PICK name \in Name \union {EmptyString} :
         setOriginalName(caller, w, name) \/ setEnglishName(caller, w, name)
  BY DEF SetName
<1>2. isActiveWallet(w) /\ walletExists(w) /\ name # EmptyString /\ UNCHANGED wallets
  BY <1>1 DEF setOriginalName, setEnglishName, IInv, GoodLicensedUser
<1>3. /\ luws' \in [Wallet -> LicensedUser]
      /\ luws'[w].owner = luws[w].owner
      /\ luws'[w].active = luws[w].active
      /\ luws'[w].originalName \in {name, luws[w].originalName}
      /\ \A v \in Wallet \ {w} : luws'[v] = luws[v]
  BY <1>1 DEF setOriginalName, setEnglishName, IInv, TypeOK, LicensedUser
<1>4. walletExists(w)' /\ isActiveWallet(w)' /\ (MultiOwner(w)' <=> MultiOwner(w))
  BY <1>2, <1>3 DEF walletExists, isActiveWallet, MultiOwner, isSingleOwner
<1>5. /\ ~MultiOwner(w)' => wallets'[w] = EmptyWallet
      /\ MultiOwner(w)' => GoodWallet(wallets[w])'
      /\ Drift(wallets[w])' = Drift(wallets[w])
  BY <1>2, <1>4 DEF IInv, GoodLicensedUser, GoodWallet, GetOwnersReturns, Linked, Drift
<1>6. QED
  BY <1>2, <1>3, <1>4, <1>5 DEF Keeps, GoodLicensedUser, IInv, TypeOK

LEMMA StepInvariant ==
    ASSUME IInv, [Next]_vars
    PROVE  /\ IInv'
           /\ \A w \in Wallet : MultiOwner(w) => Drift(wallets[w])' = Drift(wallets[w])
<1>1. CASE Next
  <2>1. PICK caller \in Caller, w \in Wallet : WalletCall(caller, w)
    BY <1>1 DEF Next
  <2>2. Keeps(w)
    BY <2>1, CreateKeeps, AddKeeps, RemoveKeeps, SwapKeeps, ThresholdKeeps, NameKeeps
       DEF WalletCall
  <2>3. QED
    BY <2>2, KeepsInvariant
<1>2. CASE UNCHANGED vars
  BY <1>2 DEF vars, IInv, TypeOK, GoodLicensedUser, isActiveWallet, walletExists,
     MultiOwner, isSingleOwner, GoodWallet, GetOwnersReturns, Linked, Drift
<1>3. QED
  BY <1>1, <1>2

LEMMA InvariantHolds == Spec => []IInv
<1>1. IInv /\ [Next]_vars => IInv'
  BY StepInvariant
<1>2. QED
  BY InitInvariant, <1>1, PTL DEF Spec

\* The variables always hold values of the contract's types: no sequence of calls
\* takes the uint8 counter or threshold out of range.
THEOREM TypeCorrect == Spec => []TypeOK
<1>1. IInv => TypeOK
  BY DEF IInv
<1>2. QED
  BY InvariantHolds, <1>1, PTL

\* Of the two storages of owners, a licensed user uses one (createWallet,
\* singleToMulti), whatever lists the administrator creates wallets with.
THEOREM OneStorageHolds == Spec => []OneStorage
<1>1. IInv => OneStorage
  BY DEF IInv, TypeOK, WalletStruct, GoodLicensedUser, GoodWallet, ThresholdFits, OneStorage
<1>2. QED
  BY InvariantHolds, <1>1, PTL

\* No sequence of additions, removals, swaps and threshold changes takes the
\* threshold above the owner count or down to zero.
THEOREM ThresholdInRangeHolds == Spec => []ThresholdInRange
<1>1. IInv => ThresholdInRange
  BY DEF IInv, GoodLicensedUser, GoodWallet, ThresholdInRange
<1>2. QED
  BY InvariantHolds, <1>1, PTL

\* getOwners never runs past its array: the list never outgrows the counter, even
\* when createWallet is given more owners than a uint8 counts.
THEOREM OwnersReadableHolds == Spec => []OwnersReadable
<1>1. IInv => OwnersReadable
  <2>1. SUFFICES ASSUME IInv, NEW w \in Wallet, ~MultiOwner(w)
                 PROVE  GetOwnersReturns(wallets[w])
    BY DEF IInv, GoodLicensedUser, GoodWallet, OwnersReadable
  <2>2. wallets[w].ownerCount = 0 /\ Linked(wallets[w]) = {}
    BY <2>1, OnlyMulti DEF Linked
  <2>3. QED
    BY <2>2, FS_EmptySet DEF GetOwnersReturns
<1>2. QED
  BY InvariantHolds, <1>1, PTL

\* Only the setup of the list can make the owner count differ from the number of
\* different owners; every later call keeps the difference.
THEOREM DriftOnlyAtSetupHolds == Spec => DriftOnlyAtSetup
<1>1. IInv /\ [Next]_vars =>
         [\A w \in Wallet : MultiOwner(w) => Drift(wallets[w])' = Drift(wallets[w])]_vars
  BY StepInvariant
<1>2. QED
  BY InvariantHolds, <1>1, PTL DEF Spec, DriftOnlyAtSetup

-----------------------------------------------------------------------------
(* Reading the wallets: isValidSignatureSet and getOwners. *)

\* What checkSignatures accepts: the first `threshold` signers ascend, and each is
\* an owner on the list.
LEMMA CheckedSignaturesAscend ==
    ASSUME NEW w \in Wallet, wallets[w].threshold \in Nat, NEW s,
           \A i \in 1..wallets[w].threshold : s[i] \in Addr,
           checkSignatures(w, s)
    PROVE  LET n == wallets[w].threshold IN
           /\ \A i, j \in 1..n : i < j => s[i] < s[j]
           /\ {s[i] : i \in 1..n} \subseteq Linked(wallets[w])
           /\ Cardinality({s[i] : i \in 1..n}) = n
<1> DEFINE n == wallets[w].threshold
<1>1. \A i \in 1..n : s[i] \in Nat
  BY AddrFacts
<1>2. \A i \in 1..n : /\ s[i] > (IF i = 1 THEN ZERO ELSE s[i - 1])
                      /\ wallets[w].owners[s[i]] # ZERO
                      /\ s[i] # SENTINEL_OWNERS
  BY DEF checkSignatures
<1>3. \A i \in 2..n : s[i - 1] < s[i]
  BY <1>1, <1>2
<1>4. \A i, j \in 1..n : i < j => s[i] < s[j]
  <2> HIDE DEF n
  <2>1. n \in Nat
    BY DEF n
  <2>2. QED
    BY <1>1, <1>3, <2>1, StepwiseAscends
<1>5. \A i \in 1..n : s[i] # ZERO
  <2>1. SUFFICES ASSUME NEW i \in 1..n PROVE s[i] # ZERO
    OBVIOUS
  <2>2. CASE i = 1
    BY <1>1, <1>2, <2>2 DEF ZERO
  <2>3. CASE i # 1
    <3>1. s[i - 1] < s[i] /\ s[i - 1] \in Nat /\ s[i] \in Nat
      BY <1>1, <1>3, <2>3
    <3>2. QED
      BY <3>1 DEF ZERO
  <2>4. QED
    BY <2>2, <2>3
<1>6. {s[i] : i \in 1..n} \subseteq Linked(wallets[w])
  BY <1>2, <1>5 DEF Linked, NoOwner
<1>7. \A i, j \in 1..n : s[i] = s[j] => i = j
  BY <1>1, <1>4
<1>8. Cardinality({s[i] : i \in 1..n}) = n
  <2> DEFINE S == {s[i] : i \in 1..n}
  <2>0. /\ S = {s[i] : i \in 1..n}
        /\ \A x : x \in S <=> \E i \in 1..n : x = s[i]
    OBVIOUS
  <2>1. n \in Nat
    OBVIOUS
  <2> HIDE DEF n, S
  <2>2. Cardinality(S) = n
    BY <1>7, <2>0, <2>1, DistinctValues
  <2>3. QED
    BY <2>0, <2>2
<1>9. QED
  BY <1>4, <1>6, <1>8

\* Signers of threshold length that ascend and are owners on the list are accepted.
LEMMA AscendingOwnersChecked ==
    ASSUME NEW w \in Wallet, wallets[w].threshold \in Nat, wallets[w].threshold >= 1,
           NEW s \in [1..wallets[w].threshold -> Addr],
           \A i, j \in 1..wallets[w].threshold : i < j => s[i] < s[j],
           \A i \in 1..wallets[w].threshold : s[i] \in Linked(wallets[w])
    PROVE  checkSignatures(w, s)
<1> DEFINE n == wallets[w].threshold
<1>1. Len(s) = n
  OBVIOUS
<1>2. \A i \in 1..n : /\ s[i] \in Nat /\ s[i] # 0 /\ s[i] # SENTINEL_OWNERS
                      /\ wallets[w].owners[s[i]] # ZERO
  BY AddrFacts DEF Linked, NoOwner, ZERO
<1>3. \A i \in 1..n : s[i] > (IF i = 1 THEN ZERO ELSE s[i - 1])
  BY <1>2 DEF ZERO
<1>4. QED
  BY <1>1, <1>2, <1>3 DEF checkSignatures

\* Whatever calls a wallet went through: a list of signatures of threshold length is
\* accepted exactly if its signers ascend and are different present owners.
THEOREM SignatureSetIsQuorumHolds == Spec => []SignatureSetIsQuorum
<1>1. ASSUME IInv PROVE SignatureSetIsQuorum
  <2>1. SUFFICES ASSUME NEW w \in Wallet, isActiveWallet(w),
                        NEW s \in [1..getThreshold(w) -> Addr]
                 PROVE  LET n == getThreshold(w) IN
                        isValidSignatureSet(w, s) <=>
                            /\ \A i, j \in 1..n : i < j => s[i] < s[j]
                            /\ QuorumOf(w, {s[i] : i \in 1..n})
    BY DEF SignatureSetIsQuorum
  <2>2. GoodLicensedUser(w) /\ walletExists(w)
    BY <1>1, <2>1 DEF IInv, GoodLicensedUser
  <2>3. CASE isSingleOwner(w)
    <3>1. getThreshold(w) = 1 /\ OwnersOf(w) = {luws[w].owner}
      BY <2>3 DEF getThreshold, OwnersOf
    <3>2. s # << >> /\ {s[i] : i \in 1..1} = {s[1]} /\ Cardinality({s[1]}) = 1
      <4>1. s # << >> /\ {s[i] : i \in 1..1} = {s[1]}
        BY <3>1
      <4>2. QED
        BY <4>1, FS_Singleton
    <3>3. isValidSignatureSet(w, s) <=> s[1] = luws[w].owner
      BY <2>1, <2>3, <3>2 DEF isValidSignatureSet
    <3>4. QuorumOf(w, {s[i] : i \in 1..1}) <=> s[1] = luws[w].owner
      BY <3>1, <3>2 DEF QuorumOf
    <3>5. \A i, j \in 1..1 : i < j => s[i] < s[j]
      OBVIOUS
    <3>6. QED
      BY <3>1, <3>3, <3>4, <3>5
  <2>4. CASE ~isSingleOwner(w)
    <3> DEFINE n == wallets[w].threshold
    <3>1. /\ getThreshold(w) = n /\ OwnersOf(w) = Linked(wallets[w])
          /\ isValidSignatureSet(w, s) <=> checkSignatures(w, s)
      BY <2>1, <2>4 DEF getThreshold, OwnersOf, isValidSignatureSet
    <3>2. n \in Nat /\ n >= 1
      BY <1>1, <2>2, <2>4, Uint8Assumption
         DEF IInv, TypeOK, WalletStruct, Uint8, GoodLicensedUser, MultiOwner, GoodWallet,
             ThresholdFits
    <3>3. ASSUME checkSignatures(w, s)
          PROVE  /\ \A i, j \in 1..n : i < j => s[i] < s[j]
                 /\ QuorumOf(w, {s[i] : i \in 1..n})
      BY <3>1, <3>2, <3>3, CheckedSignaturesAscend DEF QuorumOf
    <3>4. ASSUME \A i, j \in 1..n : i < j => s[i] < s[j],
                 QuorumOf(w, {s[i] : i \in 1..n})
          PROVE  checkSignatures(w, s)
      BY <3>1, <3>2, <3>4, AscendingOwnersChecked DEF QuorumOf
    <3>5. QED
      BY <3>1, <3>3, <3>4
  <2>5. QED
    BY <2>3, <2>4
<1>2. QED
  BY InvariantHolds, <1>1, PTL

\* One turn of the loop of getOwners: what it has after n turns from what it had before.
Turn(wallet, before, n) ==
    LET last == IF before = << >> THEN SENTINEL_OWNERS ELSE before[Len(before)]
        next == wallet.owners[last]
    IN  IF Len(before) < n - 1 \/ next = SENTINEL_OWNERS THEN before ELSE Append(before, next)

Turns(wallet, bound, visit) ==
    visit = [n \in 0..bound |-> IF n = 0 THEN << >> ELSE Turn(wallet, visit[n - 1], n)]

\* The recursion of Visit defines a function: turn by turn, each from the one before.
LEMMA TurnsExist ==
    ASSUME NEW wallet, NEW bound \in Nat
    PROVE  \E visit : Turns(wallet, bound, visit)
<1>1. SUFFICES ASSUME ~ \E visit : Turns(wallet, bound, visit) PROVE FALSE
  OBVIOUS
<1> DEFINE T == {m \in Nat : ~ \E visit : Turns(wallet, m, visit)}
<1>2. T \in SUBSET Nat /\ T # {}
  BY <1>1
<1>3. PICK least \in T : \A k \in T : least <= k
  <2> HIDE DEF T
  <2>1. QED
    BY <1>2, LeastNatural
<1>4. CASE least = 0
  <2> DEFINE visit == [n \in 0..0 |-> << >>]
  <2>1. visit = [n \in 0..0 |-> IF n = 0 THEN << >> ELSE Turn(wallet, visit[n - 1], n)]
    OBVIOUS
  <2>2. QED
    BY <1>4, <2>1 DEF Turns
<1>5. CASE least # 0
  <2>1. least \in Nat /\ least - 1 \in Nat /\ least - 1 \notin T
    BY <1>3, <1>5
  <2>2. PICK before : Turns(wallet, least - 1, before)
    BY <2>1
  <2> DEFINE visit == [n \in 0..least |-> IF n = least THEN Turn(wallet, before[least - 1], least)
                                          ELSE before[n]]
  <2>3. \A n \in 0..(least - 1) :
           before[n] = IF n = 0 THEN << >> ELSE Turn(wallet, before[n - 1], n)
    BY <2>2 DEF Turns
  <2>4. \A n \in 0..least :
           visit[n] = IF n = 0 THEN << >> ELSE Turn(wallet, visit[n - 1], n)
    <3>1. SUFFICES ASSUME NEW n \in 0..least
                   PROVE  visit[n] = IF n = 0 THEN << >> ELSE Turn(wallet, visit[n - 1], n)
      OBVIOUS
    <3>2. CASE n = least
      <4>1. n # 0 /\ n - 1 \in 0..least /\ n - 1 # least
        BY <1>5, <2>1, <3>2
      <4>2. visit[n - 1] = before[least - 1]
        BY <3>2, <4>1
      <4>3. QED
        BY <3>2, <4>1, <4>2
    <3>3. CASE n # least
      <4>1. n \in 0..(least - 1) /\ visit[n] = before[n]
        BY <2>1, <3>3
      <4>2. n # 0 => n - 1 \in 0..least /\ n - 1 # least
        BY <2>1, <3>3
      <4>3. n # 0 => visit[n - 1] = before[n - 1]
        BY <4>2
      <4>4. QED
        BY <2>3, <4>1, <4>3
    <3>4. QED
      BY <3>2, <3>3
  <2>5. visit = [n \in 0..least |-> visit[n]]
    OBVIOUS
  <2>6. Turns(wallet, least, visit)
    <3> HIDE DEF visit
    <3>1. QED
      BY <2>4, <2>5 DEF Turns
  <2>7. QED
    BY <2>6
<1>6. QED
  BY <1>4, <1>5

\* What the loop has collected after n turns: the owners that follow one another from
\* the sentinel, n of them, or fewer if the list ended.
Collected(o, list, n) ==
    /\ list \in Seq(Addr)
    /\ \A i \in 1..Len(list) : list[i] \notin NoOwner /\ o[list[i]] # ZERO
    /\ list # << >> => list[1] = o[SENTINEL_OWNERS]
    /\ \A i \in 2..Len(list) : list[i] = o[list[i - 1]]
    /\ Len(list) <= n
    /\ Len(list) < n =>
          o[IF list = << >> THEN SENTINEL_OWNERS ELSE list[Len(list)]] = SENTINEL_OWNERS

LEMMA TurnCollects ==
    ASSUME NEW wallet, Ring(wallet.owners), NEW n \in Nat, n > 0,
           NEW list, Collected(wallet.owners, list, n - 1)
    PROVE  Collected(wallet.owners, Turn(wallet, list, n), n)
<1> DEFINE o == wallet.owners
           last == IF list = << >> THEN SENTINEL_OWNERS ELSE list[Len(list)]
           next == o[last]
<1>1. Len(list) \in Nat /\ Len(list) <= n - 1 /\ list \in Seq(Addr)
  BY DEF Collected
<1>2. last \in Addr /\ next \in Addr /\ next # ZERO
  <2>1. CASE list = << >>
    BY <2>1, AddrFacts DEF Ring
  <2>2. CASE list # << >>
    <3>1. Len(list) \in 1..Len(list) /\ last = list[Len(list)]
      BY <1>1, <2>2
    <3>2. last \in Addr /\ o[last] # ZERO
      BY <1>1, <3>1 DEF Collected
    <3>3. QED
      BY <3>2 DEF Ring
  <2>3. QED
    BY <2>1, <2>2
<1>3. CASE Len(list) < n - 1 \/ next = SENTINEL_OWNERS
  <2>1. Turn(wallet, list, n) = list
    BY <1>3 DEF Turn
  <2>2. o[last] = SENTINEL_OWNERS
    BY <1>3 DEF Collected
  <2>3. QED
    BY <1>1, <2>1, <2>2 DEF Collected
<1>4. CASE ~(Len(list) < n - 1 \/ next = SENTINEL_OWNERS)
  <2> DEFINE more == Append(list, next)
  <2>1. Turn(wallet, list, n) = more
    BY <1>4 DEF Turn
  <2>2. /\ more \in Seq(Addr) /\ Len(more) = n /\ Len(list) = n - 1
        /\ more[n] = next
        /\ \A i \in 1..(n - 1) : more[i] = list[i]
    BY <1>1, <1>2, <1>4
  <2>3. next \notin NoOwner /\ o[next] # ZERO
    BY <1>2, <1>4 DEF Ring, NoOwner
  <2>4. \A i \in 1..n : more[i] \notin NoOwner /\ o[more[i]] # ZERO
    <3>1. SUFFICES ASSUME NEW i \in 1..n PROVE more[i] \notin NoOwner /\ o[more[i]] # ZERO
      OBVIOUS
    <3>2. CASE i = n
      BY <2>2, <2>3, <3>2
    <3>3. CASE i # n
      BY <2>2, <3>3 DEF Collected
    <3>4. QED
      BY <3>2, <3>3
  <2>5. more[1] = o[SENTINEL_OWNERS]
    <3>1. CASE n = 1
      BY <1>1, <2>2, <3>1
    <3>2. CASE n # 1
      BY <1>1, <2>2, <3>2 DEF Collected
    <3>3. QED
      BY <3>1, <3>2
  <2>6. \A i \in 2..n : more[i] = o[more[i - 1]]
    <3>1. SUFFICES ASSUME NEW i \in 2..n PROVE more[i] = o[more[i - 1]]
      OBVIOUS
    <3>2. CASE i = n
      BY <1>1, <2>2, <3>2
    <3>3. CASE i # n
      BY <2>2, <3>3 DEF Collected
    <3>4. QED
      BY <3>2, <3>3
  <2>7. QED
    <3> HIDE DEF more, o
    <3>1. Collected(o, more, n)
      BY <2>2, <2>4, <2>5, <2>6 DEF Collected
    <3>2. QED
      BY <2>1, <3>1 DEF o
<1>5. QED
  BY <1>3, <1>4

\* Visit is what the loop has after more turns than there are addresses.
LEMMA VisitCollects ==
    ASSUME NEW wallet, Ring(wallet.owners)
    PROVE  Collected(wallet.owners, Visit(wallet), Cardinality(Addr) + 1)
<1> DEFINE bound == Cardinality(Addr) + 1
           visit == CHOOSE visit : Turns(wallet, bound, visit)
<1>1. IsFiniteSet(Addr) /\ Cardinality(Addr) \in Nat /\ bound \in Nat
  <2>1. Addr = (Owner \union {ZERO}) \union {SENTINEL_OWNERS}
    BY DEF Addr
  <2>2. IsFiniteSet(Addr)
    BY <2>1, OwnerAssumption, FS_AddElement
  <2>3. QED
    BY <2>2, FS_CardinalityType
<1>2. Visit(wallet) = visit[bound]
  BY DEF Visit, Turns, Turn
<1>3. Turns(wallet, bound, visit)
  <2> HIDE DEF bound
  <2>1. QED
    BY <1>1, TurnsExist
<1> HIDE DEF bound, visit
<1>4. \A n \in 0..bound :
         visit[n] = IF n = 0 THEN << >> ELSE Turn(wallet, visit[n - 1], n)
  BY <1>3 DEF Turns
<1>5. \A n \in 0..bound : Collected(wallet.owners, visit[n], n)
  <2>1. SUFFICES ASSUME NEW m \in 0..bound, ~Collected(wallet.owners, visit[m], m)
                 PROVE  FALSE
    OBVIOUS
  <2> DEFINE T == {n \in 0..bound : ~Collected(wallet.owners, visit[n], n)}
  <2>2. T \in SUBSET Nat /\ T # {}
    BY <1>1, <2>1
  <2>3. PICK least \in T : \A k \in T : least <= k
    <3> HIDE DEF T
    <3>1. QED
      BY <2>2, LeastNatural
  <2>4. CASE least = 0
    <3>1. visit[0] = << >>
      BY <1>1, <1>4
    <3>2. Collected(wallet.owners, << >>, 0)
      BY DEF Collected
    <3>3. QED
      BY <2>3, <2>4, <3>1, <3>2
  <2>5. CASE least # 0
    <3>1. least \in Nat /\ least > 0 /\ least - 1 \in 0..bound /\ least - 1 \notin T
      BY <1>1, <2>3, <2>5
    <3>2. Collected(wallet.owners, visit[least - 1], least - 1)
      BY <3>1
    <3>3. visit[least] = Turn(wallet, visit[least - 1], least)
      BY <1>4, <2>5
    <3>4. Collected(wallet.owners, visit[least], least)
      BY <3>1, <3>2, <3>3, TurnCollects
    <3>5. QED
      BY <3>4
  <2>6. QED
    BY <2>4, <2>5
<1>6. QED
  BY <1>1, <1>2, <1>5 DEF bound

\* getOwners of a ring lists every owner on it, once.
LEMMA VisitListsRing ==
    ASSUME NEW wallet, Ring(wallet.owners)
    PROVE  /\ {Visit(wallet)[i] : i \in DOMAIN Visit(wallet)} = Linked(wallet)
           /\ Len(Visit(wallet)) = Cardinality(Linked(wallet))
           /\ Lists(Visit(wallet), Linked(wallet))
<1> DEFINE o == wallet.owners
           list == Visit(wallet)
           n == Len(list)
           S == {list[i] : i \in 1..n}
<1>1. Collected(o, list, Cardinality(Addr) + 1)
  BY VisitCollects
<1>2. PICK rank \in [Addr -> Nat] : Ascends(o, rank)
  BY DEF Ring
<1> HIDE DEF list
<1>3. /\ n \in Nat /\ list \in Seq(Addr) /\ DOMAIN list = 1..n
      /\ \A i \in 1..n : list[i] \in Addr
  BY <1>1 DEF Collected
<1>4. \A i \in 2..n : rank[list[i - 1]] < rank[list[i]]
  <2>1. SUFFICES ASSUME NEW i \in 2..n PROVE rank[list[i - 1]] < rank[list[i]]
    OBVIOUS
  <2>2. /\ i \in 1..n /\ i - 1 \in 1..n
        /\ list[i] = o[list[i - 1]] /\ list[i] \notin NoOwner
    BY <1>1, <1>3 DEF Collected
  <2>3. QED
    BY <1>2, <1>3, <2>2 DEF Ascends
<1>5. \A i, j \in 1..n : list[i] = list[j] => i = j
  <2> DEFINE s == [i \in 1..n |-> rank[list[i]]]
  <2>1. \A i \in 1..n : s[i] \in Nat /\ s[i] = rank[list[i]]
    BY <1>2, <1>3
  <2>2. \A i \in 2..n : s[i - 1] < s[i]
    BY <1>3, <1>4, <2>1
  <2> HIDE DEF s, n
  <2>3. \A i, j \in 1..n : i < j => s[i] < s[j]
    BY <1>3, <2>1, <2>2, StepwiseAscends
  <2>4. QED
    BY <1>3, <2>1, <2>3
<1>6. IsFiniteSet(S) /\ Cardinality(S) = n
  <2>1. \A x : x \in S <=> \E i \in 1..n : x = list[i]
    OBVIOUS
  <2>2. n \in Nat /\ \A i, j \in 1..n : list[i] = list[j] => i = j
    BY <1>3, <1>5
  <2> HIDE DEF S, n
  <2>3. QED
    BY <2>1, <2>2, DistinctValues
<1>7. S \subseteq Linked(wallet) /\ Linked(wallet) \subseteq Addr
  BY <1>1, <1>3 DEF Linked, Collected
<1>8. IsFiniteSet(Addr) /\ Cardinality(Addr) \in Nat
  <2>1. Addr = (Owner \union {ZERO}) \union {SENTINEL_OWNERS}
    BY DEF Addr
  <2>2. IsFiniteSet(Addr)
    BY <2>1, OwnerAssumption, FS_AddElement
  <2>3. QED
    BY <2>2, FS_CardinalityType
<1>9. n <= Cardinality(Addr)
  <2> HIDE DEF S, n
  <2>1. S \in SUBSET Addr
    BY <1>7
  <2>2. QED
    BY <1>6, <1>8, <2>1, FS_Subset
\* The loop came back to the sentinel.
<1>10. o[IF list = << >> THEN SENTINEL_OWNERS ELSE list[n]] = SENTINEL_OWNERS
  BY <1>1, <1>3, <1>8, <1>9 DEF Collected
<1>11. \A p \in Addr : p \in S \union {SENTINEL_OWNERS} => o[p] \in S \union {SENTINEL_OWNERS}
  <2>1. SUFFICES ASSUME NEW p \in S \union {SENTINEL_OWNERS}
                 PROVE  o[p] \in S \union {SENTINEL_OWNERS}
    OBVIOUS
  <2>2. CASE list = << >>
    <3>1. S = {} /\ p = SENTINEL_OWNERS
      BY <1>3, <2>2
    <3>2. QED
      BY <1>10, <2>2, <3>1
  <2>3. CASE list # << >> /\ p = SENTINEL_OWNERS
    <3>1. n \in 1..n /\ 1 \in 1..n /\ list[1] = o[p]
      BY <1>1, <1>3, <2>3 DEF Collected
    <3>2. QED
      BY <3>1
  <2>4. CASE list # << >> /\ p \in S
    <3>1. PICK i \in 1..n : p = list[i]
      BY <2>4
    <3>2. CASE i = n
      BY <1>10, <2>4, <3>1, <3>2
    <3>3. CASE i # n
      <4>1. i + 1 \in 2..n /\ i + 1 \in 1..n /\ (i + 1) - 1 = i
        <5> HIDE DEF S, n
        <5>1. QED
          BY <1>3, <3>3
      <4>2. list[i + 1] = o[list[i]]
        BY <1>1, <4>1 DEF Collected
      <4>3. QED
        BY <3>1, <4>1, <4>2
    <3>4. QED
      BY <3>2, <3>3
  <2>5. QED
    BY <2>1, <2>2, <2>3, <2>4
\* Of the owners that it missed, the one of least rank would have a predecessor that
\* it missed too.
<1>12. Linked(wallet) \subseteq S
  <2>1. SUFFICES ASSUME NEW a \in Linked(wallet), a \notin S PROVE FALSE
    OBVIOUS
  <2> DEFINE T == {rank[b] : b \in Linked(wallet) \ S}
  <2>2. T \in SUBSET Nat /\ T # {}
    BY <1>2, <1>7, <2>1
  <2>3. PICK least \in T : \A k \in T : least <= k
    <3> HIDE DEF T
    <3>1. QED
      BY <2>2, LeastNatural
  <2>4. PICK b \in Linked(wallet) \ S : least = rank[b]
    OBVIOUS
  <2>5. b \in Addr /\ b \notin NoOwner /\ o[b] # ZERO
    BY <2>4 DEF Linked
  <2>6. PICK p \in Addr : o[p] = b
    BY <2>5 DEF Ring
  <2>7. rank[p] < rank[b] /\ rank[p] \in Nat /\ rank[b] \in Nat
    BY <1>2, <2>5, <2>6 DEF Ascends
  <2>8. b \notin S \union {SENTINEL_OWNERS}
    BY <2>4, <2>5 DEF NoOwner
  <2>9. p \notin S \union {SENTINEL_OWNERS}
    BY <1>11, <2>6, <2>8
  <2>10. p \in Linked(wallet) \ S
    <3>1. p # ZERO
      BY <2>5, <2>6 DEF Ring, NoOwner
    <3>2. o[p] # ZERO
      BY <2>5, <2>6 DEF NoOwner
    <3>3. QED
      BY <2>9, <3>1, <3>2 DEF Linked, NoOwner
  <2>11. rank[p] \in T
    BY <2>10
  <2>12. least <= rank[p]
    BY <2>3, <2>11
  <2>13. QED
    BY <2>4, <2>7, <2>12
<1>13. S = Linked(wallet)
  BY <1>7, <1>12
<1>14. S = {list[i] : i \in DOMAIN list}
  BY <1>3
<1>15. Lists(list, Linked(wallet))
  <2>1. IsList(list)
    BY <1>3 DEF IsList
  <2>2. \A a : a \in Linked(wallet) <=> \E i \in 1..n : list[i] = a
    BY <1>13
  <2>3. QED
    BY <1>5, <2>1, <2>2 DEF Lists
<1>16. QED
  BY <1>6, <1>13, <1>14, <1>15 DEF list

\* Whatever calls a wallet went through: getOwners lists the addresses that isOwner
\* accepts, each once, though the list is one that callers cut and join by naming a
\* predecessor.
THEOREM ListIsRingHolds == Spec => []ListIsRing
<1>1. ASSUME IInv PROVE ListIsRing
  <2>1. SUFFICES ASSUME NEW w \in Wallet, walletExists(w)
                 PROVE  /\ {getOwners(w)[i] : i \in DOMAIN getOwners(w)} = OwnersOf(w)
                        /\ Len(getOwners(w)) = Cardinality(OwnersOf(w))
    BY Zenon DEF ListIsRing
  <2>2. CASE isSingleOwner(w)
    <3> DEFINE list == <<luws[w].owner>>
    <3>1. getOwners(w) = list /\ OwnersOf(w) = {luws[w].owner}
      BY <2>2 DEF getOwners, OwnersOf
    <3>2. {list[i] : i \in DOMAIN list} = {luws[w].owner} /\ Len(list) = 1
      OBVIOUS
    <3>3. Cardinality({luws[w].owner}) = 1
      BY FS_Singleton
    <3> HIDE DEF list
    <3>4. QED
      BY <3>1, <3>2, <3>3
  <2>3. CASE ~isSingleOwner(w)
    <3>1. Ring(wallets[w].owners)
      BY <1>1, <2>1, <2>3 DEF IInv, GoodLicensedUser, MultiOwner, GoodWallet
    <3>2. getOwners(w) = Visit(wallets[w]) /\ OwnersOf(w) = Linked(wallets[w])
      BY <2>3 DEF getOwners, OwnersOf
    <3>3. QED
      BY Zenon, <3>1, <3>2, VisitListsRing
  <2>4. QED
    BY <2>2, <2>3
<1>2. QED
  BY InvariantHolds, <1>1, PTL

-----------------------------------------------------------------------------
(* The index of the wallets.  As in the other indexes, what the events in the  *)
(* log will have made of the database is determined already, and the invariant *)
(* says that this is what the contract has now.                                *)

\* A list without its first entry of an owner.
LEMMA WithoutFirstIsList ==
    ASSUME NEW L, IsList(L), NEW a
    PROVE  IsList(Index!WithoutFirst(L, a))
<1>1. PICK E : L \in Seq(E)
  BY DEF IsList
<1> DEFINE places == {i \in 1..Len(L) : L[i] = a}
           first == CHOOSE i \in places : \A j \in places : i <= j
<1>2. CASE places = {}
  <2>1. Index!WithoutFirst(L, a) = L
    BY <1>2 DEF Index!WithoutFirst
  <2>2. QED
    BY <2>1
<1>3. CASE places # {}
  <2>1. \E i \in places : \A j \in places : i <= j
    <3>1. places \in SUBSET Nat
      BY <1>1
    <3> HIDE DEF places
    <3>2. QED
      BY <1>3, <3>1, LeastNatural
  <2>2. first \in places
    BY <2>1
  <2>3. first \in 1..Len(L) /\ Len(L) \in Nat
    BY <1>1, <2>2
  <2>4. Index!WithoutFirst(L, a) = SubSeq(L, 1, first - 1) \o SubSeq(L, first + 1, Len(L))
    BY <1>3 DEF Index!WithoutFirst
  <2> HIDE DEF first, places
  <2>5. SubSeq(L, 1, first - 1) \in Seq(E) /\ SubSeq(L, first + 1, Len(L)) \in Seq(E)
    BY <1>1, <2>3, SubSeqProperties
  <2>6. SubSeq(L, 1, first - 1) \o SubSeq(L, first + 1, Len(L)) \in Seq(E)
    BY <2>5
  <2>7. QED
    BY <2>4, <2>6 DEF IsList
<1>4. QED
  BY <1>2, <1>3

LEMMA WithoutFirstLists ==
    ASSUME NEW L, NEW S, Lists(L, S), NEW a \in S
    PROVE  Lists(Index!WithoutFirst(L, a), S \ {a})
<1> DEFINE n == Len(L)
           places == {i \in 1..n : L[i] = a}
           M == Index!WithoutFirst(L, a)
<1>1. /\ IsList(L) /\ \A x : x \in S <=> \E i \in 1..n : L[i] = x
      /\ \A i, j \in 1..n : L[i] = L[j] => i = j
  BY DEF Lists
<1>2. PICK E : L \in Seq(E)
  BY <1>1 DEF IsList
<1>3. n \in Nat
  BY <1>2
<1>4. PICK k \in 1..n : L[k] = a
  BY <1>1
<1>5. places = {k}
  BY <1>1, <1>4
<1>6. (CHOOSE i \in places : \A j \in places : i <= j) = k
  BY <1>5
<1>7. M = SubSeq(L, 1, k - 1) \o SubSeq(L, k + 1, n)
  BY <1>5, <1>6 DEF Index!WithoutFirst
<1> DEFINE A == SubSeq(L, 1, k - 1)
           B == SubSeq(L, k + 1, n)
<1>8. /\ IsList(A) /\ Len(A) = k - 1 /\ \A i \in 1..k - 1 : A[i] = L[i]
      /\ IsList(B) /\ Len(B) = n - k /\ \A i \in 1..n - k : B[i] = L[i + k]
  <2>1. /\ A \in Seq(E) /\ Len(A) = k - 1 /\ \A i \in 1..k - 1 : A[i] = L[i]
    BY <1>2, <1>3, <1>4
  <2>2. /\ B \in Seq(E) /\ Len(B) = n - k /\ \A i \in 1..n - k : B[i] = L[i + k]
    BY <1>2, <1>3, <1>4
  <2> HIDE DEF A, B
  <2>3. QED
    BY <2>1, <2>2 DEF IsList
<1> HIDE DEF A, B, M, places
<1>9. /\ IsList(M) /\ Len(M) = n - 1
      /\ \A i \in 1..k - 1 : M[i] = L[i]
      /\ \A i \in k..n - 1 : M[i] = L[i + 1]
  <2>1. /\ IsList(A \o B) /\ Len(A \o B) = Len(A) + Len(B)
        /\ \A i \in 1..Len(A) : (A \o B)[i] = A[i]
        /\ \A i \in Len(A) + 1..Len(A) + Len(B) : (A \o B)[i] = B[i - Len(A)]
    BY <1>8, ConcatFacts
  <2>2. M = A \o B
    BY <1>7 DEF A, B
  <2>3. /\ IsList(M) /\ Len(M) = n - 1
        /\ \A i \in 1..k - 1 : M[i] = A[i]
        /\ \A i \in k..n - 1 : M[i] = B[i - (k - 1)]
    <3>1. k - 1 + (n - k) = n - 1 /\ k - 1 + 1 = k
      BY <1>3, <1>4
    <3>2. QED
      BY <1>8, <2>1, <2>2, <3>1
  <2>4. \A i \in k..n - 1 : i - (k - 1) \in 1..n - k /\ i - (k - 1) + k = i + 1
    BY <1>3, <1>4
  <2>5. QED
    BY <1>8, <2>3, <2>4
<1> HIDE DEF n
<1>10. \A i \in 1..n - 1 : \/ i \in 1..k - 1 /\ i \in 1..n /\ i # k /\ M[i] = L[i]
                           \/ i \in k..n - 1 /\ i + 1 \in 1..n /\ i + 1 # k /\ M[i] = L[i + 1]
  BY <1>3, <1>4, <1>9
<1>11. ASSUME NEW x
       PROVE  x \in S \ {a} <=> \E i \in 1..n - 1 : M[i] = x
  <2>1. ASSUME x \in S \ {a}
        PROVE  \E i \in 1..n - 1 : M[i] = x
    <3>1. PICK i \in 1..n : L[i] = x
      BY <1>1, <2>1 DEF n
    <3>2. i # k
      BY <1>4, <2>1, <3>1
    <3>3. CASE i < k
      <4>1. i \in 1..k - 1 /\ i \in 1..n - 1
        BY <1>3, <1>4, <3>3
      <4>2. QED
        BY <1>9, <3>1, <4>1
    <3>4. CASE i > k
      <4>1. i - 1 \in k..n - 1 /\ i - 1 \in 1..n - 1 /\ i - 1 + 1 = i
        BY <1>3, <1>4, <3>4
      <4>2. QED
        BY <1>9, <3>1, <4>1
    <3>5. QED
      BY <1>3, <1>4, <3>2, <3>3, <3>4
  <2>2. ASSUME NEW i \in 1..n - 1, M[i] = x
        PROVE  x \in S \ {a}
    <3>1. PICK j \in 1..n : j # k /\ L[j] = x
      BY <1>10, <2>2
    <3>2. x \in S
      BY <1>1, <3>1 DEF n
    <3>3. x # a
      BY <1>1, <1>4, <3>1 DEF n
    <3>4. QED
      BY <3>2, <3>3
  <2>3. QED
    BY <2>1, <2>2
<1>12. ASSUME NEW i \in 1..n - 1, NEW j \in 1..n - 1, M[i] = M[j]
       PROVE  i = j
  <2>1. \A p, q \in 1..n : L[p] = L[q] => p = q
    BY <1>1 DEF n
  <2>2. QED
    BY <1>3, <1>4, <1>10, <1>12, <2>1
<1>13. QED
  BY <1>9, <1>11, <1>12 DEF Lists, M

LEMMA SameOccurrences ==
    ASSUME NEW L, NEW M, NEW S, Lists(L, S), Lists(M, S), NEW a
    PROVE  Occurrences(L, a) = Occurrences(M, a)
<1>1. ASSUME NEW K, Lists(K, S)
      PROVE  Occurrences(K, a) = IF a \in S THEN 1 ELSE 0
  <2> DEFINE places == {i \in DOMAIN K : K[i] = a}
  <2>1. DOMAIN K = 1..Len(K)
    BY <1>1 DEF Lists, IsList
  <2>2. CASE a \in S
    <3>1. PICK k \in 1..Len(K) : K[k] = a
      BY <1>1, <2>2 DEF Lists
    <3>2. places = {k}
      BY <1>1, <2>1, <3>1 DEF Lists
    <3>3. Cardinality({k}) = 1
      BY FS_Singleton
    <3>4. QED
      BY <2>2, <3>2, <3>3 DEF Occurrences
  <2>3. CASE a \notin S
    <3>1. places = {}
      BY <1>1, <2>1, <2>3 DEF Lists
    <3>2. QED
      BY <2>3, <3>1, FS_EmptySet DEF Occurrences
  <2>4. QED
    BY <2>2, <2>3
<1>2. QED
  BY <1>1

LEMMA OneListed ==
    ASSUME NEW a
    PROVE  Lists(<<a>>, {a})
<1> DEFINE L == <<a>>
<1>1. L \in Seq({a}) /\ Len(L) = 1 /\ L[1] = a
  OBVIOUS
<1> HIDE DEF L
<1>2. IsList(L)
  BY <1>1 DEF IsList
<1>3. Lists(L, {a})
  BY <1>1, <1>2 DEF Lists
<1>4. QED
  BY <1>3 DEF L

LEMMA TwoListed ==
    ASSUME NEW a, NEW b, a # b
    PROVE  Lists(<<a, b>>, {a, b})
<1> DEFINE L == <<a, b>>
<1>1. L \in Seq({a, b}) /\ Len(L) = 2 /\ L[1] = a /\ L[2] = b
  OBVIOUS
<1> HIDE DEF L
<1>2. IsList(L)
  BY <1>1 DEF IsList
<1>3. \A x : x \in {a, b} <=> \E i \in 1..2 : L[i] = x
  BY <1>1
<1>4. \A i, j \in 1..2 : L[i] = L[j] => i = j
  BY <1>1
<1>5. QED
  BY <1>1, <1>2, <1>3, <1>4 DEF Lists, L

-----------------------------------------------------------------------------

\* What handling an entry of the log makes of a database.
Handled(d, x) == Index!HandleWalletEvent(d, x[1], x[2])

Replays(S, d, L, later) ==
    /\ S[0] = d /\ S[Len(L)] = later
    /\ \A i \in 1..Len(L) : S[i] = Handled(S[i - 1], L[i])

\* The entries of the list make later out of d.
Leads(d, L, later) == IsList(L) /\ \E S : Replays(S, d, L, later)

LEMMA LeadsNothing ==
    ASSUME NEW d
    PROVE  Leads(d, << >>, d)
<1> DEFINE S == [i \in {0} |-> d]
<1>1. S[0] = d
  OBVIOUS
<1> HIDE DEF S
<1>2. Replays(S, d, << >>, d)
  BY <1>1 DEF Replays
<1>3. QED
  BY <1>2, ListFacts DEF Leads

LEMMA LeadsEmpty ==
    ASSUME NEW d, NEW later, Leads(d, << >>, later)
    PROVE  later = d
BY DEF Leads, Replays

LEMMA LeadsMore ==
    ASSUME NEW d, NEW L, NEW mid, Leads(d, L, mid), NEW x
    PROVE  Leads(d, Append(L, x), Handled(mid, x))
<1>1. PICK S : Replays(S, d, L, mid)
  BY DEF Leads
<1> DEFINE n == Len(L)
           M == Append(L, x)
           T == [i \in 0..n + 1 |-> IF i = n + 1 THEN Handled(mid, x) ELSE S[i]]
<1>2. n \in Nat
  BY ListFacts DEF Leads
<1>3. /\ IsList(M) /\ Len(M) = n + 1 /\ M[n + 1] = x /\ \A i \in 1..n : M[i] = L[i]
  BY ListFacts DEF Leads
<1>4. T[n + 1] = Handled(mid, x) /\ \A i \in 0..n : T[i] = S[i]
  BY <1>2
<1> HIDE DEF T, M
<1>5. T[0] = d
  BY <1>1, <1>2, <1>4 DEF Replays
<1>6. ASSUME NEW i \in 1..n + 1
      PROVE  T[i] = Handled(T[i - 1], M[i])
  <2>1. CASE i = n + 1
    <3>1. T[i - 1] = mid /\ T[i] = Handled(mid, x) /\ M[i] = x
      BY <1>1, <1>2, <1>3, <1>4, <2>1 DEF Replays
    <3>2. QED
      BY <3>1
  <2>2. CASE i \in 1..n
    <3>1. T[i - 1] = S[i - 1] /\ T[i] = S[i] /\ M[i] = L[i]
      BY <1>2, <1>3, <1>4, <2>2
    <3>2. QED
      BY <1>1, <2>2, <3>1 DEF Replays
  <2>3. QED
    BY <1>2, <2>1, <2>2
<1>7. Replays(T, d, M, Handled(mid, x))
  BY <1>3, <1>4, <1>5, <1>6 DEF Replays
<1>8. QED
  BY <1>3, <1>7 DEF Leads, M

LEMMA LeadsLess ==
    ASSUME NEW d, NEW L, NEW later, Leads(d, L, later), L # << >>
    PROVE  Leads(Handled(d, L[1]), Tail(L), later)
<1>1. PICK S : Replays(S, d, L, later)
  BY DEF Leads
<1> DEFINE n == Len(L)
           M == Tail(L)
           T == [i \in 0..n - 1 |-> S[i + 1]]
<1>2. n \in Nat /\ n >= 1
  BY ListFacts DEF Leads
<1>3. /\ IsList(M) /\ Len(M) = n - 1 /\ \A i \in 1..n - 1 : M[i] = L[i + 1]
  BY ListFacts DEF Leads
<1>4. \A i \in 0..n - 1 : T[i] = S[i + 1]
  OBVIOUS
<1> HIDE DEF T, M
<1>5. T[0] = Handled(d, L[1]) /\ T[n - 1] = later
  <2>1. 1 \in 1..n /\ 1 - 1 = 0 /\ 0 \in 0..n - 1 /\ n - 1 \in 0..n - 1 /\ n - 1 + 1 = n
    BY <1>2
  <2>2. QED
    BY <1>1, <1>4, <2>1 DEF Replays
<1>6. ASSUME NEW i \in 1..n - 1
      PROVE  T[i] = Handled(T[i - 1], M[i])
  <2>1. i + 1 \in 1..n /\ i + 1 - 1 = i /\ i - 1 \in 0..n - 1 /\ i \in 0..n - 1 /\ i - 1 + 1 = i
    BY <1>2
  <2>2. T[i - 1] = S[i] /\ T[i] = S[i + 1] /\ M[i] = L[i + 1]
    BY <1>3, <1>4, <2>1
  <2>3. S[i + 1] = Handled(S[i], L[i + 1])
    BY <1>1, <2>1 DEF Replays
  <2>4. QED
    BY <2>2, <2>3
<1>7. Replays(T, Handled(d, L[1]), M, later)
  BY <1>3, <1>5, <1>6 DEF Replays
<1>8. QED
  BY <1>3, <1>7 DEF Leads, M

At(e) == <<e, time>>

LEMMA EmitOne ==
    ASSUME UNCHANGED db, NEW d, Leads(db, log, d), NEW a, Emit(<<a>>)
    PROVE  Leads(db', log', Handled(d, At(a)))
<1>1. log' = log \o <<At(a)>>
  BY DEF Emit, At
<1>2. log' = Append(log, At(a))
  BY <1>1, AppendOnce DEF Leads
<1>3. QED
  BY <1>2, LeadsMore

LEMMA EmitTwo ==
    ASSUME UNCHANGED db, NEW d, Leads(db, log, d), NEW a, NEW b, Emit(<<a, b>>)
    PROVE  Leads(db', log', Handled(Handled(d, At(a)), At(b)))
<1> DEFINE L == Append(log, At(a))
<1>1. log' = log \o <<At(a), At(b)>>
  BY DEF Emit, At
<1>2. <<At(a), At(b)>> = <<At(a)>> \o <<At(b)>> /\ IsList(<<At(b)>>)
  <2>1. <<At(b)>> \in Seq({At(b)})
    OBVIOUS
  <2>2. QED
    BY Zenon, <2>1, SeqIsList, PairConcat
<1>3. log' = L \o <<At(b)>>
  BY <1>1, <1>2, ConcatAppends DEF Leads
<1>4. Leads(db, L, Handled(d, At(a)))
  BY LeadsMore
<1> HIDE DEF L
<1>5. log' = Append(L, At(b))
  BY <1>3, <1>4, AppendOnce DEF Leads
<1>6. QED
  BY <1>4, <1>5, LeadsMore

-----------------------------------------------------------------------------

\* The wallet w is saved.
SavesWallet(d, w, luw, later) ==
    /\ DOMAIN later = {LUW}
    /\ DOMAIN later[LUW] = DOMAIN d[LUW] \union {w}
    /\ later[LUW][w] = luw
    /\ \A v \in DOMAIN d[LUW] : v # w => later[LUW][v] = d[LUW][v]

LEMMA SaveSavesWallet ==
    ASSUME NEW d, DOMAIN d = {LUW}, NEW w, NEW luw
    PROVE  SavesWallet(d, w, luw, Index!Save(d, LUW, w, luw))
BY DEF SavesWallet, Index!Save

LEMMA SavedTwice ==
    ASSUME NEW d, NEW w, NEW luw, NEW mid, SavesWallet(d, w, luw, mid),
           NEW new, NEW later, SavesWallet(mid, w, new, later)
    PROVE  SavesWallet(d, w, new, later)
BY DEF SavesWallet

LEMMA CreatedHandled ==
    ASSUME NEW d, DOMAIN d = {LUW}, NEW w, w \notin DOMAIN d[LUW], NEW e, NEW t,
           e.event = "CreateLicensedUserWallet", e.wallet = w
    PROVE  SavesWallet(d, w, [englishName |-> e.englishName, originalName |-> e.originalName,
                              owners |-> e.owners, threshold |-> e.threshold,
                              createdAt |-> Index!secondsToMillis(t), originChain |-> Null],
                       Handled(d, <<e, t>>))
<1> DEFINE luw == [englishName |-> e.englishName, originalName |-> e.originalName,
                   owners |-> e.owners, threshold |-> e.threshold,
                   createdAt |-> Index!secondsToMillis(t), originChain |-> Null]
<1>1. Handled(d, <<e, t>>) = Index!handleCreateLicensedUserWallet(d, e, t)
  BY DEF Handled, Index!HandleWalletEvent
<1>2. Index!handleCreateLicensedUserWallet(d, e, t) = Index!Save(d, LUW, w, luw)
  BY DEF Index!handleCreateLicensedUserWallet, Index!Has, Index!LUW, LUW
<1> HIDE DEF luw
<1>3. QED
  BY <1>1, <1>2, SaveSavesWallet DEF luw

LEMMA KnownHandled ==
    ASSUME NEW d, DOMAIN d = {LUW}, NEW w \in DOMAIN d[LUW], NEW luw
    PROVE  SavesWallet(d, w, luw, Index!SaveWallet(d, w, luw))
<1>1. Index!SaveWallet(d, w, luw) = Index!Save(d, LUW, w, luw)
  BY DEF Index!SaveWallet, Index!IfKnown, Index!Has, Index!LUW, LUW
<1>2. QED
  BY <1>1, SaveSavesWallet

\* What each of the other events writes.
Written(luw, e) ==
    CASE e.event = "AddedOwner" -> [luw EXCEPT !.owners = Append(@, e.owner)]
      [] e.event = "RemovedOwner" -> [luw EXCEPT !.owners = Index!WithoutFirst(@, e.owner)]
      [] e.event = "ChangedThreshold" -> [luw EXCEPT !.threshold = e.threshold]
      [] e.event = "UpgradeLicensedUserWalletToMulti" ->
            [luw EXCEPT !.owners = e.owners, !.threshold = e.threshold]
      [] e.event = "UpdateLicensedUserDetail" /\ e.key = "englishName" ->
            [luw EXCEPT !.englishName = e.value]
      [] e.event = "UpdateLicensedUserDetail" /\ e.key = "originalName" ->
            [luw EXCEPT !.originalName = e.value]
      [] e.event = "MigrateLicensedUserWallet" ->
            [luw EXCEPT !.createdAt = Index!secondsToMillis(e.originTimestamp),
                        !.originChain = e.originChain]

UpdateEvents == {"AddedOwner", "RemovedOwner", "ChangedThreshold",
                 "UpgradeLicensedUserWalletToMulti", "UpdateLicensedUserDetail",
                 "MigrateLicensedUserWallet"}

LEMMA UpdateHandled ==
    ASSUME NEW d, DOMAIN d = {LUW}, NEW w \in DOMAIN d[LUW], NEW e, NEW t,
           e.wallet = w, e.event \in UpdateEvents,
           e.event = "UpdateLicensedUserDetail" => e.key \in {"englishName", "originalName"}
    PROVE  SavesWallet(d, w, Written(d[LUW][w], e), Handled(d, <<e, t>>))
<1>1. Handled(d, <<e, t>>) = Index!SaveWallet(d, w, Written(d[LUW][w], e))
  <2>1. CASE e.event = "AddedOwner"
    BY <2>1 DEF Handled, Index!HandleWalletEvent, Index!handleAddedOwner, Written, Index!LUW, LUW
  <2>2. CASE e.event = "RemovedOwner"
    BY <2>2 DEF Handled, Index!HandleWalletEvent, Index!handleRemovedOwner, Written, Index!LUW, LUW
  <2>3. CASE e.event = "ChangedThreshold"
    BY <2>3 DEF Handled, Index!HandleWalletEvent, Index!handleChangedThreshold, Written,
       Index!LUW, LUW
  <2>4. CASE e.event = "UpgradeLicensedUserWalletToMulti"
    BY <2>4 DEF Handled, Index!HandleWalletEvent, Index!handleUpgradeLicensedUserWalletToMulti,
       Written, Index!LUW, LUW
  <2>5. CASE e.event = "UpdateLicensedUserDetail"
    <3>1. CASE e.key = "englishName"
      BY <2>5, <3>1 DEF Handled, Index!HandleWalletEvent, Index!handleUpdateLicensedUserDetail,
         Written, Index!LUW, LUW
    <3>2. CASE e.key = "originalName"
      BY <2>5, <3>2 DEF Handled, Index!HandleWalletEvent, Index!handleUpdateLicensedUserDetail,
         Written, Index!LUW, LUW
    <3>3. QED
      BY <2>5, <3>1, <3>2
  <2>6. CASE e.event = "MigrateLicensedUserWallet"
    BY <2>6 DEF Handled, Index!HandleWalletEvent, Index!handleMigrateLicensedUser, Written,
       Index!LUW, LUW
  <2>7. QED
    BY <2>1, <2>2, <2>3, <2>4, <2>5, <2>6 DEF UpdateEvents
<1>2. QED
  BY <1>1, KnownHandled

-----------------------------------------------------------------------------
(* What a database that agrees with the contract shows. *)

IsWallet(luw) ==
    /\ DOMAIN luw = {"englishName", "originalName", "owners", "threshold", "createdAt",
                     "originChain"}
    /\ IsList(luw.owners)

OwnersAs(user, wallet) == IF user.owner # ZERO THEN {user.owner} ELSE Linked(wallet)

ShowsWallet(luw, user, wallet) ==
    /\ IsWallet(luw)
    /\ luw.englishName = user.englishName /\ luw.originalName = user.originalName
    /\ luw.threshold = IF user.owner # ZERO THEN 1 ELSE wallet.threshold
    /\ Drift(wallet) = 0 => Lists(luw.owners, OwnersAs(user, wallet))

WalletShown(d, w, user, wallet) ==
    /\ w \in DOMAIN d[LUW] <=> user.originalName # EmptyString
    /\ w \in DOMAIN d[LUW] => ShowsWallet(d[LUW][w], user, wallet)

Agrees(d, users, theWallets) ==
    DOMAIN d = {LUW} /\ \A w \in Wallet : WalletShown(d, w, users[w], theWallets[w])

\* The index will show what the contract has.
Follows == \E later : Leads(db, log, later) /\ Agrees(later, luws, wallets)

\* The call changes no wallet but w.
ChangesOnly(w) == \A v \in Wallet \ {w} : wallets'[v] = wallets[v] /\ luws'[v] = luws[v]

\* A call whose events save the wallet as it is then.
LEMMA CallTells ==
    ASSUME NEW d, Agrees(d, luws, wallets), NEW w \in Wallet, ChangesOnly(w),
           NEW luw, NEW later, SavesWallet(d, w, luw, later), Leads(db', log', later),
           walletExists(w)', ShowsWallet(luw, luws'[w], wallets'[w])
    PROVE  Follows'
<1>1. DOMAIN later = {LUW}
  BY DEF SavesWallet
<1>2. WalletShown(later, w, luws'[w], wallets'[w])
  BY DEF WalletShown, SavesWallet, walletExists
<1>3. ASSUME NEW v \in Wallet, v # w
      PROVE  WalletShown(later, v, luws'[v], wallets'[v])
  <2>1. WalletShown(d, v, luws[v], wallets[v])
    BY DEF Agrees
  <2>2. luws'[v] = luws[v] /\ wallets'[v] = wallets[v]
    BY <1>3 DEF ChangesOnly
  <2>3. /\ v \in DOMAIN later[LUW] <=> v \in DOMAIN d[LUW]
        /\ v \in DOMAIN d[LUW] => later[LUW][v] = d[LUW][v]
    BY <1>3 DEF SavesWallet
  <2>4. WalletShown(later, v, luws[v], wallets[v])
    BY <2>1, <2>3 DEF WalletShown
  <2>5. QED
    BY <2>2, <2>4
<1>4. Agrees(later, luws', wallets')
  BY <1>1, <1>2, <1>3 DEF Agrees
<1>5. QED
  BY <1>4 DEF Follows

\* getOwners' array, and the owners it lists when the counter counts them.
LEMMA ArrayLists ==
    ASSUME NEW wallet \in WalletStruct, Ring(wallet.owners), NEW w, NEW user, user.owner = ZERO
    PROVE  /\ IsList(GetOwnersArray(w, user, wallet))
           /\ Drift(wallet) = 0 => Lists(GetOwnersArray(w, user, wallet), Linked(wallet))
<1> DEFINE listed == Visit(wallet)
           n == wallet.ownerCount
           L == [i \in 1..n |-> IF i <= Len(listed) THEN listed[i] ELSE ZERO]
<1>1. GetOwnersArray(w, user, wallet) = L
  BY DEF GetOwnersArray
<1>2. n \in Nat
  BY Uint8Assumption DEF WalletStruct, Uint8
<1>3. Lists(listed, Linked(wallet))
  BY VisitListsRing
<1> HIDE DEF listed, n
<1>4. IsList(L)
  <2>1. L \in Seq({L[i] : i \in 1..n})
    BY <1>2
  <2>2. QED
    BY <2>1 DEF IsList
<1>5. ASSUME Drift(wallet) = 0
      PROVE  Lists(L, Linked(wallet))
  <2>1. Cardinality(Linked(wallet)) = Len(listed) /\ Len(listed) \in Nat
    BY <1>3, ListLength, ListFacts DEF Lists
  <2>2. n = Len(listed)
    BY <1>2, <1>5, <2>1 DEF Drift, n
  <2>3. Len(L) = n /\ \A i \in 1..n : L[i] = listed[i]
    BY <1>2, <2>2
  <2> HIDE DEF L
  <2>4. /\ \A x : x \in Linked(wallet) <=> \E i \in 1..n : listed[i] = x
        /\ \A i, j \in 1..n : listed[i] = listed[j] => i = j
    BY <1>3, <2>2 DEF Lists
  <2>5. QED
    BY <1>4, <2>3, <2>4 DEF Lists
<1>6. QED
  BY <1>1, <1>4, <1>5

LEMMA CreateFollows ==
    ASSUME IInv, Follows, NEW caller \in Caller, NEW w \in Wallet, CreateIndexedWallet(caller, w),
           UNCHANGED db
    PROVE  Follows'
<1>1. PICK list \in OwnerLists, t \in Uint8, english \in Name, original \in Name :
         /\ createWallet(caller, w, list, t, english, original)
         /\ \/ Emit(<<Created(w, t)>>)
            \/ \E origin \in Chain : Emit(<<Created(w, t), Migrated(w, origin, OriginTime)>>)
  BY DEF CreateIndexedWallet
<1>2. PICK d : Leads(db, log, d) /\ Agrees(d, luws, wallets)
  BY DEF Follows
<1>3. Keeps(w)
  <2>1. CreateWallet(caller, w)
    BY <1>1 DEF CreateWallet
  <2>2. QED
    BY <2>1, CreateKeeps
<1>4. ChangesOnly(w) /\ walletExists(w)' /\ TypeOK' /\ GoodLicensedUser(w)'
      /\ luws'[w].englishName = english /\ luws'[w].originalName = original
  <2>1. list \in Seq(Addr) /\ list # << >> /\ list[1] \in Addr
    BY <1>1, ListAssumption DEF createWallet
  <2>2. luws'[w] = [owner |-> IF Len(list) = 1 THEN list[1] ELSE ZERO, active |-> TRUE,
                    englishName |-> english, originalName |-> original]
    BY <1>1 DEF createWallet, IInv, TypeOK
  <2>3. original # EmptyString
    BY <1>1 DEF createWallet
  <2>4. QED
    BY <1>3, <2>2, <2>3 DEF Keeps, ChangesOnly, walletExists
<1>5. w \notin DOMAIN d[LUW] /\ DOMAIN d = {LUW}
  BY <1>1, <1>2 DEF Agrees, WalletShown, createWallet, walletExists
<1> DEFINE owners == GetOwnersArray(w, luws'[w], wallets'[w])
           threshold == IF luws'[w].owner # ZERO THEN 1 ELSE wallets'[w].threshold
           e == Created(w, t)
           luw == [englishName |-> e.englishName, originalName |-> e.originalName,
                   owners |-> e.owners, threshold |-> e.threshold,
                   createdAt |-> Index!secondsToMillis(time), originChain |-> Null]
           mid == Handled(d, At(e))
<1>6. /\ e.event = "CreateLicensedUserWallet" /\ e.wallet = w
      /\ e.owners = owners /\ e.threshold = threshold
      /\ e.englishName = luws'[w].englishName /\ e.originalName = luws'[w].originalName
  BY DEF Created
<1>7. IsList(owners) /\ (Drift(wallets'[w]) = 0 => Lists(owners, OwnersAs(luws'[w], wallets'[w])))
  <2>1. CASE luws'[w].owner # ZERO
    <3>1. owners = <<luws'[w].owner>> /\ OwnersAs(luws'[w], wallets'[w]) = {luws'[w].owner}
      BY <2>1 DEF GetOwnersArray, OwnersAs
    <3>2. Lists(<<luws'[w].owner>>, {luws'[w].owner})
      BY OneListed
    <3> HIDE DEF owners
    <3>3. QED
      BY <3>1, <3>2 DEF Lists
  <2>2. CASE luws'[w].owner = ZERO
    <3>1. wallets'[w] \in WalletStruct
      BY <1>4 DEF TypeOK
    <3>2. MultiOwner(w)'
      BY <1>4, <2>2 DEF MultiOwner, isSingleOwner
    <3>3. GoodWallet(wallets[w])'
      BY <1>4, <3>2 DEF GoodLicensedUser
    <3>4. Ring(wallets'[w].owners)
      BY <3>3 DEF GoodWallet, Ring, Ascends
    <3>5. OwnersAs(luws'[w], wallets'[w]) = Linked(wallets'[w])
      BY <2>2 DEF OwnersAs
    <3>6. QED
      BY <2>2, <3>1, <3>4, <3>5, ArrayLists
  <2>3. QED
    BY <2>1, <2>2
<1> HIDE DEF e, owners
<1>8. ShowsWallet(luw, luws'[w], wallets'[w])
  BY <1>6, <1>7 DEF ShowsWallet, IsWallet
<1>9. SavesWallet(d, w, luw, mid)
  BY <1>5, <1>6, CreatedHandled DEF At
<1> HIDE DEF luw, mid
<1>10. CASE Emit(<<e>>)
  <2>1. Leads(db', log', mid)
    BY <1>2, <1>10, EmitOne DEF mid
  <2>2. QED
    BY <1>2, <1>4, <1>8, <1>9, <2>1, CallTells
<1>11. ASSUME NEW origin \in Chain, Emit(<<e, Migrated(w, origin, OriginTime)>>)
       PROVE  Follows'
  <2> DEFINE f == Migrated(w, origin, OriginTime)
             new == Written(mid[LUW][w], f)
  <2>1. f.event = "MigrateLicensedUserWallet" /\ f.wallet = w
    BY DEF Migrated
  <2> HIDE DEF f
  <2>2. Leads(db', log', Handled(mid, At(f)))
    BY <1>2, <1>11, EmitTwo DEF mid, f
  <2>3. DOMAIN mid = {LUW} /\ w \in DOMAIN mid[LUW] /\ mid[LUW][w] = luw
    BY <1>9 DEF SavesWallet
  <2>4. SavesWallet(mid, w, new, Handled(mid, At(f)))
    BY <2>1, <2>3, UpdateHandled DEF At, UpdateEvents
  <2>5. SavesWallet(d, w, new, Handled(mid, At(f)))
    BY <1>9, <2>4, SavedTwice
  <2>6. new = [luw EXCEPT !.createdAt = Index!secondsToMillis(f.originTimestamp),
                          !.originChain = f.originChain]
    BY <2>1, <2>3 DEF Written
  <2> HIDE DEF new
  <2>7. ShowsWallet(new, luws'[w], wallets'[w])
    BY <1>8, <2>6 DEF ShowsWallet, IsWallet
  <2>8. QED
    BY <1>2, <1>4, <2>2, <2>5, <2>7, CallTells
<1>12. QED
  BY <1>1, <1>10, <1>11 DEF e

\* Calls that change a wallet which exists, with the one or two events they emit.
Updates(e, w) ==
    /\ e.wallet = w /\ e.event \in UpdateEvents
    /\ e.event = "UpdateLicensedUserDetail" => e.key \in {"englishName", "originalName"}

LEMMA OneEventFollows ==
    ASSUME Follows, UNCHANGED db, NEW w \in Wallet, ChangesOnly(w),
           walletExists(w), walletExists(w)', NEW a, Updates(a, w), Emit(<<a>>),
           \A luw : ShowsWallet(luw, luws[w], wallets[w])
                       => ShowsWallet(Written(luw, a), luws'[w], wallets'[w])
    PROVE  Follows'
<1>1. PICK d : Leads(db, log, d) /\ Agrees(d, luws, wallets)
  BY DEF Follows
<1>2. DOMAIN d = {LUW} /\ w \in DOMAIN d[LUW] /\ ShowsWallet(d[LUW][w], luws[w], wallets[w])
  BY <1>1 DEF Agrees, WalletShown, walletExists
<1> DEFINE new == Written(d[LUW][w], a)
           later == Handled(d, At(a))
<1>3. SavesWallet(d, w, new, later)
  BY <1>2, UpdateHandled DEF At, Updates
<1>4. Leads(db', log', later)
  BY <1>1, EmitOne
<1>5. ShowsWallet(new, luws'[w], wallets'[w])
  BY <1>2
<1> HIDE DEF new, later
<1>6. QED
  BY <1>1, <1>3, <1>4, <1>5, CallTells

LEMMA TwoEventsFollow ==
    ASSUME Follows, UNCHANGED db, NEW w \in Wallet, ChangesOnly(w),
           walletExists(w), walletExists(w)', NEW a, Updates(a, w), NEW b, Updates(b, w),
           Emit(<<a, b>>),
           \A luw : ShowsWallet(luw, luws[w], wallets[w])
                       => ShowsWallet(Written(Written(luw, a), b), luws'[w], wallets'[w])
    PROVE  Follows'
<1>1. PICK d : Leads(db, log, d) /\ Agrees(d, luws, wallets)
  BY DEF Follows
<1>2. DOMAIN d = {LUW} /\ w \in DOMAIN d[LUW] /\ ShowsWallet(d[LUW][w], luws[w], wallets[w])
  BY <1>1 DEF Agrees, WalletShown, walletExists
<1> DEFINE between == Written(d[LUW][w], a)
           new == Written(between, b)
           mid == Handled(d, At(a))
           later == Handled(mid, At(b))
<1>3. SavesWallet(d, w, between, mid)
  BY <1>2, UpdateHandled DEF At, Updates
<1>4. Leads(db', log', later)
  BY <1>1, EmitTwo
<1>5. ShowsWallet(new, luws'[w], wallets'[w])
  BY <1>2
<1> HIDE DEF between, mid
<1>6. DOMAIN mid = {LUW} /\ w \in DOMAIN mid[LUW] /\ mid[LUW][w] = between
  BY <1>3 DEF SavesWallet
<1>7. SavesWallet(mid, w, new, later)
  BY <1>6, UpdateHandled DEF At, Updates
<1> HIDE DEF new, later
<1>8. SavesWallet(d, w, new, later)
  BY <1>3, <1>7, SavedTwice
<1>9. QED
  BY <1>1, <1>4, <1>5, <1>8, CallTells

\* An event that gives a multi-owner wallet the list of its owners after the call,
\* and the event of its threshold when that changes.
GivesOwners(a, w) ==
    \A luw : ShowsWallet(luw, luws[w], wallets[w]) =>
        \E L : /\ Written(luw, a) = [luw EXCEPT !.owners = L]
               /\ IsList(L)
               /\ Drift(wallets'[w]) = 0 => Lists(L, Linked(wallets'[w]))

LEMMA OwnersWritten ==
    ASSUME NEW luw, IsWallet(luw), NEW L, IsList(L), NEW new, new = [luw EXCEPT !.owners = L]
    PROVE  /\ IsWallet(new) /\ new.owners = L /\ new.threshold = luw.threshold
           /\ new.englishName = luw.englishName /\ new.originalName = luw.originalName
BY DEF IsWallet

LEMMA ThresholdWritten ==
    ASSUME NEW luw, IsWallet(luw), NEW w, NEW t, NEW new, new = Written(luw, Threshold(w, t))
    PROVE  /\ IsWallet(new) /\ new.owners = luw.owners /\ new.threshold = t
           /\ new.englishName = luw.englishName /\ new.originalName = luw.originalName
<1>1. new = [luw EXCEPT !.threshold = t]
  BY DEF Written, Threshold
<1>2. QED
  BY <1>1 DEF IsWallet

LEMMA ListFollows ==
    ASSUME Follows, UNCHANGED db, NEW w \in Wallet, MultiOwner(w), ChangesOnly(w), UNCHANGED luws,
           NEW t, wallets'[w].threshold = t, NEW a, Updates(a, w), GivesOwners(a, w),
           Emit(<<a>> \o ThresholdIfChanged(w, t))
    PROVE  Follows'
<1>1. walletExists(w) /\ walletExists(w)' /\ luws[w].owner = ZERO /\ luws'[w] = luws[w]
  BY DEF MultiOwner, walletExists, isSingleOwner
<1>2. ASSUME NEW luw, ShowsWallet(luw, luws[w], wallets[w]), NEW new, IsWallet(new),
             new.threshold = t,
             NEW mid, mid = Written(luw, a), new.owners = mid.owners,
             new.englishName = mid.englishName, new.originalName = mid.originalName
      PROVE  ShowsWallet(new, luws'[w], wallets'[w])
  <2>1. PICK L : /\ mid = [luw EXCEPT !.owners = L] /\ IsList(L)
                 /\ Drift(wallets'[w]) = 0 => Lists(L, Linked(wallets'[w]))
    BY <1>2 DEF GivesOwners
  <2>2. /\ mid.owners = L /\ mid.englishName = luws[w].englishName
        /\ mid.originalName = luws[w].originalName
    BY <1>2, <2>1, OwnersWritten DEF ShowsWallet
  <2>3. OwnersAs(luws'[w], wallets'[w]) = Linked(wallets'[w])
    BY <1>1 DEF OwnersAs
  <2>4. QED
    BY <1>1, <1>2, <2>1, <2>2, <2>3 DEF ShowsWallet
<1>3. ASSUME NEW luw, ShowsWallet(luw, luws[w], wallets[w])
      PROVE  /\ IsWallet(Written(luw, a))
             /\ Written(luw, a).threshold = wallets[w].threshold
  <2>1. PICK L : Written(luw, a) = [luw EXCEPT !.owners = L] /\ IsList(L)
    BY <1>3 DEF GivesOwners
  <2>2. QED
    BY <1>1, <1>3, <2>1, OwnersWritten DEF ShowsWallet
<1>4. CASE wallets[w].threshold = t
  <2>1. <<a>> \o ThresholdIfChanged(w, t) = <<a>>
    BY <1>4 DEF ThresholdIfChanged
  <2>2. Emit(<<a>>)
    BY <2>1
  <2>3. \A luw : ShowsWallet(luw, luws[w], wallets[w])
                    => ShowsWallet(Written(luw, a), luws'[w], wallets'[w])
    BY <1>2, <1>3, <1>4
  <2>4. QED
    BY <1>1, <2>2, <2>3, OneEventFollows
<1>5. CASE wallets[w].threshold # t
  <2> DEFINE b == Threshold(w, t)
  <2>1. <<a>> \o ThresholdIfChanged(w, t) = <<a, b>>
    <3>1. ThresholdIfChanged(w, t) = <<b>>
      BY <1>5 DEF ThresholdIfChanged
    <3> HIDE DEF b
    <3>2. QED
      BY <3>1, PairConcat
  <2>2. Emit(<<a, b>>) /\ Updates(b, w)
    BY <2>1 DEF Updates, UpdateEvents, Threshold
  <2>3. \A luw : ShowsWallet(luw, luws[w], wallets[w])
                    => ShowsWallet(Written(Written(luw, a), b), luws'[w], wallets'[w])
    BY <1>2, <1>3, ThresholdWritten
  <2> HIDE DEF b
  <2>4. QED
    BY <1>1, <2>2, <2>3, TwoEventsFollow
<1>6. QED
  BY <1>4, <1>5

\* The wallet's lists before and after, as the events of the index tell them.
LEMMA ShownOwners ==
    ASSUME NEW w \in Wallet, MultiOwner(w), NEW luw, ShowsWallet(luw, luws[w], wallets[w])
    PROVE  /\ IsWallet(luw) /\ IsList(luw.owners)
           /\ Drift(wallets[w]) = 0 => Lists(luw.owners, Linked(wallets[w]))
BY DEF ShowsWallet, IsWallet, MultiOwner, isSingleOwner, OwnersAs

LEMMA UpgradeFollows ==
    ASSUME IInv, Follows, NEW caller \in Caller, NEW w \in Wallet, NEW owner \in Addr,
           NEW t \in Uint8, addOwner(caller, w, owner, t), isSingleOwner(w),
           Emit(<<Upgraded(w, <<luws[w].owner, owner>>, t)>>), UNCHANGED db
    PROVE  Follows'
<1> DEFINE list == <<luws[w].owner, owner>>
           wallet == SetupResult(EmptyWallet, list, t)
           a == Upgraded(w, list, t)
<1>1. Keeps(w)
  <2>1. AddOwner(caller, w)
    BY DEF AddOwner
  <2>2. QED
    BY <2>1, AddKeeps
<1>2. ChangesOnly(w)
  BY <1>1 DEF Keeps, ChangesOnly
<1>3. singleToMulti(w, list, t)
  BY DEF addOwner
<1>4. wallets[w] = EmptyWallet
  BY DEF MultiOwner, IInv, GoodLicensedUser
<1>5. SetupAccepts(EmptyWallet, list, t) /\ wallets'[w] = wallet
  BY <1>3, <1>4 DEF singleToMulti, setupOwners, IInv, TypeOK
<1>6. /\ luws'[w].owner = ZERO
      /\ luws'[w].englishName = luws[w].englishName
      /\ luws'[w].originalName = luws[w].originalName
  BY <1>3 DEF singleToMulti, IInv, TypeOK, LicensedUser
<1>7. walletExists(w) /\ walletExists(w)'
  BY <1>6 DEF addOwner, IInv, GoodLicensedUser, walletExists
<1>8. Linked(wallet) = {luws[w].owner, owner} /\ wallet.ownerCount = 2 /\ wallet.threshold = t
  <2>1. luws[w].owner \in Addr
    BY DEF IInv, TypeOK, LicensedUser
  <2>2. wallet.threshold = t
    BY DEF SetupResult
  <2>3. QED
    BY <1>5, <2>1, <2>2, PairGood
<1>9. IsList(list) /\ (Drift(wallets'[w]) = 0 => Lists(list, Linked(wallets'[w])))
  <2>1. list \in Seq(Addr)
    BY DEF IInv, TypeOK, LicensedUser
  <2>2. ASSUME luws[w].owner = owner
        PROVE  Drift(wallet) # 0
    <3>1. Linked(wallet) = {owner}
      BY <1>8, <2>2
    <3>2. Cardinality({owner}) = 1
      BY FS_Singleton
    <3> HIDE DEF wallet
    <3>3. QED
      BY <1>8, <3>1, <3>2 DEF Drift
  <2>3. luws[w].owner # owner => Lists(list, {luws[w].owner, owner})
    BY TwoListed
  <2> HIDE DEF list, wallet
  <2>4. IsList(list)
    BY <2>1, SeqIsList
  <2>5. QED
    BY <1>5, <1>8, <2>2, <2>3, <2>4
<1>10. /\ Updates(a, w) /\ a.event = "UpgradeLicensedUserWalletToMulti"
       /\ a.owners = list /\ a.threshold = t
  BY DEF Updates, UpdateEvents, Upgraded
<1> HIDE DEF list, wallet, a
<1>11. ASSUME NEW luw, ShowsWallet(luw, luws[w], wallets[w])
       PROVE  ShowsWallet(Written(luw, a), luws'[w], wallets'[w])
  <2> DEFINE new == Written(luw, a)
  <2>1. new = [luw EXCEPT !.owners = list, !.threshold = t]
    BY <1>10 DEF Written
  <2>2. /\ IsWallet(luw) /\ luw.englishName = luws[w].englishName
        /\ luw.originalName = luws[w].originalName
    BY <1>11 DEF ShowsWallet
  <2> HIDE DEF new
  <2>3. /\ DOMAIN new = DOMAIN luw /\ new.owners = list /\ new.threshold = t
        /\ new.englishName = luw.englishName /\ new.originalName = luw.originalName
    BY <2>1, <2>2 DEF IsWallet
  <2>4. OwnersAs(luws'[w], wallets'[w]) = Linked(wallets'[w])
    BY <1>6 DEF OwnersAs
  <2>5. IsWallet(new)
    BY <1>9, <2>2, <2>3 DEF IsWallet
  <2>6. ShowsWallet(new, luws'[w], wallets'[w])
    BY <1>5, <1>6, <1>8, <1>9, <2>2, <2>3, <2>4, <2>5 DEF ShowsWallet
  <2>7. QED
    BY <2>6 DEF new
<1>12. Emit(<<a>>)
  BY DEF a, list
<1>13. QED
  BY <1>2, <1>7, <1>10, <1>11, <1>12, OneEventFollows

LEMMA AddFollows ==
    ASSUME IInv, Follows, NEW caller \in Caller, NEW w \in Wallet, AddIndexedOwner(caller, w),
           UNCHANGED db
    PROVE  Follows'
<1>1. PICK owner \in Addr, t \in Uint8 :
         /\ addOwner(caller, w, owner, t)
         /\ IF isSingleOwner(w)
            THEN Emit(<<Upgraded(w, <<luws[w].owner, owner>>, t)>>)
            ELSE Emit(<<Added(w, owner)>> \o ThresholdIfChanged(w, t))
  BY DEF AddIndexedOwner
<1>2. CASE isSingleOwner(w)
  BY <1>1, <1>2, UpgradeFollows
<1>3. CASE ~isSingleOwner(w)
  <2> DEFINE wallet == wallets[w]
             new == WalletWith([wallet.owners EXCEPT ![owner] = wallet.owners[SENTINEL_OWNERS],
                                                     ![SENTINEL_OWNERS] = owner],
                               wallet.ownerCount + 1, t)
             a == Added(w, owner)
  <2>1. addOwnerMulti(w, owner, t) /\ UNCHANGED luws
    BY <1>1, <1>3 DEF addOwner
  <2>2. MultiOwner(w) /\ GoodWallet(wallet) /\ wallet \in WalletStruct
    BY <1>1, <1>3 DEF addOwner, MultiOwner, IInv, GoodLicensedUser, TypeOK
  <2>3. /\ Drift(new) = Drift(wallet)
        /\ Linked(new) = Linked(wallet) \union {owner} /\ owner \notin Linked(wallet)
    BY <2>1, <2>2, AddGood DEF addOwnerMulti
  <2>4. wallets' = [wallets EXCEPT ![w] = new] /\ new.threshold = t
    BY <2>1 DEF addOwnerMulti, WalletWith
  <2> HIDE DEF new
  <2>5. wallets'[w] = new /\ ChangesOnly(w)
    BY <2>1, <2>4 DEF ChangesOnly, IInv, TypeOK
  <2>6. Updates(a, w) /\ \A luw : Written(luw, a) = [luw EXCEPT !.owners = Append(@, owner)]
    BY DEF Updates, UpdateEvents, Added, Written
  <2> HIDE DEF a
  <2>7. ASSUME NEW luw, ShowsWallet(luw, luws[w], wallets[w])
        PROVE  \E L : /\ Written(luw, a) = [luw EXCEPT !.owners = L]
                      /\ IsList(L)
                      /\ Drift(wallets'[w]) = 0 => Lists(L, Linked(wallets'[w]))
    <3> DEFINE L == Append(luw.owners, owner)
    <3>1. IsList(luw.owners) /\ (Drift(wallet) = 0 => Lists(luw.owners, Linked(wallet)))
      BY <2>2, <2>7, ShownOwners
    <3>2. IsList(L)
      BY <3>1, ListFacts
    <3>3. Drift(wallets'[w]) = 0 => Lists(L, Linked(wallets'[w]))
      BY <2>3, <2>5, <3>1, AppendLists
    <3>4. Written(luw, a) = [luw EXCEPT !.owners = L]
      BY <2>6
    <3> HIDE DEF L
    <3>5. QED
      BY <3>2, <3>3, <3>4
  <2>8. GivesOwners(a, w)
    BY <2>7 DEF GivesOwners
  <2>9. Emit(<<a>> \o ThresholdIfChanged(w, t))
    BY <1>1, <1>3 DEF a
  <2>10. QED
    BY <2>1, <2>2, <2>4, <2>5, <2>6, <2>8, <2>9, ListFollows
<1>4. QED
  BY <1>2, <1>3

LEMMA RemoveFollows ==
    ASSUME IInv, Follows, NEW caller \in Caller, NEW w \in Wallet, RemoveIndexedOwner(caller, w),
           UNCHANGED db
    PROVE  Follows'
<1>1. PICK prev \in Addr, owner \in Addr, t \in Uint8 :
         /\ removeOwner(caller, w, prev, owner, t)
         /\ Emit(<<Removed(w, owner)>> \o ThresholdIfChanged(w, t))
         /\ UNCHANGED luws
  BY DEF RemoveIndexedOwner
<1> DEFINE wallet == wallets[w]
           new == WalletWith([wallet.owners EXCEPT ![prev] = wallet.owners[owner],
                                                   ![owner] = ZERO],
                             wallet.ownerCount - 1, t)
           a == Removed(w, owner)
<1>2. MultiOwner(w) /\ GoodWallet(wallet) /\ wallet \in WalletStruct
  <2>1. MultiOwner(w)
    BY <1>1, OnlyMulti DEF removeOwner
  <2>2. QED
    BY <2>1 DEF IInv, GoodLicensedUser, TypeOK
<1>3. /\ Drift(new) = Drift(wallet)
      /\ Linked(new) = Linked(wallet) \ {owner} /\ owner \in Linked(wallet)
  BY <1>1, <1>2, RemoveGood DEF removeOwner
<1>4. wallets' = [wallets EXCEPT ![w] = new] /\ new.threshold = t
  BY <1>1 DEF removeOwner, WalletWith
<1> HIDE DEF new
<1>5. wallets'[w] = new /\ ChangesOnly(w)
  BY <1>1, <1>4 DEF ChangesOnly, IInv, TypeOK
<1>6. /\ Updates(a, w)
      /\ \A luw : Written(luw, a) = [luw EXCEPT !.owners = Index!WithoutFirst(@, owner)]
  BY DEF Updates, UpdateEvents, Removed, Written
<1> HIDE DEF a
<1>7. ASSUME NEW luw, ShowsWallet(luw, luws[w], wallets[w])
      PROVE  \E L : /\ Written(luw, a) = [luw EXCEPT !.owners = L]
                    /\ IsList(L)
                    /\ Drift(wallets'[w]) = 0 => Lists(L, Linked(wallets'[w]))
  <2> DEFINE L == Index!WithoutFirst(luw.owners, owner)
  <2>1. IsList(luw.owners) /\ (Drift(wallet) = 0 => Lists(luw.owners, Linked(wallet)))
    BY <1>2, <1>7, ShownOwners
  <2>2. IsList(L)
    BY <2>1, WithoutFirstIsList
  <2>3. Drift(wallets'[w]) = 0 => Lists(L, Linked(wallets'[w]))
    BY <1>3, <1>5, <2>1, WithoutFirstLists
  <2>4. Written(luw, a) = [luw EXCEPT !.owners = L]
    BY <1>6
  <2> HIDE DEF L
  <2>5. QED
    BY <2>2, <2>3, <2>4
<1>8. GivesOwners(a, w)
  BY <1>7 DEF GivesOwners
<1>9. Emit(<<a>> \o ThresholdIfChanged(w, t))
  BY <1>1 DEF a
<1>10. QED
  BY <1>1, <1>2, <1>4, <1>5, <1>6, <1>8, <1>9, ListFollows

LEMMA SwapFollows ==
    ASSUME IInv, Follows, NEW caller \in Caller, NEW w \in Wallet, SwapIndexedOwner(caller, w),
           UNCHANGED db
    PROVE  Follows'
<1>1. PICK prev \in Addr, old \in Addr, owner \in Addr :
         /\ swapOwner(caller, w, prev, old, owner)
         /\ Emit(<<Removed(w, old), Added(w, owner)>>)
         /\ UNCHANGED luws
  BY DEF SwapIndexedOwner
<1> DEFINE wallet == wallets[w]
           new == WalletWith([wallet.owners EXCEPT ![owner] = wallet.owners[old],
                                                   ![prev] = owner, ![old] = ZERO],
                             wallet.ownerCount, wallet.threshold)
           a == Removed(w, old)
           b == Added(w, owner)
<1>2. MultiOwner(w) /\ GoodWallet(wallet) /\ wallet \in WalletStruct
  <2>1. MultiOwner(w)
    BY <1>1, OnlyMulti DEF swapOwner, NoOwner
  <2>2. QED
    BY <2>1 DEF IInv, GoodLicensedUser, TypeOK
<1>3. /\ Drift(new) = Drift(wallet)
      /\ Linked(new) = (Linked(wallet) \ {old}) \union {owner}
      /\ old \in Linked(wallet) /\ owner \notin Linked(wallet)
  <2>1. /\ old \notin NoOwner /\ owner \notin NoOwner
        /\ wallet.owners[prev] = old /\ wallet.owners[owner] = ZERO
    BY <1>1 DEF swapOwner
  <2>2. new = WalletWith([wallet.owners EXCEPT ![owner] = wallet.owners[old],
                                               ![prev] = owner, ![old] = ZERO],
                         wallet.ownerCount, wallet.threshold)
    OBVIOUS
  <2> HIDE DEF wallet, new
  <2>3. QED
    BY <1>2, <2>1, <2>2, SwapGood
<1>4. wallets' = [wallets EXCEPT ![w] = new] /\ new.threshold = wallet.threshold
  <2>1. \A x : [wallets[w] EXCEPT !.owners = x]
                  = WalletWith(x, wallets[w].ownerCount, wallets[w].threshold)
    BY <1>2 DEF WalletWith, WalletStruct
  <2>2. wallets' = [wallets EXCEPT ![w] = [wallets[w] EXCEPT !.owners =
                       [wallets[w].owners EXCEPT ![owner] = wallets[w].owners[old],
                                                 ![prev] = owner, ![old] = ZERO]]]
    BY <1>1 DEF swapOwner
  <2>3. new.threshold = wallet.threshold
    BY DEF WalletWith
  <2>4. QED
    BY <2>1, <2>2, <2>3
<1> HIDE DEF new
<1>5. wallets'[w] = new /\ ChangesOnly(w)
  BY <1>1, <1>4 DEF ChangesOnly, IInv, TypeOK
<1>6. /\ walletExists(w) /\ walletExists(w)' /\ luws'[w] = luws[w]
      /\ OwnersAs(luws'[w], wallets'[w]) = Linked(wallets'[w]) /\ luws[w].owner = ZERO
  BY <1>1, <1>2 DEF MultiOwner, walletExists, isSingleOwner, OwnersAs
<1>7. /\ Updates(a, w) /\ Updates(b, w)
      /\ \A luw : Written(luw, a) = [luw EXCEPT !.owners = Index!WithoutFirst(@, old)]
      /\ \A luw : Written(luw, b) = [luw EXCEPT !.owners = Append(@, owner)]
  BY DEF Updates, UpdateEvents, Removed, Added, Written
<1> HIDE DEF a, b
<1>8. ASSUME NEW luw, ShowsWallet(luw, luws[w], wallets[w])
      PROVE  ShowsWallet(Written(Written(luw, a), b), luws'[w], wallets'[w])
  <2> DEFINE L == Index!WithoutFirst(luw.owners, old)
             M == Append(L, owner)
             mid == Written(luw, a)
             last == Written(mid, b)
  <2>1. /\ IsWallet(luw) /\ IsList(luw.owners)
        /\ Drift(wallet) = 0 => Lists(luw.owners, Linked(wallet))
    BY <1>2, <1>8, ShownOwners
  <2>2. IsList(L) /\ (Drift(wallet) = 0 => Lists(L, Linked(wallet) \ {old}))
    BY <1>3, <2>1, WithoutFirstIsList, WithoutFirstLists
  <2>3. mid = [luw EXCEPT !.owners = L]
    BY <1>7
  <2> HIDE DEF L, mid
  <2>4. IsList(M)
    BY <2>2, ListFacts
  <2>5. Drift(wallets'[w]) = 0 => Lists(M, Linked(wallets'[w]))
    <3>1. owner \notin Linked(wallet) \ {old}
      BY <1>3
    <3>2. Drift(wallet) = 0 => Lists(M, (Linked(wallet) \ {old}) \union {owner})
      BY <2>2, <3>1, AppendLists
    <3>3. QED
      BY <1>3, <1>5, <3>2
  <2>6. /\ IsWallet(mid) /\ mid.owners = L /\ mid.threshold = luw.threshold
        /\ mid.englishName = luw.englishName /\ mid.originalName = luw.originalName
    BY <2>1, <2>2, <2>3, OwnersWritten
  <2>7. last = [mid EXCEPT !.owners = M]
    BY <1>7, <2>6
  <2> HIDE DEF M, last
  <2>8. /\ IsWallet(last) /\ last.owners = M /\ last.threshold = mid.threshold
        /\ last.englishName = mid.englishName /\ last.originalName = mid.originalName
    BY <2>4, <2>6, <2>7, OwnersWritten
  <2>9. ShowsWallet(last, luws'[w], wallets'[w])
    <3>1. /\ luw.englishName = luws[w].englishName /\ luw.originalName = luws[w].originalName
          /\ luw.threshold = wallets[w].threshold
      BY <1>6, <1>8 DEF ShowsWallet
    <3>2. QED
      BY <1>4, <1>5, <1>6, <2>5, <2>6, <2>8, <3>1 DEF ShowsWallet
  <2>10. QED
    BY <2>9 DEF last, mid
<1>9. Emit(<<a, b>>)
  BY <1>1 DEF a, b
<1>10. QED
  BY <1>5, <1>6, <1>7, <1>8, <1>9, TwoEventsFollow

LEMMA ThresholdFollows ==
    ASSUME IInv, Follows, NEW caller \in Caller, NEW w \in Wallet,
           ChangeIndexedThreshold(caller, w), UNCHANGED db
    PROVE  Follows'
<1>1. PICK t \in Uint8 : /\ changeThreshold(caller, w, t)
                         /\ Emit(<<Threshold(w, t)>>)
                         /\ UNCHANGED luws
  BY DEF ChangeIndexedThreshold
<1> DEFINE a == Threshold(w, t)
<1>2. MultiOwner(w) /\ wallets[w] \in WalletStruct
  <2>1. MultiOwner(w)
    BY <1>1, OnlyMulti, Uint8Assumption DEF changeThreshold, ThresholdFits, Uint8
  <2>2. QED
    BY <2>1 DEF IInv, TypeOK
<1>3. /\ wallets'[w].owners = wallets[w].owners /\ wallets'[w].threshold = t
      /\ wallets'[w].ownerCount = wallets[w].ownerCount /\ ChangesOnly(w)
  BY <1>1, <1>2 DEF changeThreshold, ChangesOnly, IInv, TypeOK, WalletStruct
<1>4. Drift(wallets'[w]) = Drift(wallets[w]) /\ Linked(wallets'[w]) = Linked(wallets[w])
  BY <1>3 DEF Drift, Linked
<1>5. /\ walletExists(w) /\ walletExists(w)' /\ luws'[w] = luws[w] /\ luws[w].owner = ZERO
      /\ OwnersAs(luws'[w], wallets'[w]) = Linked(wallets'[w])
      /\ OwnersAs(luws[w], wallets[w]) = Linked(wallets[w])
  BY <1>1, <1>2 DEF MultiOwner, walletExists, isSingleOwner, OwnersAs
<1>6. ASSUME NEW luw, ShowsWallet(luw, luws[w], wallets[w])
      PROVE  ShowsWallet(Written(luw, a), luws'[w], wallets'[w])
  <2> DEFINE new == Written(luw, a)
  <2>1. /\ IsWallet(new) /\ new.owners = luw.owners /\ new.threshold = t
        /\ new.englishName = luw.englishName /\ new.originalName = luw.originalName
    BY <1>6, ThresholdWritten DEF ShowsWallet
  <2> HIDE DEF new
  <2>2. QED
    BY <1>3, <1>4, <1>5, <1>6, <2>1 DEF ShowsWallet, new
<1>7. Updates(a, w)
  BY DEF Updates, UpdateEvents, Threshold
<1> HIDE DEF a
<1>8. Emit(<<a>>)
  BY <1>1 DEF a
<1>9. QED
  BY <1>3, <1>5, <1>6, <1>7, <1>8, OneEventFollows

LEMMA NameFollows ==
    ASSUME IInv, Follows, NEW caller \in Caller, NEW w \in Wallet, SetIndexedName(caller, w),
           UNCHANGED db
    PROVE  Follows'
<1>1. PICK name \in Name :
         \/ setOriginalName(caller, w, name) /\ Emit(<<Detail(w, "originalName", name)>>)
         \/ setEnglishName(caller, w, name) /\ Emit(<<Detail(w, "englishName", name)>>)
  BY DEF SetIndexedName
<1>2. /\ wallets'[w] = wallets[w] /\ luws'[w].owner = luws[w].owner
      /\ ChangesOnly(w) /\ walletExists(w) /\ walletExists(w)'
  BY <1>1 DEF setOriginalName, setEnglishName, ChangesOnly, walletExists, IInv, TypeOK,
     LicensedUser, GoodLicensedUser
<1>3. PICK key \in {"originalName", "englishName"} :
         /\ Emit(<<Detail(w, key, name)>>)
         /\ luws'[w].originalName = IF key = "originalName" THEN name ELSE luws[w].originalName
         /\ luws'[w].englishName = IF key = "englishName" THEN name ELSE luws[w].englishName
  BY <1>1 DEF setOriginalName, setEnglishName, IInv, TypeOK, LicensedUser
<1> DEFINE a == Detail(w, key, name)
<1>4. /\ Updates(a, w) /\ a.event = "UpdateLicensedUserDetail" /\ a.key = key /\ a.value = name
  BY DEF Updates, UpdateEvents, Detail
<1> HIDE DEF a
<1>5. OwnersAs(luws'[w], wallets'[w]) = OwnersAs(luws[w], wallets[w])
  BY <1>2 DEF OwnersAs
<1>6. ASSUME NEW luw, ShowsWallet(luw, luws[w], wallets[w])
      PROVE  ShowsWallet(Written(luw, a), luws'[w], wallets'[w])
  <2> DEFINE new == Written(luw, a)
  <2>1. IsWallet(luw)
    BY <1>6 DEF ShowsWallet
  <2>2. /\ IsWallet(new) /\ new.owners = luw.owners /\ new.threshold = luw.threshold
        /\ new.originalName = IF key = "originalName" THEN name ELSE luw.originalName
        /\ new.englishName = IF key = "englishName" THEN name ELSE luw.englishName
    <3>1. CASE key = "originalName"
      <4>1. new = [luw EXCEPT !.originalName = name]
        BY <1>4, <3>1 DEF Written
      <4> HIDE DEF new
      <4>2. QED
        BY <2>1, <3>1, <4>1 DEF IsWallet
    <3>2. CASE key = "englishName"
      <4>1. new = [luw EXCEPT !.englishName = name]
        BY <1>4, <3>2 DEF Written
      <4> HIDE DEF new
      <4>2. QED
        BY <2>1, <3>2, <4>1 DEF IsWallet
    <3>3. QED
      BY <3>1, <3>2
  <2> HIDE DEF new
  <2>3. QED
    BY <1>2, <1>3, <1>5, <1>6, <2>2 DEF ShowsWallet, new
<1>7. Emit(<<a>>)
  BY <1>3 DEF a
<1>8. QED
  BY <1>2, <1>4, <1>6, <1>7, OneEventFollows

-----------------------------------------------------------------------------
(* The index, step by step. *)

IndexInv == IInv /\ Follows

LEMMA IndexInit == IndexedInit => IndexInv
<1>1. SUFFICES ASSUME IndexedInit
               PROVE  IndexInv
  OBVIOUS
<1>2. IInv
  BY <1>1, InitInvariant DEF IndexedInit
<1>3. DOMAIN db = {LUW} /\ \A w : w \notin DOMAIN db[LUW]
  BY <1>1 DEF IndexedInit, Index!NoEntities
<1>4. \A w \in Wallet : luws[w].originalName = EmptyString
  BY <1>1 DEF IndexedInit, Init, NoLicensedUser
<1>5. Agrees(db, luws, wallets)
  BY <1>3, <1>4 DEF Agrees, WalletShown
<1>6. Leads(db, log, db)
  BY <1>1, LeadsNothing DEF IndexedInit, ChainInit
<1>7. QED
  BY <1>2, <1>5, <1>6 DEF IndexInv, Follows

\* The calls that are followed by the index are the calls of the contract.
LEMMA IndexedStep == [IndexedNext]_composed => [Next]_vars
<1>1. SUFFICES ASSUME [IndexedNext]_composed
               PROVE  [Next]_vars
  OBVIOUS
<1>2. ASSUME NEW caller \in Caller, NEW w \in Wallet, Call(caller, w)
      PROVE  WalletCall(caller, w)
  <2>1. CreateIndexedWallet(caller, w) => CreateWallet(caller, w)
    BY DEF CreateIndexedWallet, CreateWallet
  <2>2. AddIndexedOwner(caller, w) => AddOwner(caller, w)
    BY DEF AddIndexedOwner, AddOwner
  <2>3. RemoveIndexedOwner(caller, w) => RemoveOwner(caller, w)
    BY DEF RemoveIndexedOwner, RemoveOwner
  <2>4. SwapIndexedOwner(caller, w) => SwapOwner(caller, w)
    BY DEF SwapIndexedOwner, SwapOwner
  <2>5. ChangeIndexedThreshold(caller, w) => ChangeThreshold(caller, w)
    BY DEF ChangeIndexedThreshold, ChangeThreshold
  <2>6. SetIndexedName(caller, w) => SetName(caller, w)
    BY DEF SetIndexedName, SetName
  <2>7. QED
    BY <1>2, <2>1, <2>2, <2>3, <2>4, <2>5, <2>6 DEF Call, WalletCall
<1>3. QED
  BY <1>1, <1>2 DEF IndexedNext, IndexEvent, composed, vars, Next

LEMMA IndexStep ==
    ASSUME IndexInv, [IndexedNext]_composed
    PROVE  IndexInv'
<1>1. IInv'
  BY IndexedStep, StepInvariant DEF IndexInv
<1>2. CASE \E caller \in Caller, w \in Wallet : Call(caller, w)
  BY <1>2, CreateFollows, AddFollows, RemoveFollows, SwapFollows, ThresholdFollows, NameFollows,
     <1>1 DEF Call, IndexInv
<1>3. CASE UNCHANGED <<wallets, luws, log, db>>
  BY <1>1, <1>3 DEF IndexInv, Follows
<1>4. CASE IndexEvent
  <2>1. PICK d : Leads(db, log, d) /\ Agrees(d, luws, wallets)
    BY DEF IndexInv, Follows
  <2>2. db' = Handled(db, log[1]) /\ log' = Tail(log) /\ log # << >>
    BY <1>4 DEF IndexEvent, Handled
  <2>3. Leads(db', log', d)
    BY <2>1, <2>2, LeadsLess
  <2>4. Agrees(d, luws', wallets')
    BY <1>4, <2>1 DEF IndexEvent
  <2>5. QED
    BY <1>1, <2>3, <2>4 DEF IndexInv, Follows
<1>5. CASE NextBlock /\ UNCHANGED <<wallets, luws, db>>
  BY <1>3, <1>5 DEF NextBlock
<1>6. CASE UNCHANGED composed
  BY <1>3, <1>6 DEF composed
<1>7. QED
  BY <1>2, <1>4, <1>5, <1>6 DEF IndexedNext

LEMMA FollowsSuffices ==
    ASSUME IndexInv
    PROVE  IndexAgrees
<1>1. SUFFICES ASSUME CaughtUp, NEW w \in Wallet
               PROVE  /\ walletExists(w) <=> Indexed(w)
                      /\ walletExists(w) =>
                           LET luw == db[LUW][w] IN
                           /\ luw.englishName = luws[w].englishName
                           /\ luw.originalName = luws[w].originalName
                           /\ luw.threshold = getThreshold(w)
                           /\ Drift(wallets[w]) = 0 =>
                                \A a \in Addr : Occurrences(luw.owners, a)
                                                  = Occurrences(getOwners(w), a)
  BY DEF IndexAgrees
<1>2. Agrees(db, luws, wallets)
  BY <1>1, LeadsEmpty DEF IndexInv, Follows, CaughtUp
<1>3. walletExists(w) <=> Indexed(w)
  BY <1>2 DEF Agrees, WalletShown, walletExists, Indexed
<1> DEFINE luw == db[LUW][w]
<1>4. ASSUME walletExists(w)
      PROVE  ShowsWallet(luw, luws[w], wallets[w])
  BY <1>2, <1>4 DEF Agrees, WalletShown, walletExists
<1> HIDE DEF luw
<1>5. ASSUME walletExists(w)
      PROVE  Lists(getOwners(w), OwnersAs(luws[w], wallets[w]))
  <2>1. CASE isSingleOwner(w)
    <3>1. getOwners(w) = <<luws[w].owner>> /\ OwnersAs(luws[w], wallets[w]) = {luws[w].owner}
      BY <2>1 DEF getOwners, isSingleOwner, OwnersAs
    <3>2. QED
      BY <3>1, OneListed
  <2>2. CASE ~isSingleOwner(w)
    <3>1. getOwners(w) = Visit(wallets[w])
          /\ OwnersAs(luws[w], wallets[w]) = Linked(wallets[w])
      BY <2>2 DEF getOwners, isSingleOwner, OwnersAs
    <3>2. Ring(wallets[w].owners)
      BY <1>5, <2>2 DEF IndexInv, IInv, GoodLicensedUser, GoodWallet, MultiOwner
    <3>3. QED
      BY <3>1, <3>2, VisitListsRing
  <2>3. QED
    BY <2>1, <2>2
<1>6. ASSUME walletExists(w)
      PROVE  /\ luw.englishName = luws[w].englishName
             /\ luw.originalName = luws[w].originalName
             /\ luw.threshold = getThreshold(w)
             /\ Drift(wallets[w]) = 0 =>
                  \A a \in Addr : Occurrences(luw.owners, a) = Occurrences(getOwners(w), a)
  <2>1. luw.threshold = getThreshold(w)
    BY <1>4, <1>6 DEF ShowsWallet, getThreshold, isSingleOwner
  <2>2. Drift(wallets[w]) = 0 =>
          \A a \in Addr : Occurrences(luw.owners, a) = Occurrences(getOwners(w), a)
    BY <1>4, <1>5, <1>6, SameOccurrences DEF ShowsWallet
  <2>3. QED
    BY <1>4, <1>6, <2>1, <2>2 DEF ShowsWallet
<1>7. QED
  BY <1>3, <1>6 DEF luw

\* Whatever calls were made, and however far the index was behind while they were:
\* an index that has handled every event shows the wallets as the contract has them,
\* their names, thresholds and, when the owner counter counts them, their owners
\* (luw-mapping.ts after LicensedUserManagerV02.sol).
THEOREM IndexAgreesHolds == IndexedSpec => []IndexAgrees
<1>1. IndexInv /\ [IndexedNext]_composed => IndexInv'
  BY IndexStep
<1>2. IndexInv => IndexAgrees
  BY FollowsSuffices
<1>3. QED
  BY IndexInit, <1>1, <1>2, PTL DEF IndexedSpec

=============================================================================
