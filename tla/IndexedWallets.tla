--------------------------- MODULE IndexedWallets ---------------------------
(***************************************************************************)
(* The LicensedUserManager and the index of its wallets: every call emits  *)
(* its events, in the contract's order, and the index follows some blocks  *)
(* behind.                                                                 *)
(***************************************************************************)
EXTENDS LicensedUserManager, ChainLog

CONSTANTS
    Null,
    Chain           \* chains that wallets are migrated from

VARIABLE db         \* the database of the subgraph

Index == INSTANCE LUWIndex

composed == <<wallets, luws, time, log, db>>

LUW == "LicensedUserWallet"

IndexedInit == Init /\ ChainInit /\ db = [t \in {LUW} |-> Index!NoEntities]

\* getOwners returns an array of ownerCount entries, zero past the end of the list.
GetOwnersArray(w, luw, wallet) ==
    IF luw.owner # ZERO THEN <<luw.owner>>
    ELSE LET listed == Visit(wallet)
         IN  [i \in 1..wallet.ownerCount |-> IF i <= Len(listed) THEN listed[i] ELSE ZERO]

\* Seeded fault: the event carries the requested threshold, not getThreshold's.
CreatedRequested(w, threshold) ==
    [event |-> "CreateLicensedUserWallet", wallet |-> w,
     owners |-> GetOwnersArray(w, luws'[w], wallets'[w]),
     threshold |-> threshold,
     englishName |-> luws'[w].englishName, originalName |-> luws'[w].originalName]

\* emitCreateLicensedUserWallet reads back what createWalletInternal stored.
Created(w, threshold) ==
    [event |-> "CreateLicensedUserWallet", wallet |-> w,
     owners |-> GetOwnersArray(w, luws'[w], wallets'[w]),
     threshold |-> IF luws'[w].owner # ZERO THEN 1 ELSE wallets'[w].threshold,
     englishName |-> luws'[w].englishName, originalName |-> luws'[w].originalName]

OriginTime == 0     \* bound: wallets were created on their first chain at this time

Migrated(w, originChain, originTimestamp) ==
    [event |-> "MigrateLicensedUserWallet", wallet |-> w,
     originChain |-> originChain, originTimestamp |-> originTimestamp]

Added(w, owner) == [event |-> "AddedOwner", wallet |-> w, owner |-> owner]
Removed(w, owner) == [event |-> "RemovedOwner", wallet |-> w, owner |-> owner]

Threshold(w, threshold) == [event |-> "ChangedThreshold", wallet |-> w, threshold |-> threshold]

\* addOwner and removeOwner change the threshold, and say so, only if it differs.
ThresholdIfChanged(w, threshold) ==
    IF wallets[w].threshold # threshold THEN <<Threshold(w, threshold)>> ELSE << >>

Upgraded(w, owners, threshold) ==
    [event |-> "UpgradeLicensedUserWalletToMulti", wallet |-> w,
     owners |-> owners, threshold |-> threshold]

Detail(w, key, value) ==
    [event |-> "UpdateLicensedUserDetail", wallet |-> w, key |-> key, value |-> value]

-----------------------------------------------------------------------------
CreateIndexedWallet(caller, w) ==
    \E list \in OwnerLists, t \in Uint8, english, original \in Name :
        /\ createWallet(caller, w, list, t, english, original)
        /\ \/ Emit(<<Created(w, t)>>)
           \/ \E origin \in Chain : Emit(<<Created(w, t), Migrated(w, origin, OriginTime)>>)

AddIndexedOwner(caller, w) ==
    \E owner \in Addr, t \in Uint8 :
        /\ addOwner(caller, w, owner, t)
        /\ IF isSingleOwner(w)
           THEN Emit(<<Upgraded(w, <<luws[w].owner, owner>>, t)>>)
           ELSE Emit(<<Added(w, owner)>> \o ThresholdIfChanged(w, t))

RemoveIndexedOwner(caller, w) ==
    \E prev, owner \in Addr, t \in Uint8 :
        /\ removeOwner(caller, w, prev, owner, t)
        /\ Emit(<<Removed(w, owner)>> \o ThresholdIfChanged(w, t))
        /\ UNCHANGED luws

SwapIndexedOwner(caller, w) ==
    \E prev, old, new \in Addr :
        /\ swapOwner(caller, w, prev, old, new)
        /\ Emit(<<Removed(w, old), Added(w, new)>>)
        /\ UNCHANGED luws

ChangeIndexedThreshold(caller, w) ==
    \E t \in Uint8 :
        /\ changeThreshold(caller, w, t)
        /\ Emit(<<Threshold(w, t)>>)
        /\ UNCHANGED luws

SetIndexedName(caller, w) ==
    \E name \in Name :
        \/ setOriginalName(caller, w, name) /\ Emit(<<Detail(w, "originalName", name)>>)
        \/ setEnglishName(caller, w, name) /\ Emit(<<Detail(w, "englishName", name)>>)

Call(caller, w) ==
    /\ \/ CreateIndexedWallet(caller, w)
       \/ AddIndexedOwner(caller, w)
       \/ RemoveIndexedOwner(caller, w)
       \/ SwapIndexedOwner(caller, w)
       \/ ChangeIndexedThreshold(caller, w)
       \/ SetIndexedName(caller, w)
    /\ UNCHANGED db

\* The index handles the oldest event it has not handled.
IndexEvent ==
    /\ log # << >>
    /\ db' = Index!HandleWalletEvent(db, log[1][1], log[1][2])
    /\ log' = Tail(log)
    /\ UNCHANGED <<wallets, luws, time>>

IndexedNext ==
    \/ \E caller \in Caller, w \in Wallet : Call(caller, w)
    \/ NextBlock /\ UNCHANGED <<wallets, luws, db>>
    \/ IndexEvent

IndexedSpec == IndexedInit /\ [][IndexedNext]_composed

-----------------------------------------------------------------------------
(* Properties. *)

Indexed(w) == w \in DOMAIN db[LUW]

Occurrences(list, a) == Cardinality({i \in DOMAIN list : list[i] = a})

\* An index that has handled every event shows the wallets as the contract has
\* them: which exist, their names, the threshold that isValidSignatureSet applies,
\* and the same owners, though in an order of its own.  (A wallet whose list was
\* set up with an owner twice is the exception: see NoDuplicateOwners.)
IndexAgrees ==
    CaughtUp =>
        \A w \in Wallet :
            /\ walletExists(w) <=> Indexed(w)
            /\ walletExists(w) =>
                 LET luw == db[LUW][w] IN
                 /\ luw.englishName = luws[w].englishName
                 /\ luw.originalName = luws[w].originalName
                 /\ luw.threshold = getThreshold(w)
                 /\ Drift(wallets[w]) = 0 =>
                      \A a \in Addr : Occurrences(luw.owners, a) = Occurrences(getOwners(w), a)
=============================================================================
