------------------------- MODULE LicensedUserManager -------------------------
(***************************************************************************)
(* contracts/licensedUser/LicensedUserManagerV02.sol: the licensed users'  *)
(* wallets (LUWs).  A wallet with one owner keeps it in luws[w].owner and  *)
(* never touches the linked list of OwnerManager; its first addOwner moves *)
(* it to the list (singleToMulti).  The signature check that MetaTx        *)
(* requests rely on (isValidSignatureSet and SignatureChecker.sol) reads   *)
(* both storages.                                                          *)
(*                                                                         *)
(* A name is a member of Name or the empty string; userType, salts, chain  *)
(* names and timestamps are left out.                                      *)
(***************************************************************************)
EXTENDS OwnerManager

CONSTANTS Name      \* the non-empty names of a licensed user

VARIABLE luws       \* luws[w]: the struct LicensedUser of wallet w

vars == <<wallets, luws>>

EmptyString == ""

ASSUME NameAssumption == EmptyString \notin Name

LicensedUser ==
    [owner: Addr, active: BOOLEAN,
     englishName: Name \union {EmptyString}, originalName: Name \union {EmptyString}]

NoLicensedUser ==
    [owner |-> ZERO, active |-> FALSE,
     englishName |-> EmptyString, originalName |-> EmptyString]

TypeOK ==
    /\ wallets \in [Wallet -> WalletStruct]
    /\ luws \in [Wallet -> LicensedUser]

Init ==
    /\ OMInit
    /\ luws = [w \in Wallet |-> NoLicensedUser]

-----------------------------------------------------------------------------
(* Views. *)

walletExists(w) == luws[w].originalName # EmptyString
isSingleOwner(w) == luws[w].owner # ZERO
isActiveWallet(w) == luws[w].active

getThreshold(w) == IF isSingleOwner(w) THEN 1 ELSE wallets[w].threshold

getOwners(w) == IF isSingleOwner(w) THEN <<luws[w].owner>> ELSE Visit(wallets[w])

\* The addresses isOwner accepts (the base contract's isOwner lets ZERO's entry,
\* which is never written, answer FALSE).
OwnersOf(w) == IF isSingleOwner(w) THEN {luws[w].owner} ELSE Linked(wallets[w])

\* Seeded fault: the same signer may be given twice.
checkSignaturesNotStrict(w, signers) ==
    LET threshold == wallets[w].threshold IN
    /\ threshold > 0
    /\ Len(signers) >= threshold
    /\ \A i \in 1..threshold :
          /\ signers[i] >= (IF i = 1 THEN ZERO ELSE signers[i - 1])
          /\ wallets[w].owners[signers[i]] # ZERO
          /\ signers[i] # SENTINEL_OWNERS

\* signers[i] is what ecrecover returns for the i-th 65 bytes of the signatures:
\* ZERO for a malformed signature.
checkSignatures(w, signers) ==
    LET threshold == wallets[w].threshold IN
    /\ threshold > 0
    /\ Len(signers) >= threshold
    /\ \A i \in 1..threshold :
          /\ signers[i] > (IF i = 1 THEN ZERO ELSE signers[i - 1])
          /\ wallets[w].owners[signers[i]] # ZERO
          /\ signers[i] # SENTINEL_OWNERS

isValidSignatureSet(w, signers) ==
    /\ isActiveWallet(w)
    /\ IF isSingleOwner(w)
       THEN signers # << >> /\ signers[1] = luws[w].owner
       ELSE checkSignatures(w, signers)

-----------------------------------------------------------------------------
(* Operations. *)

\* createWallet and createWalletFromMigration.  They differ in where the address
\* comes from: a create2 address computed from the salt and the first owner, or
\* an address the administrator gives.
createWallet(caller, w, list, threshold, englishName, originalName) ==
    /\ caller = Administrator
    /\ ~walletExists(w)
    /\ list # << >> /\ list[1] # ZERO
    /\ englishName # EmptyString
    /\ originalName # EmptyString
    /\ LET singleOwner == Len(list) = 1 IN
       /\ luws' = [luws EXCEPT ![w] =
             [owner |-> IF singleOwner THEN list[1] ELSE ZERO, active |-> TRUE,
              englishName |-> englishName, originalName |-> originalName]]
       /\ IF singleOwner
          THEN UNCHANGED wallets
          ELSE /\ setupOwners(w, list, threshold)
               /\ GetOwnersReturns(SetupResult(wallets[w], list, threshold))

\* Seeded fault: the single owner is not cleared.
singleToMultiKeepsOwner(w, list, threshold) ==
    /\ UNCHANGED luws
    /\ setupOwners(w, list, threshold)

singleToMulti(w, list, threshold) ==
    /\ luws' = [luws EXCEPT ![w].owner = ZERO]
    /\ setupOwners(w, list, threshold)

addOwner(caller, w, owner, threshold) ==
    /\ isActiveWallet(w)
    /\ onlyWalletOrAdministrator(caller, w)
    /\ \/ /\ isSingleOwner(w)
          /\ singleToMulti(w, <<luws[w].owner, owner>>, threshold)
       \/ /\ ~isSingleOwner(w)
          /\ addOwnerMulti(w, owner, threshold)
          /\ UNCHANGED luws

setOriginalName(caller, w, name) ==
    /\ onlyWalletOrAdministrator(caller, w)
    /\ isActiveWallet(w)
    /\ name # EmptyString
    /\ luws' = [luws EXCEPT ![w].originalName = name]
    /\ UNCHANGED wallets

setEnglishName(caller, w, name) ==
    /\ onlyWalletOrAdministrator(caller, w)
    /\ isActiveWallet(w)
    /\ name # EmptyString
    /\ luws' = [luws EXCEPT ![w].englishName = name]
    /\ UNCHANGED wallets

CreateWallet(caller, w) ==
    \E list \in OwnerLists, t \in Uint8, english, original \in Name \union {EmptyString} :
        createWallet(caller, w, list, t, english, original)

AddOwner(caller, w) ==
    \E owner \in Addr, t \in Uint8 : addOwner(caller, w, owner, t)

RemoveOwner(caller, w) ==
    \E prev, owner \in Addr, t \in Uint8 :
        removeOwner(caller, w, prev, owner, t) /\ UNCHANGED luws

SwapOwner(caller, w) ==
    \E prev, old, new \in Addr : swapOwner(caller, w, prev, old, new) /\ UNCHANGED luws

ChangeThreshold(caller, w) ==
    \E t \in Uint8 : changeThreshold(caller, w, t) /\ UNCHANGED luws

SetName(caller, w) ==
    \E name \in Name \union {EmptyString} :
        setOriginalName(caller, w, name) \/ setEnglishName(caller, w, name)

WalletCall(caller, w) ==
    \/ CreateWallet(caller, w)
    \/ AddOwner(caller, w)
    \/ RemoveOwner(caller, w)
    \/ SwapOwner(caller, w)
    \/ ChangeThreshold(caller, w)
    \/ SetName(caller, w)

Next == \E caller \in Caller, w \in Wallet : WalletCall(caller, w)

Spec == Init /\ [][Next]_vars

-----------------------------------------------------------------------------
(* Properties. *)

\* A multi-owner wallet: its owners live in the linked list.
MultiOwner(w) == walletExists(w) /\ ~isSingleOwner(w)

\* The two storages never both hold owners: the wallet of a single owner (or of
\* nobody) has an untouched list, and an active wallet always has a signatory
\* rule, one owner or a list with a threshold (createWallet, singleToMulti).
OneStorage ==
    \A w \in Wallet :
        /\ ~MultiOwner(w) => wallets[w] = EmptyWallet
        /\ MultiOwner(w) => wallets[w].threshold >= 1

\* The threshold never exceeds the owner count the wallet keeps, whatever
\* sequence of additions, removals and threshold changes led here (addOwner and
\* removeOwner skip changeThreshold's checks when the threshold stays the same).
ThresholdInRange ==
    \A w \in Wallet :
        MultiOwner(w) => ThresholdFits(wallets[w].threshold, wallets[w].ownerCount)

\* The list is one ring through the sentinel: getOwners visits every address
\* that isOwner and checkSignatures accept, and visits it once.  An owner who was
\* removed or swapped out is off the ring and can no longer sign.
ListIsRing ==
    \A w \in Wallet :
        LET listed == getOwners(w) IN
        walletExists(w) => /\ {listed[i] : i \in DOMAIN listed} = OwnersOf(w)
                           /\ Len(listed) = Cardinality(OwnersOf(w))

\* getOwners never writes past the end of its array, so a wallet can always be
\* read (it would otherwise be unreadable for ever), even at the uint8 limit.
OwnersReadable == \A w \in Wallet : GetOwnersReturns(wallets[w])

\* The difference between the owner count and the owners on the list is fixed
\* when the list is set up: no later call of the administrator or of the wallet
\* makes it grow or shrink.
Drift(wallet) == wallet.ownerCount - Cardinality(Linked(wallet))
DriftOnlyAtSetup ==
    [][\A w \in Wallet : MultiOwner(w) => Drift(wallets[w])' = Drift(wallets[w])]_vars

\* A signature set that isValidSignatureSet accepts holds the signatures of
\* getThreshold different current owners (no owner counts twice), and the
\* signatures of that many owners, in address order, are accepted.
QuorumOf(w, S) == S \subseteq OwnersOf(w) /\ Cardinality(S) = getThreshold(w)
SignatureSetIsQuorum ==
    \A w \in Wallet :
        isActiveWallet(w) =>
            LET n == getThreshold(w)
                signed(s) == {s[i] : i \in 1..n}
                ascending(s) == \A i, j \in 1..n : i < j => s[i] < s[j]
            IN  \A s \in [1..n -> Addr] :
                    isValidSignatureSet(w, s) <=> ascending(s) /\ QuorumOf(w, signed(s))

\* "No duplicate owners allowed." (OwnerManager.sol, in setupOwners and addOwner):
\* the owner count of a multi-owner wallet counts different owners.
NoDuplicateOwners == \A w \in Wallet : MultiOwner(w) => Drift(wallets[w]) = 0
=============================================================================
