------------------------------ MODULE LUWIndex ------------------------------
(***************************************************************************)
(* subgraph/src/luw-mapping.ts: the index of the licensed users' wallets,  *)
(* kept from the events of the LicensedUserManager.  The user type and the *)
(* salt are left out.                                                      *)
(***************************************************************************)
EXTENDS EntityStore

LUW == "LicensedUserWallet"

\* A wallet that is known already (a migration from the legacy contract) keeps
\* what it has.
handleCreateLicensedUserWallet(db, e, timestamp) ==
    IF Has(db, LUW, e.wallet) THEN db
    ELSE Save(db, LUW, e.wallet,
              [englishName |-> e.englishName, originalName |-> e.originalName,
               owners |-> e.owners, threshold |-> e.threshold,
               createdAt |-> secondsToMillis(timestamp), originChain |-> Null])

SaveWallet(db, id, luw) == IfKnown(db, LUW, id, Save(db, LUW, id, luw))

handleAddedOwner(db, e) ==
    LET luw == db[LUW][e.wallet]
    IN  SaveWallet(db, e.wallet, [luw EXCEPT !.owners = Append(@, e.owner)])

\* The list without its first entry of the owner; the list itself when none is.
WithoutFirst(owners, owner) ==
    LET places == {i \in 1..Len(owners) : owners[i] = owner}
        first == CHOOSE i \in places : \A j \in places : i <= j
    IN  IF places = {} THEN owners
        ELSE SubSeq(owners, 1, first - 1) \o SubSeq(owners, first + 1, Len(owners))

handleRemovedOwner(db, e) ==
    LET luw == db[LUW][e.wallet]
    IN  SaveWallet(db, e.wallet, [luw EXCEPT !.owners = WithoutFirst(@, e.owner)])

handleChangedThreshold(db, e) ==
    LET luw == db[LUW][e.wallet]
    IN  SaveWallet(db, e.wallet, [luw EXCEPT !.threshold = e.threshold])

handleUpgradeLicensedUserWalletToMulti(db, e) ==
    LET luw == db[LUW][e.wallet]
    IN  SaveWallet(db, e.wallet, [luw EXCEPT !.owners = e.owners, !.threshold = e.threshold])

handleUpdateLicensedUserDetail(db, e) ==
    LET luw == db[LUW][e.wallet]
    IN  SaveWallet(db, e.wallet,
          CASE e.key = "englishName" -> [luw EXCEPT !.englishName = e.value]
            [] e.key = "originalName" -> [luw EXCEPT !.originalName = e.value]
            [] OTHER -> luw)

handleMigrateLicensedUser(db, e) ==
    LET luw == db[LUW][e.wallet]
    IN  SaveWallet(db, e.wallet, [luw EXCEPT !.createdAt = secondsToMillis(e.originTimestamp),
                                             !.originChain = e.originChain])

HandleWalletEvent(db, e, timestamp) ==
    CASE e.event = "CreateLicensedUserWallet" -> handleCreateLicensedUserWallet(db, e, timestamp)
      [] e.event = "AddedOwner" -> handleAddedOwner(db, e)
      [] e.event = "RemovedOwner" -> handleRemovedOwner(db, e)
      [] e.event = "ChangedThreshold" -> handleChangedThreshold(db, e)
      [] e.event = "UpgradeLicensedUserWalletToMulti" ->
            handleUpgradeLicensedUserWalletToMulti(db, e)
      [] e.event = "UpdateLicensedUserDetail" -> handleUpdateLicensedUserDetail(db, e)
      [] e.event = "MigrateLicensedUserWallet" -> handleMigrateLicensedUser(db, e)
=============================================================================
