-------------------------- MODULE CustomHistories --------------------------
(***************************************************************************)
(* The custom histories (exhibitions and the like) of StartrailRegistryV25 *)
(* that provenance records and History events refer to by id.  Ids count   *)
(* up from 1; an id exists when its name is not empty.  A name is a member *)
(* of HistoryName or the empty string; metadata digests are left out.      *)
(***************************************************************************)
EXTENDS Integers, Sequences

CONSTANTS
    HistoryName,    \* the non-empty names
    MaxHistories    \* bound: histories, and history types, that are written

VARIABLES
    historyTypeNames,   \* customHistoryTypeNameById
    historyNames        \* the names of the custom histories, by id

customHistories == <<historyTypeNames, historyNames>>

NoName == ""
ASSUME HistoryNameAssumption == NoName \notin HistoryName /\ MaxHistories \in Nat

NameOrEmpty == HistoryName \union {NoName}

CustomHistoriesTypeOK ==
    /\ historyTypeNames \in Seq(NameOrEmpty)
    /\ historyNames \in Seq(NameOrEmpty)

CustomHistoriesInit == historyTypeNames = << >> /\ historyNames = << >>

NO_CUSTOM_HISTORY == 0
HistoryId == 0..MaxHistories

getCustomHistoryNameById(id) == IF id \in DOMAIN historyNames THEN historyNames[id] ELSE NoName
customHistoryIdExists(id) == getCustomHistoryNameById(id) # NoName

addCustomHistoryType(name) ==
    /\ Len(historyTypeNames) < MaxHistories
    /\ \A i \in DOMAIN historyTypeNames : historyTypeNames[i] # name
    /\ historyTypeNames' = Append(historyTypeNames, name)
    /\ UNCHANGED historyNames

\* The name may be empty: the id is used up and never exists.
writeCustomHistory(name, type) ==
    /\ Len(historyNames) < MaxHistories
    /\ type \in DOMAIN historyTypeNames /\ historyTypeNames[type] # NoName
    /\ historyNames' = Append(historyNames, name)
    /\ UNCHANGED historyTypeNames

updateCustomHistory(id, name) ==
    /\ customHistoryIdExists(id)
    /\ name # NoName
    /\ historyNames' = [historyNames EXCEPT ![id] = name]
    /\ UNCHANGED historyTypeNames
=============================================================================
