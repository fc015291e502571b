---------------------------- MODULE EntityStore ----------------------------
(***************************************************************************)
(* The database of the subgraph, as the mapping handlers of subgraph/src   *)
(* see it.  The database db is a record with one store per entity type; a  *)
(* store is a function from the ids of the entities it holds.  A handler   *)
(* is an operator that takes the database, an event and the timestamp of   *)
(* its block, and returns the database after its saves: handlers read no   *)
(* contract and keep nothing between events.                               *)
(*                                                                         *)
(* An id that the code hashes is the tuple of what it hashes.  updatedAt   *)
(* and the dates written as strings are left out, and createdAt where it   *)
(* is only copied from the event.                                          *)
(***************************************************************************)
EXTENDS Integers, Sequences

CONSTANTS Null      \* a field that is not set

Has(db, type, id) == id \in DOMAIN db[type]

\* entity.save(): an entity of the same id is overwritten.
Save(db, type, id, entity) ==
    [db EXCEPT ![type] = [i \in DOMAIN @ \union {id} |-> IF i = id THEN entity ELSE @[i]]]

\* store.remove(type, id)
Remove(db, type, id) == [db EXCEPT ![type] = [i \in DOMAIN @ \ {id} |-> @[i]]]

\* A handler that finds no entity logs an error and returns.
IfKnown(db, type, id, after) == IF Has(db, type, id) THEN after ELSE db

NoEntities == << >>     \* the empty store

secondsToMillis(timestamp) == 1000 * timestamp

srrEntityId(collectionAddress, tokenId) == <<collectionAddress, tokenId>>
=============================================================================
