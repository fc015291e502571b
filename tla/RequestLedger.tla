---------------------------- MODULE RequestLedger ----------------------------
(***************************************************************************)
(* What the forwarder promises to those who sign requests: a transaction   *)
(* executes a set of new requests, all or none; within a channel requests  *)
(* are executed in the order of their nonces, without a gap, and a nonce   *)
(* serves one request only.                                                *)
(***************************************************************************)
EXTENDS Integers

CONSTANTS Sender, Channel, Request

VARIABLES
    next,   \* next[from][channel]: the nonce that is next in the channel
    done    \* the requests that have been executed

ledger == <<next, done>>

Init ==
    /\ next = [f \in Sender |-> [c \in Channel |-> 0]]
    /\ done = {}

In(R, from, channel) == {r \in R : r.from = from /\ r.channel = channel}

Commit(R) ==
    /\ R # {} /\ R \cap done = {}
    /\ \A r, s \in R : r.from = s.from /\ r.channel = s.channel /\ r.nonce = s.nonce => r = s
    /\ done' = done \union R
    /\ \A f \in Sender, c \in Channel :
          /\ next[f][c] <= next'[f][c]
          /\ {r.nonce : r \in In(R, f, c)} = next[f][c]..(next'[f][c] - 1)

Spec == Init /\ [][\E R \in SUBSET Request : Commit(R)]_ledger
=============================================================================
