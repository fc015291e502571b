------------------------------ MODULE SRRTitle ------------------------------
(***************************************************************************)
(* What a Startrail Registry Record (SRR) promises to those who trade in   *)
(* it: once issued it always has an owner and its issuer stays the same;   *)
(* while external transfers are locked it changes hands only with a        *)
(* provenance entry; and a provenance entry is never about a transfer that *)
(* did not happen.                                                         *)
(***************************************************************************)
EXTENDS Naturals

CONSTANTS Account, TokenId, NoOne

VARIABLES
    holder,     \* holder[t]: the owner of t, NoOne before it is issued
    issuer,     \* issuer[t]
    locked,     \* locked[t]: external transfers are locked
    entry       \* the provenance entry of the last step, if any

title == <<holder, issuer, locked, entry>>

Init ==
    /\ holder = [t \in TokenId |-> NoOne]
    /\ issuer = [t \in TokenId |-> NoOne]
    /\ locked = [t \in TokenId |-> FALSE]
    /\ entry = {}

Issue(t, by, to, lock) ==
    /\ holder[t] = NoOne
    /\ holder' = [holder EXCEPT ![t] = to]
    /\ issuer' = [issuer EXCEPT ![t] = by]
    /\ locked' = [locked EXCEPT ![t] = lock]
    /\ entry' = {}

\* A transfer by the standard ERC-721 calls leaves no entry.
Trade(t, to) ==
    /\ holder[t] # NoOne
    /\ ~locked[t]
    /\ holder' = [holder EXCEPT ![t] = to]
    /\ entry' = {}
    /\ UNCHANGED <<issuer, locked>>

Record(t, to) ==
    /\ holder[t] # NoOne
    /\ holder' = [holder EXCEPT ![t] = to]
    /\ entry' = {[token |-> t, from |-> holder[t], to |-> to]}
    /\ UNCHANGED <<issuer, locked>>

Lock(t, lock) ==
    /\ holder[t] # NoOne
    /\ locked' = [locked EXCEPT ![t] = lock]
    /\ entry' = {}
    /\ UNCHANGED <<holder, issuer>>

Otherwise == entry' = {} /\ UNCHANGED <<holder, issuer, locked>>

Next ==
    \/ \E t \in TokenId, by, to \in Account, lock \in BOOLEAN : Issue(t, by, to, lock)
    \/ \E t \in TokenId, to \in Account : Trade(t, to) \/ Record(t, to)
    \/ \E t \in TokenId, lock \in BOOLEAN : Lock(t, lock)
    \/ Otherwise

Spec == Init /\ [][Next]_title
=============================================================================
