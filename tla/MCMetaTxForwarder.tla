------------------------- MODULE MCMetaTxForwarder -------------------------
(***************************************************************************)
(* Model checking of MetaTxForwarder: the requests that may be signed.     *)
(* On channel "a" wallet w1 adds an owner, or a rival request takes the    *)
(* nonce; then it lowers its threshold or removes its first owner.  On     *)
(* channel "b" it calls a collection and then swaps its first owner.       *)
(* Account 2 calls a collection for itself.                                *)
(***************************************************************************)
EXTENDS MetaTxForwarder

CONSTANTS w1, collection

Call(type, from, channel, nonce, first, operation) ==
    [typeHash |-> type, from |-> from, channel |-> channel, nonce |-> nonce,
     first |-> first, operation |-> operation]
Other == [call |-> "other"]

AddSecondOwner == Call("manage", w1, "a", 0, Manager,
    [call |-> "addOwner", wallet |-> w1, owner |-> 3, threshold |-> 2])
LowerThreshold == Call("manage", w1, "a", 1, Manager,
    [call |-> "changeThreshold", wallet |-> w1, threshold |-> 1])
DropFirst == Call("manage", w1, "a", 1, Manager,
    [call |-> "removeOwner", wallet |-> w1, prevOwner |-> 1, owner |-> 2, threshold |-> 1])
SwapFirst == Call("manage", w1, "b", 1, Manager,
    [call |-> "swapOwner", wallet |-> w1, prevOwner |-> 1, oldOwner |-> 2, newOwner |-> 3])
Rival     == Call("collect", w1, "a", 0, collection, Other)
Parallel  == Call("collect", w1, "b", 0, collection, Other)
OfAccount == Call("collect", 2, "a", 0, collection, Other)

Requests == {AddSecondOwner, LowerThreshold, DropFirst, SwapFirst, Rival, Parallel, OfAccount}
Types == {"manage", "collect"}
Targets == {<<"manage", Manager>>, <<"collect", ZeroAddress>>, <<"collect", Registry>>}
Channels == {"a", "b"}
Lists == {<<2>>, <<2, 3>>}
=============================================================================
