------------------------ MODULE MCIndexedCollection ------------------------
(***************************************************************************)
(* Model checking of IndexedCollection: one record, whatever its metadata, *)
(* in parts whose states add up instead of multiplying: "record" has       *)
(* royalties and custom histories, "hands" commitments and reveals, and    *)
(* "blocks" neither, but blocks at different times.                        *)
(***************************************************************************)
EXTENDS IndexedCollection

CONSTANTS gallery, t1

VARIABLE part

Generate == [input \in MetadataCID \X Artist |-> t1]
Royalties == {[receiver |-> gallery, basisPoints |-> 500]}

MCInit == IndexedInit /\ part \in {"record", "hands", "blocks"}

MCNext ==
    /\ IndexedNext
    /\ UNCHANGED part
    /\ part # "record" =>
          /\ royalties'[t1].receiver = ZERO
          /\ \A i \in DOMAIN log' :
                /\ log'[i][1].event # "History"
                /\ "customHistory" \in DOMAIN log'[i][1] => log'[i][1].customHistory = Null
    /\ part # "hands" => UNCHANGED approvals
    /\ part # "blocks" => UNCHANGED time

MCSpec == MCInit /\ [][MCNext]_<<composed, part>>
=============================================================================
