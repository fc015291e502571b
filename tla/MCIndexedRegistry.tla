------------------------- MODULE MCIndexedRegistry -------------------------
(***************************************************************************)
(* Model checking of IndexedRegistry: one token, whoever the artist is, in *)
(* two parts whose states add up instead of multiplying: "record" has no   *)
(* commitments and one block, "hands" two blocks, commitments and          *)
(* transfers, but no second artist, royalties or histories.                *)
(***************************************************************************)
EXTENDS IndexedRegistry

CONSTANTS admin, gallery, t1

VARIABLE part

Generate == [input \in MetadataCID \X Artist |-> t1]

MCInit == IndexedInit /\ part \in {"record", "hands"}

MCNext ==
    /\ IndexedNext
    /\ UNCHANGED part
    /\ part = "record" => UNCHANGED <<time, commitments>>
    /\ part = "hands" =>
          /\ UNCHANGED historyTypeNames
          /\ srrs'[t1].artist # admin
          /\ royalties'[t1].receiver = ZERO

MCSpec ==
    MCInit /\ [][MCNext]_<<composed, part>> /\ WF_<<composed, part>>(IndexEvent /\ UNCHANGED part)
=============================================================================
