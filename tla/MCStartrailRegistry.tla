------------------------ MODULE MCStartrailRegistry ------------------------
(***************************************************************************)
(* Model checking of StartrailRegistry, one token per metadata id, in two  *)
(* parts whose states add up instead of multiplying: "one" has a single    *)
(* record with everything that can happen to it, "two" has two records,    *)
(* one issuer and one approved account, and no commitments or histories.   *)
(***************************************************************************)
EXTENDS StartrailRegistry

CONSTANTS artist, buyer, cid1, cid2, t1, t2

VARIABLE part

Generate ==
    [input \in MetadataCID \X {artist} |-> IF input[1] = cid1 THEN t1 ELSE t2]

MCInit == Init /\ part \in {"one", "two"}

MCNext ==
    /\ Next
    /\ UNCHANGED part
    /\ part = "one" => tokenOwner'[t2] = ZERO /\ srrs'[t1].metadata # cid2
    /\ part = "two" =>
          /\ UNCHANGED <<customHistories, commitments, operatorApprovals, killSwitch>>
          /\ \A t \in TokenId :
                /\ srrs'[t].issuer \in {artist, ZERO}
                /\ royalties'[t].basisPoints \in {0, 10000}
                /\ tokenApprovals'[t] \in {ZERO, buyer}

MCSpec == MCInit /\ [][MCNext]_<<vars, part>>
=============================================================================
