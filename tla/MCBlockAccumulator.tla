------------------------- MODULE MCBlockAccumulator -------------------------
(***************************************************************************)
(* A small chain for TLC: h1 (height 1, era 1) and its child h2 (height 2, *)
(* era 2).  In era 1, v2 alone weighs more than a third (2 of 3) and v1    *)
(* alone does not (1 of 3); in era 2 only v1 is a validator.  Forged       *)
(* bodies, when a configuration gives some, claim h2 with a lower height   *)
(* or another parent.                                                      *)
(***************************************************************************)
EXTENDS BlockAccumulatorLifecycle, TLC

CONSTANTS h1, h2, v1, v2, p1

\* No initial local tip (BlockAccumulator::new with None).
MCNoTip == NoHeight

MCParent == (h1 :> NoHash) @@ (h2 :> h1)
MCHeightOf == (h1 :> 1) @@ (h2 :> 2)
MCEraOf == (h1 :> 1) @@ (h2 :> 2)
MCWeight == (1 :> ((v1 :> 1) @@ (v2 :> 2))) @@ (2 :> ((v1 :> 1) @@ (v2 :> 0)))

\* The signatures gossiped: every validator's genuine signature of each
\* block (v2's for h2 is invalid gossip: v2 has no weight in era 2), and
\* v2's signature of h2 claiming era 1, in which v2 alone is a quorum.
MCSignatures ==
    {[signer |-> v, hash |-> h, era |-> MCEraOf[h]] : v \in {v1, v2}, h \in {h1, h2}}
    \cup {[signer |-> v2, hash |-> h2, era |-> 1]}

\* Bodies a faulty peer gossips under h2's hash: one naming h2 as its own
\* parent (a forged chain link), one of height 0 (below any local tip).
MCForgedBodies ==
    {[hash |-> h2, parent |-> h2, height |-> 2, era |-> 2],
     [hash |-> h2, parent |-> h1, height |-> 0, era |-> 2]}

=============================================================================
