------------------------- MODULE MCRocketPoolIndexer -------------------------
\* Two nodes, three minipools, one of them created in the block its node is
\* registered in, and a bond reduction in the block after a creation. The ranges
\* are cut at the last creation and at the snapshot of period 3.
EXTENDS RocketPoolIndexer, TLC

CONSTANTS n1, n2, m1, m2, m3, r1, r2

MCNodes == {n1, n2}
MCRegisteredAt == n1 :> 1 @@ n2 :> 2
MCMinipools == {m1, m2, m3}
MCCreatedAt == m1 :> 1 @@ m2 :> 2 @@ m3 :> 3
MCNodeOf == m1 :> n1 @@ m2 :> n2 @@ m3 :> n1
MCReductions == {r1, r2}
MCReducedAt == r1 :> 2 @@ r2 :> 3
MCMinipoolOf == r1 :> m1 @@ r2 :> m2
LateCut == {3}
=============================================================================
