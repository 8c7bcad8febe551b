---------------------------- MODULE MCRewardValue ----------------------------
\* Blocks whose amounts are distinct powers of two: two different histories of
\* an account never end in the same balance by accident, so an equality the
\* code finds is one it may rely on. A relay's block with no payment names the
\* proposer as its fee recipient and promises the fees.
EXTENDS RewardValue

AllBlocks ==
    { b \in [builder : BOOLEAN, fees : {2}, mev : {0, 4},
             promised : {0, 2, 4, 6, 68}, spent : {0, 8}, distributed : {0, 16},
             withdrawn : {0, 32}, stored : BOOLEAN, spam : {0, 1},
             bot : BOOLEAN, relayooor : BOOLEAN, forwarder : BOOLEAN] :
        /\ b.builder => ~b.bot /\ ~b.relayooor /\ b.mev > 0 /\ b.promised # 6
        /\ IF b.mev = 0 THEN b.promised \in {0, 2} ELSE b.promised # 2
        /\ b.forwarder => b.promised > 0 }
=============================================================================
