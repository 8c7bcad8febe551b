------------------------- MODULE MCRocketPoolRequest --------------------------
\* Two minipools of one node and a validator that is not Rocket Pool's, over two
\* days of three slots; Atlas comes with slot 2, which also empties the fee
\* distributor.
EXTENDS RocketPoolRequest

MCNodeOf == [v \in {1, 2} |-> "n1"]
MCTerms == [v \in {1, 2} |-> [bond |-> 16, fee |-> 18]]
MCReductions ==
    { [pool |-> 1, slot |-> 1, bond |-> 8, fee |-> 14],
      [pool |-> 1, slot |-> 4, bond |-> 4, fee |-> 14] }
MCWithdrawals ==
    { [validator |-> 1, slot |-> 1, amount |-> 1],
      [validator |-> 1, slot |-> 5, amount |-> 33],
      [validator |-> 2, slot |-> 6, amount |-> 31] }
MCProposals ==
    { [validator |-> 1, slot |-> 1, to |-> "distributor", income |-> 100],
      [validator |-> 1, slot |-> 3, to |-> "distributor", income |-> 203],
      [validator |-> 2, slot |-> 4, to |-> "smoothing", income |-> 50] }
MCEmptied == [n \in {"n1"} |-> {2}]
MCRatio == [n \in {"n1"} |-> 4]
MCRequests == {{1}, {1, 2}, {1, 3}}
MCPeriodDay == [p \in {0} |-> 1]
=============================================================================
