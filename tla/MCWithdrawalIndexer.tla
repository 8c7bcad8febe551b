-------------------------- MODULE MCWithdrawalIndexer --------------------------
(* Epochs of three slots, of which half pay: to one address, to two at once *)
(* and to one seen before; the node may lack two of the paying blocks.      *)
EXTENDS WithdrawalIndexer, TLC

MCPaidTo == 0 :> {"a"} @@ 2 :> {"a", "b"} @@ 4 :> {"b"} @@ 5 :> {"c"} @@ 7 :> {"d", "a"}
            @@ 9 :> {"b"}
MCPaying == DOMAIN MCPaidTo
TwoGaps == {2, 7}
=============================================================================
