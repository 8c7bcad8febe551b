--------------------------- MODULE MCBalanceIndexer ---------------------------
(* Instances of BalanceIndexer: epochs of two slots, days that end at slots  *)
(* 3 and 7, three validators of which one starts at genesis and two share an *)
(* activation slot between the ends of days.                                 *)
EXTENDS BalanceIndexer

MCValidators == {"genesis", "alice", "bob"}
MCActSlot == [v \in MCValidators |-> IF v = "genesis" THEN 0 ELSE 4]
MCEodSlots == {0, 3, 7}
MCGaps == {3, 4}
=============================================================================
