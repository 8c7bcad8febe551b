------------------------- MODULE MCBlockRewardIndexer -------------------------
(* Five slots behind a semaphore of two, one of them without a block and one *)
(* whose block the node learns of late; the last two are finalized while     *)
(* rounds run.                                                               *)
EXTENDS BlockRewardIndexer

MCSlots == 1 .. 5
MCMissed == {2}
MCLate == {1}
=============================================================================
