---------------------------- MODULE SlotArchive ----------------------------
(***************************************************************************)
(* What every indexer of the application promises to the reward API, with  *)
(* nothing of how it does it: the slots recorded in its table only grow,   *)
(* several at a time at most, and a slot is recorded only once the chain   *)
(* has passed the horizon (the slot the beacon node reports as finalized). *)
(***************************************************************************)
EXTENDS Naturals

CONSTANT Slots      \* a set of natural numbers

VARIABLES archive,   \* slots with committed rows
          horizon    \* last slot reported final

avars == <<archive, horizon>>

Final(h) == {s \in Slots : s <= h}

Init == horizon \in Nat /\ archive \subseteq Final(horizon)

\* One committed transaction: zero or more final slots, complete.
Record ==
    /\ archive \subseteq archive'
    /\ archive' \subseteq archive \cup Final(horizon)
    /\ UNCHANGED horizon

\* The chain finalizes further; no indexer moves the horizon back.
Advance ==
    /\ horizon' \in Nat /\ horizon' > horizon
    /\ UNCHANGED archive

Next == Record \/ Advance

Spec == Init /\ [][Next]_avars
=============================================================================
