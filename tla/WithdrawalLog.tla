---------------------------- MODULE WithdrawalLog ----------------------------
(***************************************************************************)
(* What the table `withdrawal` promises to those who sum it up: each       *)
(* paying slot is in it once or not at all, and the slots in it are all    *)
(* the paying slots up to some slot, so that a sum over any range below    *)
(* the last slot stored misses nothing and counts nothing twice.           *)
(***************************************************************************)
EXTENDS Integers

CONSTANT Paying         \* slots whose block carries withdrawals

VARIABLES copies,       \* [Paying -> times the slot's withdrawals are stored]
          horizon

lvars == <<copies, horizon>>

Prefix(n) == [s \in Paying |-> IF s <= n THEN 1 ELSE 0]

Init == horizon \in Nat /\ \E n \in -1 .. horizon : copies = Prefix(n)

\* One commit: the log now reaches slot n.
Extend ==
    /\ \E n \in -1 .. horizon : copies' = Prefix(n)
    /\ \A s \in Paying : copies[s] <= copies'[s]
    /\ UNCHANGED horizon

Advance == horizon' \in Nat /\ horizon' > horizon /\ UNCHANGED copies

Next == Extend \/ Advance

Spec == Init /\ [][Next]_lvars
=============================================================================
