-------------------------- MODULE MCRewardsEndpoints --------------------------
\* Three days of two slots. A quiet validator earns 1 in every slot from its
\* activation to its exit; it withdraws and proposes on and next to the ends of
\* days, exits (whole, or slashed to 16), or its block pays somebody else. It is
\* activated with 32 ETH deposited at once or in two parts on both sides of a
\* midnight, or with more; some are topped up later, at a day's end too.
EXTENDS RewardsEndpoints, TLC

At(slot, amount) == [s \in {slot} |-> amount]
None == At(0, 0)
Quiet(activation, deposits, withdrawals, proposals, to) ==
    LET amount(f, s) == IF s \in DOMAIN f THEN f[s] ELSE 0
        exits == {s \in Slots : amount(withdrawals, s) > 8} IN
    [earned |-> [s \in Slots |->
        IF activation >= 0 /\ s > activation /\ \A e \in exits : s <= e THEN 1 ELSE 0],
     deposited |-> [s \in Slots |-> amount(deposits, s)],
     withdrawn |-> [s \in Slots |-> amount(withdrawals, s)],
     proposed |-> [s \in Slots |-> IF s \in proposals THEN 1 ELSE 0],
     recipient |-> [s \in Slots |-> to],
     activation |-> activation]
QuietLedgers ==
    { Quiet(0, At(0, 32), At(wp[1], 2), {wp[2]}, "mine") : wp \in {<<3, 2>>, <<4, 4>>, <<2, 2>>} }
    \cup { Quiet(0, At(0, 32) @@ At(4, 5), At(6, 2), {4}, "mine"),
           Quiet(0, At(0, 32) @@ At(3, 1), At(3, 36), {2}, "mine"),
           [Quiet(0, At(0, 32), At(3, 16), {2}, "other") EXCEPT !.earned[2] = -18],
           Quiet(1, At(0, 33), At(2, 1), {5}, "mine"),
           Quiet(3, At(1, 34), None, {}, "mine"),
           Quiet(4, At(1, 16) @@ At(3, 16), At(5, 1), {5}, "mine"),
           Quiet(NoSlot, At(2, 16), None, {}, "mine") }
=============================================================================
