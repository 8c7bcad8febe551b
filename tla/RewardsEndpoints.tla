-------------------------- MODULE RewardsEndpoints --------------------------
(***************************************************************************)
(* The two rewards endpoints over the same tables: a request to either of  *)
(* them while the indexers write, and the same request to the other one    *)
(* once the tables miss nothing.                                           *)
(***************************************************************************)
EXTENDS RewardsRequest

\* API v1: its own request, and the prices it needs.
VARIABLES price, pc1, req1, initial1, balances, date_eth_price, days, kind, paid

V1 == INSTANCE RewardsRequestV1 WITH pc <- pc1, req <- req1, initial <- initial1

request1 == <<pc1, req1, initial1, balances, date_eth_price, days, kind, paid>>
vars == <<tables, price, request, request1>>

-----------------------------------------------------------------------------
Init == TablesInit /\ RequestInit /\ V1!RequestInit

AllSettled == Settled /\ price = 0 .. Today - 1

\* Bound: a second request comes over settled tables, for the same days.
First == pc = "idle" /\ pc1 = "idle"

ReceiveV2(start, end, expected) ==
    /\ start <= Today
    /\ \/ First
       \/ /\ pc1 = "done" /\ kind = "ok" /\ AllSettled
          /\ start = req1.start /\ CappedEnd(end) = req1.end
    /\ Receive(start, end, expected)
    /\ UNCHANGED <<price, request1>>

ReceiveV1(start, end) ==
    /\ \/ First
       \/ /\ pc = "done" /\ answer.kind = "ok" /\ AllSettled
          /\ start = req.start /\ CappedEnd(end) = req.end
    /\ V1!Receive(start, end)
    /\ UNCHANGED request

\* Bound: the indexers write until the first answer is given.
Write ==
    /\ pc # "done" /\ pc1 # "done" /\ UNCHANGED <<request, request1>>
    /\ \/ Index /\ UNCHANGED price
       \/ pc1 # "idle" /\ \E d \in 0 .. Today - 1 : V1!IndexPrice(d)

Next ==
    \/ \E start, end \in 0 .. Today + 1, expected \in SUBSET {"mine"} :
          ReceiveV2(start, end, expected)
    \/ Handle /\ UNCHANGED <<price, request1>>
    \/ \E start \in -2 .. Today, end \in -1 .. Today + 1 : ReceiveV1(start, end)
    \/ V1!Handle /\ UNCHANGED request
    \/ Write

Spec == Init /\ [][Next]_vars

-----------------------------------------------------------------------------
\* API v1: every amount added for a day is what was earned and deposited since the
\* balance before, with a withdrawal in the slot of that balance counted twice, and
\* on the first day of a validator what it did not have 32 ETH by.
IncomeIsExplainedV1 == V1!IncomeIsExplained

\* API v1: a request over complete tables is answered, with every day and every
\* block reward, unless a block was proposed in the slot the range begins in.
SettledRequestAnsweredV1 == V1!SettledRequestAnswered

\* Asked for the same days of the same tables, the two endpoints report the same
\* days and the same block rewards, and incomes that differ by exactly three
\* things: v2 takes the capital of an exit off, v1 counts a withdrawal in the slot
\* the day is measured from twice, and v1 takes every validator to start with 32
\* ETH where v2 reads its balance (v1, 190; v2, 445). Neither shares a line of the
\* calculation with the other.
VersionsAgree ==
    Answered /\ V1!Answered /\ req.settled /\ req1.settled
        /\ req.start = req1.start /\ req.end = req1.end =>
        /\ eods = V1!Walked /\ answer.paid = paid
        /\ \A e \in eods :
              days[e].income = answer.days[e] + CapitalBy(e)
                                 + ledger.withdrawn[PreviousBalance(e)] + V1!Misjudged(e)
=============================================================================
