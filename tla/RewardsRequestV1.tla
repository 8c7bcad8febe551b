-------------------------- MODULE RewardsRequestV1 --------------------------
(***************************************************************************)
(* GET /api/v1/rewards (api_v1/endpoints/rewards.py), the older endpoint:  *)
(* one request for a range of days, for one validator (DayLedger), priced  *)
(* day by day. Each query is a transaction of its own; the withdrawals are *)
(* read again for every day. The list of single withdrawals that the       *)
(* answer also carries (lines 294-301) is left out: no amount uses it.     *)
(***************************************************************************)
EXTENDS DayLedger

VARIABLES
    price,          \* days with a close price in table `price`
    pc, req,        \* the request: [start, end, settled]
    initial,        \* initial balance: [slot, balance]
    balances,       \* end-of-day rows read
    date_eth_price, \* days priced so far
    days,           \* slot of a walked row -> [income, upto]: what the answer
                    \* adds for it, and how far the withdrawals were filled
    kind,           \* outcome: none, ok or error
    paid            \* block rewards of the answer, as <<date, slot>>

NoBalance == [slot |-> NoSlot, balance |-> 0]

RequestInit ==
    /\ price = IF balance = {} THEN {} ELSE 0 .. Today - 1
    /\ pc = "idle" /\ req = [start |-> 0, end |-> 0, settled |-> FALSE]
    /\ initial = NoBalance /\ balances = {} /\ date_eth_price = {}
    /\ days = <<>> /\ kind = "none" /\ paid = {}

Finish(k) == pc' = "done" /\ kind' = k

\* Lines 96-110: the end is capped, and a range that is then empty is refused.
\* Lines 155-158: days before genesis (the negative ones) are left out.
Receive(start, end) ==
    /\ pc = "idle"
    /\ req' = [start |-> IF start < 0 THEN 0 ELSE start, end |-> CappedEnd(end),
               settled |-> Settled /\ price = 0 .. Today - 1]
    /\ IF start >= CappedEnd(end)
       THEN Finish("error")
       ELSE pc' = "initial" /\ UNCHANGED kind
    /\ UNCHANGED <<tables, price, initial, balances, date_eth_price, days, paid>>

\* The balance of a validator activated in the period is not read: it is taken to
\* have 32 ETH at its activation slot, whatever was deposited for it (184-192).
\* Otherwise the row of the first slot must exist: next() raises (194-199).
ReadInitial ==
    /\ pc = "initial"
    /\ \/ /\ ~Active(ledger) /\ pc' = "eods" /\ UNCHANGED <<initial, kind>>
       \/ /\ Active(ledger) /\ ledger.activation > StartSlot(req.start)
          /\ initial' = [slot |-> ledger.activation, balance |-> 32]
          /\ pc' = "eods" /\ UNCHANGED kind
       \/ /\ Active(ledger) /\ ledger.activation <= StartSlot(req.start)
          /\ IF StartSlot(req.start) \in balance
             THEN /\ initial' = [slot |-> StartSlot(req.start),
                                 balance |-> BalanceAt(StartSlot(req.start))]
                  /\ pc' = "eods" /\ UNCHANGED kind
             ELSE Finish("error") /\ UNCHANGED initial
    /\ UNCHANGED <<tables, price, req, balances, date_eth_price, days, paid>>

\* Lines 213-248. A range before genesis leaves no slots: the answer is empty.
Requested == req.start .. req.end

ReadEods ==
    /\ pc = "eods"
    /\ IF Requested = {}
       THEN Finish("ok") /\ UNCHANGED balances
       ELSE /\ balances' = {s \in balance : s \in {EodSlot(d) : d \in Requested}}
            /\ pc' = "prices" /\ UNCHANGED kind
    /\ UNCHANGED <<tables, price, req, initial, date_eth_price, days, paid>>

\* One look-up per day, in turn; the .value of a missing row raises (260-268).
\* A pending validator is left out of the answer (284-285).
ReadPrice ==
    /\ pc = "prices"
    /\ LET left == Requested \ date_eth_price IN
       \/ /\ left # {} /\ Min(left) \in price
          /\ date_eth_price' = date_eth_price \cup {Min(left)}
          /\ UNCHANGED <<pc, kind>>
       \/ left # {} /\ Min(left) \notin price /\ Finish("error") /\ UNCHANGED date_eth_price
       \/ /\ left = {} /\ UNCHANGED date_eth_price
          /\ IF Active(ledger) THEN pc' = "walk" /\ UNCHANGED kind ELSE Finish("ok")
    /\ UNCHANGED <<tables, price, req, initial, balances, days, paid>>

\* Lines 327-334: both ends of the BETWEEN belong to the range.
WithdrawnThisDay_Exclusive(low, high) == {s \in 0 .. withdrawal : low < s /\ s < high}
WithdrawnThisDay(low, high) == {s \in 0 .. withdrawal : low <= s /\ s <= high}

\* Rows from before the initial balance are discarded (310-315).
Walked_All == balances
Walked == {s \in balances : s >= initial.slot}
PreviousBalance(slot) ==
    LET before == {s \in DOMAIN days : s < slot} IN
    IF before = {} THEN initial
    ELSE [slot |-> Max(before), balance |-> BalanceAt(Max(before))]

\* One end-of-day row (309-341): a query for the withdrawals since the last one.
WalkDay ==
    /\ pc = "walk" /\ Walked \ DOMAIN days # {}
    /\ LET slot == Min(Walked \ DOMAIN days)
           prev == PreviousBalance(slot)
           income == BalanceAt(slot) - prev.balance
                       + SumOver(ledger.withdrawn, WithdrawnThisDay(prev.slot, slot)) IN
       days' = [s \in DOMAIN days \cup {slot} |->
                  IF s = slot THEN [income |-> income, upto |-> withdrawal] ELSE days[s]]
    /\ UNCHANGED <<tables, price, pc, req, initial, balances, date_eth_price, kind, paid>>

\* Lines 343-382: a failed row is an error, and so is a block dated on a day
\* without a price (a KeyError): the block of the slot the range begins in.
ReadRewards ==
    /\ pc = "walk" /\ Walked \subseteq DOMAIN days
    /\ LET rows == {s \in reward.stored :
                      StartSlot(req.start) <= s /\ s <= EodSlot(req.end)} IN
       IF rows \cap reward.failed # {} \/ \E s \in rows : DateOf(s) \notin date_eth_price
       THEN Finish("error") /\ UNCHANGED paid
       ELSE Finish("ok") /\ paid' = {<<DateOf(s), s>> : s \in rows}
    /\ UNCHANGED <<tables, price, req, initial, balances, date_eth_price, days>>

IndexPrice(day) ==
    /\ day \in (0 .. Today - 1) \ price
    /\ price' = price \cup {day} /\ UNCHANGED tables

Handle == ReadInitial \/ ReadEods \/ ReadPrice \/ WalkDay \/ ReadRewards

-----------------------------------------------------------------------------
Answered == kind = "ok" /\ Active(ledger)

LastBalance(slot) == Max({initial.slot} \cup {s \in DOMAIN days : s < slot})
EarnedSince(slot) == SumOver(ledger.earned, Between(LastBalance(slot), slot))
DepositedSince(slot) == SumOver(ledger.deposited, Between(LastBalance(slot), slot))

\* What the first day of a validator activated in the period is off by, because
\* its balance at the activation is taken to be 32 (rewards.py, 190).
FirstRow(slot) == \A s \in DOMAIN days : slot <= s
Misjudged(slot) ==
    IF FirstRow(slot) /\ ledger.activation > StartSlot(req.start)
    THEN BalanceAt(ledger.activation) - 32 ELSE 0

\* "Calculate earnings, accounting for withdrawals" (rewards.py, 327): what the
\* answer adds for a day is what the validator earned since the balance before,
\* when the withdrawals of that time were all in the table at the query, and with
\* it what was deposited in that time (335: a top-up counts as income); a
\* withdrawal in the very slot of that balance is counted a second time, and
\* whatever is not 32 at the activation counts on the first day.
IncomeIsExplained ==
    \A s \in DOMAIN days :
        days[s].upto >= s =>
            days[s].income = EarnedSince(s) + DepositedSince(s)
                               + ledger.withdrawn[LastBalance(s)] + Misjudged(s)

\* Under tables that missed nothing a valid request is answered, unless the
\* validator proposed the block in whose slot the range begins: with every day
\* since the activation, and with every block of the days asked for, each priced
\* on its own day.
SettledRequestAnswered ==
    /\ kind = "error" /\ req.settled /\ req.start < req.end =>
            StartSlot(req.start) \in Proposals
    /\ Answered /\ req.settled =>
            /\ {DateOf(s) : s \in DOMAIN days} =
                   {d \in Requested : EodSlot(d) >= ledger.activation}
            /\ paid = {<<DateOf(s), s>> : s \in {s \in Proposals : DateOf(s) \in date_eth_price}}
            /\ date_eth_price = Requested
=============================================================================
