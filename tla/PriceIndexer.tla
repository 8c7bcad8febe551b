---------------------------- MODULE PriceIndexer ----------------------------
(***************************************************************************)
(* The price indexer (src/indexer/prices.py with CoinGecko) and the        *)
(* endpoint that reads its table (GET /api/v2/prices/{token},              *)
(* api_v2/endpoints/prices.py).                                            *)
(*                                                                         *)
(* A round resumes every token after the last date of the table, ETH       *)
(* first, and commits date by date, one row per currency the provider      *)
(* quotes. The endpoint looks the dates of a request up one by one, each   *)
(* in a session of its own.                                                *)
(***************************************************************************)
EXTENDS Integers, Sequences

CONSTANTS
    Currencies,
    QuotedFrom,     \* [Currencies -> date]: first date CoinGecko has it for
    FirstDate,      \* dates before it are in the table when the model starts
    LastDate,       \* bound: the last date that becomes "today"
    Seeds,          \* sets of tokens the table may hold when the model starts
    MaxFaults       \* bound: exceptions and restarts

Tokens == {"ethereum", "rocket-pool"}
Order == <<"ethereum", "rocket-pool">>

ASSUME ConstantsAssumption ==
    /\ FirstDate \in Nat \ {0} /\ LastDate \in Nat /\ FirstDate <= LastDate
    /\ QuotedFrom \in [Currencies -> 0 .. LastDate]
    /\ \E c \in Currencies : QuotedFrom[c] = 0
    /\ Seeds \subseteq SUBSET Tokens /\ MaxFaults \in Nat

VARIABLES
    today,
    rows,       \* [Tokens -> set of <<currency, date>>], committed
    turn,       \* index in Order of the token of the round, 0 when idle
    date,       \* date_being_processed
    until,      \* `today` of the round
    faults,
    ask,        \* request: [token, currency, start, end, stored], or NoRequest
    next,       \* date the request looks up next
    reply       \* "none", "running", "ok" or "error"

table == <<today, rows>>
indexer == <<turn, date, until, faults>>
request == <<ask, next, reply>>
vars == <<table, indexer, request>>

Dates == 0 .. LastDate
Quoted(d) == {c \in Currencies : QuotedFrom[c] <= d}
RowsOf(d) == {<<c, d>> : c \in Quoted(d)}
StoredDates(token) == {d \in Dates : \E c \in Currencies : <<c, d>> \in rows[token]}
LastStored(token) == CHOOSE d \in StoredDates(token) : \A e \in StoredDates(token) : e <= d

-----------------------------------------------------------------------------
NoRequest == [token |-> "none"]

Init ==
    /\ today \in FirstDate .. LastDate
    /\ \E seeded \in Seeds :
         rows = [t \in Tokens |-> IF t \in seeded
                                  THEN UNION {RowsOf(d) : d \in 0 .. FirstDate - 1} ELSE {}]
    /\ turn = 0 /\ date = 0 /\ until = 0 /\ faults = 0
    /\ ask = NoRequest /\ next = 0 /\ reply = "none"

Midnight ==
    /\ today < LastDate /\ today' = today + 1
    /\ UNCHANGED <<rows, indexer, request>>

\* The query of lines 32-37 for the round's first, or next, token. A token
\* without a row has no last date: None.date() raises.
Resume(i) ==
    /\ StoredDates(Order[i]) # {}
    /\ turn' = i /\ date' = LastStored(Order[i]) + 1

StartRound ==
    /\ turn = 0 /\ Resume(1)
    /\ until' = today
    /\ UNCHANGED <<table, faults, request>>

\* Lines 45-59: the rows of a date are added and committed together.
StoreDate_SkipFailed ==
    /\ turn # 0 /\ date < until
    /\ \E got \in {{}, RowsOf(date)} : rows' = [rows EXCEPT ![Order[turn]] = @ \cup got]
    /\ date' = date + 1
    /\ UNCHANGED <<today, turn, until, faults, request>>
StoreDate_Today ==
    /\ turn # 0 /\ date <= until
    /\ rows' = [rows EXCEPT ![Order[turn]] = @ \cup RowsOf(date)]
    /\ date' = date + 1
    /\ UNCHANGED <<today, turn, until, faults, request>>
StoreDate ==
    /\ turn # 0 /\ date < until
    /\ rows' = [rows EXCEPT ![Order[turn]] = @ \cup RowsOf(date)]
    /\ date' = date + 1
    /\ UNCHANGED <<today, turn, until, faults, request>>

NextToken ==
    /\ turn \in 1 .. Len(Order) - 1 /\ date >= until /\ Resume(turn + 1)
    /\ UNCHANGED <<table, until, faults, request>>

EndRound ==
    /\ turn = Len(Order) /\ date >= until
    /\ turn' = 0
    /\ UNCHANGED <<table, date, until, faults, request>>

\* A token without a row ends the round.
RaiseNoLastDate ==
    /\ turn \in 1 .. Len(Order) - 1 /\ date >= until
    /\ StoredDates(Order[turn + 1]) = {}
    /\ turn' = 0
    /\ UNCHANGED <<table, date, until, faults, request>>

\* CoinGecko has no market data for the date, or the request or the commit
\* fails: the round is over, the dates committed so far stay.
Fail ==
    /\ turn # 0 /\ faults < MaxFaults
    /\ faults' = faults + 1 /\ turn' = 0
    /\ UNCHANGED <<table, date, until, request>>

-----------------------------------------------------------------------------
\* Lines 40-47: the end is capped at yesterday; the range may be empty.
\* `stored` records, for AnswerIsComplete, whether the table had all it asks.
Receive(token, currency, start, end) ==
    LET last == IF end > today - 1 THEN today - 1 ELSE end IN
    /\ reply = "none"
    /\ ask' = [token |-> token, currency |-> currency, start |-> start, end |-> last,
               stored |-> \A d \in start .. last : <<currency, d>> \in rows[token]]
    /\ next' = start /\ reply' = "running"
    /\ UNCHANGED <<table, indexer>>

\* Lines 53-69: a missing price fails the request.
LookUp_SkipMissing ==
    /\ reply = "running" /\ next <= ask.end
    /\ next' = next + 1 /\ UNCHANGED <<table, indexer, ask, reply>>
LookUp ==
    /\ reply = "running" /\ next <= ask.end
    /\ IF <<ask.currency, next>> \in rows[ask.token]
       THEN next' = next + 1 /\ UNCHANGED reply
       ELSE reply' = "error" /\ UNCHANGED next
    /\ UNCHANGED <<table, indexer, ask>>

Answer ==
    /\ reply = "running" /\ next > ask.end
    /\ reply' = "ok"
    /\ UNCHANGED <<table, indexer, ask, next>>

Index == StartRound \/ StoreDate \/ NextToken \/ EndRound \/ RaiseNoLastDate
Serve ==
    \/ \E t \in Tokens, c \in Currencies, start, end \in Dates : Receive(t, c, start, end)
    \/ LookUp \/ Answer

Next == Midnight \/ Index \/ Fail \/ Serve

Spec == Init /\ [][Next]_vars

\* The indexer keeps working; time and requests may stop.
FairSpec == Spec /\ WF_vars(Index)

-----------------------------------------------------------------------------
\* The variables' types; the round works on no date before the last stored one.
TypeOK ==
    /\ today \in FirstDate .. LastDate
    /\ rows \in [Tokens -> SUBSET (Currencies \X Dates)]
    /\ turn \in 0 .. Len(Order) /\ date \in 0 .. LastDate + 1 /\ until \in Dates
    /\ turn # 0 => rows[Order[turn]] \cap (Currencies \X (date .. LastDate)) = {}
    /\ faults \in 0 .. MaxFaults
    /\ reply \in {"none", "running", "ok", "error"}

\* A round resumes after the last date, so a hole would never be filled: each
\* stored date has every price there is for it, and so have the dates before.
NoHoles ==
    \A t \in Tokens : \A d \in StoredDates(t) :
        \A e \in Dates : e <= d => RowsOf(e) \subseteq rows[t]

\* Only close prices of days that are over are stored: none of today, whatever
\* midnight does in the middle of a round.
NoPriceOfToday == \A t \in Tokens : \A d \in StoredDates(t) : d < today

\* A request that is answered has a price for each of its dates, and one that
\* came when all its dates were stored is never refused, though the dates are
\* looked up in sessions of their own between which the indexer commits.
AnswerIsComplete ==
    /\ reply = "ok" => \A d \in ask.start .. ask.end : <<ask.currency, d>> \in rows[ask.token]
    /\ reply = "error" => ~ask.stored

\* Every day that is over gets its prices, for each token that has a row to
\* resume from; another token missing its first row holds up only those after
\* it in the order of the round.
EventuallyPriced ==
    \A t \in Tokens : \A d \in Dates :
        (StoredDates(t) # {} /\ d < today) ~> d \in StoredDates(t)
=============================================================================
