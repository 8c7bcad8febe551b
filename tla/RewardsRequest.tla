--------------------------- MODULE RewardsRequest ---------------------------
(***************************************************************************)
(* POST /api/v2/rewards/full (api_v2/endpoints/rewards.py): one request    *)
(* for a range of days, answered from four queries, each a transaction of  *)
(* its own (DbProvider), while the indexers keep writing the tables.       *)
(*                                                                         *)
(* The handler treats the validators of a request independently; the model *)
(* follows one of them (DayLedger), whose block rewards go to a fee        *)
(* recipient the request may or may not expect.                            *)
(***************************************************************************)
EXTENDS DayLedger

VARIABLES
    pc, req,    \* the request: [start, end, expected, settled]
    initial,    \* slot of the initial balance
    eods,       \* end-of-day rows read
    seen,       \* withdrawals read, as the set of their slots
    blocks,     \* block rewards read, as the set of their slots
    answer

request == <<pc, req, initial, eods, seen, blocks, answer>>

-----------------------------------------------------------------------------
Error == [kind |-> "error"]
NoAnswer == [kind |-> "none"]

RequestInit ==
    /\ pc = "idle" /\ req = [start |-> 0, end |-> 0, expected |-> {}, settled |-> FALSE]
    /\ initial = NoSlot /\ eods = {} /\ seen = {} /\ blocks = {}
    /\ answer = NoAnswer

Finish(a) == pc' = "done" /\ answer' = a

\* _preprocess_request_input_data. expected_fee_recipient_addresses may be
\* empty: then no recipient is checked.
Receive(start, end, expected) ==
    /\ pc = "idle" /\ end > start
    /\ req' = [start |-> start, end |-> CappedEnd(end), expected |-> expected,
               settled |-> Settled]
    /\ pc' = "initial"
    /\ UNCHANGED <<tables, initial, eods, seen, blocks, answer>>

\* The initial balance: at the activation slot for a validator activated in the
\* period, else at the first slot. A pending validator is left out of the
\* answer. A missing row is an error (lines 438-460).
InitialSlot ==
    IF ledger.activation > StartSlot(req.start)
    THEN ledger.activation ELSE StartSlot(req.start)

ReadInitial ==
    /\ pc = "initial"
    /\ \/ /\ ~Active(ledger)
          /\ Finish([kind |-> "ok", days |-> <<>>, paid |-> {}])
          /\ UNCHANGED initial
       \/ /\ Active(ledger) /\ InitialSlot \notin balance
          /\ Finish(Error) /\ UNCHANGED initial
       \/ /\ Active(ledger) /\ InitialSlot \in balance
          /\ initial' = InitialSlot /\ pc' = "eods" /\ UNCHANGED answer
    /\ UNCHANGED <<tables, req, eods, seen, blocks>>

\* Lines 464-475; rows from before the activation are discarded (523-525).
ReadEods ==
    /\ pc = "eods"
    /\ eods' = {s \in balance : /\ s \in {EodSlot(d) : d \in req.start .. req.end}
                                /\ s >= ledger.activation}
    /\ pc' = "withdrawals"
    /\ UNCHANGED <<tables, req, initial, seen, blocks, answer>>

\* Both ends of the BETWEEN belong to the range (db_provider.py, 186).
InRange_Exclusive(slot) == StartSlot(req.start) <= slot /\ slot < EodSlot(req.end)
InRange(slot) == StartSlot(req.start) <= slot /\ slot <= EodSlot(req.end)

ReadWithdrawals ==
    /\ pc = "withdrawals"
    /\ seen' = {s \in 0 .. withdrawal : ledger.withdrawn[s] > 0 /\ InRange(s)}
    /\ pc' = "rewards"
    /\ UNCHANGED <<tables, req, initial, eods, blocks, answer>>

\* Lines 485-512: a row that could not be worked out fails the request, and so
\* does one whose recipient (of the MEV or of the fees) the request does not
\* expect.
Unexpected(slot) == req.expected # {} /\ ledger.recipient[slot] \notin req.expected

ReadRewards ==
    /\ pc = "rewards"
    /\ LET rows == {s \in reward.stored : InRange(s)} IN
       IF \E s \in rows : s \in reward.failed \/ Unexpected(s)
       THEN Finish(Error) /\ UNCHANGED blocks
       ELSE blocks' = rows /\ pc' = "walk" /\ UNCHANGED answer
    /\ UNCHANGED <<tables, req, initial, eods, seen>>

\* A withdrawal of more than 8 ETH is taken for an exit: below 32 ETH the
\* request fails, above it only the part over 32 counts (533-542).
Counted(amount) == IF amount > 8 THEN amount % 32 ELSE amount
Rejected(amount) == amount > 8 /\ amount < 32

WithdrawnSince_Inclusive(low, high) ==
    {s \in seen : low <= s /\ s <= high}
WithdrawnSince(low, high) == {s \in seen : low < s /\ s <= high}

\* The walk over the end-of-day balances in slot order (519-562): each day is
\* the change since the previous balance, plus what was withdrawn in between.
PreviousBalance(slot) == Max({initial} \cup {s \in eods : s < slot})
DayIncome(slot) ==
    LET prev == PreviousBalance(slot) IN
    BalanceAt(slot) - BalanceAt(prev)
        + SumOver([s \in Slots |-> Counted(ledger.withdrawn[s])], WithdrawnSince(prev, slot))

Walk ==
    /\ pc = "walk"
    /\ IF \E e \in eods : \E s \in WithdrawnSince(PreviousBalance(e), e) :
              Rejected(ledger.withdrawn[s])
       THEN Finish(Error)
       ELSE Finish([kind |-> "ok",
                    days |-> [e \in eods |-> DayIncome(e)],
                    paid |-> {<<DateOf(s), s>> : s \in blocks}])
    /\ UNCHANGED <<tables, req, initial, eods, seen, blocks>>

Handle == ReadInitial \/ ReadEods \/ ReadWithdrawals \/ ReadRewards \/ Walk

-----------------------------------------------------------------------------
Answered == answer.kind = "ok" /\ Active(ledger)

\* What the chain has for a day, since the balance the day is measured from.
Passed(slot) == Between(PreviousBalance(slot), slot)
EarnedBy(slot) == SumOver(ledger.earned, Passed(slot))
DepositedBy(slot) == SumOver(ledger.deposited, Passed(slot))

\* The capital in what was withdrawn: whole 32 ETH of a full withdrawal.
Capital(amount) == 32 * (amount \div 32)
CapitalBy(slot) == SumOver([s \in Slots |-> Capital(ledger.withdrawn[s])], Passed(slot) \cap seen)

\* Withdrawals that were not in the table yet when it was read.
UnseenBy(slot) == SumOver(ledger.withdrawn, Passed(slot) \ seen)

\* Every reported amount is what the validator earned since the balance the
\* amount is measured from, and with it what was deposited in that time
\* (rewards.py, 527: a top-up counts as income), less the capital of an exit (533)
\* and less any withdrawal that was not stored when the table was read. Over
\* tables that missed nothing there is none of those. So no withdrawal is counted
\* on two days or on none, the activation cuts the first day at the right slot,
\* deposits before it are left out, and a day whose balance row is missing passes
\* its income on to the next one.
IncomeIsExplained ==
    Answered =>
        \A e \in eods :
            /\ answer.days[e] = EarnedBy(e) + DepositedBy(e) - CapitalBy(e) - UnseenBy(e)
            /\ req.settled => UnseenBy(e) = 0

\* When the tables missed nothing at the time of the request, every requested
\* day that is over and not before the activation is reported, and every block
\* proposed on a requested day, whatever is written while the queries run.
SettledAnswerComplete ==
    Answered /\ req.settled =>
        /\ {DateOf(e) : e \in eods} =
               {d \in req.start .. req.end : EodSlot(d) >= ledger.activation}
        /\ {s \in Proposals : DateOf(s) \in req.start .. req.end} =
               {p[2] : p \in {q \in answer.paid : q[1] \in req.start .. req.end}}
=============================================================================
