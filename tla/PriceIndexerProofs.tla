------------------------- MODULE PriceIndexerProofs -------------------------
(***************************************************************************)
(* Proofs about PriceIndexer, for all sets of currencies, any number of    *)
(* days and any pattern of failures and restarts.                          *)
(*                                                                         *)
(* The table of a token is always everything there is for the days before  *)
(* some day, its horizon. That makes the last date of the table the right  *)
(* place to resume from, and a day's end the only place to stop at.        *)
(***************************************************************************)
EXTENDS PriceIndexer, HttpRetry, TLAPS

\* Every price there is for the days before h.
Before(h) == {p \in Currencies \X Dates : p[2] < h /\ QuotedFrom[p[1]] <= p[2]}

Types ==
    /\ today \in FirstDate .. LastDate
    /\ turn \in 0 .. 2 /\ date \in 0 .. LastDate + 1 /\ until \in Dates
    /\ faults \in 0 .. MaxFaults
    /\ reply \in {"none", "running", "ok", "error"}

\* The horizon of each token; the round has reached that of its token.
Horizons ==
    /\ rows \in [Tokens -> SUBSET (Currencies \X Dates)]
    /\ \A t \in Tokens : \E h \in 0 .. today : rows[t] = Before(h)
    /\ until <= today
    /\ turn # 0 => date <= today /\ rows[Order[turn]] = Before(date)

\* What the running request found is still there, and so is all it asks for
\* when it was there to begin with: the rows only grow.
Asks ==
    /\ reply # "none" =>
         /\ ask.token \in Tokens /\ ask.start \in Nat /\ ask.end \in Int /\ next \in Nat
         /\ ask.stored => \A d \in ask.start .. ask.end : <<ask.currency, d>> \in rows[ask.token]
    /\ reply = "running" =>
         \A d \in ask.start .. next - 1 : <<ask.currency, d>> \in rows[ask.token]
    /\ reply = "running" => ask.start <= next

IInv == Types /\ Horizons /\ Asks /\ AnswerIsComplete

LEMMA Consts ==
    ASSUME ConstantsAssumption
    PROVE  /\ FirstDate \in Nat \ {0} /\ LastDate \in Nat /\ FirstDate <= LastDate
           /\ QuotedFrom \in [Currencies -> 0 .. LastDate]
           /\ \E c \in Currencies : QuotedFrom[c] = 0
           /\ MaxFaults \in Nat /\ Dates = 0 .. LastDate
           /\ Order[1] \in Tokens /\ Order[2] \in Tokens /\ Len(Order) = 2
           /\ Order[1] # Order[2]
  BY DEF ConstantsAssumption, Dates, Order, Tokens

\* Adding a day's rows moves the horizon by one.
LEMMA BeforeNext ==
    ASSUME ConstantsAssumption, NEW d \in Dates
    PROVE  Before(d + 1) = Before(d) \cup RowsOf(d)
<1>1. \A p \in Currencies \X Dates : p = <<p[1], p[2]>> /\ p[2] \in Nat /\ p[1] \in Currencies
  BY DEF Dates
<1>2. RowsOf(d) = {p \in Currencies \X Dates : p[2] = d /\ QuotedFrom[p[1]] <= d}
  BY <1>1 DEF RowsOf, Quoted
<1>3. d \in Nat
  BY Consts
<1>4. \A n \in Nat : n < d + 1 <=> n < d \/ n = d
  BY <1>3
<1>5. QED
  BY <1>1, <1>2, <1>4 DEF Before

LEMMA InBefore ==
    ASSUME NEW h, NEW c, NEW d
    PROVE  <<c, d>> \in Before(h) <=>
             c \in Currencies /\ d \in Dates /\ d < h /\ QuotedFrom[c] <= d
  BY DEF Before

\* The stored dates of a table below a horizon, and the last of them.
LEMMA HorizonIsLast ==
    ASSUME ConstantsAssumption, NEW t \in Tokens, NEW h \in 0 .. LastDate + 1,
           rows[t] = Before(h)
    PROVE  /\ StoredDates(t) = 0 .. h - 1
           /\ StoredDates(t) # {} => LastStored(t) = h - 1
<1>1. ASSUME NEW d \in Dates PROVE d \in StoredDates(t) <=> d < h
  <2>1. PICK c \in Currencies : QuotedFrom[c] = 0
    BY Consts
  <2>2. d \in Nat /\ h \in Nat
    BY Consts
  <2>3. <<c, d>> \in Before(h) <=> d < h
    BY <2>1, <2>2, InBefore
  <2>4. d \in StoredDates(t) <=> \E e \in Currencies : <<e, d>> \in Before(h)
    BY DEF StoredDates
  <2>5. QED
    BY <2>3, <2>4, InBefore
<1>2. StoredDates(t) = 0 .. h - 1
  <2>1. StoredDates(t) \subseteq Dates
    BY DEF StoredDates
  <2>2. LastDate \in Nat /\ Dates = 0 .. LastDate /\ h \in 0 .. LastDate + 1
    BY Consts
  <2>3. \A d : d \in 0 .. h - 1 <=> d \in Dates /\ d < h
    BY <2>2
  <2>4. QED
    BY <1>1, <2>1, <2>3
<1>3. ASSUME StoredDates(t) # {} PROVE LastStored(t) = h - 1
  <2>1. h \in Nat /\ h > 0
    BY <1>2, <1>3, Consts
  <2>2. h - 1 \in StoredDates(t) /\ \A e \in StoredDates(t) : e <= h - 1
    BY <1>2, <2>1
  <2>3. \A d \in StoredDates(t) : (\A e \in StoredDates(t) : e <= d) => d = h - 1
    BY <1>2, <2>1, <2>2
  <2>4. QED
    BY <2>2, <2>3 DEF LastStored
<1>4. QED
  BY <1>2, <1>3

-----------------------------------------------------------------------------
LEMMA Initially == ConstantsAssumption /\ Init => IInv
<1> SUFFICES ASSUME ConstantsAssumption, Init PROVE IInv
  OBVIOUS
<1>1. Types
  BY Consts DEF Init, Types
<1>2. PICK seeded \in Seeds :
        rows = [t \in Tokens |-> IF t \in seeded
                                 THEN UNION {RowsOf(d) : d \in 0 .. FirstDate - 1} ELSE {}]
  BY DEF Init
<1>3. UNION {RowsOf(d) : d \in 0 .. FirstDate - 1} = Before(FirstDate)
  <2>1. FirstDate \in Nat /\ LastDate \in Nat /\ FirstDate <= LastDate /\ Dates = 0 .. LastDate
    BY Consts
  <2>2. \A d \in 0 .. FirstDate - 1 : d \in Dates /\ d < FirstDate
    BY <2>1
  <2>3. \A p \in Before(FirstDate) : p = <<p[1], p[2]>> /\ p[1] \in Quoted(p[2])
                                   /\ p[2] \in 0 .. FirstDate - 1
    BY <2>1 DEF Before, Quoted
  <2>4. \A d \in 0 .. FirstDate - 1 : RowsOf(d) \subseteq Before(FirstDate)
    BY <2>2 DEF RowsOf, Quoted, Before
  <2>5. \A p \in Before(FirstDate) : p \in RowsOf(p[2])
    BY <2>3 DEF RowsOf
  <2>6. QED
    BY <2>3, <2>4, <2>5
<1>4. {} = Before(0)
  BY Consts DEF Before, Dates
<1>5. 0 \in 0 .. today /\ FirstDate \in 0 .. today
  BY Consts DEF Init
<1>6. rows \in [Tokens -> SUBSET (Currencies \X Dates)]
  BY <1>2, <1>3 DEF Before
<1>7. \A t \in Tokens : \E h \in 0 .. today : rows[t] = Before(h)
  BY <1>2, <1>3, <1>4, <1>5
<1>8. Horizons
  <2>1. turn = 0 /\ until <= today
    BY <1>5 DEF Init
  <2>2. QED
    BY <1>6, <1>7, <2>1 DEF Horizons
<1>9. Asks /\ AnswerIsComplete
  BY DEF Init, Asks, AnswerIsComplete
<1>10. QED
  BY <1>1, <1>8, <1>9 DEF IInv

\* Resuming a token puts the round at its horizon.
LEMMA ResumeAtHorizon ==
    ASSUME ConstantsAssumption, Types, Horizons, NEW i \in 1 .. 2, Resume(i)
    PROVE  turn' = i /\ date' \in 0 .. today /\ rows[Order[i]] = Before(date')
<1>1. Order[i] \in Tokens
  BY Consts
<1>2. PICK h \in 0 .. today : rows[Order[i]] = Before(h)
  BY <1>1 DEF Horizons
<1>3. h \in 0 .. LastDate + 1 /\ h \in Int
  BY Consts DEF Types
<1>4. LastStored(Order[i]) = h - 1
  BY <1>1, <1>2, <1>3, HorizonIsLast DEF Resume
<1>5. date' = h
  BY <1>3, <1>4 DEF Resume
<1>6. QED
  BY <1>2, <1>5 DEF Resume

\* A step that moves the round and leaves the table and the request alone.
LEMMA RoundMoves ==
    ASSUME ConstantsAssumption, IInv, UNCHANGED <<table, request>>,
           turn' \in 0 .. 2, date' \in 0 .. LastDate + 1, until' \in Dates,
           faults' \in 0 .. MaxFaults, until' <= today,
           turn' # 0 => date' <= today /\ rows[Order[turn']] = Before(date')
    PROVE  IInv'
<1>1. UNCHANGED <<today, rows, ask, next, reply>>
  BY DEF table, request
<1>2. Types'
  BY <1>1 DEF IInv, Types
<1>3. Horizons'
  BY <1>1 DEF IInv, Horizons, Before
<1>4. Asks' /\ AnswerIsComplete'
  BY <1>1 DEF IInv, Asks, AnswerIsComplete
<1>5. QED
  BY <1>2, <1>3, <1>4 DEF IInv

\* A date's rows move the horizon of the round's token, and no other, by one.
LEMMA StoringADate ==
    ASSUME ConstantsAssumption, IInv, StoreDate
    PROVE  IInv'
<1>1. /\ turn # 0 /\ date < until
      /\ rows' = [rows EXCEPT ![Order[turn]] = @ \cup RowsOf(date)]
      /\ date' = date + 1
      /\ UNCHANGED <<today, turn, until, faults, ask, next, reply>>
  BY DEF StoreDate, request
<1>2. /\ Order[turn] \in Tokens /\ date \in Dates /\ date + 1 \in 0 .. today
      /\ LastDate \in Nat /\ today \in 0 .. LastDate
  BY <1>1, Consts DEF IInv, Types, Horizons
<1>3. rows[Order[turn]] \cup RowsOf(date) = Before(date + 1)
  BY <1>1, <1>2, BeforeNext DEF IInv, Horizons
<1>4. /\ rows \in [Tokens -> SUBSET (Currencies \X Dates)]
      /\ Before(date + 1) \subseteq Currencies \X Dates
  BY DEF IInv, Horizons, Before
<1>5. /\ rows' \in [Tokens -> SUBSET (Currencies \X Dates)]
      /\ rows'[Order[turn]] = Before(date + 1)
      /\ \A t \in Tokens : t # Order[turn] => rows'[t] = rows[t]
  BY <1>1, <1>2, <1>3, <1>4
<1>6. Types'
  BY <1>1, <1>2 DEF IInv, Types
<1>7. \A t \in Tokens : \E h \in 0 .. today : rows'[t] = Before(h)
  BY <1>2, <1>5 DEF IInv, Horizons
<1>8. Horizons'
  BY <1>1, <1>2, <1>5, <1>7 DEF IInv, Horizons, Before
<1>9. \A t \in Tokens : rows[t] \subseteq rows'[t]
  BY <1>1, <1>2, <1>4
<1>10. Asks' /\ AnswerIsComplete'
  BY <1>1, <1>9 DEF IInv, Asks, AnswerIsComplete
<1>11. QED
  BY <1>6, <1>8, <1>10 DEF IInv

\* The request's own steps change neither the table nor the round.
LEMMA Serving ==
    ASSUME ConstantsAssumption, IInv, Serve
    PROVE  IInv'
<1>1. UNCHANGED <<today, rows, turn, date, until, faults>>
  BY DEF Serve, Receive, LookUp, Answer, table, indexer
<1>2. Horizons'
  BY <1>1 DEF IInv, Horizons, Before
<1>3. ASSUME NEW t \in Tokens, NEW c \in Currencies, NEW start \in Dates, NEW end \in Dates,
             Receive(t, c, start, end)
      PROVE  IInv'
  <2>1. /\ ask'.token = t /\ ask'.currency = c /\ ask'.start = start
        /\ ask'.end = (IF end > today - 1 THEN today - 1 ELSE end)
        /\ ask'.stored = (\A d \in start .. ask'.end : <<c, d>> \in rows[t])
        /\ next' = start /\ reply' = "running"
    BY <1>3 DEF Receive
  <2>2. start \in Nat /\ end \in Nat /\ today \in Int /\ start .. start - 1 = {}
    BY Consts DEF IInv, Types
  <2>3. Asks' /\ AnswerIsComplete'
    BY <1>1, <2>1, <2>2 DEF Asks, AnswerIsComplete
  <2>4. Types'
    BY <1>1, <2>1 DEF IInv, Types
  <2>5. QED
    BY <1>2, <2>3, <2>4 DEF IInv
<1>4. CASE LookUp
  <2>1. Types'
    BY <1>1, <1>4 DEF IInv, Types, LookUp
  <2>2. /\ reply = "running" /\ next <= ask.end /\ UNCHANGED ask
        /\ next \in Nat /\ ask.start \in Nat /\ ask.end \in Int /\ ask.start <= next
    BY <1>4 DEF LookUp, IInv, Asks
  <2>3. CASE <<ask.currency, next>> \in rows[ask.token]
    <3>1. next' = next + 1 /\ reply' = reply
      BY <1>4, <2>3 DEF LookUp
    <3>2. \A d \in ask.start .. next + 1 - 1 : d = next \/ d \in ask.start .. next - 1
      BY <2>2
    <3>3. Asks' /\ AnswerIsComplete'
      BY <1>1, <2>2, <2>3, <3>1, <3>2 DEF IInv, Asks, AnswerIsComplete
    <3>4. QED
      BY <1>2, <2>1, <3>3 DEF IInv
  <2>4. CASE <<ask.currency, next>> \notin rows[ask.token]
    <3>1. next' = next /\ reply' = "error"
      BY <1>4, <2>4 DEF LookUp
    <3>2. ~ask.stored
      BY <2>2, <2>4 DEF IInv, Asks
    <3>3. Asks' /\ AnswerIsComplete'
      BY <1>1, <2>2, <3>1, <3>2 DEF IInv, Asks, AnswerIsComplete
    <3>4. QED
      BY <1>2, <2>1, <3>3 DEF IInv
  <2>5. QED
    BY <2>3, <2>4
<1>5. CASE Answer
  <2>1. /\ reply = "running" /\ next > ask.end /\ UNCHANGED <<ask, next>> /\ reply' = "ok"
        /\ next \in Nat /\ ask.start \in Nat /\ ask.end \in Int
    BY <1>5 DEF Answer, IInv, Asks
  <2>2. \A d \in ask.start .. ask.end : d \in ask.start .. next - 1
    BY <2>1
  <2>3. Asks' /\ AnswerIsComplete'
    BY <1>1, <2>1, <2>2 DEF IInv, Asks, AnswerIsComplete
  <2>4. Types'
    BY <1>1, <2>1 DEF IInv, Types
  <2>5. QED
    BY <1>2, <2>3, <2>4 DEF IInv
<1>6. QED
  BY <1>3, <1>4, <1>5 DEF Serve

LEMMA Inductive == ConstantsAssumption /\ IInv /\ [Next]_vars => IInv'
<1> SUFFICES ASSUME ConstantsAssumption, IInv, [Next]_vars PROVE IInv'
  OBVIOUS
<1>1. /\ LastDate \in Nat /\ MaxFaults \in Nat /\ FirstDate \in Nat
      /\ today \in FirstDate .. LastDate /\ Dates = 0 .. LastDate /\ Len(Order) = 2
      /\ turn \in 0 .. 2 /\ date \in 0 .. LastDate + 1 /\ until \in Dates
      /\ faults \in 0 .. MaxFaults /\ until <= today
  BY Consts DEF IInv, Types, Horizons
<1>2. CASE Midnight
  <2>1. /\ today' = today + 1 /\ today' \in FirstDate .. LastDate
        /\ UNCHANGED <<rows, turn, date, until, faults, ask, next, reply>>
    BY <1>1, <1>2 DEF Midnight, indexer, request
  <2>2. Types'
    BY <2>1 DEF IInv, Types
  <2>3. 0 .. today \subseteq 0 .. today'
    BY <1>1, <2>1
  <2>4. Horizons'
    BY <1>1, <2>1, <2>3 DEF IInv, Horizons, Before
  <2>5. Asks' /\ AnswerIsComplete'
    BY <2>1 DEF IInv, Asks, AnswerIsComplete
  <2>6. QED
    BY <2>2, <2>4, <2>5 DEF IInv
<1>3. CASE StartRound
  <2>1. Resume(1) /\ until' = today /\ UNCHANGED <<table, faults, request>>
    BY <1>3 DEF StartRound
  <2>2. turn' = 1 /\ date' \in 0 .. today /\ rows[Order[1]] = Before(date')
    BY <2>1, ResumeAtHorizon DEF IInv
  <2>3. QED
    BY <1>1, <2>1, <2>2, RoundMoves
<1>4. CASE StoreDate
  BY <1>4, StoringADate
<1>5. CASE NextToken
  <2>1. turn = 1 /\ Resume(2) /\ UNCHANGED <<table, until, faults, request>>
    BY <1>1, <1>5 DEF NextToken
  <2>2. turn' = 2 /\ date' \in 0 .. today /\ rows[Order[2]] = Before(date')
    BY <2>1, ResumeAtHorizon DEF IInv
  <2>3. QED
    BY <1>1, <2>1, <2>2, RoundMoves
<1>6. CASE EndRound \/ RaiseNoLastDate
  BY <1>1, <1>6, RoundMoves DEF EndRound, RaiseNoLastDate
<1>7. CASE Fail
  <2>1. turn' = 0 /\ faults' \in 0 .. MaxFaults /\ UNCHANGED <<table, date, until, request>>
    BY <1>1, <1>7 DEF Fail
  <2>2. QED
    BY <1>1, <2>1, RoundMoves
<1>8. CASE Serve
  BY <1>8, Serving
<1>9. CASE UNCHANGED vars
  <2>1. UNCHANGED <<today, rows, turn, date, until, faults, ask, next, reply>>
    BY <1>9 DEF vars, table, indexer, request
  <2>2. Types' /\ Horizons'
    BY <2>1 DEF IInv, Types, Horizons, Before
  <2>3. Asks' /\ AnswerIsComplete'
    BY <2>1 DEF IInv, Asks, AnswerIsComplete
  <2>4. QED
    BY <2>2, <2>3 DEF IInv
<1>10. QED
  BY <1>2, <1>3, <1>4, <1>5, <1>6, <1>7, <1>8, <1>9 DEF Next, Index

LEMMA Always == Spec => []IInv
<1>1. ConstantsAssumption /\ Init => IInv
  BY Initially
<1>2. ConstantsAssumption /\ IInv /\ [Next]_vars => IInv'
  BY Inductive
<1>3. QED
  BY <1>1, <1>2, ConstantsAssumption, PTL DEF Spec

\* The variables keep their types, and a round never works on a date that is
\* stored already, or on one after it.
THEOREM TypeCorrect == Spec => []TypeOK
<1>1. ConstantsAssumption /\ IInv => TypeOK
  <2> SUFFICES ASSUME ConstantsAssumption, IInv PROVE TypeOK
    OBVIOUS
  <2>1. Len(Order) = 2
    BY Consts
  <2>2. turn # 0 => rows[Order[turn]] \cap (Currencies \X (date .. LastDate)) = {}
    BY Consts DEF IInv, Types, Horizons, Before, Dates
  <2>3. QED
    BY <2>1, <2>2 DEF IInv, Types, Horizons, TypeOK
<1>2. QED
  BY <1>1, Always, ConstantsAssumption, PTL

\* No round, however it ends, leaves a hole that the next would resume after.
THEOREM TablesHaveNoHoles == Spec => []NoHoles
<1>1. ConstantsAssumption /\ IInv => NoHoles
  <2> SUFFICES ASSUME ConstantsAssumption, IInv, NEW t \in Tokens, NEW d \in StoredDates(t),
                      NEW e \in Dates, e <= d
               PROVE  RowsOf(e) \subseteq rows[t]
    BY DEF NoHoles
  <2>1. PICK h \in 0 .. today : rows[t] = Before(h)
    BY DEF IInv, Horizons
  <2>2. d \in Dates /\ d < h
    BY <2>1, InBefore DEF StoredDates
  <2>3. e < h
    BY <2>2, Consts DEF IInv, Types
  <2>4. QED
    BY <2>1, <2>3 DEF RowsOf, Quoted, Before
<1>2. QED
  BY <1>1, Always, ConstantsAssumption, PTL

\* No price of a day that is not over is stored, at whatever moment of the
\* round midnight comes.
THEOREM OnlyClosePrices == Spec => []NoPriceOfToday
<1>1. ConstantsAssumption /\ IInv => NoPriceOfToday
  <2> SUFFICES ASSUME ConstantsAssumption, IInv, NEW t \in Tokens, NEW d \in StoredDates(t)
               PROVE  d < today
    BY DEF NoPriceOfToday
  <2>1. PICK h \in 0 .. today : rows[t] = Before(h)
    BY DEF IInv, Horizons
  <2>2. d \in Dates /\ d < h
    BY <2>1, InBefore DEF StoredDates
  <2>3. QED
    BY <2>2, Consts DEF IInv, Types
<1>2. QED
  BY <1>1, Always, ConstantsAssumption, PTL

\* An answer has every price it was asked for, and a request whose prices are
\* all stored is not refused, whatever the indexer commits between look-ups.
THEOREM AnswersAreComplete == Spec => []AnswerIsComplete
<1>1. IInv => AnswerIsComplete
  BY DEF IInv
<1>2. QED
  BY <1>1, Always, PTL
-----------------------------------------------------------------------------
(***************************************************************************)
(* The client the indexer asks its provider with: one call of HttpRetry.   *)
(* Three nested budgets bound its time by their sum, though an outer retry *)
(* renews the inner ones: a decorator's last call of its target begins     *)
(* within its own budget, so the invariant says of each decorator when it  *)
(* was called at the latest, next to how long the loop had been blocked.   *)
(***************************************************************************)
\* How long a decorator's target takes, at most.
Target == [l \in Levels |->
    IF l = 1 THEN Timeout
    ELSE IF l = 2 THEN Longest(1, Timeout) ELSE Longest(2, Longest(1, Timeout))]

CallTypes ==
    /\ now \in Nat /\ deadline \in Nat /\ blocked \in Nat /\ retrying \in Levels
    /\ called \in [Levels -> Nat] /\ elapsed \in [Levels -> Int]
    /\ pc \in {"request", "sleep"} \cup Over

\* When the request was made.
Asked == called[1] + elapsed[1]

\* How long the loop had been blocked when the target of a decorator was called
\* last: b[1] for the request, b[2] and b[3] for the decorators inside the second
\* and the third. Where that decorator and its target stand follows from it.
Histories == {b \in [Levels -> 0 .. blocked] : b[3] <= b[2] /\ b[2] <= b[1]}
SinceCall(b, l) == IF l = 3 THEN blocked ELSE blocked - b[l + 1]

\* A decorator calls its target while its own budget lasts.
CallChain ==
    called[3] = 0 /\ called[2] = called[3] + elapsed[3] /\ called[1] = called[2] + elapsed[2]
\* No decorator is called later than the budget of the one outside of it and one
\* more call of the target allow, and what the loop was blocked for meanwhile.
Budgets(b) ==
    /\ called[2] <= MaxTime[3] + Target[3] + b[3]
    /\ called[1] <= called[2] + MaxTime[2] + Target[2] + b[2] - b[3]
    /\ Asked <= called[1] + MaxTime[1] + Target[1] + b[1] - b[2]
    /\ pc = "request" => now <= deadline /\ deadline <= Asked + Timeout + blocked - b[1]
    /\ pc = "sleep" =>
          /\ now <= deadline
          /\ deadline <= called[retrying] + MaxTime[retrying] + Target[retrying]
                        + SinceCall(b, retrying)

CallInv ==
    /\ CallTypes /\ CallChain
    /\ IF pc \in Over THEN TimeBounded ELSE \E b \in Histories : Budgets(b)

LEMMA TargetMeans ==
    ASSUME BudgetsAssumption
    PROVE  /\ Levels = {1, 2, 3}
           /\ \A l \in Levels : MaxTime[l] \in Nat /\ Target[l] \in Nat
           /\ Timeout \in Nat /\ Target[1] = Timeout
           /\ Target[2] = MaxTime[1] + 2 * Target[1] /\ Target[3] = MaxTime[2] + 2 * Target[2]
           /\ TotalBound = MaxTime[3] + 2 * Target[3]
<1>1. /\ Levels = {1, 2, 3} /\ Timeout \in Nat
      /\ MaxTime[1] \in Nat /\ MaxTime[2] \in Nat /\ MaxTime[3] \in Nat
  BY DEF BudgetsAssumption
<1>2. /\ Target[1] = Timeout
      /\ Target[2] = MaxTime[1] + 2 * Timeout
      /\ Target[3] = MaxTime[2] + 2 * (MaxTime[1] + 2 * Timeout)
  BY <1>1 DEF Target, Longest
<1>3. TotalBound = MaxTime[3] + 2 * (MaxTime[2] + 2 * (MaxTime[1] + 2 * Timeout))
  BY <1>1 DEF TotalBound, Longest
<1>4. QED
  BY <1>1, <1>2, <1>3

LEMMA CallBegins == BudgetsAssumption /\ CallInit => CallInv
<1> SUFFICES ASSUME BudgetsAssumption, CallInit PROVE CallInv
  OBVIOUS
<1> DEFINE b == [l \in Levels |-> 0]
<1>1. /\ now = 0 /\ pc = "request" /\ deadline = Timeout /\ blocked = 0 /\ retrying = 1
      /\ \A l \in Levels : called[l] = 0 /\ elapsed[l] = 0
      /\ called \in [Levels -> Nat] /\ elapsed \in [Levels -> Int]
  BY DEF CallInit
<1>2. CallTypes /\ CallChain
  BY <1>1, TargetMeans DEF CallTypes, CallChain
<1>3. b \in Histories
  BY <1>1, TargetMeans DEF Histories
<1>4. Budgets(b)
  BY <1>1, TargetMeans DEF Budgets, Asked
<1>5. QED
  BY <1>1, <1>2, <1>3, <1>4 DEF CallInv, Over

\* However deep the decorators are nested, the time is the sum of their budgets.
LEMMA BudgetsBound ==
    ASSUME BudgetsAssumption, CallTypes, CallChain, pc \notin Over,
           NEW b \in Histories, Budgets(b)
    PROVE  TimeBounded
<1>1. /\ now \in Nat /\ deadline \in Nat /\ blocked \in Nat /\ retrying \in {1, 2, 3}
      /\ called[1] \in Nat /\ called[2] \in Nat /\ called[3] = 0 /\ Asked \in Int
      /\ elapsed[1] \in Int
  BY TargetMeans DEF CallTypes, CallChain, Asked
<1>2. b[1] \in Int /\ b[2] \in Int /\ b[3] \in Int /\ b[1] >= 0 /\ b[2] >= 0 /\ b[3] >= 0
      /\ b[1] <= blocked /\ b[2] <= b[1] /\ b[3] <= b[2]
  BY <1>1, TargetMeans DEF Histories
<1>3. /\ called[2] <= MaxTime[3] + Target[3] + b[3]
      /\ called[1] <= called[2] + MaxTime[2] + Target[2] + b[2] - b[3]
      /\ Asked <= called[1] + MaxTime[1] + Target[1] + b[1] - b[2]
  BY DEF Budgets
<1>4. CASE pc = "request"
  <2>1. now <= Asked + Timeout + blocked - b[1]
    BY <1>1, <1>2, <1>4, TargetMeans DEF Budgets
  <2>2. QED
    BY <1>1, <1>2, <1>3, <2>1, TargetMeans DEF TimeBounded
<1>5. CASE pc = "sleep"
  <2>1. now <= called[retrying] + MaxTime[retrying] + Target[retrying] + SinceCall(b, retrying)
    <3>1. SinceCall(b, retrying) \in Int /\ called[retrying] \in Int
      BY <1>1, <1>2 DEF SinceCall
    <3>2. QED
      BY <1>1, <1>5, <3>1, TargetMeans DEF Budgets
  <2>2. CASE retrying = 1
    BY <1>1, <1>2, <1>3, <2>1, <2>2, TargetMeans DEF TimeBounded, SinceCall
  <2>3. CASE retrying = 2
    BY <1>1, <1>2, <1>3, <2>1, <2>3, TargetMeans DEF TimeBounded, SinceCall
  <2>4. CASE retrying = 3
    BY <1>1, <1>2, <1>3, <2>1, <2>4, TargetMeans DEF TimeBounded, SinceCall
  <2>5. QED
    BY <1>1, <2>2, <2>3, <2>4
<1>6. QED
  BY <1>4, <1>5 DEF CallTypes

LEMMA IsBounded ==
    ASSUME BudgetsAssumption, CallInv PROVE TimeBounded
  BY BudgetsBound DEF CallInv

LEMMA TickStep ==
    ASSUME BudgetsAssumption, CallInv, Tick PROVE CallInv'
<1>1. /\ pc \in {"request", "sleep"} /\ now \in Nat /\ deadline \in Nat /\ now < deadline
      /\ now' = now + 1 /\ UNCHANGED <<pc, deadline, called, elapsed, retrying, blocked>>
  BY DEF Tick, CallInv, CallTypes
<1>2. PICK b \in Histories : Budgets(b)
  BY <1>1 DEF CallInv, Over
<1>3. CallTypes' /\ CallChain'
  BY <1>1 DEF CallInv, CallTypes, CallChain
<1>4. now' <= deadline'
  BY <1>1
<1>5. b \in Histories' /\ Budgets(b)'
  BY <1>1, <1>2, <1>4 DEF Histories, Budgets, Asked, SinceCall
<1>6. QED
  BY <1>1, <1>3, <1>5 DEF CallInv, Over

LEMMA OtherBlocksStep ==
    ASSUME BudgetsAssumption, CallInv, OtherBlocks PROVE CallInv'
<1>1. /\ pc \in {"request", "sleep"} /\ now \in Nat /\ deadline \in Nat /\ blocked \in Nat
      /\ BlockTime \in Nat /\ now' = now + BlockTime /\ blocked' = blocked + BlockTime
      /\ deadline' = IF pc = "request" THEN deadline + BlockTime
                  ELSE IF deadline < now + BlockTime THEN now + BlockTime ELSE deadline
      /\ UNCHANGED <<pc, called, elapsed, retrying>>
  BY DEF BudgetsAssumption, OtherBlocks, CallInv, CallTypes
<1>2. PICK b \in Histories : Budgets(b)
  BY <1>1 DEF CallInv, Over
<1>3. CallTypes' /\ CallChain'
  BY <1>1 DEF CallInv, CallTypes, CallChain
<1>4. now <= deadline => now' <= deadline' /\ deadline' <= deadline + BlockTime
  BY <1>1
<1>5. b \in Histories'
  <2>1. 0 .. blocked \subseteq 0 .. blocked'
    BY <1>1
  <2>2. QED
    BY <2>1 DEF Histories
<1>6. Budgets(b)'
  <2>1. pc = "request" => now' <= deadline' /\ deadline' <= Asked + Timeout + blocked' - b[1]
    <3>1. Asked \in Int /\ b[1] \in Int /\ Timeout \in Int
      BY TargetMeans DEF Asked, CallInv, CallTypes, Histories
    <3>2. QED
      BY <1>1, <1>2, <1>4, <3>1 DEF Budgets
  <2>2. pc = "sleep" =>
          /\ now' <= deadline'
          /\ deadline' <= called[retrying] + MaxTime[retrying] + Target[retrying]
                         + SinceCall(b, retrying)'
    <3>1. called[retrying] \in Int /\ MaxTime[retrying] \in Int /\ Target[retrying] \in Int
      BY TargetMeans DEF CallInv, CallTypes
    <3>2. SinceCall(b, retrying) \in Int
      BY <1>1, TargetMeans DEF SinceCall, Histories, CallInv, CallTypes
    <3>3. SinceCall(b, retrying)' = SinceCall(b, retrying) + BlockTime
      BY <1>1, TargetMeans DEF SinceCall, Histories, CallInv, CallTypes
    <3>4. QED
      BY <1>1, <1>2, <1>4, <3>1, <3>2, <3>3 DEF Budgets
  <2>3. QED
    BY <1>1, <1>2, <2>1, <2>2 DEF Budgets, Asked
<1>7. QED
  BY <1>1, <1>3, <1>5, <1>6 DEF CallInv, Over

LEMMA EndStep ==
    ASSUME BudgetsAssumption, CallInv, pc = "request", pc' \in Over,
           UNCHANGED <<now, deadline, called, elapsed, retrying, blocked>>
    PROVE  CallInv'
  BY IsBounded DEF CallInv, CallTypes, CallChain, TimeBounded

LEMMA SleepStep ==
    ASSUME BudgetsAssumption, CallInv, pc = "request", NEW l \in Levels, Sleep(l),
           UNCHANGED <<now, called, elapsed, blocked>>
    PROVE  CallInv'
<1>1. PICK wait \in 0 .. MaxTime[l] - elapsed[l] : deadline' = now + wait
  BY DEF Sleep
<1>2. PICK b \in Histories : Budgets(b)
  BY DEF CallInv, Over
<1>3. /\ pc' = "sleep" /\ retrying' = l /\ elapsed[l] < MaxTime[l]
      /\ UNCHANGED <<now, called, elapsed, blocked>>
  BY DEF Sleep
<1>4. /\ now \in Nat /\ blocked \in Nat /\ l \in {1, 2, 3} /\ wait \in Nat /\ Asked \in Int
      /\ called[1] \in Nat /\ called[2] \in Nat /\ called[3] \in Nat
      /\ elapsed[1] \in Int /\ elapsed[2] \in Int /\ elapsed[3] \in Int
      /\ wait <= MaxTime[l] - elapsed[l]
  BY TargetMeans DEF CallInv, CallTypes, Asked
<1>5. /\ b[1] \in Int /\ b[2] \in Int /\ b[3] \in Int /\ b[3] >= 0
      /\ b[1] <= blocked /\ b[2] <= b[1] /\ b[3] <= b[2]
  BY <1>4, TargetMeans DEF Histories
<1>6. /\ Asked <= called[1] + MaxTime[1] + Target[1] + b[1] - b[2]
      /\ called[1] <= called[2] + MaxTime[2] + Target[2] + b[2] - b[3]
      /\ called[2] <= MaxTime[3] + Target[3] + b[3]
      /\ now <= Asked + Timeout + blocked - b[1]
  <2>1. deadline \in Int /\ now <= deadline /\ deadline <= Asked + Timeout + blocked - b[1]
    BY <1>2 DEF Budgets, CallInv, CallTypes
  <2>2. QED
    BY <1>2, <1>4, <1>5, <2>1, TargetMeans DEF Budgets
<1>7. /\ Asked = called[1] + elapsed[1] /\ called[1] = called[2] + elapsed[2]
      /\ called[2] = called[3] + elapsed[3] /\ called[3] = 0
  BY DEF CallInv, CallChain, Asked
<1>8. deadline' <= called[l] + MaxTime[l] + Target[l] + SinceCall(b, l)
  <2>1. CASE l = 1
    BY <1>1, <1>4, <1>5, <1>6, <1>7, <2>1, TargetMeans DEF SinceCall
  <2>2. CASE l = 2
    BY <1>1, <1>4, <1>5, <1>6, <1>7, <2>2, TargetMeans DEF SinceCall
  <2>3. CASE l = 3
    BY <1>1, <1>4, <1>5, <1>6, <1>7, <2>3, TargetMeans DEF SinceCall
  <2>4. QED
    BY <1>4, <2>1, <2>2, <2>3
<1>9. now' <= deadline' /\ deadline' \in Nat
  BY <1>1, <1>3, <1>4
<1>10. CallTypes' /\ CallChain'
  BY <1>3, <1>9 DEF CallInv, CallTypes, CallChain
<1>11. b \in Histories' /\ Budgets(b)'
  BY <1>2, <1>3, <1>8, <1>9 DEF Histories, Budgets, Asked, SinceCall
<1>12. QED
  BY <1>3, <1>10, <1>11 DEF CallInv, Over

LEMMA RetryStep ==
    ASSUME BudgetsAssumption, CallInv, Retry PROVE CallInv'
<1>1. /\ pc = "sleep" /\ now = deadline /\ pc' = "request" /\ deadline' = now + Timeout
      /\ called' = [l \in Levels |-> IF l < retrying THEN now ELSE called[l]]
      /\ elapsed' = [l \in Levels |->
                       IF l < retrying THEN 0
                       ELSE IF l = retrying THEN now - called[l] ELSE elapsed[l]]
      /\ UNCHANGED <<now, retrying, blocked>>
  BY DEF Retry
<1>2. PICK b \in Histories : Budgets(b)
  BY <1>1 DEF CallInv, Over
<1> PICK c : c = [l \in Levels |-> IF l <= retrying THEN blocked ELSE b[l]]
  OBVIOUS
<1>3. /\ now \in Nat /\ blocked \in Nat /\ retrying \in {1, 2, 3}
      /\ called[1] \in Nat /\ called[2] \in Nat /\ called[3] = 0
      /\ elapsed[1] \in Int /\ elapsed[2] \in Int /\ elapsed[3] \in Int
      /\ called[2] = elapsed[3] /\ called[1] = called[2] + elapsed[2]
  BY TargetMeans DEF CallInv, CallTypes, CallChain
<1>4. /\ b[1] \in Int /\ b[2] \in Int /\ b[3] \in Int /\ b[3] >= 0
      /\ b[1] <= blocked /\ b[2] <= b[1] /\ b[3] <= b[2]
  BY <1>3, TargetMeans DEF Histories
<1>5. /\ called[1] <= called[2] + MaxTime[2] + Target[2] + b[2] - b[3]
      /\ called[2] <= MaxTime[3] + Target[3] + b[3]
      /\ now <= called[retrying] + MaxTime[retrying] + Target[retrying] + SinceCall(b, retrying)
  BY <1>1, <1>2 DEF Budgets
<1>6. /\ called'[3] = called[3] /\ called'[2] = (IF 2 < retrying THEN now ELSE called[2])
      /\ called'[1] = (IF 1 < retrying THEN now ELSE called[1])
      /\ \A l \in Levels : elapsed'[l] = IF l < retrying THEN 0
                       ELSE IF l = retrying THEN now - called[l] ELSE elapsed[l]
      /\ c[1] = blocked /\ c[2] = (IF 2 <= retrying THEN blocked ELSE b[2])
      /\ c[3] = (IF 3 <= retrying THEN blocked ELSE b[3])
  BY <1>1, <1>3, TargetMeans
<1>7. Asked' = now /\ CallChain'
  <2>1. CASE retrying = 1
    BY <1>3, <1>6, <2>1, TargetMeans DEF Asked, CallChain
  <2>2. CASE retrying = 2
    BY <1>3, <1>6, <2>2, TargetMeans DEF Asked, CallChain
  <2>3. CASE retrying = 3
    BY <1>3, <1>6, <2>3, TargetMeans DEF Asked, CallChain
  <2>4. QED
    BY <1>3, <2>1, <2>2, <2>3
<1>8. c \in Histories'
  <2>1. \A l \in Levels : c[l] \in 0 .. blocked
    BY <1>3, <1>4, <1>6, TargetMeans
  <2>2. c[3] <= c[2] /\ c[2] <= c[1]
    BY <1>3, <1>4, <1>6
  <2>3. QED
    BY <1>1, <2>1, <2>2 DEF Histories
<1>9. CallTypes'
  <2>1. /\ \A l \in Levels : called[l] \in Nat /\ elapsed[l] \in Int
        /\ deadline' \in Nat
    BY <1>1, <1>3, TargetMeans DEF CallInv, CallTypes
  <2>2. called' \in [Levels -> Nat] /\ elapsed' \in [Levels -> Int]
    BY <1>1, <1>3, <2>1
  <2>3. QED
    BY <1>1, <2>1, <2>2 DEF CallInv, CallTypes
<1>10. /\ called'[2] <= MaxTime[3] + Target[3] + c[3]
       /\ called'[1] <= called'[2] + MaxTime[2] + Target[2] + c[2] - c[3]
       /\ now <= called'[1] + MaxTime[1] + Target[1] + c[1] - c[2]
  <2>1. CASE retrying = 1
    BY <1>3, <1>4, <1>5, <1>6, <2>1, TargetMeans DEF SinceCall
  <2>2. CASE retrying = 2
    BY <1>3, <1>4, <1>5, <1>6, <2>2, TargetMeans DEF SinceCall
  <2>3. CASE retrying = 3
    BY <1>3, <1>4, <1>5, <1>6, <2>3, TargetMeans DEF SinceCall
  <2>4. QED
    BY <1>3, <2>1, <2>2, <2>3
<1>11. now' <= deadline' /\ deadline' <= Asked' + Timeout + blocked' - c[1]
  BY <1>1, <1>3, <1>6, <1>7, TargetMeans
<1>12. Budgets(c)'
  BY <1>1, <1>7, <1>10, <1>11 DEF Budgets
<1>13. QED
  BY <1>1, <1>7, <1>8, <1>9, <1>12 DEF CallInv, Over

\* However the exceptions alternate, and whatever else blocks the event loop, a
\* call is over after a time that the three budgets and the timeout bound.
THEOREM CallBounded ==
    ASSUME BudgetsAssumption
    PROVE  CallSpec => []TimeBounded
<1>1. CallInv /\ [CallNext]_callVars => CallInv'
  <2> SUFFICES ASSUME CallInv, [CallNext]_callVars PROVE CallInv'
    OBVIOUS
  <2>1. CASE Return
    BY <2>1, EndStep DEF Return, Over
  <2>2. ASSUME NEW l \in Levels, RequestFails(l) PROVE CallInv'
    <3>1. pc = "request" /\ UNCHANGED <<now, called, elapsed, blocked>>
      BY <2>2 DEF RequestFails
    <3>2. CASE GiveUp(l)
      BY <3>1, <3>2, EndStep DEF GiveUp, Over
    <3>3. CASE Sleep(l)
      BY <3>1, <3>3, SleepStep
    <3>4. QED
      BY <2>2, <3>2, <3>3 DEF RequestFails
  <2>3. CASE UNCHANGED callVars
    BY <2>3 DEF callVars, CallInv, CallTypes, CallChain, TimeBounded, Budgets,
                Histories, Asked, SinceCall
  <2>4. QED
    BY <2>1, <2>2, <2>3, TickStep, OtherBlocksStep, RetryStep DEF CallNext
<1>2. CallInv => TimeBounded
  BY IsBounded
<1>3. QED
  BY <1>1, <1>2, CallBegins, PTL DEF CallSpec
=============================================================================
