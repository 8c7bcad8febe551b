--------------------------- MODULE EntryPageProofs ---------------------------
(***************************************************************************)
(* Proofs about MainView, for all sets of selections, currencies and       *)
(* ranges, any number of overlapping requests and any number of things the *)
(* user does; about ValidatorAdder, for any number of lookups under way at *)
(* once, of any length, whatever each request is answered; then about the  *)
(* page with the field in it, which implements both of its parts.          *)
(***************************************************************************)
EXTENDS EntryPage, SequenceTheorems, TLAPS

-----------------------------------------------------------------------------
(* The page.  What it shows belongs together for a patient user because one *)
(* request is under way at a time, and the fields are as they were when it *)
(* began.                                                                  *)

Call == [currency : Currencies, range : Ranges, stage : {"eth", "rpl", "over"}]
AQuery == {Query(v, r) : v \in Selections \ {Empty}, r \in Ranges}
APrice == {Prices(c, r) : c \in Currencies, r \in Ranges}

Types ==
    /\ validators \in Selections /\ currency \in Currencies /\ range \in Ranges
    /\ asked \in AQuery \cup {Nothing} /\ rewards \in AQuery \cup {Nothing}
    /\ rewardsLoading \in BOOLEAN /\ priceLoading \in BOOLEAN
    /\ calls \in Seq(Call)
    /\ eth \in APrice \cup {Nothing} /\ rpl \in APrice \cup {Nothing}
    /\ patient \in BOOLEAN /\ acts \in 0 .. MaxActs

\* Spinners, and what they stand for.
Spinners ==
    /\ rewardsLoading <=> asked # Nothing
    /\ rewardsLoading => rewards = Nothing
    /\ priceLoading => Pending # {}

\* One request at a time; the call under way is the only one.
OneAtATime ==
    patient =>
      /\ ~priceLoading => Pending = {}
      /\ asked # Nothing => Pending = {}
      /\ \A i, j \in Pending : i = j
      /\ \A i \in Pending : calls[i].currency = currency
      /\ \A i \in Pending : calls[i].stage = "eth" => eth = Nothing

\* What was asked for, and what has come.
ForFields ==
    patient =>
      /\ asked # Nothing => asked.validators = validators
      /\ rewards # Nothing => rewards.validators = validators
      /\ rewards # Nothing /\ eth # Nothing => eth.currency = currency
      /\ rewards # Nothing /\ rpl # Nothing => rpl.currency = currency

Drawn ==
    /\ ShowOutputs <=> chart # Nothing
    /\ patient /\ ShowOutputs => chart.rewards = rewards /\ chart.prices = eth

IInv == Types /\ Spinners /\ OneAtATime /\ ForFields /\ Drawn

-----------------------------------------------------------------------------
\* The records differ from Nothing, and hold what they were made of.
LEMMA Records ==
    /\ \A q \in AQuery : q # Nothing /\ q.validators \in Selections \ {Empty}
                         /\ q.range \in Ranges
    /\ \A p \in APrice : p # Nothing /\ p.currency \in Currencies /\ p.range \in Ranges
    /\ \A v \in Selections \ {Empty}, r \in Ranges :
          Query(v, r) \in AQuery /\ Query(v, r).validators = v
    /\ \A c \in Currencies, r \in Ranges :
          Prices(c, r) \in APrice /\ Prices(c, r).currency = c
<1>1. \A v, r : /\ Query(v, r).kind = "rewards"
               /\ Query(v, r).validators = v /\ Query(v, r).range = r
  BY DEF Query
<1>2. \A c, r : /\ Prices(c, r).kind = "prices"
               /\ Prices(c, r).currency = c /\ Prices(c, r).range = r
  BY DEF Prices
<1>3. Nothing.kind = "nothing"
  BY DEF Nothing
<1>4. ASSUME NEW v, NEW r PROVE Query(v, r) # Nothing
  <2>1. Query(v, r).kind # Nothing.kind
    BY <1>1, <1>3
  <2>2. QED
    BY <2>1
<1>5. ASSUME NEW c, NEW r PROVE Prices(c, r) # Nothing
  <2>1. Prices(c, r).kind # Nothing.kind
    BY <1>2, <1>3
  <2>2. QED
    BY <2>1
<1>6. QED
  BY <1>1, <1>2, <1>4, <1>5 DEF AQuery, APrice

LEMMA InitIInv == ASSUME ConstantsAssumption, Init PROVE IInv
<1>1. Types
  <2>1. calls \in Seq(Call) /\ acts \in 0 .. MaxActs
    BY DEF ConstantsAssumption, Init
  <2>2. QED
    BY <2>1, Zenon DEF ConstantsAssumption, Init, Types
<1>2. Pending = {}
  BY DEF Init, Pending
<1>3. QED
  BY <1>1, <1>2 DEF Init, IInv, Spinners, OneAtATime, ForFields, Drawn, ShowOutputs

\* getPriceData starts: one more call, the only one if there was none.
LEMMA NewCall ==
    ASSUME Types, NEW c \in Currencies, NEW r \in Ranges, GetPriceData(c, r)
    PROVE  /\ calls' \in Seq(Call) /\ priceLoading' = TRUE
           /\ eth' = Nothing /\ rpl' = Nothing
           /\ Pending' = Pending \cup {Len(calls) + 1}
           /\ calls'[Len(calls) + 1].currency = c
<1>1. [currency |-> c, range |-> r, stage |-> "eth"] \in Call
  BY DEF Call
<1>2. /\ calls' = Append(calls, [currency |-> c, range |-> r, stage |-> "eth"])
      /\ calls \in Seq(Call) /\ Len(calls) \in Nat
  BY DEF GetPriceData, Types
<1>3. /\ calls' \in Seq(Call) /\ Len(calls') = Len(calls) + 1
      /\ calls'[Len(calls) + 1] = [currency |-> c, range |-> r, stage |-> "eth"]
      /\ \A i \in 1 .. Len(calls) : calls'[i] = calls[i]
  BY <1>1, <1>2
<1>4. Pending' = Pending \cup {Len(calls) + 1}
  BY <1>2, <1>3 DEF Pending
<1>5. QED
  BY <1>3, <1>4 DEF GetPriceData

\* A call of getPriceData goes on or ends.
LEMMA CallMoves ==
    ASSUME Types, NEW i \in 1 .. Len(calls), NEW s \in {"eth", "rpl", "over"},
           calls' = [calls EXCEPT ![i].stage = s]
    PROVE  /\ calls' \in Seq(Call) /\ DOMAIN calls' = DOMAIN calls
           /\ Pending' = IF s = "over" THEN Pending \ {i} ELSE Pending \cup {i}
           /\ \A j \in 1 .. Len(calls) : calls'[j].currency = calls[j].currency
           /\ calls'[i].stage = s
           /\ \A j \in 1 .. Len(calls) : j # i => calls'[j] = calls[j]
<1>1. calls \in Seq(Call) /\ Len(calls) \in Nat /\ calls[i] \in Call
  BY DEF Types
<1>2. [calls[i] EXCEPT !.stage = s] \in Call
  BY <1>1 DEF Call
<1>3. /\ calls' \in Seq(Call) /\ Len(calls') = Len(calls) /\ DOMAIN calls' = DOMAIN calls
      /\ calls'[i] = [calls[i] EXCEPT !.stage = s]
      /\ \A j \in 1 .. Len(calls) : j # i => calls'[j] = calls[j]
  BY <1>1, <1>2
<1>4. calls'[i].stage = s /\ calls'[i].currency = calls[i].currency
  BY <1>1, <1>3 DEF Call
<1>5. Pending' = IF s = "over" THEN Pending \ {i} ELSE Pending \cup {i}
  BY <1>1, <1>3, <1>4 DEF Pending
<1>6. QED
  BY <1>3, <1>4, <1>5

-----------------------------------------------------------------------------
\* The part of the invariant that needs no chart.
DataInv == Types /\ Spinners /\ OneAtATime /\ ForFields

\* The user edits a field, and no request is under way if they are patient.
LEMMA EditIsQuiet ==
    ASSUME ConstantsAssumption, DataInv, Edit
    PROVE  /\ acts' \in 0 .. MaxActs /\ patient' = patient
           /\ patient => asked = Nothing /\ ~rewardsLoading /\ ~priceLoading /\ Pending = {}
<1>1. acts' \in 0 .. MaxActs /\ patient' = patient
  BY DEF Edit, Act, DataInv, Types, ConstantsAssumption
<1>2. QED
  BY <1>1 DEF Edit, Loading, DataInv, Spinners, OneAtATime

LEMMA SelectValidatorsStep ==
    ASSUME ConstantsAssumption, DataInv, NEW v \in Selections, SelectValidators(v)
    PROVE  DataInv'
<1>1. /\ validators' = v /\ rewards' = Nothing
      /\ UNCHANGED <<currency, range, asked, rewardsLoading, priceData>>
  BY DEF SelectValidators, Reselect
<1>2. /\ acts' \in 0 .. MaxActs /\ patient' = patient
      /\ patient => asked = Nothing /\ ~rewardsLoading /\ ~priceLoading /\ Pending = {}
  BY DEF SelectValidators, user, Loading, DataInv, Types, Spinners, OneAtATime
<1>3. Types'
  BY <1>1, <1>2 DEF DataInv, Types, priceData
<1>4. Pending' = Pending
  BY <1>1 DEF Pending, priceData
<1>5. Spinners'
  BY <1>1, <1>4 DEF DataInv, Spinners, priceData
<1>6. OneAtATime'
  BY <1>1, <1>2, <1>4 DEF DataInv, OneAtATime, priceData
<1>7. ForFields'
  BY <1>1, <1>2 DEF DataInv, ForFields, priceData
<1>8. QED
  BY <1>3, <1>5, <1>6, <1>7 DEF DataInv

LEMMA SelectCurrencyStep ==
    ASSUME ConstantsAssumption, DataInv, NEW c \in Currencies, SelectCurrency(c)
    PROVE  DataInv'
<1>1. currency' = c /\ UNCHANGED <<validators, range, rewardData>>
  BY DEF SelectCurrency
<1>2. /\ acts' \in 0 .. MaxActs /\ patient' = patient
      /\ patient => asked = Nothing /\ ~rewardsLoading /\ ~priceLoading /\ Pending = {}
  BY EditIsQuiet DEF SelectCurrency
<1>3. CASE rewards # Nothing
  <2>1. GetPriceData(c, range) /\ range \in Ranges
    BY <1>3 DEF SelectCurrency, DataInv, Types
  <2>2. /\ calls' \in Seq(Call) /\ priceLoading' = TRUE
        /\ eth' = Nothing /\ rpl' = Nothing
        /\ Pending' = Pending \cup {Len(calls) + 1}
        /\ calls'[Len(calls) + 1].currency = c
    BY <2>1, NewCall DEF DataInv
  <2>3. Types'
    BY <1>1, <1>2, <2>2 DEF DataInv, Types, rewardData
  <2>4. Spinners'
    BY <1>1, <2>2 DEF DataInv, Spinners, rewardData
  <2>5. OneAtATime'
    BY <1>1, <1>2, <2>2 DEF DataInv, OneAtATime, rewardData
  <2>6. ForFields'
    BY <1>1, <1>2, <2>2 DEF DataInv, ForFields, rewardData
  <2>7. QED
    BY <2>3, <2>4, <2>5, <2>6 DEF DataInv
<1>4. CASE rewards = Nothing
  <2>1. UNCHANGED priceData
    BY <1>4 DEF SelectCurrency
  <2>2. Types' /\ Pending' = Pending
    BY <1>1, <1>2, <2>1 DEF DataInv, Types, rewardData, priceData, Pending
  <2>3. Spinners'
    BY <1>1, <2>1, <2>2 DEF DataInv, Spinners, rewardData, priceData
  <2>4. OneAtATime'
    BY <1>1, <1>2, <2>1, <2>2 DEF DataInv, OneAtATime, rewardData, priceData
  <2>5. ForFields'
    BY <1>1, <1>2, <1>4, <2>1 DEF DataInv, ForFields, rewardData, priceData
  <2>6. QED
    BY <2>2, <2>3, <2>4, <2>5 DEF DataInv
<1>5. QED
  BY <1>3, <1>4

LEMMA SelectRangeStep ==
    ASSUME ConstantsAssumption, DataInv, NEW r \in Ranges, SelectRange(r)
    PROVE  DataInv'
<1>1. range' = r /\ UNCHANGED <<validators, currency, rewardData, priceData>>
  BY DEF SelectRange
<1>2. acts' \in 0 .. MaxActs /\ patient' = patient
  BY EditIsQuiet DEF SelectRange
<1>3. Types' /\ Pending' = Pending
  BY <1>1, <1>2 DEF DataInv, Types, rewardData, priceData, Pending
<1>4. Spinners'
  BY <1>1, <1>3 DEF DataInv, Spinners, rewardData, priceData
<1>5. OneAtATime' /\ ForFields'
  BY <1>1, <1>2, <1>3 DEF DataInv, OneAtATime, ForFields, rewardData, priceData
<1>6. QED
  BY <1>3, <1>4, <1>5 DEF DataInv

LEMMA CalculateStep ==
    ASSUME ConstantsAssumption, DataInv, Calculate PROVE DataInv'
<1>1. /\ ~rewardsLoading /\ ~priceLoading
      /\ validators \in Selections \ {Empty} /\ range \in Ranges
      /\ asked' = Query(validators, range) /\ rewardsLoading' = TRUE
      /\ rewards' = Nothing /\ UNCHANGED <<fields, priceData>>
  BY DEF Calculate, Loading, DataInv, Types
<1>2. acts' \in 0 .. MaxActs /\ patient' = patient
  BY DEF Calculate, Act, DataInv, Types, ConstantsAssumption
<1>3. asked' \in AQuery /\ asked' # Nothing /\ asked'.validators = validators
  BY <1>1, Records
<1>4. Types' /\ Pending' = Pending
  BY <1>1, <1>2, <1>3 DEF DataInv, Types, fields, priceData, Pending
<1>5. Spinners'
  BY <1>1, <1>3, <1>4 DEF DataInv, Spinners, priceData
<1>6. OneAtATime'
  BY <1>1, <1>2, <1>4 DEF DataInv, OneAtATime, fields, priceData
<1>7. ForFields'
  BY <1>1, <1>2, <1>3 DEF DataInv, ForFields, fields, priceData
<1>8. QED
  BY <1>4, <1>5, <1>6, <1>7 DEF DataInv

LEMMA RewardsArriveStep ==
    ASSUME DataInv, RewardsArrive PROVE DataInv'
<1>1. /\ asked # Nothing /\ rewards' = asked
      /\ asked' = Nothing /\ rewardsLoading' = FALSE
      /\ GetPriceData(currency, range)
      /\ UNCHANGED <<fields, user>> /\ currency \in Currencies /\ range \in Ranges
  BY DEF RewardsArrive, DataInv, Types
<1>2. /\ calls' \in Seq(Call) /\ priceLoading' = TRUE
      /\ eth' = Nothing /\ rpl' = Nothing
      /\ Pending' = Pending \cup {Len(calls) + 1}
      /\ calls'[Len(calls) + 1].currency = currency
  BY <1>1, NewCall DEF DataInv
<1>3. Types'
  BY <1>1, <1>2 DEF DataInv, Types, fields, user
<1>4. Spinners'
  BY <1>1, <1>2 DEF Spinners
<1>5. OneAtATime'
  BY <1>1, <1>2 DEF DataInv, OneAtATime, fields, user
<1>6. ForFields'
  BY <1>1, <1>2 DEF DataInv, ForFields, fields, user
<1>7. QED
  BY <1>3, <1>4, <1>5, <1>6 DEF DataInv

LEMMA RewardsFailStep ==
    ASSUME DataInv, RewardsFail PROVE DataInv'
<1>1. /\ asked' = Nothing /\ rewardsLoading' = FALSE
      /\ UNCHANGED <<fields, rewards, priceData, user>>
  BY DEF RewardsFail
<1>2. Types' /\ Pending' = Pending
  BY <1>1 DEF DataInv, Types, fields, priceData, user, Pending
<1>3. Spinners'
  BY <1>1, <1>2 DEF DataInv, Spinners, priceData
<1>4. OneAtATime' /\ ForFields'
  BY <1>1, <1>2 DEF DataInv, OneAtATime, ForFields, fields, priceData, user
<1>5. QED
  BY <1>2, <1>3, <1>4 DEF DataInv

LEMMA EthArrivesStep ==
    ASSUME DataInv, NEW i \in 1 .. Len(calls), EthArrives(i) PROVE DataInv'
<1>1. /\ calls[i].stage = "eth"
      /\ eth' = Prices(calls[i].currency, calls[i].range)
      /\ calls' = [calls EXCEPT ![i].stage = "rpl"]
      /\ UNCHANGED <<fields, rewardData, priceLoading, rpl, user>>
  BY DEF EthArrives
<1>2. calls[i] \in Call /\ i \in Pending
  BY <1>1 DEF DataInv, Types, Pending
<1>3. eth' \in APrice /\ eth'.currency = calls[i].currency
  BY <1>1, <1>2, Records DEF Call
<1>4. /\ calls' \in Seq(Call) /\ DOMAIN calls' = DOMAIN calls
      /\ Pending' = Pending
      /\ \A j \in 1 .. Len(calls) : calls'[j].currency = calls[j].currency
      /\ calls'[i].stage = "rpl"
  <2>1. Types /\ "rpl" \in {"eth", "rpl", "over"} /\ "rpl" # "over"
    BY DEF DataInv
  <2>2. /\ calls' \in Seq(Call) /\ DOMAIN calls' = DOMAIN calls
        /\ Pending' = IF "rpl" = "over" THEN Pending \ {i} ELSE Pending \cup {i}
        /\ \A j \in 1 .. Len(calls) : calls'[j].currency = calls[j].currency
        /\ calls'[i].stage = "rpl"
    BY <1>1, <2>1, CallMoves
  <2>3. QED
    BY <1>2, <2>1, <2>2
<1>5. Types'
  BY <1>1, <1>3, <1>4 DEF DataInv, Types, fields, rewardData, user
<1>6. Spinners'
  BY <1>1, <1>4 DEF DataInv, Spinners, rewardData
<1>7. Pending \subseteq 1 .. Len(calls)
  BY DEF Pending
<1>8. OneAtATime'
  BY <1>1, <1>2, <1>4, <1>7 DEF DataInv, OneAtATime, fields, rewardData, user
<1>9. ForFields'
  BY <1>1, <1>2, <1>3 DEF DataInv, OneAtATime, ForFields, fields, rewardData, user
<1>10. QED
  BY <1>5, <1>6, <1>8, <1>9 DEF DataInv

\* The last answer of a call, or a failure.
LEMMA CallEndsStep ==
    ASSUME DataInv, NEW i \in 1 .. Len(calls), RplArrives(i) \/ PricesFail(i)
    PROVE  DataInv'
<1>1. /\ calls[i].stage # "over"
      /\ calls' = [calls EXCEPT ![i].stage = "over"] /\ priceLoading' = FALSE
      /\ rpl' = rpl \/ rpl' = Prices(calls[i].currency, calls[i].range)
      /\ UNCHANGED <<fields, rewardData, eth, user>>
  BY DEF RplArrives, PricesFail
<1>2. calls[i] \in Call /\ i \in Pending
  BY <1>1 DEF DataInv, Types, Pending
<1>3. /\ rpl' \in APrice \cup {Nothing}
      /\ rpl' # rpl => rpl'.currency = calls[i].currency
  BY <1>1, <1>2, Records DEF Call, DataInv, Types
<1>4. /\ calls' \in Seq(Call) /\ Pending' = Pending \ {i}
      /\ \A j \in 1 .. Len(calls) : j # i => calls'[j] = calls[j]
  BY <1>1, <1>2, CallMoves DEF DataInv
<1>5. Types'
  BY <1>1, <1>3, <1>4 DEF DataInv, Types, fields, rewardData, user
<1>6. Spinners'
  BY <1>1 DEF DataInv, Spinners, rewardData
<1>7. OneAtATime'
  BY <1>1, <1>2, <1>4 DEF DataInv, OneAtATime, fields, rewardData, user
<1>8. ForFields'
  BY <1>1, <1>2, <1>3 DEF DataInv, OneAtATime, ForFields, fields, rewardData, user
<1>9. QED
  BY <1>5, <1>6, <1>7, <1>8 DEF DataInv

LEMMA DataStep ==
    ASSUME ConstantsAssumption, DataInv, Next PROVE DataInv'
<1>1. CASE \E v \in Selections : SelectValidators(v)
  BY <1>1, SelectValidatorsStep
<1>2. CASE \E c \in Currencies : SelectCurrency(c)
  BY <1>2, SelectCurrencyStep
<1>3. CASE \E r \in Ranges : SelectRange(r)
  BY <1>3, SelectRangeStep
<1>4. CASE Calculate
  BY <1>4, CalculateStep
<1>5. CASE RewardsArrive \/ RewardsFail
  BY <1>5, RewardsArriveStep, RewardsFailStep
<1>6. CASE \E i \in 1 .. Len(calls) : EthArrives(i)
  BY <1>6, EthArrivesStep
<1>7. CASE \E i \in 1 .. Len(calls) : RplArrives(i) \/ PricesFail(i)
  BY <1>7, CallEndsStep
<1>8. QED
  BY <1>1, <1>2, <1>3, <1>4, <1>5, <1>6, <1>7 DEF Next, Answer, User

\* The prices of a patient user's page change only while they are away.
LEMMA PricesChangeHidden ==
    ASSUME DataInv, Next, patient', ShowOutputs, ShowOutputs' PROVE eth' = eth
<1>1. patient' = patient
  BY DEF Next, Answer, User, SelectValidators, SelectCurrency, SelectRange,
         Calculate, Edit, Act, RewardsArrive, RewardsFail, EthArrives, RplArrives,
         PricesFail, user
<1>2. ASSUME NEW i \in 1 .. Len(calls), EthArrives(i) PROVE FALSE
  <2>1. i \in Pending /\ calls[i].stage = "eth"
    BY <1>2 DEF EthArrives, Pending
  <2>2. QED
    BY <1>1, <2>1 DEF DataInv, OneAtATime, ShowOutputs
<1>3. ASSUME NEW c, NEW r, GetPriceData(c, r) PROVE FALSE
  BY <1>3 DEF GetPriceData, ShowOutputs
<1>4. QED
  BY <1>2, <1>3
     DEF Next, Answer, User, SelectValidators, Reselect, SelectCurrency,
         SelectRange, Calculate, RewardsArrive, RewardsFail, RplArrives, PricesFail,
         priceData

LEMMA DrawnStep ==
    ASSUME DataInv, Drawn, Next PROVE Drawn'
<1> DEFINE Fresh == [kind |-> "chart", rewards |-> rewards', prices |-> eth']
<1>1. chart' = IF ~ShowOutputs' THEN Nothing
               ELSE IF chart = Nothing \/ rewards' # rewards THEN Fresh ELSE chart
  BY DEF Next, Render
<1>2. Fresh # Nothing /\ Fresh.rewards = rewards' /\ Fresh.prices = eth'
  <2>1. Fresh.kind # Nothing.kind
    BY DEF Nothing
  <2>2. QED
    BY <2>1
<1>3. patient' = patient
  BY DEF Next, Answer, User, SelectValidators, SelectCurrency, SelectRange,
         Calculate, Edit, Act, RewardsArrive, RewardsFail, EthArrives, RplArrives,
         PricesFail, user
<1>4. (ShowOutputs <=> chart # Nothing)'
  <2> HIDE DEF Fresh
  <2>1. QED
    BY <1>1, <1>2
<1>5. CASE ~ShowOutputs' \/ chart = Nothing \/ rewards' # rewards
  <2> HIDE DEF Fresh
  <2>1. QED
    BY <1>1, <1>2, <1>4, <1>5 DEF Drawn
<1>6. CASE ShowOutputs' /\ chart # Nothing /\ rewards' = rewards
  <2>1. chart' = chart /\ ShowOutputs
    BY <1>1, <1>6 DEF Drawn
  <2>2. patient' => eth' = eth
    BY <1>6, <2>1, PricesChangeHidden
  <2>3. QED
    BY <1>3, <1>4, <1>6, <2>1, <2>2 DEF Drawn
<1>7. QED
  BY <1>5, <1>6

LEMMA IInvInductive ==
    ASSUME ConstantsAssumption, IInv, [Next]_vars PROVE IInv'
<1>1. CASE Next
  BY <1>1, DataStep, DrawnStep DEF IInv, DataInv
<1>2. CASE UNCHANGED vars
  <2>1. Types' /\ Pending' = Pending /\ ShowOutputs' = ShowOutputs
    BY <1>2 DEF IInv, Types, Pending, ShowOutputs, vars, fields, rewardData,
                priceData, user
  <2>2. Spinners' /\ OneAtATime' /\ ForFields' /\ Drawn'
    BY <1>2, <2>1 DEF IInv, Spinners, OneAtATime, ForFields, Drawn, vars, fields,
                      rewardData, priceData, user
  <2>3. QED
    BY <2>1, <2>2 DEF IInv
<1>3. QED
  BY <1>1, <1>2

LEMMA IInvHolds == ConstantsAssumption /\ Spec => []IInv
<1>1. ConstantsAssumption /\ Init => IInv
  BY InitIInv
<1>2. ConstantsAssumption /\ IInv /\ [Next]_vars => IInv'
  BY IInvInductive
<1>3. QED
  BY <1>1, <1>2, ConstantsAssumption, PTL DEF Spec

-----------------------------------------------------------------------------
\* Every variable keeps its type, the spinners stand for requests under way, and
\* the chart is on the page when the outputs are.
THEOREM TypeCorrect == Spec => []TypeOK
<1>1. IInv => TypeOK
  <2>1. ASSUME IInv, NEW q \in {asked, rewards}, q # Nothing
        PROVE  q.validators \in Selections \ {Empty} /\ q.range \in Ranges
    BY <2>1, Records DEF IInv, Types
  <2>2. ASSUME IInv, NEW p \in {eth, rpl}, p # Nothing
        PROVE  p.currency \in Currencies /\ p.range \in Ranges
    BY <2>2, Records DEF IInv, Types
  <2>3. QED
    BY <2>1, <2>2 DEF IInv, Types, Spinners, Drawn, TypeOK
<1>2. QED
  BY <1>1, IInvHolds, ConstantsAssumption, PTL

\* While rewards are calculated no earlier result is on the page.
THEOREM NoOldResults == Spec => []NoOldResult
<1>1. IInv => NoOldResult
  BY DEF IInv, Spinners, NoOldResult
<1>2. QED
  BY <1>1, IInvHolds, ConstantsAssumption, PTL

\* What a patient user sees is for the validators they selected.
THEOREM ShownIsSelected == Spec => []ShownForSelected
<1>1. IInv => ShownForSelected
  BY DEF IInv, ForFields, ShownForSelected, ShowOutputs
<1>2. QED
  BY <1>1, IInvHolds, ConstantsAssumption, PTL

\* A patient user sees amounts in the currency they selected.
THEOREM PricedIsSelected == Spec => []PricedInSelected
<1>1. IInv => PricedInSelected
  BY DEF IInv, ForFields, PricedInSelected, ShowOutputs
<1>2. QED
  BY <1>1, IInvHolds, ConstantsAssumption, PTL

\* For a patient user the chart is drawn from what the table shows.
THEOREM ChartAgrees == Spec => []ChartIsCurrent
<1>1. IInv => ChartIsCurrent
  BY DEF IInv, Drawn, ChartIsCurrent, ShowOutputs
<1>2. QED
  BY <1>1, IInvHolds, ConstantsAssumption, PTL

-----------------------------------------------------------------------------
(* The field.  What is entered is in one of three places until the next    *)
(* reset: in the set, among the keys still to ask for, or among those given *)
(* up.  Without a reset in the middle of a lookup nothing else is in the   *)
(* first two.                                                              *)

AwaitedIsWanted == ~hasty => OwnedBy(Awaited) \subseteq wanted

FieldInv == AdderTypeOK /\ NothingLost /\ NothingUnwanted /\ AwaitedIsWanted

LEMMA OwnedByUnion ==
    ASSUME NEW S, NEW T
    PROVE  OwnedBy(S \cup T) = OwnedBy(S) \cup OwnedBy(T)
  BY DEF OwnedBy

LEMMA OwnedIsIndexes ==
    ASSUME AdderAssumption, NEW S \in SUBSET Keys
    PROVE  OwnedBy(S) \subseteq Indexes
  BY DEF AdderAssumption, OwnedBy

\* The awaited keys, without the detour over the lookups under way.
LEMMA AwaitedMembers ==
    ASSUME lookups \in Seq(Seq(Keys))
    PROVE  /\ Awaited = UNION {KeysIn(lookups[i]) : i \in DOMAIN lookups}
           /\ Awaited \subseteq Keys
<1>1. ASSUME NEW i \in DOMAIN lookups
      PROVE  lookups[i] \in Seq(Keys) /\ (lookups[i] = <<>> => KeysIn(lookups[i]) = {})
  BY DEF KeysIn
<1>2. ASSUME NEW i \in DOMAIN lookups PROVE KeysIn(lookups[i]) \subseteq Keys
  BY <1>1 DEF KeysIn
<1>3. QED
  BY <1>1, <1>2 DEF Awaited, Underway

\* A first key and the rest.
LEMMA KeysOfHead ==
    ASSUME NEW s \in Seq(Keys), s # <<>>
    PROVE  /\ KeysIn(s) = {Head(s)} \cup KeysIn(Tail(s))
           /\ Head(s) \in Keys /\ Tail(s) \in Seq(Keys)
<1>1. /\ Len(s) \in Nat \ {0} /\ DOMAIN s = 1 .. Len(s)
      /\ Tail(s) \in Seq(Keys) /\ Len(Tail(s)) = Len(s) - 1 /\ Head(s) = s[1]
      /\ DOMAIN Tail(s) = 1 .. Len(s) - 1
  OBVIOUS
<1>2. \A j \in 1 .. Len(s) - 1 : Tail(s)[j] = s[j + 1]
  BY <1>1
<1>3. \A k : k \in KeysIn(s) => k = Head(s) \/ k \in KeysIn(Tail(s))
  <2> SUFFICES ASSUME NEW j \in 1 .. Len(s), j # 1 PROVE s[j] \in KeysIn(Tail(s))
    BY <1>1 DEF KeysIn
  <2>1. j - 1 \in 1 .. Len(s) - 1 /\ Tail(s)[j - 1] = s[j]
    BY <1>1, <1>2
  <2>2. QED
    BY <1>1, <2>1 DEF KeysIn
<1>4. \A k : k \in KeysIn(Tail(s)) => k \in KeysIn(s)
  BY <1>1, <1>2 DEF KeysIn
<1>5. Head(s) \in KeysIn(s) /\ Head(s) \in Keys
  BY <1>1 DEF KeysIn
<1>6. QED
  BY <1>1, <1>3, <1>4, <1>5

\* What one lookup's own step does to the keys awaited.
LEMMA AwaitedShrinks ==
    ASSUME lookups \in Seq(Seq(Keys)), NEW i \in Underway, NEW rest \in Seq(Keys),
           NEW S, KeysIn(lookups[i]) = S \cup KeysIn(rest),
           lookups' = [lookups EXCEPT ![i] = rest]
    PROVE  /\ lookups' \in Seq(Seq(Keys)) /\ S \subseteq Keys
           /\ Awaited = S \cup Awaited'
<1>1. i \in DOMAIN lookups
  BY DEF Underway
<1>2. lookups' \in Seq(Seq(Keys)) /\ DOMAIN lookups' = DOMAIN lookups
  BY <1>1
<1>3. /\ lookups'[i] = rest
      /\ \A j \in DOMAIN lookups : j # i => lookups'[j] = lookups[j]
  BY <1>1, <1>2
<1>4. Awaited = UNION {KeysIn(lookups[j]) : j \in DOMAIN lookups}
  BY AwaitedMembers
<1>5. Awaited' = UNION {KeysIn(lookups'[j]) : j \in DOMAIN lookups'}
  <2>1. Awaited' = UNION {KeysIn(lookups'[j]) : j \in {k \in DOMAIN lookups' : lookups'[k] # <<>>}}
    BY DEF Awaited, Underway
  <2>2. \A j \in DOMAIN lookups' : lookups'[j] = <<>> => KeysIn(lookups'[j]) = {}
    BY DEF KeysIn
  <2>3. \A k : k \in Awaited' <=> \E j \in DOMAIN lookups' :
                                   lookups'[j] # <<>> /\ k \in KeysIn(lookups'[j])
    BY <2>1
  <2>4. \A k : k \in Awaited' <=> \E j \in DOMAIN lookups' : k \in KeysIn(lookups'[j])
    BY <2>2, <2>3
  <2>5. QED
    BY <2>4
<1>6. Awaited = S \cup Awaited'
  <2>1. \A k : k \in Awaited <=> \E j \in DOMAIN lookups : k \in KeysIn(lookups[j])
    BY <1>4
  <2>2. \A k : k \in Awaited' <=> \E j \in DOMAIN lookups : k \in KeysIn(lookups'[j])
    BY <1>2, <1>5
  <2>3. ASSUME NEW k \in Awaited PROVE k \in S \/ k \in Awaited'
    BY <1>3, <2>1, <2>2
  <2>4. ASSUME NEW k, k \in S \/ k \in Awaited' PROVE k \in Awaited
    <3>1. k \in S \/ k \in KeysIn(rest) => k \in KeysIn(lookups[i])
      OBVIOUS
    <3>2. CASE k \in S
      BY <1>1, <2>1, <3>1, <3>2
    <3>3. CASE k \in Awaited'
      <4>1. PICK j \in DOMAIN lookups : k \in KeysIn(lookups'[j])
        BY <2>2, <3>3
      <4>2. k \in KeysIn(lookups[j])
        BY <1>3, <3>1, <4>1
      <4>3. QED
        BY <2>1, <4>2
    <3>4. QED
      BY <2>4, <3>2, <3>3
  <2>5. QED
    BY <2>3, <2>4
<1>7. S \subseteq Keys
  BY AwaitedMembers, <1>6
<1>8. QED
  BY <1>2, <1>6, <1>7

\* The type invariant, from its parts; and the bound of the model.
LEMMA Typed ==
    ASSUME added' \subseteq Indexes, wanted' \subseteq Indexes, lookups' \in Seq(Seq(Keys)),
           failed' \subseteq Keys, alerted' \subseteq failed', hasty' \in BOOLEAN,
           inputs' \in 0 .. MaxInputs
    PROVE  AdderTypeOK'
  BY DEF AdderTypeOK

LEMMA Counted ==
    ASSUME AdderAssumption, AdderTypeOK, Input
    PROVE  inputs' \in 0 .. MaxInputs
  BY DEF AdderAssumption, AdderTypeOK, Input

LEMMA Initially == AdderAssumption /\ AdderInit => FieldInv
<1> SUFFICES ASSUME AdderAssumption, AdderInit PROVE FieldInv
  OBVIOUS
<1>1. AdderTypeOK
  <2>1. 0 \in 0 .. MaxInputs /\ <<>> \in Seq(Seq(Keys))
    BY DEF AdderAssumption
  <2>2. QED
    BY <2>1 DEF AdderInit, AdderTypeOK
<1>2. Awaited = {}
  BY DEF AdderInit, Awaited, Underway
<1>3. NothingLost /\ NothingUnwanted /\ AwaitedIsWanted
  BY <1>2 DEF AdderInit, NothingLost, NothingUnwanted, AwaitedIsWanted, OwnedBy
<1>4. QED
  BY <1>1, <1>3 DEF FieldInv

LEMMA Adding ==
    ASSUME AdderAssumption, FieldInv, NEW items \in SUBSET (Indexes \cup {Blank}),
           AddIndexes(items)
    PROVE  FieldInv'
<1>1. /\ added' = added \cup (items \ {0, Blank})
      /\ wanted' = wanted \cup (items \ {0, Blank})
      /\ inputs' \in 0 .. MaxInputs
      /\ UNCHANGED <<lookups, failed, alerted, hasty>>
  BY Counted DEF AddIndexes, FieldInv
<1>2. AdderTypeOK'
  <2>1. items \ {0, Blank} \subseteq Indexes
    OBVIOUS
  <2>2. QED
    BY <1>1, <2>1, Typed DEF FieldInv, AdderTypeOK
<1>3. Awaited' = Awaited
  BY <1>1 DEF Awaited, Underway
<1>4. OwnedBy(Awaited') = OwnedBy(Awaited) /\ OwnedBy(failed') = OwnedBy(failed)
  BY <1>1, <1>3
<1>5. NothingLost' /\ NothingUnwanted' /\ AwaitedIsWanted'
  BY <1>1, <1>3, <1>4 DEF FieldInv, NothingLost, NothingUnwanted, AwaitedIsWanted
<1>6. QED
  BY <1>2, <1>5 DEF FieldInv

LEMMA Submitting ==
    ASSUME AdderAssumption, FieldInv, NEW keys \in Inputs, Submit(keys)
    PROVE  FieldInv'
<1>1. /\ lookups' = Append(lookups, keys)
      /\ wanted' = wanted \cup OwnedBy(KeysIn(keys))
      /\ inputs' \in 0 .. MaxInputs
      /\ UNCHANGED <<added, failed, alerted, hasty>>
  BY Counted DEF Submit, FieldInv
<1>2. keys \in Seq(Keys) /\ keys # <<>> /\ lookups \in Seq(Seq(Keys))
  BY DEF AdderAssumption, FieldInv, AdderTypeOK
<1>3. KeysIn(keys) \subseteq Keys
  BY <1>2 DEF KeysIn
<1>4. lookups' \in Seq(Seq(Keys))
  BY <1>1, <1>2
<1>5. AdderTypeOK'
  <2>1. OwnedBy(KeysIn(keys)) \subseteq Indexes
    BY <1>3, OwnedIsIndexes
  <2>2. QED
    BY <1>1, <1>4, <2>1, Typed DEF FieldInv, AdderTypeOK
<1>6. Awaited' = Awaited \cup KeysIn(keys)
  <2>1. /\ DOMAIN lookups' = DOMAIN lookups \cup {Len(lookups) + 1}
        /\ lookups'[Len(lookups) + 1] = keys
        /\ \A i \in DOMAIN lookups : lookups'[i] = lookups[i]
    BY <1>1, <1>2
  <2>2. QED
    BY <1>2, <2>1 DEF Awaited, Underway
<1>7. OwnedBy(Awaited') = OwnedBy(Awaited) \cup OwnedBy(KeysIn(keys))
  BY <1>6, OwnedByUnion
<1>8. OwnedBy(failed') = OwnedBy(failed)
  BY <1>1
<1>9. NothingLost' /\ NothingUnwanted' /\ AwaitedIsWanted'
  BY <1>1, <1>7, <1>8 DEF FieldInv, NothingLost, NothingUnwanted, AwaitedIsWanted
<1>10. QED
  BY <1>5, <1>9 DEF FieldInv

LEMMA Resetting ==
    ASSUME AdderAssumption, FieldInv, Reset
    PROVE  FieldInv'
<1>1. /\ added' = {} /\ wanted' = {} /\ hasty' = (hasty \/ Underway # {})
      /\ inputs' \in 0 .. MaxInputs
      /\ UNCHANGED <<lookups, failed, alerted>>
  BY Counted DEF Reset, FieldInv
<1>2. AdderTypeOK'
  <2>1. hasty' \in BOOLEAN
    BY <1>1
  <2>2. QED
    BY <1>1, <2>1, Typed DEF FieldInv, AdderTypeOK
<1>3. ~hasty' => OwnedBy(Awaited') = {}
  <2>1. ~hasty' => Underway = {}
    BY <1>1
  <2>2. Awaited' = Awaited
    BY <1>1 DEF Awaited, Underway
  <2>3. Underway = {} => OwnedBy(Awaited) = {}
    BY DEF Awaited, OwnedBy
  <2>4. QED
    BY <2>1, <2>2, <2>3
<1>4. NothingLost' /\ NothingUnwanted' /\ AwaitedIsWanted'
  BY <1>1, <1>3 DEF NothingLost, NothingUnwanted, AwaitedIsWanted
<1>5. QED
  BY <1>2, <1>4 DEF FieldInv

LEMMA Arriving ==
    ASSUME AdderAssumption, FieldInv, NEW i, Arrive(i)
    PROVE  FieldInv'
<1> DEFINE key == Head(lookups[i])
<1>1. /\ i \in Underway /\ added' = added \cup Owned[key]
      /\ lookups' = [lookups EXCEPT ![i] = Tail(lookups[i])]
      /\ UNCHANGED <<failed, alerted, wanted, hasty, inputs>>
  BY DEF Arrive
<1>2. lookups \in Seq(Seq(Keys)) /\ lookups[i] \in Seq(Keys) /\ lookups[i] # <<>>
  BY <1>1 DEF FieldInv, AdderTypeOK, Underway
<1>3. KeysIn(lookups[i]) = {key} \cup KeysIn(Tail(lookups[i])) /\ Tail(lookups[i]) \in Seq(Keys)
  BY <1>2, KeysOfHead
<1>4. lookups' \in Seq(Seq(Keys)) /\ {key} \subseteq Keys /\ Awaited = {key} \cup Awaited'
  BY <1>1, <1>2, <1>3, AwaitedShrinks
<1>5. OwnedBy({key}) = Owned[key]
  BY DEF OwnedBy
<1>6. OwnedBy(Awaited) = Owned[key] \cup OwnedBy(Awaited')
  BY <1>4, <1>5, OwnedByUnion
<1>7. AdderTypeOK'
  <2>1. Owned[key] \subseteq Indexes
    BY <1>4, <1>5, OwnedIsIndexes
  <2>2. QED
    BY <1>1, <1>4, <2>1, Typed DEF FieldInv, AdderTypeOK
<1>8. OwnedBy(failed') = OwnedBy(failed)
  BY <1>1
<1>9. NothingLost' /\ NothingUnwanted' /\ AwaitedIsWanted'
  BY <1>1, <1>6, <1>8 DEF FieldInv, NothingLost, NothingUnwanted, AwaitedIsWanted
<1>10. QED
  BY <1>7, <1>9 DEF FieldInv

LEMMA Rejecting ==
    ASSUME AdderAssumption, FieldInv, NEW i, NEW status \in Statuses, Reject(i, status)
    PROVE  FieldInv'
<1> DEFINE given == KeysIn(lookups[i])
<1>1. /\ i \in Underway /\ failed' = failed \cup given
      /\ alerted' \in {alerted, alerted \cup {Head(lookups[i])}}
      /\ lookups' = [lookups EXCEPT ![i] = <<>>]
      /\ UNCHANGED <<added, wanted, hasty, inputs>>
  BY DEF Reject
<1>2. lookups \in Seq(Seq(Keys)) /\ lookups[i] \in Seq(Keys) /\ lookups[i] # <<>>
  BY <1>1 DEF FieldInv, AdderTypeOK, Underway
<1>3. given = given \cup KeysIn(<<>>) /\ <<>> \in Seq(Keys)
  BY DEF KeysIn
<1>4. lookups' \in Seq(Seq(Keys)) /\ given \subseteq Keys /\ Awaited = given \cup Awaited'
  BY <1>1, <1>2, <1>3, AwaitedShrinks
<1>5. Head(lookups[i]) \in given
  BY <1>2, KeysOfHead
<1>6. OwnedBy(Awaited) = OwnedBy(given) \cup OwnedBy(Awaited')
  BY <1>4, OwnedByUnion
<1>7. OwnedBy(failed') = OwnedBy(failed) \cup OwnedBy(given)
  BY <1>1, OwnedByUnion
<1>8. AdderTypeOK'
  BY <1>1, <1>4, <1>5 DEF FieldInv, AdderTypeOK
<1>9. NothingLost' /\ NothingUnwanted' /\ AwaitedIsWanted'
  BY <1>1, <1>6, <1>7 DEF FieldInv, NothingLost, NothingUnwanted, AwaitedIsWanted
<1>10. QED
  BY <1>8, <1>9 DEF FieldInv

LEMMA FieldStep ==
    ASSUME AdderAssumption, FieldInv, [AdderNext]_adderVars PROVE FieldInv'
<1>1. CASE \E items \in SUBSET (Indexes \cup {Blank}) \ {{}} : AddIndexes(items)
  BY <1>1, Adding
<1>2. CASE \E keys \in Inputs : Submit(keys)
  BY <1>2, Submitting
<1>3. CASE Reset
  BY <1>3, Resetting
<1>4. CASE LookupStep
  BY <1>4, Arriving, Rejecting DEF LookupStep
<1>5. CASE UNCHANGED adderVars
  <2>1. AdderTypeOK'
    BY <1>5 DEF adderVars, FieldInv, AdderTypeOK
  <2>2. Awaited' = Awaited /\ UNCHANGED <<added, failed, wanted, hasty>>
    BY <1>5 DEF adderVars, Awaited, Underway
  <2>3. OwnedBy(Awaited') = OwnedBy(Awaited) /\ OwnedBy(failed') = OwnedBy(failed)
    BY <2>2
  <2>4. NothingLost' /\ NothingUnwanted' /\ AwaitedIsWanted'
    BY <2>2, <2>3 DEF FieldInv, NothingLost, NothingUnwanted, AwaitedIsWanted
  <2>5. QED
    BY <2>1, <2>4 DEF FieldInv
<1>6. QED
  BY <1>1, <1>2, <1>3, <1>4, <1>5 DEF AdderNext, Entry

LEMMA Always == AdderSpec => []FieldInv
<1>1. AdderAssumption /\ AdderInit => FieldInv
  BY Initially
<1>2. AdderAssumption /\ FieldInv /\ [AdderNext]_adderVars => FieldInv'
  BY FieldStep
<1>3. QED
  BY <1>1, <1>2, AdderAssumption, PTL DEF AdderSpec

\* The variables keep their types: no blank and no NaN gets into the set.
THEOREM FieldTypeCorrect == AdderSpec => []AdderTypeOK
<1>1. FieldInv => AdderTypeOK
  BY DEF FieldInv
<1>2. QED
  BY <1>1, Always, PTL

\* Lookups that overlap lose none of each other's indexes.
THEOREM LookupsLoseNothing == AdderSpec => []NothingLost
<1>1. FieldInv => NothingLost
  BY DEF FieldInv
<1>2. QED
  BY <1>1, Always, PTL

\* Only a reset in the middle of a lookup lets indexes of before it into the set.
THEOREM LookupsAddNothing == AdderSpec => []NothingUnwanted
<1>1. FieldInv => NothingUnwanted
  BY DEF FieldInv
<1>2. QED
  BY <1>1, Always, PTL

-----------------------------------------------------------------------------
(* The page with the field in it. *)

\* The page's copy is the field's set; no lookup of a patient user is under way
\* while the page loads.
Joined == validators = added /\ (patient /\ Loading => Underway = {})

PageInv == IInv /\ FieldInv /\ Joined

\* Nothing the page shows changes, so the chart does not.
LEMMA ChartStays ==
    ASSUME IInv, UNCHANGED <<fields, rewardData, priceData, user>>, Render
    PROVE  UNCHANGED vars
<1>1. UNCHANGED <<validators, rewards, eth>>
  BY DEF fields, rewardData, priceData
<1>2. ShowOutputs' = ShowOutputs
  BY <1>1 DEF ShowOutputs
<1>3. chart' = chart
  BY <1>1, <1>2 DEF Render, IInv, Drawn
<1>4. QED
  BY <1>3 DEF vars

\* What the field emits is a selection of the page, or nothing new.
LEMMA EmitStep ==
    ASSUME EntryAssumption, PageInv, FieldInv', Emit, Render, UNCHANGED user,
           patient => ~Loading
    PROVE  [Next]_vars /\ validators' = added' /\ (Loading' <=> Loading)
<1>1. validators = added /\ added' \in Selections
  BY DEF PageInv, Joined, FieldInv, AdderTypeOK, EntryAssumption
<1>2. CASE added' # added
  <2>1. Reselect(added') /\ SelectValidators(added')
    BY <1>1, <1>2 DEF Emit, SelectValidators
  <2>2. Next
    BY <1>1, <2>1 DEF Next, User
  <2>3. QED
    BY <2>1, <2>2 DEF Reselect, Loading, priceData
<1>3. CASE added' = added
  <2>1. UNCHANGED <<fields, rewardData, priceData>>
    BY <1>3 DEF Emit
  <2>2. UNCHANGED vars
    BY <2>1, ChartStays DEF PageInv
  <2>3. QED
    BY <1>1, <1>3, <2>1, <2>2 DEF fields, rewardData, priceData, Loading
<1>4. QED
  BY <1>2, <1>3

\* Answers to the page's requests never start loading anew.
LEMMA AnswerStep ==
    ASSUME IInv, Answer
    PROVE  UNCHANGED <<validators, patient>> /\ (Loading' => Loading)
<1>1. CASE RewardsArrive \/ RewardsFail
  BY <1>1 DEF RewardsArrive, RewardsFail, IInv, Spinners, Loading, fields, user
<1>2. CASE \E i \in 1 .. Len(calls) : EthArrives(i) \/ RplArrives(i) \/ PricesFail(i)
  BY <1>2 DEF EthArrives, RplArrives, PricesFail, IInv, Loading, fields, rewardData, user
<1>3. QED
  BY <1>1, <1>2 DEF Answer

\* Every step of the composition is a step of each part, or none of its own.
LEMMA EntryStep ==
    ASSUME ConstantsAssumption, AdderAssumption, EntryAssumption, PageInv,
           [EntryNext]_entryVars
    PROVE  [Next]_vars /\ [AdderNext]_adderVars /\ PageInv'
<1> USE DEF PageInv
<1>1. ASSUME [Next]_vars, [AdderNext]_adderVars, Joined' PROVE PageInv'
  BY <1>1, IInvInductive, FieldStep
<1>2. CASE EnterValidators /\ Render
  <2>1. /\ AdderNext /\ Emit /\ Render /\ UNCHANGED user
        /\ patient => ~Loading
    BY <1>2 DEF EnterValidators, AdderNext
  <2>2. [Next]_vars /\ validators' = added' /\ (Loading' <=> Loading)
    BY <2>1, EmitStep, FieldStep
  <2>3. Joined'
    BY <2>1, <2>2 DEF Joined, user
  <2>4. QED
    BY <1>1, <2>1, <2>2, <2>3
<1>3. CASE LookupAnswers /\ Render
  <2>1. AdderNext /\ Emit /\ Render /\ UNCHANGED user /\ Underway # {}
    BY <1>3 DEF LookupAnswers, LookupStep, AdderNext, Arrive, Reject
  <2>2. patient => ~Loading
    BY <2>1 DEF Joined
  <2>3. [Next]_vars /\ validators' = added' /\ (Loading' <=> Loading)
    BY <2>1, <2>2, EmitStep, FieldStep
  <2>4. Joined'
    BY <2>1, <2>2, <2>3 DEF Joined, user
  <2>5. QED
    BY <1>1, <2>1, <2>3, <2>4
<1>4. CASE EditOthers /\ Render
  <2>1. Next /\ UNCHANGED <<validators, patient>> /\ UNCHANGED adderVars
    BY <1>4 DEF EditOthers, Next, User, SelectCurrency, SelectRange, Edit, Act
  <2>2. Underway' = Underway /\ added' = added
    BY <2>1 DEF adderVars, Underway
  <2>3. patient => Underway = {}
    BY <1>4 DEF EditOthers, Allowed
  <2>4. Joined'
    BY <2>1, <2>2, <2>3 DEF Joined
  <2>5. QED
    BY <1>1, <2>1, <2>4
<1>5. CASE PressCalculate /\ Render
  <2>1. Next /\ UNCHANGED <<validators, patient>> /\ UNCHANGED adderVars
    BY <1>5 DEF PressCalculate, Next, User, Calculate, Act, fields
  <2>2. Underway' = Underway /\ added' = added
    BY <2>1 DEF adderVars, Underway
  <2>3. patient => Underway = {}
    BY <1>5 DEF PressCalculate, Allowed
  <2>4. Joined'
    BY <2>1, <2>2, <2>3 DEF Joined
  <2>5. QED
    BY <1>1, <2>1, <2>4
<1>6. CASE AnswersCome /\ Render
  <2>1. Next /\ UNCHANGED <<validators, patient>> /\ UNCHANGED adderVars
    BY <1>6, AnswerStep DEF AnswersCome, Next
  <2>2. Underway' = Underway /\ added' = added
    BY <2>1 DEF adderVars, Underway
  <2>3. Loading' => Loading
    BY <1>6, AnswerStep DEF AnswersCome
  <2>4. Joined'
    BY <2>1, <2>2, <2>3 DEF Joined
  <2>5. QED
    BY <1>1, <2>1, <2>4
<1>7. CASE UNCHANGED entryVars
  <2>1. UNCHANGED vars /\ UNCHANGED adderVars
    BY <1>7 DEF entryVars
  <2>2. Joined'
    BY <2>1 DEF vars, fields, rewardData, priceData, user, adderVars, Joined, Loading, Underway
  <2>3. QED
    BY <1>1, <2>1, <2>2
<1>8. QED
  BY <1>2, <1>3, <1>4, <1>5, <1>6, <1>7 DEF EntryNext

LEMMA EntryInitially ==
    ASSUME ConstantsAssumption, AdderAssumption, EntryAssumption, EntryInit
    PROVE  PageInv
<1>1. IInv /\ FieldInv
  BY InitIInv, Initially DEF EntryInit
<1>2. Joined
  BY DEF EntryInit, Init, AdderInit, EntryAssumption, Joined, Loading
<1>3. QED
  BY <1>1, <1>2 DEF PageInv

LEMMA PageHolds == EntrySpec => []PageInv
<1>1. ConstantsAssumption /\ AdderAssumption /\ EntryAssumption /\ EntryInit => PageInv
  BY EntryInitially
<1>2. ConstantsAssumption /\ AdderAssumption /\ EntryAssumption /\ PageInv
        /\ [EntryNext]_entryVars => PageInv'
  BY EntryStep
<1>3. QED
  BY <1>1, <1>2, ConstantsAssumption, AdderAssumption, EntryAssumption, PTL DEF EntrySpec

\* The page with its field behaves like the page whose user selects validators:
\* lookups, resets and copies add nothing the page alone does not do.
THEOREM PageImplementsView == EntrySpec => Spec
<1>1. EntryInit => Init
  BY DEF EntryInit
<1>2. ConstantsAssumption /\ AdderAssumption /\ EntryAssumption /\ PageInv
        /\ [EntryNext]_entryVars => [Next]_vars
  BY EntryStep
<1>3. QED
  BY <1>1, <1>2, PageHolds, ConstantsAssumption, AdderAssumption, EntryAssumption, PTL
     DEF EntrySpec, Spec

\* The field inside the page behaves like the field alone.
THEOREM PageImplementsField == EntrySpec => AdderSpec
<1>1. EntryInit => AdderInit
  BY DEF EntryInit
<1>2. ConstantsAssumption /\ AdderAssumption /\ EntryAssumption /\ PageInv
        /\ [EntryNext]_entryVars => [AdderNext]_adderVars
  BY EntryStep
<1>3. QED
  BY <1>1, <1>2, PageHolds, ConstantsAssumption, AdderAssumption, EntryAssumption, PTL
     DEF EntrySpec, AdderSpec

\* What a patient user sees was calculated for the validators in the field.
THEOREM ShownIsEntered == EntrySpec => []ShownForEntered
<1>1. PageInv => ShownForEntered
  BY DEF PageInv, Joined, IInv, ForFields, ShownForEntered
<1>2. QED
  BY <1>1, PageHolds, PTL

\* What is shown above of the page alone holds of the page with its field.
THEOREM PageIsConsistent == EntrySpec => [](PricedInSelected /\ ChartIsCurrent)
  BY PageImplementsView, PricedIsSelected, ChartAgrees, PTL

\* And so does what is shown of the field above.
THEOREM FieldIsConsistent == EntrySpec => [](NothingLost /\ NothingUnwanted)
  BY PageImplementsField, LookupsLoseNothing, LookupsAddNothing, PTL
=============================================================================
