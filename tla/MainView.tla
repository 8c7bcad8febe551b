------------------------------ MODULE MainView ------------------------------
(***************************************************************************)
(* The page of the web application                                         *)
(* (src/frontend_vue/src/views/TheMainView.vue): what the user picks, the  *)
(* requests under way, and what their answers are written into.            *)
(*                                                                         *)
(* Calculate asks for the rewards; data that arrives, or a new currency    *)
(* while there is data, starts getPriceData, which asks for the ETH prices *)
(* and then for the RPL prices. Nothing cancels a request: every answer is *)
(* written when it comes. A handler runs to its next await without         *)
(* interruption, watchers right after it. The Rocket Pool switch is        *)
(* disabled in the template, so its mode is always off.                    *)
(***************************************************************************)
EXTENDS Naturals, Sequences

CONSTANTS
    Selections,     \* sets of validators the user may have entered
    Empty,          \* the empty one
    Currencies,
    Ranges,         \* ranges of dates, as the sets of their dates
    Priced,         \* dates that are over: those with a price
    MaxActs         \* bound: things the user does outside the validators' field

ASSUME ConstantsAssumption ==
    Empty \in Selections /\ MaxActs \in Nat

VARIABLES
    validators, currency, range,    \* what the fields show
    asked,          \* the rewards request under way: [validators, range], or Nothing
    rewardsLoading,
    rewards,        \* validatorRewardsData: what it was asked with, or Nothing
    calls,          \* calls of getPriceData: Seq of [currency, range, stage]
    priceLoading,
    eth, rpl,       \* priceDataEth, priceDataRpl: a currency and a range, or Nothing
    chart,          \* what the chart was last drawn from, or Nothing: not there
    patient,        \* this user changes no field while a request is under way
    acts

fields == <<validators, currency, range>>
rewardData == <<asked, rewardsLoading, rewards>>
priceData == <<calls, priceLoading, eth, rpl>>
user == <<patient, acts>>
vars == <<fields, rewardData, priceData, chart, user>>

Nothing == [kind |-> "nothing"]
Query(v, r) == [kind |-> "rewards", validators |-> v, range |-> r]
Prices(c, r) == [kind |-> "prices", currency |-> c, range |-> r]

Loading == rewardsLoading \/ priceLoading

Init ==
    /\ validators = Empty
    /\ currency \in Currencies /\ range \in Ranges
    /\ asked = Nothing /\ rewardsLoading = FALSE /\ rewards = Nothing
    /\ calls = <<>> /\ priceLoading = FALSE /\ eth = Nothing /\ rpl = Nothing
    /\ chart = Nothing
    /\ patient \in BOOLEAN /\ acts = 0

\* The user does something the page allows.
Act == acts < MaxActs /\ acts' = acts + 1 /\ UNCHANGED patient
Edit == Act /\ (patient => ~Loading)

\* getPriceData up to its first await.
GetPriceData_Keep(c, r) ==
    /\ calls' = Append(calls, [currency |-> c, range |-> r, stage |-> "eth"])
    /\ priceLoading' = TRUE
    /\ UNCHANGED <<eth, rpl>>
GetPriceData(c, r) ==
    /\ calls' = Append(calls, [currency |-> c, range |-> r, stage |-> "eth"])
    /\ priceLoading' = TRUE
    /\ eth' = Nothing /\ rpl' = Nothing

-----------------------------------------------------------------------------
\* The watcher of the validator indexes drops the data retrieved before.
Reselect_Keep(v) ==
    /\ validators' = v
    /\ UNCHANGED <<currency, range, rewardData, priceData>>
Reselect(v) ==
    /\ validators' = v
    /\ rewards' = Nothing
    /\ UNCHANGED <<currency, range, asked, rewardsLoading, priceData>>

\* The field for the validators emits a new set, also for a lookup that ends; a
\* patient user waits for those, too.
SelectValidators(v) ==
    /\ patient => ~Loading
    /\ v # validators /\ Reselect(v) /\ UNCHANGED user

\* The watcher of the currency fetches new prices if there is data.
SelectCurrency_Unwatched(c) ==
    /\ Edit /\ c # currency
    /\ currency' = c
    /\ UNCHANGED <<validators, range, rewardData, priceData>>
SelectCurrency(c) ==
    /\ Edit /\ c # currency
    /\ currency' = c
    /\ IF rewards # Nothing THEN GetPriceData(c, range) ELSE UNCHANGED priceData
    /\ UNCHANGED <<validators, range, rewardData>>

\* Nobody watches the dates.
SelectRange(r) ==
    /\ Edit /\ r # range
    /\ range' = r
    /\ UNCHANGED <<validators, currency, rewardData, priceData>>

\* The button is disabled while something loads, and without validators.
Calculate ==
    /\ Act /\ ~Loading /\ validators # Empty
    /\ asked' = Query(validators, range)
    /\ rewardsLoading' = TRUE /\ rewards' = Nothing
    /\ UNCHANGED <<fields, priceData>>

-----------------------------------------------------------------------------
\* The rewards arrive; the watcher of the data asks for the prices, with what
\* the fields show now.
RewardsArrive ==
    /\ asked # Nothing
    /\ rewards' = asked
    /\ asked' = Nothing /\ rewardsLoading' = FALSE
    /\ GetPriceData(currency, range)
    /\ UNCHANGED <<fields, user>>

\* The request fails, or all validators are pending: there is no data.
RewardsFail_NoFinally ==
    /\ asked # Nothing
    /\ asked' = Nothing /\ UNCHANGED rewardsLoading
    /\ UNCHANGED <<fields, rewards, priceData, user>>
RewardsFail ==
    /\ asked # Nothing
    /\ asked' = Nothing /\ rewardsLoading' = FALSE
    /\ UNCHANGED <<fields, rewards, priceData, user>>

\* The RPL prices are asked for as well: useRocketPoolMode is a ref, and a ref
\* is true whatever its value is (line 82).
EthArrives(i) ==
    /\ calls[i].stage = "eth"
    /\ eth' = Prices(calls[i].currency, calls[i].range)
    /\ calls' = [calls EXCEPT ![i].stage = "rpl"]
    /\ UNCHANGED <<fields, rewardData, priceLoading, rpl, user>>

RplArrives(i) ==
    /\ calls[i].stage = "rpl"
    /\ rpl' = Prices(calls[i].currency, calls[i].range)
    /\ calls' = [calls EXCEPT ![i].stage = "over"]
    /\ priceLoading' = FALSE
    /\ UNCHANGED <<fields, rewardData, eth, user>>

PricesFail(i) ==
    /\ calls[i].stage # "over"
    /\ calls' = [calls EXCEPT ![i].stage = "over"]
    /\ priceLoading' = FALSE
    /\ UNCHANGED <<fields, rewardData, eth, rpl, user>>

Answer ==
    \/ RewardsArrive \/ RewardsFail
    \/ \E i \in 1 .. Len(calls) : EthArrives(i) \/ RplArrives(i) \/ PricesFail(i)

User ==
    \/ \E v \in Selections : SelectValidators(v)
    \/ \E c \in Currencies : SelectCurrency(c)
    \/ \E r \in Ranges : SelectRange(r)
    \/ Calculate

\* showOutputs of the template: not for an answer without any price either.
ShowOutputs ==
    /\ validators # Empty /\ rewards # Nothing
    /\ eth # Nothing /\ eth.range \cap Priced # {}

\* Vue renders after the handler: the chart is there while showOutputs holds. It
\* is drawn when it is mounted and when the rewards change, and never for new
\* prices alone.
Render ==
    chart' =
      IF ~ShowOutputs' THEN Nothing
      ELSE IF chart = Nothing \/ rewards' # rewards
      THEN [kind |-> "chart", rewards |-> rewards', prices |-> eth']
      ELSE chart

Next == (Answer \/ User) /\ Render

Spec == Init /\ [][Next]_vars

-----------------------------------------------------------------------------
Pending == {i \in 1 .. Len(calls) : calls[i].stage # "over"}

\* The variables' types; a rewards request is under way while the page says so,
\* and a spinner of the prices never turns without a request.
TypeOK ==
    /\ validators \in Selections /\ currency \in Currencies /\ range \in Ranges
    /\ \A q \in {asked, rewards} :
          q = Nothing \/ (q.validators \in Selections \ {Empty} /\ q.range \in Ranges)
    /\ rewardsLoading <=> asked # Nothing
    /\ priceLoading => Pending # {}
    /\ \A p \in {eth, rpl} :
          p = Nothing \/ (p.currency \in Currencies /\ p.range \in Ranges)
    /\ ShowOutputs <=> chart # Nothing
    /\ patient \in BOOLEAN /\ acts \in 0 .. MaxActs

\* While a calculation is under way no result of an earlier one is on the page
\* or can be downloaded, whatever the user edits meanwhile.
NoOldResult == rewardsLoading => rewards = Nothing

\* "Whenever the validator indexes change, reset any previously retrieved
\* rewards data" (lines 53-54): what is shown is shown for the validators
\* selected. It takes a patient user: an answer that arrives after a change is
\* written all the same (line 140).
ShownForSelected ==
    patient /\ rewards # Nothing => rewards.validators = validators

\* Amounts on the page are in the selected currency, which labels them: both
\* prices come from it. For a user who does not wait, the answer to an earlier
\* call may come last (line 81).
PricedInSelected ==
    patient /\ ShowOutputs =>
        \A p \in {eth, rpl} : p # Nothing => p.currency = currency

\* The chart shows the rewards and the prices of the table next to it: nothing
\* redraws it for new prices, only getPriceData's clearing them first takes it
\* off the page. Two calls that overlap deceive an impatient user.
ChartIsCurrent ==
    patient /\ ShowOutputs => chart.rewards = rewards /\ chart.prices = eth

\* The page stops loading: the button comes back, also after failures.
LoadingEnds == Loading ~> ~Loading
=============================================================================
