-------------------------- MODULE RocketPoolRequest --------------------------
(***************************************************************************)
(* POST /api/v2/rewards/rocket_pool (api_v2/endpoints/rewards.py): what    *)
(* the node operator earned with some minipools. The answer joins tables   *)
(* of four indexers (validators, withdrawals, block rewards, Rocket Pool), *)
(* read one after the other while the indexers keep writing, and asks the  *)
(* contracts about blocks long past.                                       *)
(*                                                                         *)
(* A validator of Rocket Pool has one minipool, so the model names the     *)
(* minipool by its validator. The chain is a constant; an income is in     *)
(* wei, a withdrawal in ETH, a share of a withdrawal in 1/3200 ETH.        *)
(***************************************************************************)
EXTENDS Days

CONSTANTS
    Validators,     \* 1 .. n: indexes are given in order
    Nodes,
    NodeOf,         \* [some of the Validators -> Nodes]: the minipools
    InitialTerms,   \* [DOMAIN NodeOf -> [bond, fee]], in ETH and percent
    Reductions,     \* set of [pool, slot, bond, fee]
    Withdrawals,    \* set of [validator, slot, amount]
    Proposals,      \* set of [validator, slot, to, income]
    Emptied,        \* [Nodes -> slots in which the fee distributor pays out]
    Ratio,          \* [Nodes -> collateralisation: all the ETH / the node's ETH]
    AverageFee,     \* getAverageNodeFee, in percent
    AtlasSlot,      \* getNodeShare exists from this slot on
    Glitches,       \* may Infura answer a call with an error?
    Periods, PeriodDay, \* reward periods and the days they end on
    Requests            \* sets of validators the run asks about

Pools == DOMAIN NodeOf

\* What the chain guarantees: a slot has one block, which one validator proposes,
\* and the contracts know fees in percent and a collateralisation of at least 1.
ASSUME ChainAssumption ==
    /\ Validators \subseteq Nat /\ Requests \subseteq SUBSET Validators
    /\ Pools \subseteq Validators /\ NodeOf \in [Pools -> Nodes]
    /\ \A r \in Reductions : r.pool \in Pools /\ r.slot \in Slots
    /\ \A x \in Withdrawals \cup Proposals : x.slot \in Slots
    /\ PeriodDay \in [Periods -> Nat]
    /\ AverageFee \in 0 .. 100 /\ AtlasSlot \in Nat
    /\ \A n \in Nodes : Ratio[n] \in Nat \ {0} /\ Emptied[n] \subseteq Slots
    /\ IsFiniteSet(Proposals) /\ \A p \in Proposals : p.income \in Nat
    /\ \A p, q \in Proposals : p.slot = q.slot => p = q

VARIABLES
    validators, nodes, minipools, reductions, periods,  \* tables
    withdrawals,                                        \* table
    reward,         \* table `block_reward`: [stored, failed]
    pc, req,        \* the request: [validators, start, end, settled]
    all_withdrawals, all_block_rewards,
    pools,          \* minipool read -> the bond reductions read with it
    node_rewards, fee_distributors,
    answer

tables == <<validators, nodes, minipools, reductions, periods, withdrawals, reward>>
request == <<pc, req, all_withdrawals, all_block_rewards, pools, node_rewards,
             fee_distributors, answer>>
vars == <<tables, request>>

-----------------------------------------------------------------------------
\* The indexers. The validator indexer inserts the validators the beacon node
\* has that are not there yet, the withdrawal indexer goes slot by slot; the
\* Rocket Pool indexer stores a minipool only under a node it knows, a bond
\* reduction only under a minipool it knows.
IndexValidators(known) ==
    /\ validators' = validators \cup {v \in Validators : v <= known}
    /\ UNCHANGED <<nodes, minipools, reductions, periods, withdrawals, reward>>
IndexNode(n) ==
    /\ nodes' = nodes \cup {n}
    /\ UNCHANGED <<validators, minipools, reductions, periods, withdrawals, reward>>
IndexMinipool(v) ==
    /\ NodeOf[v] \in nodes
    /\ minipools' = minipools \cup {v}
    /\ UNCHANGED <<validators, nodes, reductions, periods, withdrawals, reward>>
IndexReduction(r) ==
    /\ r.pool \in minipools
    /\ reductions' = reductions \cup {r}
    /\ UNCHANGED <<validators, nodes, minipools, periods, withdrawals, reward>>
IndexPeriod(p) ==
    /\ periods' = periods \cup {p}
    /\ UNCHANGED <<validators, nodes, minipools, reductions, withdrawals, reward>>
IndexWithdrawal(w) ==
    /\ \A earlier \in Withdrawals : earlier.slot < w.slot => earlier \in withdrawals
    /\ withdrawals' = withdrawals \cup {w}
    /\ UNCHANGED <<validators, nodes, minipools, reductions, periods, reward>>
IndexReward(p, failed) ==
    /\ p \notin reward.stored
    /\ reward' = [stored |-> reward.stored \cup {p},
                  failed |-> reward.failed \cup (IF failed THEN {p} ELSE {})]
    /\ UNCHANGED <<validators, nodes, minipools, reductions, periods, withdrawals>>

Index ==
    \/ \E known \in Validators : IndexValidators(known)
    \/ \E n \in Nodes : IndexNode(n)
    \/ \E v \in Pools : IndexMinipool(v)
    \/ \E r \in Reductions : IndexReduction(r)
    \/ \E p \in Periods : IndexPeriod(p)
    \/ \E w \in Withdrawals : IndexWithdrawal(w)
    \/ \E p \in Proposals, failed \in BOOLEAN : IndexReward(p, failed)

Settled ==
    /\ validators = Validators /\ nodes = Nodes /\ minipools = Pools
    /\ reductions = Reductions /\ periods = Periods /\ withdrawals = Withdrawals
    /\ reward.stored = Proposals /\ reward.failed = {}

-----------------------------------------------------------------------------
Error == [kind |-> "error"]
NoAnswer == [kind |-> "none"]
NoRequest == [validators |-> {}, start |-> 0, end |-> 0, settled |-> FALSE]

Init ==
    /\ \/ /\ validators = {} /\ nodes = {} /\ minipools = {} /\ reductions = {}
          /\ periods = {} /\ withdrawals = {}
          /\ reward = [stored |-> {}, failed |-> {}]
       \/ /\ validators = Validators /\ nodes = Nodes /\ minipools = Pools
          /\ reductions = Reductions /\ periods = Periods /\ withdrawals = Withdrawals
          /\ reward = [stored |-> Proposals, failed |-> {}]
    /\ pc = "idle" /\ req = NoRequest
    /\ all_withdrawals = {} /\ all_block_rewards = {} /\ pools = <<>>
    /\ node_rewards = {} /\ fee_distributors = {} /\ answer = NoAnswer

Finish(a) == pc' = "done" /\ answer' = a

Receive(vs, start, end) ==
    /\ pc = "idle" /\ end > start
    /\ req' = [validators |-> vs, start |-> start, end |-> CappedEnd(end), settled |-> Settled]
    /\ pc' = "withdrawals"
    /\ UNCHANGED <<tables, all_withdrawals, all_block_rewards, pools, node_rewards,
                   fee_distributors, answer>>

InRange_Exclusive(slot) == StartSlot(req.start) <= slot /\ slot < EodSlot(req.end)
InRange(slot) == StartSlot(req.start) <= slot /\ slot <= EodSlot(req.end)
Requested(S) == {x \in S : x.validator \in req.validators /\ InRange(x.slot)}

ReadWithdrawals ==
    /\ pc = "withdrawals" /\ pc' = "rewards"
    /\ all_withdrawals' = Requested(withdrawals)
    /\ UNCHANGED <<tables, req, all_block_rewards, pools, node_rewards,
                   fee_distributors, answer>>

\* A row keeps whether it could be worked out.
ReadRewards ==
    /\ pc = "rewards" /\ pc' = "minipools"
    /\ all_block_rewards' = {[row |-> p, ok |-> p \notin reward.failed] :
                                p \in Requested(reward.stored)}
    /\ UNCHANGED <<tables, req, all_withdrawals, pools, node_rewards,
                   fee_distributors, answer>>

\* minipools_for_validators: the minipools of validators that are in the table,
\* with their bond reductions. One that is missing refuses the request.
ReadMinipools_Found ==
    /\ pc = "minipools"
    /\ pools' = [v \in req.validators \cap validators \cap minipools |->
                    {r \in reductions : r.pool = v}]
    /\ pc' = "node_rewards" /\ UNCHANGED answer
    /\ UNCHANGED <<tables, req, all_withdrawals, all_block_rewards, node_rewards,
                   fee_distributors>>
ReadMinipools ==
    /\ pc = "minipools"
    /\ pools' = [v \in req.validators \cap validators \cap minipools |->
                    {r \in reductions : r.pool = v}]
    /\ IF req.validators \subseteq validators \cap minipools
       THEN pc' = "node_rewards" /\ UNCHANGED answer
       ELSE Finish(Error)
    /\ UNCHANGED <<tables, req, all_withdrawals, all_block_rewards, node_rewards,
                   fee_distributors>>

\* rocket_pool_node_rewards_for_minipools: the nodes are those of the minipools
\* read; a period counts when it ended between 00:00:00 of the first day and
\* 23:59:59 of the last.
ReadNodeRewards ==
    /\ pc = "node_rewards" /\ pc' = "distributors"
    /\ node_rewards' = {NodeOf[v] : v \in DOMAIN pools}
            \X {p \in periods : req.start <= PeriodDay[p] /\ PeriodDay[p] <= req.end}
    /\ UNCHANGED <<tables, req, all_withdrawals, all_block_rewards, pools,
                   fee_distributors, answer>>

\* fee_distributor_addresses_for_validator_indexes: an inner join of the tables
\* validator, minipool and node.
ReadDistributors ==
    /\ pc = "distributors" /\ pc' = "shares"
    /\ fee_distributors' = {v \in DOMAIN pools \cap validators \cap minipools :
                               NodeOf[v] \in nodes}
    /\ UNCHANGED <<tables, req, all_withdrawals, all_block_rewards, pools,
                   node_rewards, answer>>

-----------------------------------------------------------------------------
(* Shares of withdrawals. *)

\* The most recent bond reduction before the withdrawal, else the first terms.
TermsAt_AnyReduction(v, slot) ==
    IF pools[v] = {} THEN InitialTerms[v]
    ELSE LET r == CHOOSE x \in pools[v] : \A y \in pools[v] : y.slot <= x.slot
         IN [bond |-> r.bond, fee |-> r.fee]
TermsAt(v, slot) ==
    LET earlier == {r \in pools[v] : slot > r.slot} IN
    IF earlier = {} THEN InitialTerms[v]
    ELSE LET r == CHOOSE x \in earlier : \A y \in earlier : y.slot <= x.slot
         IN [bond |-> r.bond, fee |-> r.fee]

\* In 1/3200 of amount's unit: the node's bond, and its commission on the rest.
NodePart(amount, terms) == amount * (100 * terms.bond + (32 - terms.bond) * terms.fee)

\* More than 8 ETH is a full withdrawal: only what exceeds the capital of 32 is
\* income. Less than the capital cannot be split, and the request fails.
Unsplittable(w) == w.amount > 8 /\ w.amount < 32
WithdrawalShare(w) ==
    NodePart(IF w.amount > 8 THEN w.amount - 32 ELSE w.amount,
             TermsAt(w.validator, w.slot))

-----------------------------------------------------------------------------
(* Shares of block rewards. *)

Half == 2
ContractShare(amount, ratio) ==
    LET own == amount \div ratio IN own + ((amount - own) * AverageFee) \div 100
FallbackShare(amount) == (amount * (100 + AverageFee)) \div 200

\* Balance of a node's fee distributor after a slot: what it got since it was
\* last emptied. A block that empties it pays its own reward in afterwards.
LastEmptied(n, slot) == Max({0} \cup {s \in Emptied[n] : s <= slot})
Balance(n, slot) ==
    SumOver([p \in Proposals |-> p.income],
        {p \in Proposals : /\ p.to = "distributor" /\ NodeOf[p.validator] = n
                           /\ LastEmptied(n, slot) <= p.slot /\ p.slot <= slot})

\* The share of a proposal is the difference its block makes to getNodeShare().
\* An error counts as a distributor from before Atlas: then half the node's
\* validators' ETH is taken to be the node's own.
ProposalShare(p, glitch) ==
    LET n == NodeOf[p.validator]
        before == Balance(n, p.slot - 1)
        after == Balance(n, p.slot) IN
    IF p.slot >= AtlasSlot /\ ~glitch
    THEN ContractShare(after, Ratio[n]) - ContractShare(before, Ratio[n])
    ELSE FallbackShare(after - before)

\* A reward the Smoothing Pool got is part of the node rewards.
Distributed_Smoothing ==
    {b.row : b \in {x \in all_block_rewards : x.row.to \in {"distributor", "smoothing"}}}
Distributed == {b.row : b \in {x \in all_block_rewards : x.row.to = "distributor"}}
Astray == {b \in all_block_rewards : b.row.to \notin {"distributor", "smoothing"}}

\* An answer needs every income worked out. A validator without a minipool, and
\* one without a distributor whose block paid one, are a KeyError.
Refused ==
    \/ \E w \in all_withdrawals : Unsplittable(w)
    \/ \E b \in all_block_rewards : ~b.ok
    \/ Astray # {}
    \/ ~ (req.validators \subseteq DOMAIN pools)
    \/ \E p \in Distributed : p.validator \notin fee_distributors

\* One entry per withdrawal, one per date and validator for block rewards.
OfDay(p) == <<p.validator, DateOf(p.slot)>>
ExecutionLayer(glitches) ==
    [d \in {OfDay(p) : p \in Distributed} |->
        SumOver([p \in Distributed |-> ProposalShare(p, p \in glitches)],
                {p \in Distributed : d = OfDay(p)})]
Paid(glitches) ==
    [kind |-> "ok", withdrawals |-> [w \in all_withdrawals |-> WithdrawalShare(w)],
     el |-> ExecutionLayer(glitches), nodes |-> node_rewards]

Work ==
    /\ pc = "shares"
    /\ \E glitches \in SUBSET Distributed :
          /\ glitches = {} \/ Glitches
          /\ Finish(IF Refused THEN Error ELSE Paid(glitches))
    /\ UNCHANGED <<tables, req, all_withdrawals, all_block_rewards, pools,
                   node_rewards, fee_distributors>>

Next ==
    \/ \E vs \in Requests, start, end \in 0 .. Today :
          Receive(vs, start, end)
    \/ ReadWithdrawals \/ ReadRewards \/ ReadMinipools \/ ReadNodeRewards
    \/ ReadDistributors \/ Work
    \/ pc # "done" /\ Index /\ UNCHANGED request

Spec == Init /\ [][Next]_vars

-----------------------------------------------------------------------------
\* The variables' types, and the foreign keys of the tables.
TypeOK ==
    /\ validators \subseteq Validators /\ nodes \subseteq Nodes
    /\ minipools \subseteq {v \in Pools : NodeOf[v] \in nodes}
    /\ reductions \subseteq {r \in Reductions : r.pool \in minipools}
    /\ periods \subseteq Periods /\ withdrawals \subseteq Withdrawals
    /\ reward.failed \subseteq reward.stored /\ reward.stored \subseteq Proposals
    /\ pc \in {"idle", "withdrawals", "rewards", "minipools", "node_rewards",
               "distributors", "shares", "done"}
    /\ req.validators \subseteq Validators
    /\ all_withdrawals \subseteq withdrawals
    /\ {b.row : b \in all_block_rewards} \subseteq reward.stored
    /\ DOMAIN pools \subseteq Pools /\ fee_distributors \subseteq Pools
    /\ node_rewards \subseteq Nodes \X Periods
    /\ answer.kind \in {"none", "error", "ok"}

\* The loops look up the minipool and the fee distributor of every validator of
\* the request: after the queries, which are transactions of their own, both
\* are there.
LookupsSucceed ==
    pc = "shares" =>
        /\ req.validators = DOMAIN pools
        /\ req.validators \subseteq fee_distributors

Answered == answer.kind = "ok"

\* "its value will be split among the node and user based on the bond/fee at
\* that time" (rewards.py, 133): a withdrawal of the answer is split by the last
\* terms agreed before it, as the chain has them, unless the request read the
\* minipool before one of its earlier bond reductions was stored.
SplitAtItsTime ==
    Answered => \A w \in DOMAIN answer.withdrawals :
        LET earlier == {r \in Reductions : r.pool = w.validator /\ r.slot < w.slot}
            income == IF w.amount > 8 THEN w.amount - 32 ELSE w.amount IN
        earlier \subseteq pools[w.validator] =>
            \/ /\ earlier = {}
               /\ answer.withdrawals[w] = NodePart(income, InitialTerms[w.validator])
            \/ \E r \in earlier :
                  /\ \A q \in earlier : q.slot <= r.slot
                  /\ answer.withdrawals[w] = NodePart(income, [bond |-> r.bond, fee |-> r.fee])

\* What the node's share of a proposal is: by the ratio of its node, by half
\* before Atlas and where the provider's error was taken for that.
DueShare(p, glitch) ==
    ContractShare(p.income, IF p.slot < AtlasSlot \/ glitch
                            THEN Half ELSE Ratio[NodeOf[p.validator]])

\* Execution layer income of a day: the node's share of the rewards the fee
\* distributor got for it, each proposal once, those of the Smoothing Pool never;
\* up to the rounding of each share, and but for days with a proposal whose own
\* block emptied the fee distributor. An error of the provider only swaps
\* the ratio of the proposals it hits for half.
ProposalsPaid ==
    Answered => \A d \in DOMAIN answer.el :
        LET those == {p \in Distributed : d = OfDay(p)}
            slack == 2 * Cardinality(those) IN
        (\A p \in those : p.slot \notin Emptied[NodeOf[p.validator]]) =>
            \E glitches \in SUBSET {p \in those : Glitches} :
                LET due == SumOver([p \in those |-> DueShare(p, p \in glitches)], those) IN
                due - slack <= answer.el[d] /\ answer.el[d] <= due + slack

\* Over tables that miss nothing an answer leaves nothing out: every withdrawal,
\* every day with a reward to the fee distributor, and every reward period that
\* ended in the range, for every node of the validators. The slot a range
\* begins in is dated on the day before, and yet belongs to it.
Wanted(S) ==
    {x \in S : /\ x.validator \in req.validators
               /\ DateOf(x.slot) \in req.start .. req.end \/ x.slot = StartSlot(req.start)}
SettledAnswerComplete ==
    Answered /\ req.settled =>
        /\ DOMAIN answer.withdrawals = Wanted(Withdrawals)
        /\ DOMAIN answer.el =
               {OfDay(p) : p \in {q \in Wanted(Proposals) : q.to = "distributor"}}
        /\ answer.nodes =
               {NodeOf[v] : v \in req.validators}
                   \X {p \in Periods : PeriodDay[p] \in req.start .. req.end}
=============================================================================
