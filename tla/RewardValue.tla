----------------------------- MODULE RewardValue -----------------------------
(***************************************************************************)
(* How the block reward indexer works out what a proposer earned           *)
(* (get_block_reward_value and its helpers in                              *)
(* src/indexer/block_rewards/block_rewards_mev_simple.py): it asks every   *)
(* relay at once and takes the answers as they come; without a delivered   *)
(* payload it compares the fee recipient's balance change with the fees.   *)
(*                                                                         *)
(* A block is a record of what happened to the two accounts that matter,   *)
(* the fee recipient and the proposer, in small units of value. For a      *)
(* vanilla block they are the same account; a builder block sends the fees *)
(* to the builder, who pays the proposer with the last transaction.        *)
(***************************************************************************)
EXTENDS Integers, FiniteSets

CONSTANTS
    Relays,
    Answers,    \* what a relay may answer: subset of {"payload", "none", "error"}
    Blocks      \* blocks the run looks at

VARIABLES
    block,      \* the block of this call
    answer,     \* [Relays -> Answers], what each relay will say
    waiting,    \* relays whose task has not completed
    stage,      \* "relays", "chain" or "done"
    result

valueVars == <<block, answer, waiting, stage, result>>

(***************************************************************************)
(* Fields of a block:                                                      *)
(*   builder      the fee recipient is one of BUILDER_FEE_RECIPIENTS       *)
(*   fees         priority fees of the block                               *)
(*   mev          what the builder or a searcher paid the proposer         *)
(*   promised     the value a relay's delivered payload names              *)
(*   spent        value and fees of the proposer's own transactions        *)
(*   distributed  what a known fee recipient contract paid out             *)
(*   withdrawn    beacon chain withdrawals to the proposer in the slot     *)
(*   stored       is the slot in table `withdrawal` yet?                   *)
(*   spam         1 wei sent by a known spammer                            *)
(*   bot          a transaction calls a known MEV bot contract             *)
(*   relayooor    the extra data, or the slot, is Relayooor's              *)
(*   forwarder    the recipient is one of                                  *)
(*                SMART_CONTRACT_FORWARDER_RECIPIENTS                      *)
(***************************************************************************)

\* What the proposer earned: the fees of a builder's block stay with the
\* builder.
Income(b) == b.mev + (IF b.builder THEN 0 ELSE b.fees)

\* eth_getBalance after the block minus before it, for the proposer's account.
RawChange(b) == Income(b) + b.withdrawn + b.spam - b.spent - b.distributed

\* Amounts in wei do not coincide: an account whose change is the fees, before
\* something that is still to be offset, does not occur.
ASSUME BlocksAssumption ==
    \A b \in Blocks :
        /\ {b.fees, b.mev, b.promised, b.spent, b.distributed, b.withdrawn, b.spam} \subseteq Nat
        /\ {b.builder, b.stored, b.bot, b.relayooor, b.forwarder} \subseteq BOOLEAN
        /\ RawChange(b) = b.fees => b.distributed = 0 /\ b.spent = 0
        /\ RawChange(b) + b.distributed = b.fees => b.spent = 0

\* _get_balance_change_adjusted. Distributions and transactions are offset
\* only while the change differs from the fees; withdrawals come from the
\* indexer's own table, which another process fills.
OffsetIfDifferent(change, b, amount) ==
    IF change # b.fees THEN change + amount ELSE change

AdjustedChange_WithWithdrawals(b) ==
    LET distributed == OffsetIfDifferent(RawChange(b), b, b.distributed)
    IN  OffsetIfDifferent(distributed, b, b.spent) - b.spam
AdjustedChange(b) ==
    LET distributed == OffsetIfDifferent(RawChange(b), b, b.distributed)
        spent == OffsetIfDifferent(distributed, b, b.spent)
    IN  spent - (IF b.stored THEN b.withdrawn ELSE 0) - b.spam

NoMev(b) == [kind |-> "ok", mev |-> FALSE, value |-> b.fees]
Mev(value) == [kind |-> "ok", mev |-> TRUE, value |-> value]
Failed == [kind |-> "failed"]

\* _mev_return_value: the recipient's change must be the expected value, with
\* or without the fees (Unknown: nothing to compare with). A forwarder's
\* change is not looked at: with nothing to compare, None >= 0 raises.
Unknown == -1
MevReturnValue(b, expected) ==
    LET change == IF b.forwarder THEN expected ELSE AdjustedChange(b) IN
    IF /\ change > 0
       /\ expected # Unknown => change \in {expected, expected + b.fees}
    THEN Mev(change)
    ELSE Failed

-----------------------------------------------------------------------------
ValueInit ==
    /\ block \in Blocks
    /\ answer \in [Relays -> Answers]
    \* a payload is delivered only for a block a builder paid for
    /\ (\E r \in Relays : answer[r] = "payload") => block.promised > 0
    /\ waiting = Relays /\ stage = "relays" /\ result = [kind |-> "none"]

Finish(value) == stage' = "done" /\ waiting' = {} /\ result' = value

\* asyncio.as_completed: any outstanding relay may be the next to answer.
\* get_payload wraps every error in a plain Exception (mev_relay.py, 35-41),
\* so the handler that would go on to the next relay is never entered.
RelayDelivered(r) ==
    /\ r \in waiting /\ answer[r] = "payload"
    /\ Finish(MevReturnValue(block, block.promised))
    /\ UNCHANGED <<block, answer>>

RelayEmpty_First(r) ==
    /\ r \in waiting /\ answer[r] = "none"
    /\ waiting' = waiting \ {r} /\ stage' = "chain"
    /\ UNCHANGED <<block, answer, result>>
RelayEmpty(r) ==
    /\ r \in waiting /\ answer[r] = "none"
    /\ waiting' = waiting \ {r}
    /\ stage' = IF waiting' = {} THEN "chain" ELSE stage
    /\ UNCHANGED <<block, answer, result>>

RelayFails(r) ==
    /\ r \in waiting /\ answer[r] = "error"
    /\ Finish(Failed)
    /\ UNCHANGED <<block, answer>>

\* No relay knows the block. Lines 264-338.
FromChain(b) ==
    IF b.relayooor THEN MevReturnValue(b, Unknown)
    ELSE IF b.builder THEN
        \* the last transaction must come from the builder; its value is the
        \* payment to the proposer
        IF b.mev > 0 THEN MevReturnValue(b, b.mev) ELSE Failed
    ELSE IF AdjustedChange(b) = b.fees THEN NoMev(b)
    ELSE IF b.bot /\ AdjustedChange(b) > b.fees
         THEN MevReturnValue(b, AdjustedChange(b))
    ELSE Failed

LookAtChain ==
    /\ stage = "chain"
    /\ Finish(FromChain(block))
    /\ UNCHANGED <<block, answer>>

ValueNext ==
    \/ \E r \in Relays : RelayDelivered(r) \/ RelayEmpty(r) \/ RelayFails(r)
    \/ LookAtChain

ValueSpec == ValueInit /\ [][ValueNext]_valueVars /\ WF_valueVars(ValueNext)

-----------------------------------------------------------------------------
\* What the rewards endpoint shows for the block
\* (mev_reward_value_wei if mev else priority_fees_wei) is what the proposer
\* earned: a value the helpers cannot explain is a failed row, never a wrong
\* amount, whichever account got the fees and whatever else moved its balance, if
\* the withdrawals of the slot were indexed before.
OkMeansIncome ==
    result.kind = "ok" /\ block.stored /\ ~block.forwarder => result.value = Income(block)

\* A block some relay delivered is never stored as a block without MEV,
\* whatever the other relays answer and in whatever order.
NeverCalledVanilla ==
    result.kind = "ok" /\ ~result.mev => \A r \in Relays : answer[r] # "payload"
=============================================================================
