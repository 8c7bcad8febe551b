------------------------------ MODULE DayLedger ------------------------------
(***************************************************************************)
(* What the rewards endpoints have in common: days and slots, the history  *)
(* of one validator on chain, and the tables the indexers write about it.  *)
(*                                                                         *)
(* `ledger` is what really happened, slot by slot, in ETH; the endpoints   *)
(* see only the tables, which other processes fill while they read.        *)
(***************************************************************************)
EXTENDS Days

CONSTANT Ledgers    \* on-chain histories the run looks at

VARIABLES
    ledger,     \* [earned, deposited, withdrawn, proposed : [Slots -> Int],
                \*  recipient (of the reward of the block in a slot), activation]
    balance,    \* slots with a row in table `balance`
    withdrawal, \* table `withdrawal` is filled up to this slot
    reward      \* table `block_reward`: slots stored, and those stored as failed

tables == <<ledger, balance, withdrawal, reward>>

\* Activation slot of a pending validator (None).
NoSlot == -1

Active(l) == l.activation # NoSlot

\* Penalties make a slot's income negative. A deposit may come before the
\* activation, in several parts, or top up an active validator; what is there at
\* genesis is deposited in slot 0.
ASSUME LedgersAssumption ==
    \A l \in Ledgers :
        /\ l.activation \in Slots \cup {NoSlot}
        /\ l.earned \in [Slots -> Int]
        /\ l.deposited \in [Slots -> Nat] /\ l.withdrawn \in [Slots -> Nat]
        /\ l.proposed \in [Slots -> Nat]

UpTo(high) == {s \in Slots : s <= high}
Between(low, high) == {s \in Slots : low < s /\ s <= high}

\* Balance.balance: what the beacon chain has for the validator after a slot.
BalanceAt(slot) ==
    SumOver(ledger.deposited, UpTo(slot)) + SumOver(ledger.earned, UpTo(slot))
        - SumOver(ledger.withdrawn, UpTo(slot))

-----------------------------------------------------------------------------
\* Rows the balance indexer stores, and the state of tables that miss nothing.
BalanceSlots ==
    {StartSlot(d) : d \in 0 .. Today}
        \cup (IF Active(ledger) THEN {ledger.activation} ELSE {})
Proposals == {s \in Slots : ledger.proposed[s] > 0}
Settled ==
    /\ balance = BalanceSlots /\ withdrawal = StartSlot(Today)
    /\ reward.stored = Proposals /\ reward.failed = {}

TablesInit ==
    /\ ledger \in Ledgers
    /\ \/ balance = {} /\ withdrawal = 0 /\ reward = [stored |-> {}, failed |-> {}]
       \/ /\ balance = BalanceSlots /\ withdrawal = StartSlot(Today)
          /\ reward = [stored |-> Proposals, failed |-> {}]

IndexBalance(slot) ==
    /\ slot \in BalanceSlots \ balance
    /\ balance' = balance \cup {slot}
    /\ UNCHANGED <<ledger, withdrawal, reward>>

IndexWithdrawals ==
    /\ withdrawal < StartSlot(Today)
    /\ withdrawal' = withdrawal + 1
    /\ UNCHANGED <<ledger, balance, reward>>

IndexReward(slot, failed) ==
    /\ slot \in Proposals \ reward.stored
    /\ reward' = [stored |-> reward.stored \cup {slot},
                  failed |-> reward.failed \cup (IF failed THEN {slot} ELSE {})]
    /\ UNCHANGED <<ledger, balance, withdrawal>>

Index ==
    \/ \E s \in BalanceSlots : IndexBalance(s)
    \/ IndexWithdrawals
    \/ \E s \in Proposals, failed \in BOOLEAN : IndexReward(s, failed)

TablesOK ==
    /\ ledger \in Ledgers /\ balance \subseteq BalanceSlots /\ withdrawal \in Slots
    /\ reward.failed \subseteq reward.stored /\ reward.stored \subseteq Proposals
=============================================================================
