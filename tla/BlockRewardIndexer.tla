------------------------- MODULE BlockRewardIndexer -------------------------
(***************************************************************************)
(* The block reward indexer (src/indexer/block_rewards/main.py): a round   *)
(* starts one asyncio task per slot that is not in ALREADY_INDEXED_SLOTS,  *)
(* at most Permits of them inside the semaphore, and gathers them. The     *)
(* first task that raises ends the round: asyncio.run cancels the others,  *)
(* some time later.                                                        *)
(*                                                                         *)
(* Tasks interleave at their awaits only, so what a task does between two  *)
(* awaits is one action. Whether the value of a block can be worked out is *)
(* the business of RewardValue; here it may or may not.                    *)
(***************************************************************************)
EXTENDS Integers, FiniteSets

CONSTANTS
    Slots,          \* slots from START_SLOT on
    Missed,         \* those without a block
    Late,           \* those the node may not have the block of yet: it answers
                    \* 404 for them, too, while it fills in older blocks
    Permits,        \* the semaphore's 10
    EpochLen,       \* SLOTS_PER_EPOCH
    LastSlot,       \* bound: finality stops before it
    MaxFaults,      \* bound: exceptions, failed commits and restarts
    CommitFaults    \* may a commit fail?

ASSUME ConstantsAssumption ==
    /\ Slots \subseteq Nat /\ Missed \subseteq Slots /\ Late \subseteq Slots
    /\ Permits \in Nat \ {0} /\ EpochLen \in Nat \ {0} /\ LastSlot \in Nat
    /\ MaxFaults \in Nat /\ CommitFaults \in BOOLEAN

VARIABLES
    final,      \* what head_finalized() returns
    served,     \* slots the node knows all about
    rows,       \* table block_reward: [Slots -> Outcome or "none"]
    indexed,    \* ALREADY_INDEXED_SLOTS
    pc,         \* "idle", "round", or "raised": a task's exception is on its
                \* way to asyncio.run
    task,       \* [Slots -> where the slot's task waits]
    faults

vars == <<final, served, rows, indexed, pc, task, faults>>

Outcome == {"missed", "ok", "failed"}

\* Waiting for the semaphore, then for head_finalized, for the block's header,
\* for get_block_reward_value and for get_block.
Waiting == {"queued", "finality", "header", "value", "block"}

Stored == {s \in Slots : rows[s] # "none"}
Inside == {s \in Slots : task[s] \in Waiting \ {"queued"}}
NoTask == [s \in Slots |-> "off"]

-----------------------------------------------------------------------------
Init ==
    /\ final \in {n \in 0 .. LastSlot : (n + 1) % EpochLen = 0}
    /\ served = Slots \ Late
    /\ rows = [s \in Slots |-> "none"]
    /\ indexed = {} /\ pc = "idle" /\ task = NoTask /\ faults = 0

Finalize ==
    /\ final + EpochLen <= LastSlot
    /\ final' = final + EpochLen
    /\ UNCHANGED <<served, rows, indexed, pc, task, faults>>

Backfill(s) ==
    /\ s \notin served
    /\ served' = served \cup {s}
    /\ UNCHANGED <<final, rows, indexed, pc, task, faults>>

-----------------------------------------------------------------------------
LoadIndexed_Cold == indexed
LoadIndexed == IF indexed = {} THEN Stored ELSE indexed

\* range(START_SLOT, head_finalized) leaves out the head itself.
SlotsNeeded == {s \in Slots : s < final}

StartRound ==
    /\ pc = "idle"
    /\ indexed' = LoadIndexed
    /\ task' = [s \in Slots |->
                  IF s \in SlotsNeeded \ indexed' THEN "queued" ELSE "off"]
    /\ pc' = "round"
    /\ UNCHANGED <<final, served, rows, faults>>

Awaits(s, where) == pc # "idle" /\ task[s] = where

\* asyncio.Semaphore serves its waiters in the order the tasks were created.
Acquire(s) ==
    /\ Awaits(s, "queued")
    /\ \A t \in Slots : task[t] = "queued" => s <= t
    /\ Cardinality(Inside) < Permits
    /\ task' = [task EXCEPT ![s] = "finality"]
    /\ UNCHANGED <<final, served, rows, indexed, pc, faults>>

\* is_slot_finalized reads the head again; a slot that is not final is left
\* for another round.
CheckFinality(s) ==
    /\ Awaits(s, "finality")
    /\ task' = [task EXCEPT ![s] = IF s <= final THEN "header" ELSE "off"]
    /\ UNCHANGED <<final, served, rows, indexed, pc, faults>>

\* merge + commit, and the slot remembered: before the commit (lines 67 and
\* 110), or after it (line 90).
Store(s, outcome) ==
    /\ rows' = [rows EXCEPT ![s] = outcome]
    /\ indexed' = indexed \cup {s}
    /\ task' = [task EXCEPT ![s] = "off"]
    /\ UNCHANGED <<final, served, pc, faults>>

\* "Missed proposals return like this": a 404, for whatever reason.
NotFound(s) == s \in Missed \/ s \notin served

StoreMissed_NoRow(s) ==
    /\ Awaits(s, "header") /\ NotFound(s)
    /\ task' = [task EXCEPT ![s] = "off"]
    /\ UNCHANGED <<final, served, rows, indexed, pc, faults>>
StoreMissed(s) == Awaits(s, "header") /\ NotFound(s) /\ Store(s, "missed")

GetHeader(s) ==
    /\ Awaits(s, "header") /\ ~NotFound(s)
    /\ task' = [task EXCEPT ![s] = "value"]
    /\ UNCHANGED <<final, served, rows, indexed, pc, faults>>

\* get_block_reward_value raises: the slot is stored as failed, for good.
StoreFailure(s) == Awaits(s, "value") /\ Store(s, "failed")

GetValue(s) ==
    /\ Awaits(s, "value")
    /\ task' = [task EXCEPT ![s] = "block"]
    /\ UNCHANGED <<final, served, rows, indexed, pc, faults>>

StoreReward(s) == Awaits(s, "block") /\ Store(s, "ok")

\* A commit fails: the exception leaves process_slot. Only the branch of a
\* failed value has not remembered the slot yet.
CommitFails(s) ==
    /\ CommitFaults /\ faults < MaxFaults
    /\ \/ Awaits(s, "header") /\ NotFound(s)
       \/ Awaits(s, "value")
       \/ Awaits(s, "block")
    /\ indexed' = IF task[s] = "value" THEN indexed ELSE indexed \cup {s}
    /\ task' = [task EXCEPT ![s] = "off"]
    /\ pc' = "raised" /\ faults' = faults + 1
    /\ UNCHANGED <<final, served, rows>>

\* A node request outside get_block_reward_value raises.
Raise(s) ==
    /\ faults < MaxFaults
    /\ \E w \in {"finality", "header", "block"} : Awaits(s, w)
    /\ task' = [task EXCEPT ![s] = "off"]
    /\ pc' = "raised" /\ faults' = faults + 1
    /\ UNCHANGED <<final, served, rows, indexed>>

\* gather raises in index_block_rewards and asyncio.run cancels what is left:
\* CancelledError at an await rolls the task's session back.
Cancel ==
    /\ pc = "raised"
    /\ task' = NoTask /\ pc' = "idle"
    /\ UNCHANGED <<final, served, rows, indexed, faults>>

FinishRound ==
    /\ pc = "round" /\ task = NoTask
    /\ pc' = "idle"
    /\ UNCHANGED <<final, served, rows, indexed, task, faults>>

Restart ==
    /\ faults < MaxFaults /\ (pc # "idle" \/ indexed # {})
    /\ indexed' = {} /\ task' = NoTask /\ pc' = "idle"
    /\ faults' = faults + 1
    /\ UNCHANGED <<final, served, rows>>

Work(s) ==
    \/ Acquire(s) \/ CheckFinality(s) \/ StoreMissed(s) \/ GetHeader(s)
    \/ StoreFailure(s) \/ GetValue(s) \/ StoreReward(s)

Next ==
    \/ Finalize \/ StartRound \/ Cancel \/ FinishRound \/ Restart
    \/ \E s \in Slots : Work(s) \/ CommitFails(s) \/ Raise(s) \/ Backfill(s)

Spec == Init /\ [][Next]_vars

\* Every request returns or raises and the event loop serves every task; the
\* outer loop starts round after round while the chain finalizes.
FairSpec ==
    /\ Spec
    /\ WF_vars(Finalize) /\ WF_vars(StartRound)
    /\ WF_vars(Cancel) /\ WF_vars(FinishRound)
    /\ \A s \in Slots : WF_vars(Work(s))

-----------------------------------------------------------------------------
\* Types of the variables; a task exists only inside a round.
TypeOK ==
    /\ final \in Nat /\ served \subseteq Slots
    /\ rows \in [Slots -> Outcome \cup {"none"}]
    /\ indexed \subseteq Slots
    /\ pc \in {"idle", "round", "raised"}
    /\ task \in [Slots -> Waiting \cup {"off"}]
    /\ faults \in 0 .. MaxFaults
    /\ pc = "idle" => task = NoTask

\* Across aborted rounds, cancelled tasks and restarts no slot is worked on
\* again once its row is committed, so a row never changes under the API.
RowsKept == \A s \in Slots : rows[s] # "none" => rows'[s] = rows[s]
RowsSettled == [][RowsKept]_vars

\* The table grows by finalized slots only.
Archive == INSTANCE SlotArchive WITH archive <- Stored, horizon <- final
ImplementsArchive == Archive!Spec

\* What the process leaves out of every later round is in the table. It holds
\* only if no commit fails: lines 67 and 110 remember a slot before its commit.
IndexedIsStored == indexed \subseteq Stored

\* Every slot below the finalized head gets a row, or is remembered in vain
\* because its commit failed: an exception of another task's slot, the
\* semaphore and the order of the queue only delay it.
EventuallySettled ==
    \A s \in Slots : s \in SlotsNeeded ~> (s \in Stored \/ s \in indexed)
=============================================================================
