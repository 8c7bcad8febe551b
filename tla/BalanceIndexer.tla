--------------------------- MODULE BalanceIndexer ---------------------------
(***************************************************************************)
(* The balance indexer (src/indexer/balances.py): an endless loop whose    *)
(* rounds compute the slots to fetch (activation slots and end-of-day      *)
(* slots), remove those remembered in ALREADY_INDEXED_SLOTS, and insert    *)
(* the validator balances of each into the table `balance` through one     *)
(* database session, committing as it goes.                                *)
(*                                                                         *)
(* A row of the table is a pair <<validator, slot>>; the amount is a       *)
(* function of the pair and is left out.                                   *)
(*                                                                         *)
(* An operator named <definition>_<bug> is not part of the model: it is    *)
(* the definition after it with a mistake a change of the code could make, *)
(* and some property of a run must notice the difference.                  *)
(***************************************************************************)
EXTENDS Integers

CONSTANTS
    Validators,
    ActSlot,        \* [Validators -> slot of activation]
    EodSlots,       \* slots at 23:59:59 UTC, and the genesis slot
    EpochLen,       \* SLOTS_PER_EPOCH
    Lead,           \* slots between the announcement of an activation and it
    LastSlot,       \* bound: the clock stops here
    CommitEvery,    \* commit_every
    Gaps,           \* states the beacon node may not have yet
    MaxFaults,      \* bound: exceptions and restarts in a behaviour
    LateFaults      \* may an exception hit a session with pending rows?

ActivationSlots == {ActSlot[v] : v \in Validators}
Wanted == ActivationSlots \cup EodSlots

\* Activations fall on epoch boundaries and the ends of days (slot 14 of an
\* epoch) do not: only genesis is both.
ASSUME ConstantsAssumption ==
    /\ EpochLen \in Nat \ {0} /\ Lead \in Nat /\ LastSlot \in Nat \ {0}
    /\ CommitEvery \in Nat \ {0} /\ MaxFaults \in Nat
    /\ LateFaults \in BOOLEAN
    /\ ActSlot \in [Validators -> Nat]
    /\ EodSlots \subseteq Nat
    /\ ActivationSlots \cap EodSlots \subseteq {0}
    /\ Gaps \subseteq Wanted

VARIABLES
    clock,       \* wall-clock slot, what head_slot() computes
    final,       \* what head_finalized() returns
    unsynced,    \* slots whose state the node answers 404 for
    db,          \* committed rows of table balance
    pend,        \* rows inserted in the open session
    indexed,     \* ALREADY_INDEXED_SLOTS, a global of the process
    pc,          \* "idle" (sleeping), "loop" or "commit"
    todo,        \* rest of slots_to_index
    eods,        \* eod_slots of this round
    known,       \* validators in this round's head state, not pending
    tx,          \* current_tx
    faults

env == <<clock, final, unsynced>>
round == <<pc, todo, eods, known, tx>>
vars == <<env, db, pend, indexed, round, faults>>

SlotsOf(rows) == {r[2] : r \in rows}
RowsAt(rows, s) == {r \in rows : r[2] = s}

\* Validators a head state at slot h shows with an activation epoch.
Known(h) == {v \in Validators : ActSlot[v] <= h + Lead}

\* BeaconNode.head_finalized: the last slot of finalized epoch e.
LastSlotOf(e) == e * EpochLen + EpochLen - 1

\* BeaconNode.is_slot_finalized
IsSlotFinalized_Clock(s) == s <= clock
IsSlotFinalized(s) == s <= final

FinalSlots == {s \in Wanted : IsSlotFinalized(s)}

Stored == SlotsOf(db)

-----------------------------------------------------------------------------
Init ==
    /\ clock \in 1 .. LastSlot
    /\ final \in {LastSlotOf(e) : e \in
                   {f \in 0 .. LastSlot : f = 0 \/ (f + 2) * EpochLen <= clock}}
    /\ unsynced \in SUBSET Gaps
    /\ db = {} /\ pend = {} /\ indexed = {}
    /\ pc = "idle" /\ todo = {} /\ eods = {} /\ known = {} /\ tx = 0
    /\ faults = 0

\* Time, finality and the node's own synchronisation.
Tick ==
    /\ clock < LastSlot
    /\ clock' = clock + 1
    /\ UNCHANGED <<final, unsynced, db, pend, indexed, round, faults>>

\* An epoch is finalized at the earliest when the second one after it begins.
Finalize ==
    /\ final + 2 * EpochLen < clock
    /\ final' = final + EpochLen
    /\ UNCHANGED <<clock, unsynced, db, pend, indexed, round, faults>>

NodeSync ==
    /\ \E s \in unsynced : unsynced' = unsynced \ {s}
    /\ UNCHANGED <<clock, final, db, pend, indexed, round, faults>>

-----------------------------------------------------------------------------
\* The process keeps its list between rounds and asks the database only when
\* it is empty.
LoadIndexed == IF indexed = {} THEN Stored ELSE indexed

EodSlotsBefore(h) == {s \in EodSlots : s < h}

\* One pass over lines 36-111. The node's head may lag behind the clock, but
\* not behind what it has finalized.
StartRound ==
    /\ pc = "idle"
    /\ \E h \in final - EpochLen + 1 .. clock :
         known' = Known(h)
    /\ indexed' = LoadIndexed
    /\ eods' = EodSlotsBefore(clock) \ indexed'
    /\ todo' = (EodSlotsBefore(clock) \cup {ActSlot[v] : v \in known'}) \ indexed'
    /\ tx' = 0 /\ pend' = {} /\ pc' = "loop"
    /\ UNCHANGED <<env, db, faults>>

\* What balances_for_slot is asked for: everyone at the end of a day, the
\* validators that start here otherwise.
Fetch_HeadOnly(s) ==
    {<<v, s>> : v \in {w \in known : s \in eods \/ ActSlot[w] = s}}
Fetch_NoEod(s) == {<<v, s>> : v \in {w \in known : ActSlot[w] = s}}
Fetch(s) ==
    IF s \in eods
    THEN {<<v, s>> : v \in Known(s)}
    ELSE {<<v, s>> : v \in {w \in known : ActSlot[w] = s}}

Available(s) == IsSlotFinalized(s) /\ s \notin unsynced

\* Both `continue`s: not finalized, or no data. The counter has moved already.
Skip_Remember(s) ==
    /\ ~ (Available(s) /\ Fetch(s) # {})
    /\ todo' = todo \ {s}
    /\ tx' = tx + 1
    /\ indexed' = indexed \cup {s}
    /\ UNCHANGED <<env, db, pend, pc, eods, known, faults>>
Skip(s) ==
    /\ ~ (Available(s) /\ Fetch(s) # {})
    /\ todo' = todo \ {s}
    /\ tx' = tx + 1
    /\ UNCHANGED <<env, db, pend, indexed, pc, eods, known, faults>>

\* INSERT ... ON CONFLICT DO NOTHING, then ALREADY_INDEXED_SLOTS.append: the
\* slot is remembered before its rows are committed.
Store(s) ==
    /\ Available(s) /\ Fetch(s) # {}
    /\ todo' = todo \ {s}
    /\ pend' = pend \cup (Fetch(s) \ db)
    /\ indexed' = indexed \cup {s}
    /\ tx' = tx + 1
    /\ pc' = IF tx + 1 = CommitEvery THEN "commit" ELSE "loop"
    /\ UNCHANGED <<env, db, eods, known, faults>>

\* for slot in sorted(...)
IndexSlot ==
    /\ pc = "loop"
    /\ \E s \in todo : (\A t \in todo : s <= t) /\ (Skip(s) \/ Store(s))

Commit ==
    /\ pc = "commit"
    /\ db' = db \cup pend /\ pend' = {}
    /\ tx' = 0 /\ pc' = "loop"
    /\ UNCHANGED <<env, indexed, todo, eods, known, faults>>

EndRound == pc' = "idle" /\ todo' = {} /\ eods' = {} /\ known' = {} /\ tx' = 0

\* The commit after the loop, and the sleep of the outer loop.
FinishRound ==
    /\ pc = "loop" /\ todo = {}
    /\ db' = db \cup pend /\ pend' = {}
    /\ EndRound
    /\ UNCHANGED <<env, indexed, faults>>

\* An exception from the node or the database: session_scope rolls back, the
\* outer loop logs and sleeps; the process and its globals live on.
Raise ==
    /\ pc # "idle" /\ faults < MaxFaults
    /\ LateFaults \/ pend = {}
    /\ pend' = {} /\ EndRound
    /\ faults' = faults + 1
    /\ UNCHANGED <<env, db, indexed>>

\* The container is killed and restarted: memory and open session are gone.
Restart ==
    /\ faults < MaxFaults
    /\ pend' = {} /\ indexed' = {} /\ EndRound
    /\ faults' = faults + 1
    /\ UNCHANGED <<env, db>>

Next ==
    \/ Tick \/ Finalize \/ NodeSync
    \/ StartRound \/ IndexSlot \/ Commit \/ FinishRound
    \/ Raise \/ Restart

Spec == Init /\ [][Next]_vars

\* `while True` re-runs the round, every await returns or raises, time
\* passes, the chain finalizes and the node catches up.
Fairness ==
    /\ WF_vars(Tick) /\ WF_vars(Finalize) /\ WF_vars(NodeSync)
    /\ WF_vars(StartRound) /\ WF_vars(IndexSlot)
    /\ WF_vars(Commit) /\ WF_vars(FinishRound)

FairSpec == Spec /\ Fairness

-----------------------------------------------------------------------------
\* Types of the variables, and what holds of each alone.
TypeOK ==
    /\ clock \in 1 .. LastSlot /\ final \in Nat /\ unsynced \subseteq Wanted
    /\ db \subseteq Validators \X Wanted /\ pend \subseteq Validators \X Wanted
    /\ indexed \subseteq Wanted /\ todo \subseteq Wanted
    /\ eods \subseteq EodSlots /\ known \subseteq Validators
    /\ pc \in {"idle", "loop", "commit"}
    /\ tx \in Nat /\ faults \in 0 .. MaxFaults

\* The rows the reward API needs of a slot: the balance of every validator at
\* the end of a day, of the newly active ones at an activation.
Needed(s) ==
    {<<v, s>> : v \in IF s \in EodSlots THEN Known(s)
                      ELSE {w \in Validators : ActSlot[w] = s}}

\* A slot that appears in the table appears with all its rows, whatever
\* exceptions, restarts and partly served rounds came before: nothing ever
\* goes back to a slot that is half there.
StoredSlotsComplete == \A s \in Stored : RowsAt(db, s) = Needed(s)

\* The table implements the archive the API relies on: it only grows, and
\* only by slots the node reported finalized before the rows were inserted.
Archive == INSTANCE SlotArchive
             WITH Slots <- Wanted, archive <- Stored,
                  horizon <- final
ImplementsArchive == Archive!Spec

\* "Remove slots that have already been indexed previously" (line 89): a slot
\* the process will never ask for again is in the table, or in the session
\* that is about to be committed.
IndexedIsStored == indexed \subseteq SlotsOf(db \cup pend)

\* Every wanted slot is in the table some time after it is finalized: rounds
\* that raise, nodes that lag and restarts only delay it.
EverySlotStored ==
    \A s \in Wanted : s \in FinalSlots ~> s \in Stored
=============================================================================
