---------------------- MODULE BlockRewardIndexerProofs ----------------------
(***************************************************************************)
(* Proofs about BlockRewardIndexer, for every set of slots, any number of  *)
(* permits and any pattern of exceptions, failed commits and restarts.     *)
(*                                                                         *)
(* A row is written once because every stored slot is in the memory of a   *)
(* running round, and a slot with a task is in neither.                    *)
(*                                                                         *)
(* The second part is about the value of one such row, RewardValue, for    *)
(* any number of relays and any set of blocks: with the withdrawals of the *)
(* slot indexed, what is left of the balance change after the adjustments  *)
(* is the income, and every value returned has been compared with it.      *)
(***************************************************************************)
EXTENDS BlockRewardIndexer, RewardValue, TLAPS

\* A process that remembers anything remembers every stored slot.
MemoryCovers ==
    /\ indexed # {} => Stored \subseteq indexed
    /\ pc # "idle" => Stored \subseteq indexed

\* Tasks work on finalized slots without a row.
TasksAreFresh ==
    \A s \in Slots : task[s] # "off" => s <= final /\ rows[s] = "none"

\* Rows are of finalized slots.
StoredIsFinal == \A s \in Stored : s <= final

IInv == TypeOK /\ MemoryCovers /\ TasksAreFresh /\ StoredIsFinal

LEMMA InitIInv == ASSUME ConstantsAssumption, Init PROVE IInv
<1>1. TypeOK
  BY DEF Init, TypeOK, NoTask, ConstantsAssumption
<1>2. Stored = {}
  BY DEF Init, Stored
<1>3. QED
  BY <1>1, <1>2 DEF Init, IInv, MemoryCovers, TasksAreFresh, StoredIsFinal, NoTask

LEMMA StoreStep ==
    ASSUME ConstantsAssumption, IInv, NEW s \in Slots, pc # "idle",
           task[s] \in Waiting, NEW o \in Outcome, Store(s, o)
    PROVE  IInv'
<1>1. /\ rows' = [rows EXCEPT ![s] = o] /\ indexed' = indexed \cup {s}
      /\ task' = [task EXCEPT ![s] = "off"]
      /\ final' = final /\ served' = served /\ pc' = pc /\ faults' = faults
  BY DEF Store
<1>2. TypeOK'
  BY <1>1 DEF IInv, TypeOK, Outcome
<1>3. Stored' = Stored \cup {s} /\ s <= final
  BY <1>1 DEF Stored, IInv, TypeOK, TasksAreFresh, Outcome, Waiting
<1>4. MemoryCovers' /\ StoredIsFinal'
  BY <1>1, <1>3 DEF IInv, MemoryCovers, StoredIsFinal
<1>5. TasksAreFresh'
  BY <1>1 DEF IInv, TypeOK, TasksAreFresh
<1>6. QED
  BY <1>2, <1>4, <1>5 DEF IInv

\* A step of one task that writes no row.
LEMMA MoveStep ==
    ASSUME ConstantsAssumption, IInv, NEW s \in Slots, pc # "idle",
           NEW w \in Waiting \cup {"off"}, task[s] # "off",
           task' = [task EXCEPT ![s] = w],
           indexed \subseteq indexed', indexed' \subseteq Slots,
           faults' \in 0 .. MaxFaults, pc' \in {"round", "raised"},
           UNCHANGED <<final, served, rows>>
    PROVE  IInv'
<1>1. TypeOK'
  BY DEF IInv, TypeOK
<1>2. Stored' = Stored
  BY DEF Stored
<1>3. MemoryCovers' /\ StoredIsFinal'
  BY <1>2 DEF IInv, MemoryCovers, StoredIsFinal
<1>4. TasksAreFresh'
  BY DEF IInv, TypeOK, TasksAreFresh
<1>5. QED
  BY <1>1, <1>3, <1>4 DEF IInv

\* The end of a round, orderly or not.
LEMMA EndStep ==
    ASSUME IInv, task' = NoTask, pc' = "idle", faults' \in 0 .. MaxFaults,
           indexed' = {} \/ (indexed' = indexed /\ pc # "idle"),
           UNCHANGED <<final, served, rows>>
    PROVE  IInv'
<1>1. TypeOK'
  BY DEF IInv, TypeOK, NoTask
<1>2. Stored' = Stored
  BY DEF Stored
<1>3. QED
  BY <1>1, <1>2 DEF IInv, MemoryCovers, TasksAreFresh, StoredIsFinal, NoTask

LEMMA IInvStep ==
    ASSUME ConstantsAssumption, IInv, [Next]_vars PROVE IInv'
<1>0. /\ TypeOK /\ Slots \subseteq Nat /\ final \in Nat /\ EpochLen \in Nat
      /\ faults \in 0 .. MaxFaults /\ MaxFaults \in Nat
      /\ pc \in {"idle", "round", "raised"}
  BY DEF IInv, TypeOK, ConstantsAssumption
<1>1. CASE Finalize \/ (\E s \in Slots : Backfill(s)) \/ UNCHANGED vars
  <2>1. /\ UNCHANGED <<rows, indexed, pc, task, faults>>
        /\ final' \in Nat /\ final <= final' /\ served' \subseteq Slots
    <3>1. CASE Finalize
      BY <1>0, <3>1 DEF Finalize, TypeOK
    <3>2. CASE \E s \in Slots : Backfill(s)
      BY <1>0, <3>2 DEF Backfill, TypeOK
    <3>3. CASE UNCHANGED vars
      BY <1>0, <3>3 DEF TypeOK, vars
    <3>4. QED
      BY <1>1, <3>1, <3>2, <3>3
  <2>2. TypeOK'
    BY <1>0, <2>1 DEF TypeOK
  <2>3. Stored' = Stored /\ Stored \subseteq Slots
    BY <2>1 DEF Stored
  <2>4. QED
    BY <1>0, <2>1, <2>2, <2>3 DEF IInv, MemoryCovers, TasksAreFresh, StoredIsFinal
<1>2. CASE StartRound
  <2>1. /\ pc' = "round" /\ rows' = rows /\ final' = final /\ faults' = faults
        /\ served' = served
        /\ indexed' = LoadIndexed
        /\ task' = [s \in Slots |->
                      IF s \in SlotsNeeded \ indexed' THEN "queued" ELSE "off"]
    BY <1>2 DEF StartRound
  <2>2. Stored' = Stored /\ Stored \subseteq Slots
    BY <2>1 DEF Stored
  <2>3. Stored \subseteq indexed' /\ indexed' \subseteq Slots
    BY <2>1, <2>2 DEF LoadIndexed, IInv, TypeOK, MemoryCovers
  <2>4. TypeOK'
    BY <1>0, <2>1, <2>3 DEF TypeOK, Waiting
  <2>5. MemoryCovers' /\ StoredIsFinal'
    BY <2>1, <2>2, <2>3 DEF IInv, MemoryCovers, StoredIsFinal
  <2>6. \A s \in Slots : task'[s] # "off" => s < final /\ s \notin Stored
    BY <2>1, <2>3 DEF SlotsNeeded
  <2>7. TasksAreFresh'
    BY <1>0, <2>1, <2>6 DEF TasksAreFresh, Stored
  <2>8. QED
    BY <2>4, <2>5, <2>7 DEF IInv
<1>3. CASE Cancel \/ FinishRound \/ Restart
  BY <1>0, <1>3, EndStep DEF Cancel, FinishRound, Restart
<1>4. ASSUME NEW s \in Slots, Work(s) PROVE IInv'
  <2>0. pc # "idle" /\ pc \in {"round", "raised"}
    BY <1>0, <1>4 DEF Work, Acquire, CheckFinality, StoreMissed, GetHeader,
                      StoreFailure, GetValue, StoreReward, Awaits
  <2>1. CASE StoreMissed(s) \/ StoreFailure(s) \/ StoreReward(s)
    BY <2>0, <2>1, StoreStep DEF StoreMissed, StoreFailure, StoreReward, Awaits,
                                 Waiting, Outcome
  <2>2. CASE Acquire(s) \/ CheckFinality(s) \/ GetHeader(s) \/ GetValue(s)
    <3>1. PICK w \in Waiting \cup {"off"} : task' = [task EXCEPT ![s] = w]
      BY <2>2 DEF Acquire, CheckFinality, GetHeader, GetValue, Waiting
    <3>2. /\ task[s] # "off" /\ UNCHANGED <<final, served, rows, indexed, pc, faults>>
      BY <2>2 DEF Acquire, CheckFinality, GetHeader, GetValue, Awaits
    <3>3. QED
      BY <1>0, <2>0, <3>1, <3>2, MoveStep DEF TypeOK
  <2>3. QED
    BY <1>4, <2>1, <2>2 DEF Work
<1>5. ASSUME NEW s \in Slots, CommitFails(s) \/ Raise(s) PROVE IInv'
  <2>1. /\ pc # "idle" /\ task[s] # "off" /\ task' = [task EXCEPT ![s] = "off"]
        /\ pc' = "raised" /\ UNCHANGED <<final, served, rows>>
        /\ indexed' = indexed \/ indexed' = indexed \cup {s}
    BY <1>5 DEF CommitFails, Raise, Awaits
  <2>2. faults' \in 0 .. MaxFaults
    BY <1>0, <1>5 DEF CommitFails, Raise
  <2>3. QED
    BY <1>0, <2>1, <2>2, MoveStep DEF TypeOK
<1>6. QED
  BY <1>1, <1>2, <1>3, <1>4, <1>5 DEF Next

LEMMA IInvHolds == ConstantsAssumption /\ Spec => []IInv
<1>1. ConstantsAssumption /\ Init => IInv
  BY InitIInv
<1>2. ConstantsAssumption /\ IInv /\ [Next]_vars => IInv'
  BY IInvStep
<1>3. QED
  BY <1>1, <1>2, ConstantsAssumption, PTL DEF Spec

-----------------------------------------------------------------------------
\* Every variable keeps its type, and no task survives its round.
THEOREM TypeCorrect == Spec => []TypeOK
<1>1. IInv => TypeOK
  BY DEF IInv
<1>2. QED
  BY <1>1, IInvHolds, ConstantsAssumption, PTL

\* Only a task writes a row, and only where there is none.
LEMMA WritesAreFresh ==
    ASSUME IInv, [Next]_vars, NEW s \in Slots, rows[s] # "none"
    PROVE  rows'[s] = rows[s]
<1>1. \A t \in Slots, o \in Outcome :
         task[t] \in Waiting /\ Store(t, o) => rows'[s] = rows[s]
  BY DEF IInv, TypeOK, TasksAreFresh, Store, Waiting
<1>2. CASE \E t \in Slots : StoreMissed(t) \/ StoreFailure(t) \/ StoreReward(t)
  BY <1>1, <1>2 DEF StoreMissed, StoreFailure, StoreReward, Awaits, Waiting, Outcome
<1>3. CASE ~ \E t \in Slots : StoreMissed(t) \/ StoreFailure(t) \/ StoreReward(t)
  BY <1>3 DEF Next, Work, Finalize, StartRound, Cancel, FinishRound, Restart,
              Acquire, CheckFinality, GetHeader, GetValue, CommitFails, Raise, Backfill, vars
<1>4. QED
  BY <1>2, <1>3

\* A committed row never changes.
THEOREM RowsNeverChange == Spec => RowsSettled
<1>1. IInv /\ [Next]_vars => [RowsKept]_vars
  BY WritesAreFresh DEF RowsKept
<1>2. QED
  BY <1>1, IInvHolds, ConstantsAssumption, PTL DEF Spec, RowsSettled

\* The table is an archive of finalized slots.
THEOREM RewardsImplementArchive == Spec => ImplementsArchive
<1>1. ConstantsAssumption /\ Init => Archive!Init
  BY InitIInv DEF Init, IInv, TypeOK, Archive!Init, Stored
<1>2. ConstantsAssumption /\ IInv /\ IInv' /\ [Next]_vars
        => [Archive!Next]_(Archive!avars)
  <2> SUFFICES ASSUME ConstantsAssumption, IInv, IInv', [Next]_vars
               PROVE  [Archive!Next]_(Archive!avars)
    OBVIOUS
  <2>1. CASE Finalize
    <3>1. final' \in Nat /\ final' > final
      BY <2>1 DEF Finalize, IInv, TypeOK, ConstantsAssumption
    <3>2. Stored' = Stored
      BY <2>1 DEF Finalize, Stored
    <3>3. QED
      BY <3>1, <3>2 DEF Archive!Next, Archive!Advance
  <2>2. CASE ~ Finalize
    <3>1. final' = final
      BY <2>2 DEF Next, Work, StartRound, Cancel, FinishRound, Restart, Acquire,
                  CheckFinality, GetHeader, GetValue, StoreMissed, StoreFailure,
                  StoreReward, Store, CommitFails, Raise, Backfill, vars
    <3>2. Stored \subseteq Stored'
      BY WritesAreFresh DEF Stored
    <3>3. Stored' \subseteq {s \in Slots : s <= final}
      BY <3>1 DEF IInv, StoredIsFinal, Stored
    <3>4. QED
      BY <3>1, <3>2, <3>3 DEF Archive!Next, Archive!Record, Archive!Final
  <2>3. QED
    BY <2>1, <2>2
<1>3. QED
  BY <1>1, <1>2, IInvHolds, ConstantsAssumption, PTL
     DEF Spec, ImplementsArchive, Archive!Spec

\* As long as no commit fails, what the process leaves out of later rounds is
\* in the table, whatever else raises or restarts: with EventuallySettled of
\* the run, every slot below the finalized head is stored.
THEOREM IndexedIsRight == ~CommitFaults /\ Spec => []IndexedIsStored
<1> SUFFICES ASSUME ~CommitFaults PROVE Spec => []IndexedIsStored
  OBVIOUS
<1>1. Init => IndexedIsStored
  BY DEF Init, IndexedIsStored
<1>2. IInv /\ IndexedIsStored /\ [Next]_vars => IndexedIsStored'
  <2> SUFFICES ASSUME IInv, IndexedIsStored, [Next]_vars
               PROVE  IndexedIsStored'
    OBVIOUS
  <2>1. Stored \subseteq Stored'
    BY WritesAreFresh DEF Stored
  <2>2. ASSUME NEW s \in Slots,
               StoreMissed(s) \/ StoreFailure(s) \/ StoreReward(s)
        PROVE  IndexedIsStored'
    <3>1. PICK o \in Outcome : Store(s, o)
      BY <2>2 DEF StoreMissed, StoreFailure, StoreReward, Outcome
    <3>2. s \in Stored'
      BY <3>1 DEF Store, Stored, IInv, TypeOK, Outcome
    <3>3. QED
      BY <2>1, <3>1, <3>2 DEF Store, IndexedIsStored
  <2>3. CASE StartRound
    BY <2>1, <2>3 DEF StartRound, LoadIndexed, IndexedIsStored
  <2>4. CASE Restart
    BY <2>4 DEF Restart, IndexedIsStored
  <2>5. ASSUME indexed' = indexed PROVE IndexedIsStored'
    BY <2>1, <2>5 DEF IndexedIsStored
  <2>6. QED
    BY <2>2, <2>3, <2>4, <2>5
       DEF Next, Work, Finalize, Cancel, FinishRound, Acquire, CheckFinality,
           GetHeader, GetValue, CommitFails, Raise, Backfill, vars
<1>3. QED
  BY <1>1, <1>2, IInvHolds, ConstantsAssumption, PTL DEF Spec

-----------------------------------------------------------------------------
(***************************************************************************)
(* How a task works out the value of its block: one run of RewardValue.    *)
(***************************************************************************)
\* A block of the chain, with what BlocksAssumption says of it.
LEMMA ABlock ==
    ASSUME BlocksAssumption, NEW b \in Blocks
    PROVE  /\ b.fees \in Nat /\ b.mev \in Nat /\ b.promised \in Nat /\ b.spent \in Nat
           /\ b.distributed \in Nat /\ b.withdrawn \in Nat /\ b.spam \in Nat
           /\ b.builder \in BOOLEAN /\ b.stored \in BOOLEAN
           /\ RawChange(b) = b.fees => b.distributed = 0 /\ b.spent = 0
           /\ RawChange(b) + b.distributed = b.fees => b.spent = 0
  BY DEF BlocksAssumption

\* Offsetting an amount only while the change differs from the fees offsets it
\* whenever there is one: what remains is the income.
LEMMA AdjustedIsIncome ==
    ASSUME BlocksAssumption, NEW b \in Blocks, b.stored
    PROVE  /\ AdjustedChange(b) = Income(b) /\ Income(b) \in Nat
           /\ ~b.builder => Income(b) = b.mev + b.fees
<1>1. Income(b) \in Nat /\ (~b.builder => Income(b) = b.mev + b.fees)
  BY ABlock DEF Income
<1>2. RawChange(b) = Income(b) + b.withdrawn + b.spam - b.spent - b.distributed
  BY DEF RawChange
<1> DEFINE distributed == OffsetIfDifferent(RawChange(b), b, b.distributed)
           spent == OffsetIfDifferent(distributed, b, b.spent)
<1>3. distributed = RawChange(b) + b.distributed
  BY <1>1, <1>2, ABlock DEF OffsetIfDifferent
<1>4. spent = RawChange(b) + b.distributed + b.spent
  BY <1>1, <1>2, <1>3, ABlock DEF OffsetIfDifferent
<1>5. AdjustedChange(b) = spent - b.withdrawn - b.spam
  BY DEF AdjustedChange
<1> HIDE DEF spent, distributed
<1>6. QED
  BY <1>1, <1>2, <1>4, <1>5, ABlock

\* A value that has been explained: the income of the block, unless a
\* forwarder's balance, that nobody looked at, or withdrawals that are not
\* indexed yet stand between the two.
Explained(b, value) ==
    value.kind = "ok" /\ b.stored /\ ~b.forwarder => value.value = Income(b)

LEMMA ComparedIsExplained ==
    ASSUME BlocksAssumption, NEW b \in Blocks, NEW expected
    PROVE  Explained(b, MevReturnValue(b, expected))
<1> SUFFICES ASSUME MevReturnValue(b, expected).kind = "ok", b.stored, ~b.forwarder
             PROVE  MevReturnValue(b, expected).value = Income(b)
  BY DEF Explained
<1>1. MevReturnValue(b, expected) \in {Mev(AdjustedChange(b)), Failed}
  BY DEF MevReturnValue
<1>2. Failed.kind # "ok"
  BY DEF Failed
<1>3. MevReturnValue(b, expected) = Mev(AdjustedChange(b))
  BY <1>1, <1>2
<1>4. Mev(AdjustedChange(b)).value = AdjustedChange(b)
  BY DEF Mev
<1>5. QED
  BY <1>3, <1>4, AdjustedIsIncome

LEMMA ChainIsExplained ==
    ASSUME BlocksAssumption, NEW b \in Blocks
    PROVE  Explained(b, FromChain(b))
<1>1. Explained(b, Failed)
  BY DEF Explained, Failed
<1>2. ASSUME AdjustedChange(b) = b.fees PROVE Explained(b, NoMev(b))
  BY <1>2, AdjustedIsIncome DEF Explained, NoMev
<1>3. \/ FromChain(b) \in
            {Failed, MevReturnValue(b, Unknown),
             MevReturnValue(b, b.mev), MevReturnValue(b, AdjustedChange(b))}
      \/ FromChain(b) = NoMev(b) /\ AdjustedChange(b) = b.fees
  BY DEF FromChain
<1>4. QED
  BY <1>1, <1>2, <1>3, ComparedIsExplained

\* The result is explained as soon as there is one.
ValueInv == block \in Blocks /\ Explained(block, result)

\* Whatever happened to the accounts in the block and whatever the relays say,
\* a value that is returned is what the proposer earned, if the withdrawals of
\* the slot were indexed before.
THEOREM ValueIsIncome ==
    ASSUME BlocksAssumption
    PROVE  ValueSpec => []OkMeansIncome
<1>1. ValueInit => ValueInv
  BY DEF ValueInit, ValueInv, Explained
<1>2. ValueInv /\ [ValueNext]_valueVars => ValueInv'
  <2> SUFFICES ASSUME ValueInv, [ValueNext]_valueVars PROVE ValueInv'
    OBVIOUS
  <2>1. ASSUME NEW r \in Relays, RelayDelivered(r) PROVE ValueInv'
    BY <2>1, ComparedIsExplained DEF RelayDelivered, Finish, ValueInv, Explained
  <2>2. ASSUME NEW r \in Relays, RelayEmpty(r) PROVE ValueInv'
    BY <2>2 DEF RelayEmpty, ValueInv, Explained
  <2>3. ASSUME NEW r \in Relays, RelayFails(r) PROVE ValueInv'
    BY <2>3 DEF RelayFails, Finish, Failed, ValueInv, Explained
  <2>4. CASE LookAtChain
    BY <2>4, ChainIsExplained DEF LookAtChain, Finish, ValueInv, Explained
  <2>5. CASE UNCHANGED valueVars
    BY <2>5 DEF valueVars, ValueInv, Explained
  <2>6. QED
    BY <2>1, <2>2, <2>3, <2>4, <2>5 DEF ValueNext
<1>3. ValueInv => OkMeansIncome
  BY DEF ValueInv, Explained, OkMeansIncome
<1>4. QED
  BY <1>1, <1>2, <1>3, PTL DEF ValueSpec

\* A relay that is not waited for any more has said that it knows no payload,
\* while the race is on; the chain is looked at when no relay is left.
RaceInv ==
    /\ stage \in {"relays", "chain"} =>
          result.kind = "none" /\ \A r \in Relays \ waiting : answer[r] = "none"
    /\ waiting # {} => stage = "relays"
    /\ NeverCalledVanilla

\* Nothing but the look at the chain calls a block one without MEV.
LEMMA OnlyChainSaysVanilla ==
    ASSUME NEW b, NEW expected
    PROVE  LET value == MevReturnValue(b, expected) IN value.kind = "ok" => value.mev
<1> DEFINE value == MevReturnValue(b, expected)
<1>1. value = Failed \/ \E v : value = Mev(v)
  BY DEF MevReturnValue
<1>2. Failed.kind # "ok"
  BY DEF Failed
<1>3. \A v : Mev(v).mev
  BY DEF Mev
<1> HIDE DEF value
<1>4. value.kind = "ok" => value.mev
  BY <1>1, <1>2, <1>3
<1>5. QED
  BY <1>4 DEF value

\* A block that some relay delivered is never stored as one without MEV, for
\* any number of relays and every order of their answers.
THEOREM DeliveredIsNotVanilla == ValueSpec => []NeverCalledVanilla
<1>1. ValueInit => RaceInv
  BY DEF ValueInit, RaceInv, NeverCalledVanilla
<1>2. RaceInv /\ [ValueNext]_valueVars => RaceInv'
  <2> SUFFICES ASSUME RaceInv, [ValueNext]_valueVars PROVE RaceInv'
    OBVIOUS
  <2>1. ASSUME NEW r \in Relays, RelayDelivered(r) PROVE RaceInv'
    <3>1. stage' = "done" /\ waiting' = {} /\ result' = MevReturnValue(block, block.promised)
      BY <2>1 DEF RelayDelivered, Finish
    <3>2. result'.kind = "ok" => result'.mev
      BY <3>1, OnlyChainSaysVanilla
    <3>3. QED
      BY <3>1, <3>2 DEF RaceInv, NeverCalledVanilla
  <2>2. ASSUME NEW r \in Relays, RelayEmpty(r) PROVE RaceInv'
    <3>1. /\ answer[r] = "none" /\ waiting' = waiting \ {r} /\ r \in waiting
          /\ stage' = (IF waiting' = {} THEN "chain" ELSE stage)
          /\ UNCHANGED <<answer, result>>
      BY <2>2 DEF RelayEmpty
    <3>2. NeverCalledVanilla'
      BY <3>1 DEF RaceInv, NeverCalledVanilla
    <3>3. stage = "relays" /\ (waiting' # {} => stage' = "relays")
      BY <3>1 DEF RaceInv
    <3>4. result'.kind = "none" /\ \A q \in Relays \ waiting' : answer'[q] = "none"
      BY <3>1, <3>3 DEF RaceInv
    <3>5. QED
      BY <3>2, <3>3, <3>4 DEF RaceInv
  <2>3. ASSUME NEW r \in Relays, RelayFails(r) PROVE RaceInv'
    BY <2>3 DEF RelayFails, Finish, Failed, RaceInv, NeverCalledVanilla
  <2>4. CASE LookAtChain
    <3>1. stage = "chain" /\ stage' = "done" /\ waiting' = {} /\ answer' = answer
      BY <2>4 DEF LookAtChain, Finish
    <3>2. \A r \in Relays : answer'[r] # "payload"
      BY <3>1 DEF RaceInv
    <3>3. QED
      BY <3>1, <3>2 DEF RaceInv, NeverCalledVanilla
  <2>5. CASE UNCHANGED valueVars
    BY <2>5 DEF valueVars, RaceInv, NeverCalledVanilla
  <2>6. QED
    BY <2>1, <2>2, <2>3, <2>4, <2>5 DEF ValueNext
<1>3. RaceInv => NeverCalledVanilla
  BY DEF RaceInv
<1>4. QED
  BY <1>1, <1>2, <1>3, PTL DEF ValueSpec
=============================================================================
