------------------------ MODULE BalanceIndexerProofs ------------------------
(***************************************************************************)
(* Proofs about BalanceIndexer, for every set of validators, every epoch   *)
(* length and any number of faults.                                        *)
(*                                                                         *)
(* The rows of a slot reach the table in one piece because they enter the  *)
(* open session in one piece: the invariant says of the session what       *)
(* StoredSlotsComplete says of the table, and of the slots still to be     *)
(* fetched that this round's view of the chain (eods, known) is enough to  *)
(* ask for all their rows.                                                 *)
(***************************************************************************)
EXTENDS BalanceIndexer, TLAPS

\* The session holds whole slots, all finalized.
SessionComplete ==
    \A s \in SlotsOf(pend) : RowsAt(pend, s) = Needed(s) /\ s <= final

\* Every slot in the table was finalized.
StoredIsFinal == \A s \in Stored : s <= final

\* What a fetch of a slot still to do returns is what the slot needs.
WorkIsRight == \A s \in todo : Fetch(s) = Needed(s)

\* No session survives its round.
IdleIsClean == pc = "idle" => pend = {}

IInv == /\ TypeOK
        /\ StoredSlotsComplete
        /\ SessionComplete
        /\ StoredIsFinal
        /\ WorkIsRight
        /\ IdleIsClean

-----------------------------------------------------------------------------
\* Two sets of rows that agree with Needed on their own slots do so together.
LEMMA UnionComplete ==
    ASSUME NEW A, NEW B,
           \A s \in SlotsOf(A) : RowsAt(A, s) = Needed(s),
           \A s \in SlotsOf(B) : RowsAt(B, s) = Needed(s)
    PROVE  \A s \in SlotsOf(A \cup B) : RowsAt(A \cup B, s) = Needed(s)
<1>1. SUFFICES ASSUME NEW s \in SlotsOf(A \cup B)
               PROVE  RowsAt(A \cup B, s) = Needed(s)
  OBVIOUS
<1>2. RowsAt(A \cup B, s) = RowsAt(A, s) \cup RowsAt(B, s)
  BY DEF RowsAt
<1>3. \A X : s \in SlotsOf(X) \/ RowsAt(X, s) = {}
  BY DEF SlotsOf, RowsAt
<1>4. s \in SlotsOf(A) \/ s \in SlotsOf(B)
  BY <1>1 DEF SlotsOf
<1>5. QED
  BY <1>2, <1>3, <1>4

\* The rows fetched for a slot carry that slot, and are rows of the table.
LEMMA FetchedRows ==
    ASSUME TypeOK, ConstantsAssumption, NEW s \in Wanted
    PROVE  /\ Fetch(s) \subseteq Validators \X Wanted
           /\ \A r \in Fetch(s) : r[2] = s
           /\ Needed(s) \subseteq Validators \X Wanted
  BY DEF Fetch, Needed, Known, TypeOK

\* A round's view of the chain is enough for every slot it sets out to fetch:
\* an activation slot is known only together with everybody it activates, and
\* the end of a day is not an activation slot, genesis apart.
LEMMA StartedWorkIsRight ==
    ASSUME ConstantsAssumption, TypeOK, StartRound
    PROVE  WorkIsRight'
<1>1. SUFFICES ASSUME NEW s \in todo'
               PROVE  Fetch(s)' = Needed(s)'
  BY DEF WorkIsRight
<1>2. PICK h \in Int : known' = Known(h)
  <2>1. final \in Int /\ EpochLen \in Int
    BY DEF TypeOK, ConstantsAssumption
  <2>. QED BY <2>1 DEF StartRound
<1>3. eods' = EodSlotsBefore(clock) \ indexed' /\ s \notin indexed'
      /\ (s \in EodSlotsBefore(clock) \/ \E v \in known' : s = ActSlot[v])
  BY DEF StartRound
<1>4. CASE s \in EodSlots
  <2>1. s \in EodSlotsBefore(clock)
    <3>1. CASE \E v \in known' : s = ActSlot[v]
      <4>1. s \in ActivationSlots
        BY <3>1, <1>2 DEF ActivationSlots, Known
      <4>2. s = 0
        BY <4>1, <1>4 DEF ConstantsAssumption
      <4>3. clock > 0
        BY DEF TypeOK, ConstantsAssumption
      <4>4. QED
        BY <4>2, <4>3, <1>4 DEF EodSlotsBefore
    <3>2. QED
      BY <3>1, <1>3
  <2>2. s \in eods'
    BY <2>1, <1>3
  <2>3. QED
    BY <2>2, <1>4 DEF Fetch, Needed, Known
<1>5. CASE s \notin EodSlots
  <2>1. PICK v \in known' : s = ActSlot[v]
    BY <1>3, <1>5 DEF EodSlotsBefore
  <2>2. s \notin eods'
    BY <1>3, <1>5 DEF EodSlotsBefore
  <2>3. s <= h + Lead
    BY <2>1, <1>2 DEF Known
  <2>4. {w \in known' : ActSlot[w] = s} = {w \in Validators : ActSlot[w] = s}
    BY <2>3, <1>2 DEF Known
  <2>5. QED
    BY <2>2, <2>4, <1>5 DEF Fetch, Needed
<1>6. QED
  BY <1>4, <1>5

-----------------------------------------------------------------------------
LEMMA InitIInv == ASSUME ConstantsAssumption, Init PROVE IInv
<1>1. \A e \in 0 .. LastSlot : LastSlotOf(e) \in Nat
  <2>1. ASSUME NEW e \in 0 .. LastSlot PROVE LastSlotOf(e) \in Nat
    <3>1. e \in Nat /\ EpochLen \in Nat \ {0}
      BY DEF ConstantsAssumption
    <3>2. e * EpochLen \in Nat
      BY <3>1
    <3>3. QED
      BY <3>1, <3>2 DEF LastSlotOf
  <2>2. QED
    BY <2>1
<1>2. TypeOK
  BY <1>1 DEF Init, TypeOK, ConstantsAssumption
<1>3. QED
  BY <1>2 DEF IInv, Init, StoredSlotsComplete, SessionComplete, StoredIsFinal,
              WorkIsRight, IdleIsClean, Stored, SlotsOf

LEMMA TypeStep ==
    ASSUME ConstantsAssumption, TypeOK, [Next]_vars PROVE TypeOK'
<1>1. CASE Tick
  BY <1>1 DEF Tick, round, TypeOK
<1>2. CASE Finalize
  BY <1>2 DEF Finalize, round, TypeOK, ConstantsAssumption
<1>3. CASE NodeSync
  BY <1>3 DEF NodeSync, round, TypeOK
<1>4. CASE StartRound
  <2>1. indexed' \subseteq Wanted
    BY <1>4 DEF StartRound, LoadIndexed, TypeOK, Stored, SlotsOf
  <2>2. known' \subseteq Validators
    BY <1>4 DEF StartRound, Known
  <2>3. todo' \subseteq Wanted /\ eods' \subseteq EodSlots
    BY <2>2, <1>4 DEF StartRound, EodSlotsBefore, Wanted, ActivationSlots
  <2>4. QED
    BY <2>1, <2>2, <2>3, <1>4 DEF StartRound, env, TypeOK
<1>5. CASE IndexSlot
  <2>1. PICK s \in todo : Skip(s) \/ Store(s)
    BY <1>5 DEF IndexSlot
  <2>2. s \in Wanted
    BY DEF TypeOK
  <2>3. CASE Skip(s)
    BY <2>3 DEF Skip, env, TypeOK
  <2>4. CASE Store(s)
    <3>1. pend' \subseteq Validators \X Wanted
      BY <2>4, <2>2, FetchedRows DEF Store, TypeOK
    <3>2. QED
      BY <3>1, <2>2, <2>4 DEF Store, env, TypeOK
  <2>5. QED
    BY <2>1, <2>3, <2>4
<1>6. CASE Commit
  BY <1>6 DEF Commit, env, TypeOK
<1>7. CASE FinishRound
  BY <1>7 DEF FinishRound, EndRound, env, TypeOK
<1>8. CASE Raise
  BY <1>8 DEF Raise, EndRound, env, TypeOK, ConstantsAssumption
<1>9. CASE Restart
  BY <1>9 DEF Restart, EndRound, env, TypeOK, ConstantsAssumption
<1>10. CASE UNCHANGED vars
  BY <1>10 DEF vars, env, round, TypeOK
<1>11. QED
  BY <1>1, <1>2, <1>3, <1>4, <1>5, <1>6, <1>7, <1>8, <1>9, <1>10 DEF Next

\* Whatever ends a transaction leaves the table complete and final: both the
\* commit inside the loop and the one after it move the whole session.
LEMMA CommittedRows ==
    ASSUME IInv, db' = db \cup pend, pend' = {}, final' = final
    PROVE  StoredSlotsComplete' /\ SessionComplete' /\ StoredIsFinal'
<1>1. StoredSlotsComplete'
  <2>1. \A s \in SlotsOf(db) : RowsAt(db, s) = Needed(s)
    BY DEF IInv, StoredSlotsComplete, Stored
  <2>2. \A s \in SlotsOf(pend) : RowsAt(pend, s) = Needed(s)
    BY DEF IInv, SessionComplete
  <2>3. \A s \in SlotsOf(db \cup pend) : RowsAt(db \cup pend, s) = Needed(s)
    BY <2>1, <2>2, UnionComplete
  <2>4. QED
    BY <2>3 DEF StoredSlotsComplete, Stored, Needed, Known, RowsAt, SlotsOf
<1>2. SlotsOf(db \cup pend) = SlotsOf(db) \cup SlotsOf(pend)
  BY DEF SlotsOf
<1>3. StoredIsFinal'
  BY <1>2 DEF IInv, SessionComplete, StoredIsFinal, Stored, SlotsOf
<1>4. SessionComplete'
  BY DEF SessionComplete, SlotsOf
<1>5. QED
  BY <1>1, <1>3, <1>4

\* A fetched slot enters the session whole, or not at all when the table has it.
LEMMA InsertedRows ==
    ASSUME ConstantsAssumption, IInv, NEW s \in todo, Store(s)
    PROVE  SessionComplete'
<1>1. s \in Wanted /\ Fetch(s) = Needed(s) /\ s <= final
  BY DEF IInv, TypeOK, WorkIsRight, Store, Available, IsSlotFinalized
<1>2. pend' = pend \cup (Needed(s) \ db) /\ final' = final
  BY <1>1 DEF Store, env
<1>3. \A r \in Needed(s) : r[2] = s
  BY <1>1, FetchedRows DEF IInv
<1>4. CASE s \in Stored
  <2>1. RowsAt(db, s) = Needed(s)
    BY <1>4 DEF IInv, StoredSlotsComplete
  <2>2. pend' = pend
    BY <2>1, <1>2 DEF RowsAt
  <2>3. QED
    BY <2>2, <1>2 DEF IInv, SessionComplete, Needed, Known
<1>5. CASE s \notin Stored
  <2>1. Needed(s) \cap db = {}
    BY <1>5, <1>3 DEF Stored, SlotsOf
  <2>2. \A t \in SlotsOf(Needed(s)) : RowsAt(Needed(s), t) = Needed(t)
    BY <1>3 DEF SlotsOf, RowsAt
  <2>3. \A t \in SlotsOf(pend) : RowsAt(pend, t) = Needed(t)
    BY DEF IInv, SessionComplete
  <2>4. \A t \in SlotsOf(pend \cup Needed(s)) :
            RowsAt(pend \cup Needed(s), t) = Needed(t)
    BY <2>2, <2>3, UnionComplete
  <2>5. pend' = pend \cup Needed(s)
    BY <1>2, <2>1
  <2>6. \A t \in SlotsOf(pend \cup Needed(s)) : t <= final
    BY <1>1, <1>3 DEF IInv, SessionComplete, SlotsOf
  <2>7. QED
    BY <2>4, <2>5, <2>6, <1>2
       DEF SessionComplete, Needed, Known, RowsAt, SlotsOf
<1>6. QED
  BY <1>4, <1>5
-----------------------------------------------------------------------------
LEMMA IInvStep ==
    ASSUME ConstantsAssumption, IInv, [Next]_vars PROVE IInv'
<1>0. TypeOK'
  BY TypeStep DEF IInv
<1>1. CASE Tick \/ Finalize \/ NodeSync \/ UNCHANGED vars
  <2>1. /\ UNCHANGED <<db, pend, pc, todo, eods, known>>
        /\ final' \in Nat /\ final <= final'
    <3>1. final \in Nat /\ EpochLen \in Nat
      BY DEF IInv, TypeOK, ConstantsAssumption
    <3>2. QED
      BY <3>1, <1>1 DEF Tick, Finalize, NodeSync, vars, env, round
  <2>2. \A s \in Wanted : s <= final => s <= final'
    <3>1. \A s \in Wanted : s \in Nat
      BY DEF Wanted, ActivationSlots, ConstantsAssumption
    <3>2. QED
      BY <3>1, <2>1 DEF IInv, TypeOK
  <2>3. Stored \subseteq Wanted /\ SlotsOf(pend) \subseteq Wanted
    BY DEF IInv, TypeOK, Stored, SlotsOf
  <2>4. StoredSlotsComplete' /\ WorkIsRight' /\ IdleIsClean'
    BY <2>1 DEF IInv, StoredSlotsComplete, WorkIsRight, IdleIsClean, Stored,
                Fetch, Needed, Known, SlotsOf, RowsAt
  <2>5. SessionComplete' /\ StoredIsFinal'
    BY <2>1, <2>2, <2>3 DEF IInv, SessionComplete, StoredIsFinal, Stored,
                            Needed, Known, SlotsOf, RowsAt
  <2>6. QED
    BY <1>0, <2>4, <2>5 DEF IInv
<1>2. CASE StartRound
  <2>1. WorkIsRight'
    BY <1>2, StartedWorkIsRight DEF IInv
  <2>2. pend' = {} /\ db' = db /\ final' = final /\ pc' = "loop"
    BY <1>2 DEF StartRound, env
  <2>3. QED
    BY <1>0, <2>1, <2>2 DEF IInv, StoredSlotsComplete, SessionComplete, Stored,
        StoredIsFinal, IdleIsClean, SlotsOf, RowsAt, Needed, Known
<1>3. CASE IndexSlot
  <2>1. PICK s \in todo : Skip(s) \/ Store(s)
    BY <1>3 DEF IndexSlot
  <2>2. /\ db' = db /\ final' = final /\ eods' = eods /\ known' = known
        /\ todo' \subseteq todo /\ pc' # "idle"
    BY <2>1, <1>3 DEF IndexSlot, Skip, Store, env
  <2>3. StoredSlotsComplete' /\ StoredIsFinal' /\ WorkIsRight' /\ IdleIsClean'
    BY <2>2 DEF IInv, StoredSlotsComplete, StoredIsFinal, WorkIsRight, Stored,
                IdleIsClean, Fetch, Needed, Known, SlotsOf, RowsAt
  <2>4. CASE Skip(s)
    <3>1. SessionComplete'
      BY <2>4 DEF Skip, env, IInv, SessionComplete, SlotsOf, RowsAt, Needed, Known
    <3>2. QED
      BY <3>1, <2>3, <1>0 DEF IInv
  <2>5. CASE Store(s)
    BY <2>5, <2>3, <1>0, InsertedRows DEF IInv
  <2>6. QED
    BY <2>1, <2>4, <2>5
<1>4. CASE Commit
  <2>1. StoredSlotsComplete' /\ SessionComplete' /\ StoredIsFinal'
    BY <1>4, CommittedRows DEF Commit, env
  <2>2. WorkIsRight' /\ IdleIsClean'
    BY <1>4 DEF Commit, env, IInv, WorkIsRight, IdleIsClean, Fetch, Needed, Known
  <2>3. QED
    BY <2>1, <2>2, <1>0 DEF IInv
<1>5. CASE FinishRound
  <2>1. StoredSlotsComplete' /\ SessionComplete' /\ StoredIsFinal'
    BY <1>5, CommittedRows DEF FinishRound, env
  <2>2. WorkIsRight' /\ IdleIsClean'
    BY <1>5 DEF FinishRound, EndRound, WorkIsRight, IdleIsClean
  <2>3. QED
    BY <2>1, <2>2, <1>0 DEF IInv
<1>6. CASE Raise \/ Restart
  <2>1. db' = db /\ final' = final /\ pend' = {} /\ todo' = {}
    BY <1>6 DEF Raise, Restart, EndRound, env
  <2>2. QED
    BY <2>1, <1>0 DEF IInv, StoredSlotsComplete, SessionComplete, Stored,
        StoredIsFinal, WorkIsRight, IdleIsClean, SlotsOf, RowsAt, Needed, Known
<1>7. QED
  BY <1>1, <1>2, <1>3, <1>4, <1>5, <1>6 DEF Next

LEMMA IInvHolds == ConstantsAssumption /\ Spec => []IInv
<1>1. ConstantsAssumption /\ Init => IInv
  BY InitIInv
<1>2. ConstantsAssumption /\ IInv /\ [Next]_vars => IInv'
  BY IInvStep
<1>3. QED
  BY <1>1, <1>2, ConstantsAssumption, PTL DEF Spec

-----------------------------------------------------------------------------
\* Every variable keeps its type.
THEOREM TypeCorrect == Spec => []TypeOK
<1>1. IInv => TypeOK
  BY DEF IInv
<1>2. QED
  BY <1>1, IInvHolds, ConstantsAssumption, PTL

\* No behaviour of the indexer leaves a slot of table `balance` without some
\* of its validators: rollbacks, restarts and mid-round commits included.
THEOREM NoHalfSlots == Spec => []StoredSlotsComplete
<1>1. IInv => StoredSlotsComplete
  BY DEF IInv
<1>2. QED
  BY <1>1, IInvHolds, ConstantsAssumption, PTL

\* The table is an archive: it grows by finalized slots only.
THEOREM BalancesImplementArchive == Spec => ImplementsArchive
<1>1. ConstantsAssumption /\ Init => Archive!Init
  <2>1. ConstantsAssumption /\ Init => final \in Nat /\ Stored = {}
    BY InitIInv DEF Init, IInv, TypeOK, Stored, SlotsOf
  <2>2. QED
    BY <2>1 DEF Archive!Init
<1>2. ConstantsAssumption /\ IInv /\ [Next]_vars => [Archive!Next]_(Archive!avars)
  <2> SUFFICES ASSUME ConstantsAssumption, IInv, [Next]_vars
               PROVE  [Archive!Next]_(Archive!avars)
    OBVIOUS
  <2>2. CASE Finalize
    <3>1. final \in Nat /\ EpochLen \in Nat \ {0}
      BY DEF IInv, TypeOK, ConstantsAssumption
    <3>2. Stored' = Stored
      BY <2>2 DEF Finalize, Stored, SlotsOf
    <3>3. final' \in Nat /\ final' > final
      BY <3>1, <2>2 DEF Finalize
    <3>4. QED
      BY <3>2, <3>3 DEF Archive!Next, Archive!Advance
  <2>3. CASE Commit \/ FinishRound
    <3>1. db' = db \cup pend /\ final' = final
      BY <2>3 DEF Commit, FinishRound, env
    <3>2. Stored' = Stored \cup SlotsOf(pend)
      BY <3>1 DEF Stored, SlotsOf
    <3>3. SlotsOf(pend) \subseteq {s \in Wanted : s <= final}
      BY DEF IInv, TypeOK, SessionComplete, SlotsOf
    <3>4. QED
      BY <3>1, <3>2, <3>3 DEF Archive!Next, Archive!Record, Archive!Final
  <2>4. CASE ~ (Finalize \/ Commit \/ FinishRound)
    <3>1. db' = db /\ final' = final
      BY <2>4 DEF Next, Tick, NodeSync, StartRound, IndexSlot, Skip, Store,
                        Raise, Restart, vars, env
    <3>2. QED
      BY <3>1 DEF Archive!avars, Stored, SlotsOf
  <2>5. QED
    BY <2>2, <2>3, <2>4
<1>3. QED
  BY <1>1, <1>2, IInvHolds, ConstantsAssumption, PTL
     DEF Spec, ImplementsArchive, Archive!Spec

\* When no exception reaches a session that holds rows, ALREADY_INDEXED_SLOTS
\* is right; the run BalanceIndexer_rollback shows that it is not otherwise.
THEOREM IndexedIsRight == ~LateFaults /\ Spec => []IndexedIsStored
<1> SUFFICES ASSUME ~LateFaults PROVE Spec => []IndexedIsStored
  OBVIOUS
<1>1. Init => IdleIsClean /\ IndexedIsStored
  BY DEF Init, IdleIsClean, IndexedIsStored
<1>2. IInv /\ IndexedIsStored /\ [Next]_vars => IndexedIsStored'
  <2> SUFFICES ASSUME IInv, IndexedIsStored, [Next]_vars
               PROVE  IndexedIsStored'
    OBVIOUS
  <2>1. CASE StartRound
    BY <2>1 DEF StartRound, LoadIndexed, IInv, IdleIsClean, Stored,
                      IndexedIsStored, SlotsOf
  <2>2. CASE IndexSlot
    <3>1. PICK s \in todo : Skip(s) \/ Store(s)
      BY <2>2 DEF IndexSlot
    <3>2. CASE Skip(s)
      BY <3>2 DEF Skip, IndexedIsStored, SlotsOf
    <3>3. CASE Store(s)
      <4>1. s \in Wanted /\ Fetch(s) # {}
        BY <3>3 DEF Store, IInv, TypeOK
      <4>2. PICK r \in Fetch(s) : r[2] = s
        BY <4>1, FetchedRows, ConstantsAssumption DEF IInv
      <4>3. r \in (db \cup pend)'
        BY <4>2, <3>3 DEF Store
      <4>4. db \cup pend \subseteq (db \cup pend)' /\ indexed' = indexed \cup {s}
        BY <3>3 DEF Store
      <4>5. QED
        BY <4>2, <4>3, <4>4 DEF IndexedIsStored, SlotsOf
    <3>4. QED
      BY <3>1, <3>2, <3>3
  <2>3. CASE Commit \/ FinishRound
    BY <2>3 DEF Commit, FinishRound, IndexedIsStored, SlotsOf
  <2>4. CASE Raise
    BY <2>4 DEF Raise, IndexedIsStored
  <2>5. CASE Restart
    BY <2>5 DEF Restart, IndexedIsStored
  <2>6. CASE Tick \/ Finalize \/ NodeSync \/ UNCHANGED vars
    BY <2>6 DEF Tick, Finalize, NodeSync, vars, IndexedIsStored
  <2>7. QED
    BY <2>1, <2>2, <2>3, <2>4, <2>5, <2>6 DEF Next
<1>3. QED
  BY <1>1, <1>2, IInvHolds, ConstantsAssumption, PTL DEF Spec
=============================================================================
