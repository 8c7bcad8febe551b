-------------------------- MODULE WithdrawalIndexer --------------------------
(***************************************************************************)
(* The withdrawal indexer (src/indexer/withdrawals.py with                 *)
(* BeaconNode.withdrawals_for_slot): a round resumes after the largest     *)
(* slot of the table and walks to the finalized head, inserting each       *)
(* block's withdrawals and committing every CommitEvery slots or so.       *)
(* Nothing is remembered between rounds but the table itself.              *)
(*                                                                         *)
(* The withdrawals of a block are inserted by one statement, so the table  *)
(* is the number of copies it holds of each block's withdrawals; the       *)
(* address of a withdrawal is the one part of it that has a life of its    *)
(* own, a row of table `withdrawal_address` committed by another session.  *)
(***************************************************************************)
EXTENDS Integers, FiniteSets

CONSTANTS
    Paying,         \* slots whose block carries withdrawals
    PaidTo,         \* [Paying -> set of addresses]
    EpochLen,       \* SLOTS_PER_EPOCH
    LastSlot,       \* bound: finality stops before it
    CommitEvery,    \* commit_every
    Gaps,           \* paying slots whose block the node may not have (yet)
    MaxFaults       \* bound: exceptions and restarts in a behaviour

Addresses == UNION {PaidTo[s] : s \in Paying}

ASSUME ConstantsAssumption ==
    /\ Paying \subseteq Nat /\ IsFiniteSet(Paying)
    /\ PaidTo \in [Paying -> SUBSET Addresses]
    /\ \A s \in Paying : PaidTo[s] # {}
    /\ EpochLen \in Nat \ {0} /\ LastSlot \in Nat
    /\ CommitEvery \in Nat \ {0} /\ MaxFaults \in Nat
    /\ Gaps \subseteq Paying

VARIABLES
    final,      \* what head_finalized() returns
    missing,    \* blocks the node answers 404 for though the chain has them
    copies,     \* committed: [Paying -> Nat]
    addresses,  \* committed rows of withdrawal_address
    pend,       \* inserted in the open session: [Paying -> Nat]
    pc,         \* "idle", "fetch", "resolve" or "commit"
    cursor,     \* slot
    last,       \* end of slots_needed
    tx,         \* current_tx
    faults

env == <<final, missing>>
table == <<copies, addresses>>
vars == <<env, table, pend, pc, cursor, last, tx, faults>>

Nothing == [s \in Paying |-> 0]
Stored == {s \in Paying : copies[s] > 0}

\* The rows an address table must have for these withdrawals.
Payees(S) == UNION {PaidTo[s] : s \in S}

-----------------------------------------------------------------------------
\* The table is new, or holds what earlier runs of the program left: every
\* paying slot up to some final one.
Init ==
    /\ final \in {n \in 0 .. LastSlot : (n + 1) % EpochLen = 0}
    /\ missing \in SUBSET Gaps
    /\ \E n \in -1 .. final :
         copies = [s \in Paying |-> IF s <= n THEN 1 ELSE 0]
    /\ addresses = Payees(Stored)
    /\ pend = Nothing
    /\ pc = "idle" /\ cursor = 0 /\ last = 0 /\ tx = 0 /\ faults = 0

Finalize ==
    /\ final + EpochLen <= LastSlot
    /\ final' = final + EpochLen
    /\ UNCHANGED <<missing, table, pend, pc, cursor, last, tx, faults>>

NodeSync ==
    /\ \E s \in missing : missing' = missing \ {s}
    /\ UNCHANGED <<final, table, pend, pc, cursor, last, tx, faults>>

-----------------------------------------------------------------------------
\* func.max(Withdrawal.slot) + 1
ResumeSlot_Skip(s) == s + 2
ResumeSlot(s) == s + 1

StartRound ==
    /\ pc = "idle"
    /\ \E s \in Stored : (\A t \in Stored : t <= s) /\ cursor' = ResumeSlot(s)
    /\ last' = final
    /\ tx' = 0 /\ pc' = "fetch"
    /\ UNCHANGED <<env, table, pend, faults>>

\* With an empty table START_SLOT is an unassigned local of index_withdrawals
\* (the assignment of line 34 makes it local and hides the module's constant):
\* line 36 raises UnboundLocalError, the outer loop logs it and sleeps.
RaiseUnbound == pc = "idle" /\ Stored = {} /\ UNCHANGED vars

Fetching == pc = "fetch" /\ cursor <= last

\* withdrawals_for_slot returns [] for a block without withdrawals and for a
\* 404, which the code reads as a missed slot.
FetchNothing ==
    /\ Fetching /\ (cursor \notin Paying \/ cursor \in missing)
    /\ tx' = tx + 1 /\ cursor' = cursor + 1
    /\ UNCHANGED <<env, table, pend, pc, last, faults>>

FetchBlock ==
    /\ Fetching /\ cursor \in Paying \ missing
    /\ tx' = tx + 1 /\ pc' = "resolve"
    /\ UNCHANGED <<env, table, pend, cursor, last, faults>>

\* A payee the table does not know gets its row, committed at once by the
\* session of withdrawals_for_slot.
AddAddress(a) ==
    /\ pc = "resolve" /\ a \in PaidTo[cursor] \ addresses
    /\ addresses' = addresses \cup {a}
    /\ UNCHANGED <<env, copies, pend, pc, cursor, last, tx, faults>>

\* All payees are known: INSERT the block's withdrawals. The counter is read
\* only here, so blocks without withdrawals never cause a commit.
InsertWithdrawals_Unresolved ==
    /\ pc = "resolve"
    /\ pend' = [pend EXCEPT ![cursor] = @ + 1]
    /\ IF tx >= CommitEvery
       THEN pc' = "commit" /\ UNCHANGED cursor
       ELSE pc' = "fetch" /\ cursor' = cursor + 1
    /\ UNCHANGED <<env, table, last, tx, faults>>
InsertWithdrawals ==
    /\ pc = "resolve" /\ PaidTo[cursor] \subseteq addresses
    /\ pend' = [pend EXCEPT ![cursor] = @ + 1]
    /\ IF tx >= CommitEvery
       THEN pc' = "commit" /\ UNCHANGED cursor
       ELSE pc' = "fetch" /\ cursor' = cursor + 1
    /\ UNCHANGED <<env, table, last, tx, faults>>

WriteSession_Leak ==
    /\ copies' = [s \in Paying |-> copies[s] + pend[s]]
    /\ pend' = pend
WriteSession ==
    /\ copies' = [s \in Paying |-> copies[s] + pend[s]]
    /\ pend' = Nothing

Commit ==
    /\ pc = "commit"
    /\ WriteSession
    /\ tx' = 0 /\ pc' = "fetch" /\ cursor' = cursor + 1
    /\ UNCHANGED <<env, addresses, last, faults>>

\* session_scope commits what is left; the outer loop sleeps.
FinishRound ==
    /\ pc = "fetch" /\ cursor > last
    /\ WriteSession
    /\ pc' = "idle" /\ cursor' = 0 /\ last' = 0 /\ tx' = 0
    /\ UNCHANGED <<env, addresses, faults>>

\* An exception (rollback, caught by the outer loop) or a killed container:
\* the same to a process that remembers nothing.
Interrupt_Reindex ==
    /\ pc # "idle" /\ faults < MaxFaults
    /\ pend' = pend
    /\ pc' = "idle" /\ cursor' = 0 /\ last' = 0 /\ tx' = 0
    /\ faults' = faults + 1
    /\ UNCHANGED <<env, table>>
Interrupt ==
    /\ pc # "idle" /\ faults < MaxFaults
    /\ pend' = Nothing
    /\ pc' = "idle" /\ cursor' = 0 /\ last' = 0 /\ tx' = 0
    /\ faults' = faults + 1
    /\ UNCHANGED <<env, table>>

Indexer ==
    \/ StartRound \/ RaiseUnbound \/ FetchNothing \/ FetchBlock
    \/ \E a \in Addresses : AddAddress(a)
    \/ InsertWithdrawals \/ Commit \/ FinishRound

Next == Finalize \/ NodeSync \/ Indexer \/ Interrupt

Spec == Init /\ [][Next]_vars

\* The loop runs for ever and every await returns or raises; the chain goes
\* on finalizing and the node ends its synchronisation.
FairSpec == Spec /\ WF_vars(Indexer) /\ WF_vars(Finalize) /\ WF_vars(NodeSync)

-----------------------------------------------------------------------------
\* Types of the variables.
TypeOK ==
    /\ final \in Nat /\ missing \subseteq Paying
    /\ copies \in [Paying -> Nat] /\ pend \in [Paying -> Nat]
    /\ addresses \subseteq Addresses
    /\ pc \in {"idle", "fetch", "resolve", "commit"}
    /\ cursor \in Nat /\ last \in Nat /\ tx \in Nat /\ faults \in 0 .. MaxFaults
    /\ pc \in {"resolve", "commit"} => cursor \in Paying

\* No block's withdrawals are counted twice, whatever was interrupted where:
\* the table has no unique constraint that would catch it.
AtMostOnce == \A s \in Paying : copies[s] + pend[s] <= 1

\* Every stored or inserted withdrawal refers to an address that is committed.
AddressesExist ==
    Payees({s \in Paying : copies[s] + pend[s] > 0}) \subseteq addresses

\* The blocks the node is known to have. Of the others nothing can be said: a
\* block of Gaps that the node did not have yet was taken for a missed slot,
\* and once a later slot is stored no round asks for it again.
Served == Paying \ Gaps

\* No stored slot, of a served block or not, has an earlier served one missing
\* behind it, where no later round would look.
NothingSkipped ==
    \A s \in Served, t \in Paying : s < t /\ copies[t] > 0 => copies[s] > 0

\* The served part of the table implements the log.
Log == INSTANCE WithdrawalLog
         WITH Paying <- Served,
              copies <- [s \in Served |-> copies[s]],
              horizon <- final
ImplementsLog == Log!Spec

\* What is finalized and served is stored in the end, once the table has a
\* first row.
EventuallyStored ==
    \A s \in Paying : (s <= final /\ Stored # {}) ~> (s \in Stored \/ s \in Gaps)
=============================================================================
