----------------------- MODULE WithdrawalIndexerProofs -----------------------
(***************************************************************************)
(* Proofs about WithdrawalIndexer, for every chain of paying blocks, every *)
(* commit interval and any number of interruptions.                        *)
(*                                                                         *)
(* Done is how far the round has come. That nothing beyond Done is in the  *)
(* table or the session makes each block be inserted once; that everything *)
(* served up to Done is there makes the served part of the table a prefix  *)
(* of the chain.                                                           *)
(***************************************************************************)
EXTENDS WithdrawalIndexer, TLAPS

\* The last slot the running round has dealt with.
Done == IF pc = "commit" THEN cursor ELSE cursor - 1

\* Nothing beyond it is in the table or the open session.
NothingAhead ==
    IF pc = "idle" THEN pend = Nothing
    ELSE \A s \in Paying : s > Done => copies[s] + pend[s] = 0

\* A round stays below the finalized head it read.
RoundBounds ==
    /\ pc # "idle" => last <= final
    /\ pc \in {"resolve", "commit"} => cursor <= last
    /\ pc = "fetch" => cursor <= last + 1

\* Only finalized blocks are in the table or the session.
CountedIsFinal == \A s \in Paying : copies[s] + pend[s] > 0 => s <= final

IInv == /\ TypeOK /\ NothingAhead /\ RoundBounds /\ CountedIsFinal
        /\ AtMostOnce /\ AddressesExist

LEMMA InitTypes == ASSUME ConstantsAssumption, Init PROVE TypeOK
<1>1. copies \in [Paying -> Nat]
  BY DEF Init
<1>2. addresses \subseteq Addresses
  BY DEF Init, Payees, Addresses, Stored
<1>3. QED
  BY <1>1, <1>2 DEF Init, TypeOK, Nothing, ConstantsAssumption

LEMMA InitIInv == ASSUME ConstantsAssumption, Init PROVE IInv
<1>1. \A s \in Paying : copies[s] \in {0, 1} /\ pend[s] = 0
  BY DEF Init, Nothing
<1>2. {s \in Paying : copies[s] + pend[s] > 0} = Stored
  <2>1. \A s \in Paying : copies[s] + pend[s] > 0 <=> copies[s] > 0
    BY <1>1
  <2>2. QED
    BY <2>1 DEF Stored
<1>3. AtMostOnce
  BY <1>1 DEF AtMostOnce
<1>4. AddressesExist
  BY <1>2 DEF AddressesExist, Init
<1>5. CountedIsFinal
  <2>1. PICK n \in -1 .. final : copies = [s \in Paying |-> IF s <= n THEN 1 ELSE 0]
    BY DEF Init
  <2>2. final \in Nat /\ Paying \subseteq Nat
    BY InitTypes DEF TypeOK, ConstantsAssumption
  <2>3. \A s \in Paying : copies[s] + pend[s] > 0 => s <= n
    BY <1>1, <2>1
  <2>4. QED
    BY <2>2, <2>3 DEF CountedIsFinal
<1>6. QED
  BY <1>3, <1>4, <1>5, InitTypes DEF IInv, Init, NothingAhead, RoundBounds

LEMMA TypeStep ==
    ASSUME ConstantsAssumption, TypeOK, [Next]_vars PROVE TypeOK'
<1>0. Paying \subseteq Nat
  BY DEF ConstantsAssumption
<1>1. CASE Finalize \/ NodeSync
  <2>1. CASE Finalize
    BY <2>1 DEF Finalize, table, TypeOK, ConstantsAssumption
  <2>2. CASE NodeSync
    BY <2>2 DEF NodeSync, table, TypeOK
  <2>3. QED
    BY <1>1, <2>1, <2>2
<1>2. CASE StartRound
  BY <1>0, <1>2 DEF StartRound, ResumeSlot, env, table, Stored, TypeOK
<1>3. CASE FetchNothing \/ FetchBlock
  <2>1. CASE FetchNothing
    BY <2>1 DEF FetchNothing, Fetching, env, table, TypeOK
  <2>2. CASE FetchBlock
    BY <2>2 DEF FetchBlock, env, table, TypeOK
  <2>3. QED
    BY <1>3, <2>1, <2>2
<1>4. ASSUME NEW a \in Addresses, AddAddress(a) PROVE TypeOK'
  BY <1>4 DEF AddAddress, env, TypeOK
<1>5. CASE InsertWithdrawals
  BY <1>0, <1>5 DEF InsertWithdrawals, env, table, TypeOK
<1>6. CASE Commit \/ FinishRound
  <2>1. copies' \in [Paying -> Nat] /\ pend' \in [Paying -> Nat]
    BY <1>6 DEF Commit, FinishRound, WriteSession, Nothing, TypeOK
  <2>2. CASE Commit
    BY <2>1, <2>2 DEF Commit, env, TypeOK
  <2>3. CASE FinishRound
    BY <2>1, <2>3 DEF FinishRound, env, TypeOK
  <2>4. QED
    BY <1>6, <2>2, <2>3
<1>7. CASE Interrupt
  BY <1>7 DEF Interrupt, Nothing, env, table, TypeOK, ConstantsAssumption
<1>8. CASE RaiseUnbound \/ UNCHANGED vars
  BY <1>8 DEF RaiseUnbound, vars, env, table, TypeOK
<1>9. QED
  BY <1>1, <1>2, <1>3, <1>4, <1>5, <1>6, <1>7, <1>8 DEF Next, Indexer

\* Moving the session into the table changes no count.
LEMMA WriteKeepsCounts ==
    ASSUME TypeOK, WriteSession
    PROVE  \A s \in Paying : copies'[s] + pend'[s] = copies[s] + pend[s]
  BY DEF TypeOK, WriteSession, Nothing

\* A step that keeps the counts and the address rows disturbs nothing that is
\* said of them.
LEMMA CountsKept ==
    ASSUME IInv, addresses \subseteq addresses',
           final \in Nat, final' \in Nat, final <= final',
           Paying \subseteq Nat,
           \A s \in Paying : copies'[s] + pend'[s] = copies[s] + pend[s]
    PROVE  AtMostOnce' /\ AddressesExist' /\ CountedIsFinal'
<1>1. {s \in Paying : copies'[s] + pend'[s] > 0}
        = {s \in Paying : copies[s] + pend[s] > 0}
  OBVIOUS
<1>2. QED
  BY <1>1 DEF IInv, AtMostOnce, AddressesExist, CountedIsFinal

LEMMA IInvStep ==
    ASSUME ConstantsAssumption, IInv, [Next]_vars PROVE IInv'
<1>0. TypeOK /\ TypeOK' /\ Paying \subseteq Nat /\ final \in Nat /\ final' \in Nat
  BY TypeStep DEF IInv, ConstantsAssumption, TypeOK
<1>1. CASE Finalize \/ NodeSync \/ RaiseUnbound \/ UNCHANGED vars
  <2>1. /\ UNCHANGED <<table, pend, pc, cursor, last>>
        /\ final' \in Nat /\ final <= final'
    <3>1. CASE Finalize
      BY <1>0, <3>1 DEF Finalize, TypeOK, ConstantsAssumption
    <3>2. CASE NodeSync \/ RaiseUnbound \/ UNCHANGED vars
      BY <1>0, <3>2 DEF NodeSync, RaiseUnbound, vars, env, TypeOK
    <3>3. QED
      BY <1>1, <3>1, <3>2
  <2>2. NothingAhead'
    BY <2>1 DEF IInv, NothingAhead, Done, table
  <2>3. RoundBounds'
    BY <1>0, <2>1 DEF IInv, RoundBounds, TypeOK
  <2>4. AtMostOnce' /\ AddressesExist' /\ CountedIsFinal'
    BY <1>0, <2>1, CountsKept DEF table
  <2>5. QED
    BY <1>0, <2>2, <2>3, <2>4 DEF IInv
<1>2. CASE StartRound
  <2>1. PICK s \in Stored : (\A t \in Stored : t <= s) /\ cursor' = s + 1
    BY <1>2 DEF StartRound, ResumeSlot
  <2>2. \A t \in Paying : t > s => copies[t] = 0 /\ pend[t] = 0
    BY <1>0, <1>2, <2>1 DEF Stored, TypeOK, IInv, NothingAhead, Nothing, StartRound
  <2>3. NothingAhead'
    BY <1>0, <1>2, <2>1, <2>2 DEF StartRound, table, NothingAhead, Done, Stored
  <2>4. cursor' <= last' + 1
    <3>1. s <= final
      BY <1>0, <2>1 DEF IInv, CountedIsFinal, Stored, TypeOK
    <3>2. QED
      BY <1>0, <1>2, <2>1, <3>1 DEF StartRound, Stored, TypeOK
  <2>5. QED
    BY <1>0, <1>2, <2>3, <2>4, CountsKept
       DEF StartRound, env, table, IInv, RoundBounds, TypeOK
<1>3. CASE FetchNothing \/ FetchBlock
  <2>1. NothingAhead' /\ RoundBounds'
    <3>1. CASE FetchNothing
      BY <1>0, <3>1 DEF FetchNothing, Fetching, env, table, IInv,
                        NothingAhead, RoundBounds, Done, TypeOK
    <3>2. CASE FetchBlock
      BY <1>0, <3>2 DEF FetchBlock, Fetching, env, table, IInv,
                        NothingAhead, RoundBounds, Done, TypeOK
    <3>3. QED
      BY <1>3, <3>1, <3>2
  <2>2. QED
    BY <1>0, <1>3, <2>1, CountsKept DEF FetchNothing, FetchBlock, env, table, IInv
<1>4. ASSUME NEW a \in Addresses, AddAddress(a) PROVE IInv'
  BY <1>0, <1>4, CountsKept
     DEF AddAddress, env, IInv, NothingAhead, RoundBounds, Done
<1>5. CASE InsertWithdrawals
  <2>1. /\ pc = "resolve" /\ cursor \in Paying /\ copies' = copies
        /\ pend' = [pend EXCEPT ![cursor] = @ + 1]
        /\ addresses' = addresses /\ PaidTo[cursor] \subseteq addresses
    BY <1>0, <1>5 DEF InsertWithdrawals, table, TypeOK
  <2>2. copies[cursor] + pend[cursor] = 0
    BY <1>0, <2>1 DEF IInv, NothingAhead, Done, TypeOK
  <2>3. \A s \in Paying : copies'[s] + pend'[s] =
            IF s = cursor THEN 1 ELSE copies[s] + pend[s]
    BY <1>0, <2>1, <2>2 DEF TypeOK
  <2>4. AtMostOnce'
    BY <2>3 DEF IInv, AtMostOnce
  <2>5. AddressesExist'
    <3>1. {s \in Paying : copies'[s] + pend'[s] > 0}
            \subseteq {s \in Paying : copies[s] + pend[s] > 0} \cup {cursor}
      BY <2>3
    <3>2. QED
      BY <3>1, <2>1 DEF IInv, AddressesExist, Payees
  <2>6. NothingAhead' /\ RoundBounds'
    <3>1. CASE pc' = "commit" /\ cursor' = cursor
      BY <1>0, <1>5, <2>1, <2>3, <3>1
         DEF InsertWithdrawals, IInv, NothingAhead, RoundBounds, Done, TypeOK, env
    <3>2. CASE pc' = "fetch" /\ cursor' = cursor + 1
      BY <1>0, <1>5, <2>1, <2>3, <3>2
         DEF InsertWithdrawals, IInv, NothingAhead, RoundBounds, Done, TypeOK, env
    <3>3. QED
      BY <3>1, <3>2, <1>5 DEF InsertWithdrawals
  <2>7. CountedIsFinal'
    <3>1. cursor <= final /\ final' = final
      BY <1>0, <1>5, <2>1 DEF InsertWithdrawals, env, IInv, RoundBounds, TypeOK
    <3>2. QED
      BY <2>3, <3>1 DEF IInv, CountedIsFinal
  <2>8. QED
    BY <1>0, <2>4, <2>5, <2>6, <2>7 DEF IInv
<1>6. CASE Commit \/ FinishRound
  <2>1. WriteSession /\ addresses' = addresses /\ final' = final
    BY <1>6 DEF Commit, FinishRound, env
  <2>2. \A s \in Paying : copies'[s] + pend'[s] = copies[s] + pend[s]
    BY <1>0, <2>1, WriteKeepsCounts
  <2>3. NothingAhead' /\ RoundBounds'
    <3>1. CASE Commit
      BY <1>0, <3>1, <2>1, <2>2 DEF Commit, IInv, NothingAhead, RoundBounds,
                                    Done, TypeOK
    <3>2. CASE FinishRound
      BY <3>2 DEF FinishRound, WriteSession, NothingAhead, RoundBounds
    <3>3. QED
      BY <1>6, <3>1, <3>2
  <2>4. QED
    BY <1>0, <2>1, <2>2, <2>3, CountsKept DEF IInv
<1>7. CASE Interrupt
  <2>1. /\ pc' = "idle" /\ pend' = Nothing /\ copies' = copies
        /\ addresses' = addresses
    BY <1>7 DEF Interrupt, table
  <2>2. \A s \in Paying : /\ copies'[s] + pend'[s] = copies[s]
                          /\ copies[s] \in Nat /\ pend[s] \in Nat
    BY <1>0, <2>1 DEF TypeOK, Nothing
  <2>3. AtMostOnce' /\ AddressesExist' /\ CountedIsFinal'
    <3>1. \A s \in Paying : copies'[s] + pend'[s] > 0 => copies[s] + pend[s] > 0
      BY <2>2
    <3>2. {s \in Paying : copies'[s] + pend'[s] > 0}
            \subseteq {s \in Paying : copies[s] + pend[s] > 0}
      BY <3>1
    <3>3. AtMostOnce'
      BY <2>2 DEF IInv, AtMostOnce
    <3>4. AddressesExist'
      BY <3>2, <2>1 DEF IInv, AddressesExist, Payees
    <3>5. CountedIsFinal'
      BY <3>1, <1>7 DEF Interrupt, env, IInv, CountedIsFinal
    <3>6. QED
      BY <3>3, <3>4, <3>5
  <2>4. QED
    BY <1>0, <2>1, <2>3 DEF IInv, NothingAhead, RoundBounds
<1>8. QED
  BY <1>1, <1>2, <1>3, <1>4, <1>5, <1>6, <1>7 DEF Next, Indexer

LEMMA IInvHolds == ConstantsAssumption /\ Spec => []IInv
<1>1. ConstantsAssumption /\ Init => IInv
  BY InitIInv
<1>2. ConstantsAssumption /\ IInv /\ [Next]_vars => IInv'
  BY IInvStep
<1>3. QED
  BY <1>1, <1>2, ConstantsAssumption, PTL DEF Spec

-----------------------------------------------------------------------------
\* Every variable keeps its type.
THEOREM TypeCorrect == Spec => []TypeOK
<1>1. IInv => TypeOK
  BY DEF IInv
<1>2. QED
  BY <1>1, IInvHolds, ConstantsAssumption, PTL

\* No interruption, retry or missing block makes the indexer insert the same
\* block twice.
THEOREM CountedOnce == Spec => []AtMostOnce
<1>1. IInv => AtMostOnce
  BY DEF IInv
<1>2. QED
  BY <1>1, IInvHolds, ConstantsAssumption, PTL

\* Addresses are committed before the withdrawals that refer to them.
THEOREM ReferencesHold == Spec => []AddressesExist
<1>1. IInv => AddressesExist
  BY DEF IInv
<1>2. QED
  BY <1>1, IInvHolds, ConstantsAssumption, PTL

-----------------------------------------------------------------------------
(***************************************************************************)
(* Of the blocks the node has, the table holds a prefix.                   *)
(***************************************************************************)

\* What the log shows of a table.
ServedCopies == [s \in Served |-> copies[s]]

\* Everything served up to Done is in the table or the session.
NothingBehind ==
    pc # "idle" => \A s \in Served : s <= Done => copies[s] + pend[s] = 1

LogShape == \E n \in -1 .. final : ServedCopies = Log!Prefix(n)

PrefixInv == /\ IInv /\ missing \subseteq Gaps
             /\ NothingBehind /\ LogShape /\ NothingSkipped

LEMMA PrefixInit ==
    ASSUME ConstantsAssumption, Init PROVE PrefixInv
<1>1. PICK n \in -1 .. final : copies = [s \in Paying |-> IF s <= n THEN 1 ELSE 0]
  BY DEF Init
<1>2. Paying \subseteq Nat /\ Served \subseteq Paying
  BY DEF ConstantsAssumption, Served
<1>3. LogShape
  BY <1>1, <1>2 DEF LogShape, ServedCopies, Log!Prefix
<1>4. NothingSkipped
  BY <1>1, <1>2 DEF NothingSkipped
<1>5. QED
  BY <1>3, <1>4, InitIInv DEF Init, PrefixInv, NothingBehind

\* A round that has dealt with every slot up to Done writes the prefix Done.
LEMMA WrittenPrefix ==
    ASSUME ConstantsAssumption, PrefixInv, pc # "idle", WriteSession
    PROVE  ServedCopies' = Log!Prefix(Done)
<1>1. copies' = [s \in Paying |-> copies[s] + pend[s]]
  BY DEF WriteSession
<1>2. \A s \in Served : copies[s] + pend[s] = IF s <= Done THEN 1 ELSE 0
  <2>1. Paying \subseteq Nat /\ Done \in Int
    BY DEF ConstantsAssumption, PrefixInv, IInv, TypeOK, Done
  <2>2. QED
    BY <2>1 DEF PrefixInv, IInv, NothingAhead, NothingBehind, Served
<1>3. QED
  BY <1>1, <1>2 DEF ServedCopies, Served, Log!Prefix

\* It skips nothing either: whatever it writes is not beyond Done.
LEMMA WrittenWhole ==
    ASSUME ConstantsAssumption, PrefixInv, pc # "idle", WriteSession
    PROVE  NothingSkipped'
<1>1. /\ Paying \subseteq Nat /\ Served \subseteq Paying /\ Done \in Int
      /\ copies \in [Paying -> Nat] /\ pend \in [Paying -> Nat]
  BY DEF ConstantsAssumption, PrefixInv, IInv, TypeOK, Served, Done
<1>2. \A s \in Paying : copies'[s] = copies[s] + pend[s]
  BY DEF WriteSession
<1>3. \A t \in Paying : copies'[t] > 0 => t <= Done
  BY <1>1, <1>2 DEF PrefixInv, IInv, NothingAhead
<1>4. \A s \in Served : s <= Done => copies'[s] > 0
  BY <1>1, <1>2 DEF PrefixInv, NothingBehind
<1>5. QED
  BY <1>1, <1>3, <1>4 DEF NothingSkipped

\* A round reaches as far as the head it read, which is final.
LEMMA DoneIsFinal ==
    ASSUME ConstantsAssumption, IInv, pc \in {"fetch", "commit"}
    PROVE  Done \in -1 .. final
  BY DEF IInv, TypeOK, RoundBounds, Done, ConstantsAssumption

LEMMA PrefixStep ==
    ASSUME ConstantsAssumption, PrefixInv, [Next]_vars PROVE PrefixInv'
<1>0. /\ IInv /\ IInv' /\ TypeOK /\ TypeOK' /\ Paying \subseteq Nat
      /\ final \in Nat /\ final' \in Nat /\ Served \subseteq Paying
  BY IInvStep DEF PrefixInv, IInv, ConstantsAssumption, TypeOK, Served
<1>1. missing' \subseteq Gaps
  BY DEF PrefixInv, Next, Indexer, Finalize, NodeSync, StartRound, RaiseUnbound,
         FetchNothing, FetchBlock, AddAddress, InsertWithdrawals, Commit,
         FinishRound, Interrupt, vars, env
<1>2. CASE Commit \/ FinishRound
  <2>1. pc \in {"fetch", "commit"} /\ final' = final /\ WriteSession
    BY <1>2 DEF Commit, FinishRound, env
  <2>2. LogShape'
    BY <1>0, <2>1, WrittenPrefix, DoneIsFinal DEF LogShape, Log!Prefix
  <2>3. NothingBehind'
    <3>1. CASE Commit
      BY <1>0, <3>1, WriteKeepsCounts
         DEF Commit, PrefixInv, NothingBehind, Done, TypeOK
    <3>2. CASE FinishRound
      BY <3>2 DEF FinishRound, NothingBehind
    <3>3. QED
      BY <1>2, <3>1, <3>2
  <2>4. QED
    BY <1>0, <1>1, <2>1, <2>2, <2>3, WrittenWhole DEF PrefixInv
<1>3. CASE ~ (Commit \/ FinishRound)
  <2>1. copies' = copies /\ final <= final'
    <3>1. CASE Finalize
      BY <1>0, <3>1 DEF Finalize, table, ConstantsAssumption
    <3>2. CASE ~ Finalize
      BY <1>0, <1>3, <3>2 DEF Next, Indexer, NodeSync, StartRound, RaiseUnbound,
             FetchNothing, FetchBlock, AddAddress, InsertWithdrawals, Interrupt,
             vars, env, table
    <3>3. QED
      BY <3>1, <3>2
  <2>2. LogShape'
    <3>1. PICK n \in -1 .. final : ServedCopies = Log!Prefix(n)
      BY DEF PrefixInv, LogShape
    <3>2. n \in -1 .. final'
      BY <1>0, <2>1
    <3>3. QED
      BY <2>1, <3>1, <3>2 DEF LogShape, ServedCopies, Log!Prefix
  <2>3. NothingBehind'
    <3>1. CASE StartRound
      <4>1. PICK s \in Stored : cursor' = s + 1
        BY <3>1 DEF StartRound, ResumeSlot
      <4>2. pc' = "fetch" /\ pend' = Nothing
        BY <3>1, <1>0 DEF StartRound, IInv, NothingAhead
      <4>3. Done' = s
        BY <1>0, <4>1, <4>2 DEF Done, Stored
      <4>4. \A t \in Served : t <= s => copies[t] > 0
        BY <1>0, <4>1 DEF Stored, PrefixInv, NothingSkipped
      <4>5. \A t \in Served : t <= s => copies'[t] + pend'[t] = 1
        BY <1>0, <2>1, <4>2, <4>4 DEF Nothing, AtMostOnce, IInv, TypeOK
      <4>6. QED
        BY <4>3, <4>5 DEF NothingBehind
    <3>2. CASE FetchNothing
      <4>1. cursor \notin Served /\ pc = "fetch" /\ pc' = pc
        BY <3>2 DEF FetchNothing, Fetching, PrefixInv, Served
      <4>2. cursor' = cursor + 1 /\ pend' = pend
        BY <3>2 DEF FetchNothing
      <4>3. QED
        BY <1>0, <4>1, <4>2, <2>1 DEF PrefixInv, NothingBehind, Done, TypeOK
    <3>3. CASE InsertWithdrawals
      <4>1. /\ pc = "resolve" /\ cursor \in Paying
            /\ pend' = [pend EXCEPT ![cursor] = @ + 1]
            /\ \/ pc' = "commit" /\ cursor' = cursor
               \/ pc' = "fetch" /\ cursor' = cursor + 1
        BY <1>0, <3>3 DEF InsertWithdrawals, TypeOK
      <4>2. copies[cursor] + pend[cursor] = 0
        BY <1>0, <4>1 DEF IInv, NothingAhead, Done, TypeOK
      <4>3. \A s \in Paying : copies'[s] + pend'[s] =
                IF s = cursor THEN 1 ELSE copies[s] + pend[s]
        BY <1>0, <2>1, <4>1, <4>2 DEF TypeOK
      <4>4. Done' = cursor /\ Done = cursor - 1
        <5>1. cursor \in Int
          BY <1>0 DEF TypeOK
        <5>2. CASE pc' = "commit" /\ cursor' = cursor
          BY <5>2, <4>1 DEF Done
        <5>3. CASE pc' = "fetch" /\ cursor' = cursor + 1
          BY <5>1, <5>3, <4>1 DEF Done
        <5>4. QED
          BY <4>1, <5>2, <5>3
      <4>5. QED
        BY <1>0, <4>1, <4>3, <4>4 DEF PrefixInv, NothingBehind, TypeOK
    <3>4. CASE Interrupt
      BY <3>4 DEF Interrupt, NothingBehind
    <3>5. ASSUME NEW a \in Addresses, AddAddress(a) PROVE NothingBehind'
      BY <3>5, <2>1 DEF AddAddress, PrefixInv, NothingBehind, Done
    <3>6. CASE FetchBlock
      BY <3>6, <2>1 DEF FetchBlock, Fetching, PrefixInv, NothingBehind, Done
    <3>7. CASE Finalize \/ NodeSync \/ RaiseUnbound \/ UNCHANGED vars
      BY <3>7, <2>1 DEF Finalize, NodeSync, RaiseUnbound, vars, PrefixInv,
                        NothingBehind, Done
    <3>8. QED
      BY <1>3, <3>1, <3>2, <3>3, <3>4, <3>5, <3>6, <3>7 DEF Next, Indexer
  <2>4. QED
    BY <1>0, <1>1, <2>1, <2>2, <2>3 DEF PrefixInv, NothingSkipped
<1>4. QED
  BY <1>2, <1>3

LEMMA LogStep ==
    ASSUME ConstantsAssumption, PrefixInv, [Next]_vars
    PROVE  [Log!Next]_(Log!lvars)
<1>0. IInv /\ TypeOK /\ Paying \subseteq Nat /\ final \in Nat
  BY DEF PrefixInv, IInv, ConstantsAssumption, TypeOK
<1>1. CASE Commit \/ FinishRound
  <2>1. pc \in {"fetch", "commit"} /\ final' = final /\ WriteSession
    BY <1>1 DEF Commit, FinishRound, env
  <2>2. ServedCopies' = Log!Prefix(Done) /\ Done \in -1 .. final
    BY <1>0, <2>1, WrittenPrefix, DoneIsFinal
  <2>3. \A s \in Served : ServedCopies[s] <= ServedCopies'[s]
    BY <1>0, <2>1 DEF WriteSession, TypeOK, ServedCopies, Served
  <2>4. Log!Extend
    BY <2>1, <2>2, <2>3 DEF Log!Extend, Log!Prefix, ServedCopies
  <2>5. QED
    BY <2>4 DEF Log!Next
<1>2. CASE Finalize
  BY <1>0, <1>2 DEF Finalize, table, ConstantsAssumption, Log!Next, Log!Advance
<1>3. CASE ~ (Commit \/ FinishRound \/ Finalize)
  BY <1>3 DEF Next, Indexer, NodeSync, StartRound, RaiseUnbound, FetchNothing,
              FetchBlock, AddAddress, InsertWithdrawals, Interrupt, vars, env,
              table, Log!lvars
<1>4. QED
  BY <1>1, <1>2, <1>3

\* No round leaves a served block behind a stored one.
THEOREM NoneSkipped == Spec => []NothingSkipped
<1>1. ConstantsAssumption /\ Init => PrefixInv
  BY PrefixInit
<1>2. ConstantsAssumption /\ PrefixInv /\ [Next]_vars => PrefixInv'
  BY PrefixStep
<1>3. PrefixInv => NothingSkipped
  BY DEF PrefixInv
<1>4. QED
  BY <1>1, <1>2, <1>3, ConstantsAssumption, PTL DEF Spec

\* The part of the table that comes from the blocks the node has is at every
\* moment the withdrawals of all of them up to some finalized slot, each once,
\* and it only moves forward: interruptions at any point included.
THEOREM WithdrawalsImplementLog == Spec => ImplementsLog
<1>1. ConstantsAssumption /\ Init => PrefixInv
  BY PrefixInit
<1>2. ConstantsAssumption /\ PrefixInv /\ [Next]_vars => PrefixInv'
  BY PrefixStep
<1>3. PrefixInv => Log!Init
  BY DEF PrefixInv, IInv, TypeOK, LogShape, ServedCopies, Log!Init
<1>4. ConstantsAssumption /\ PrefixInv /\ [Next]_vars => [Log!Next]_(Log!lvars)
  BY LogStep
<1>5. QED
  BY <1>1, <1>2, <1>3, <1>4, ConstantsAssumption, PTL
     DEF Spec, ImplementsLog, Log!Spec
=============================================================================
