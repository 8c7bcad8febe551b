----------------------- MODULE RocketPoolIndexerProofs -----------------------
(***************************************************************************)
(* Proofs about RocketPoolIndexer. TypeCorrect, with the foreign keys of   *)
(* the tables, holds whatever fails; ScanComplete needs that no eth_call   *)
(* is swallowed and that Infura is not behind the local node, the two ways *)
(* in which a round passes over something it should have stored.           *)
(*                                                                         *)
(* The second part is about the range of logs a round reads, LogRange, for *)
(* any range, size of chunk, provider and depth of the recursion: a block  *)
(* leaves the stack of calls only when a query has returned its logs, as   *)
(* the two parts of a call cover it wherever it is cut.                    *)
(***************************************************************************)
EXTENDS RocketPoolIndexer, LogRange, SequenceTheorems, WellFoundedInduction, TLAPS

LEMMA InitType == ASSUME ConstantsAssumption, Init PROVE TypeOK
  BY DEF ConstantsAssumption, Init, TypeOK, Stages

LEMMA TypeStep == ASSUME ConstantsAssumption, TypeOK, [Next]_vars PROVE TypeOK'
<1>0. /\ head \in Nat /\ current \in 0 .. head /\ last \in 0 .. current
      /\ faults \in 0 .. MaxFaults /\ MaxFaults \in Nat /\ LastBlock \in Nat
      /\ head <= LastBlock /\ ended \in 0 .. LastPeriod /\ LastPeriod \in Nat
  BY DEF TypeOK, ConstantsAssumption
<1>1. CASE NewBlock
  BY <1>0, <1>1 DEF NewBlock, TypeOK, tables
<1>2. CASE EndPeriod
  BY <1>0, <1>2 DEF EndPeriod, TypeOK, tables
<1>3. CASE StartRound
  BY <1>0, <1>3 DEF StartRound, TypeOK, chain, tables, Stages
<1>4. CASE IndexNodes
  BY <1>0, <1>4 DEF IndexNodes, TypeOK, chain, Stages
<1>5. ASSUME NEW lag \in 0 .. MaxLag, NEW lost \in SUBSET Minipools,
             IndexMinipools(lag, lost)
      PROVE  TypeOK'
  <2>1. NewMinipools(lag) \subseteq {m \in Minipools : NodeOf[m] \in nodes}
    BY DEF NewMinipools
  <2>2. QED
    BY <1>0, <1>5, <2>1 DEF IndexMinipools, TypeOK, chain, Stages
<1>6. ASSUME NEW lag \in 0 .. MaxLag, MinipoolTwice(lag) PROVE TypeOK'
  BY <1>0, <1>6 DEF MinipoolTwice, TypeOK, chain, tables, Stages
<1>7. ASSUME NEW lag \in 0 .. MaxLag, IndexReductions(lag) PROVE TypeOK'
  BY <1>0, <1>7 DEF IndexReductions, TypeOK, chain, Stages
<1>8. ASSUME NEW lag \in 0 .. MaxLag, NEW seen \in Seen(lag), IndexPeriods(seen)
      PROVE  TypeOK'
  <2>1. NewPeriods(seen) \subseteq 0 .. ended - 1
    BY <1>0 DEF NewPeriods, Seen
  <2>2. /\ periods' = periods \cup NewPeriods(seen) /\ last' = current /\ pc' = "idle"
        /\ UNCHANGED <<head, ended, nodes, minipools, reductions, current, faults>>
    BY <1>8 DEF IndexPeriods, chain
  <2>3. periods' \subseteq 0 .. ended - 1
    BY <2>1, <2>2 DEF TypeOK
  <2>4. QED
    BY <1>0, <2>2, <2>3 DEF TypeOK, Stages
<1>9. ASSUME NEW lag \in 0 .. MaxLag, NEW seen \in Seen(lag), PeriodTwice(seen)
      PROVE  TypeOK'
  BY <1>0, <1>9 DEF PeriodTwice, TypeOK, chain, tables, Stages
<1>10. CASE Fail
  BY <1>0, <1>10 DEF Fail, TypeOK, chain, tables, Stages
<1>11. CASE Restart
  BY <1>0, <1>11 DEF Restart, TypeOK, chain, tables, Stages
<1>12. CASE UNCHANGED vars
  BY <1>12 DEF vars, chain, tables, TypeOK
<1>13. QED
  BY <1>1, <1>2, <1>3, <1>4, <1>5, <1>6, <1>7, <1>8, <1>9, <1>10, <1>11, <1>12
     DEF Next, Indexing

\* The tables' foreign keys hold, and the last block indexed is never ahead of
\* the round, nor the round of the chain, whatever fails and whenever the
\* process restarts.
THEOREM TypeCorrect == ASSUME ConstantsAssumption PROVE Spec => []TypeOK
<1>1. Init => TypeOK
  BY InitType
<1>2. TypeOK /\ [Next]_vars => TypeOK'
  BY TypeStep
<1>3. QED
  BY <1>1, <1>2, PTL DEF Spec

-----------------------------------------------------------------------------
NoLoss == ~Swallows /\ MaxLag = 0

\* What a stage leaves for the stages after it: everything up to the round's
\* block, so that the last block indexed may move there when the round ends.
StagesDone ==
    /\ pc \in {"minipools", "reductions", "periods"} =>
           \A n \in Nodes : RegisteredAt[n] <= current => n \in nodes
    /\ pc \in {"reductions", "periods"} =>
           \A m \in Minipools : CreatedAt[m] <= current => m \in minipools
    /\ pc = "periods" =>
           \A r \in Reductions : ReducedAt[r] <= current => r \in reductions

IInv == TypeOK /\ ScannedIsStored /\ StagesDone

LEMMA InitScan == ASSUME ConstantsAssumption, Init PROVE IInv
<1>1. /\ \A m \in Minipools : CreatedAt[m] \in 1 .. LastBlock
      /\ \A r \in Reductions : ReducedAt[r] \in 1 .. LastBlock
  BY DEF ConstantsAssumption
<1>2. ScannedIsStored /\ StagesDone
  BY <1>1 DEF Init, ScannedIsStored, StagesDone
<1>3. QED
  BY <1>2, InitType DEF IInv

LEMMA ScanStep ==
    ASSUME ConstantsAssumption, NoLoss, IInv, [Next]_vars PROVE IInv'
<1>0. /\ head \in Nat /\ current \in 0 .. head /\ last \in 0 .. current
      /\ \A m \in Minipools : CreatedAt[m] \in 1 .. LastBlock
      /\ \A r \in Reductions : ReducedAt[r] \in 1 .. LastBlock
      /\ \A n \in Nodes : RegisteredAt[n] \in 1 .. LastBlock
      /\ LastBlock \in Nat
  BY DEF IInv, TypeOK, ConstantsAssumption
<1>1. TypeOK'
  BY TypeStep DEF IInv
<1> SUFFICES ScannedIsStored' /\ StagesDone'
  BY <1>1 DEF IInv
<1>2. CASE NewBlock
  BY <1>2 DEF NewBlock, tables, IInv, ScannedIsStored, StagesDone
<1>3. CASE EndPeriod
  BY <1>3 DEF EndPeriod, tables, IInv, ScannedIsStored, StagesDone
<1>4. CASE StartRound
  BY <1>4 DEF StartRound, tables, IInv, ScannedIsStored, StagesDone
<1>5. CASE IndexNodes
  BY <1>5 DEF IndexNodes, IInv, ScannedIsStored, StagesDone
<1>6. ASSUME NEW lag \in 0 .. MaxLag, NEW lost \in SUBSET Minipools,
             IndexMinipools(lag, lost)
      PROVE  ScannedIsStored' /\ StagesDone'
  <2>1. lag = 0 /\ lost = {}
    BY <1>6 DEF NoLoss, IndexMinipools
  <2>2. /\ pc = "minipools" /\ pc' = "reductions"
        /\ minipools' = minipools \cup NewMinipools(0)
        /\ UNCHANGED <<nodes, reductions, current, last>>
    BY <1>6, <2>1 DEF IndexMinipools
  <2>3. ASSUME NEW m \in Minipools, CreatedAt[m] <= current
        PROVE  m \in minipools'
    <3>1. CASE CreatedAt[m] <= last
      BY <2>2, <3>1 DEF IInv, ScannedIsStored
    <3>2. CASE last < CreatedAt[m]
      <4>1. NodeOf[m] \in Nodes /\ RegisteredAt[NodeOf[m]] <= CreatedAt[m]
        BY DEF ConstantsAssumption
      <4>2. RegisteredAt[NodeOf[m]] <= current
        BY <1>0, <2>3, <4>1
      <4>3. NodeOf[m] \in nodes
        BY <2>2, <4>1, <4>2 DEF IInv, StagesDone
      <4>4. Scanned(CreatedAt[m], 0)
        BY <1>0, <2>3, <3>2 DEF Scanned
      <4>5. QED
        BY <2>2, <4>3, <4>4 DEF NewMinipools
    <3>3. QED
      BY <1>0, <3>1, <3>2
  <2>4. QED
    BY <2>2, <2>3 DEF IInv, ScannedIsStored, StagesDone
<1>7. ASSUME NEW lag \in 0 .. MaxLag, MinipoolTwice(lag)
      PROVE  ScannedIsStored' /\ StagesDone'
  BY <1>7 DEF MinipoolTwice, tables, IInv, ScannedIsStored, StagesDone
<1>8. ASSUME NEW lag \in 0 .. MaxLag, IndexReductions(lag)
      PROVE  ScannedIsStored' /\ StagesDone'
  <2>1. lag = 0
    BY DEF NoLoss
  <2>2. /\ pc = "reductions" /\ pc' = "periods"
        /\ reductions' = reductions \cup
             {r \in Reductions : Scanned(ReducedAt[r], 0) /\ MinipoolOf[r] \in minipools}
        /\ UNCHANGED <<nodes, minipools, current, last>>
    BY <1>8, <2>1 DEF IndexReductions
  <2>3. ASSUME NEW r \in Reductions, ReducedAt[r] <= current
        PROVE  r \in reductions'
    <3>1. CASE ReducedAt[r] <= last
      BY <2>2, <3>1 DEF IInv, ScannedIsStored
    <3>2. CASE last < ReducedAt[r]
      <4>1. MinipoolOf[r] \in Minipools /\ CreatedAt[MinipoolOf[r]] <= ReducedAt[r]
        BY DEF ConstantsAssumption
      <4>2. CreatedAt[MinipoolOf[r]] <= current
        BY <1>0, <2>3, <4>1
      <4>3. MinipoolOf[r] \in minipools
        BY <2>2, <4>1, <4>2 DEF IInv, StagesDone
      <4>4. Scanned(ReducedAt[r], 0)
        BY <1>0, <2>3, <3>2 DEF Scanned
      <4>5. QED
        BY <2>2, <4>3, <4>4
    <3>3. QED
      BY <1>0, <3>1, <3>2
  <2>4. QED
    BY <2>2, <2>3 DEF IInv, ScannedIsStored, StagesDone
<1>9. ASSUME NEW lag \in 0 .. MaxLag, NEW seen \in Seen(lag), IndexPeriods(seen)
      PROVE  ScannedIsStored' /\ StagesDone'
  BY <1>9 DEF IndexPeriods, IInv, ScannedIsStored, StagesDone
<1>10. ASSUME NEW lag \in 0 .. MaxLag, NEW seen \in Seen(lag), PeriodTwice(seen)
      PROVE  ScannedIsStored' /\ StagesDone'
  BY <1>10 DEF PeriodTwice, tables, IInv, ScannedIsStored, StagesDone
<1>11. CASE Fail
  BY <1>11 DEF Fail, tables, IInv, ScannedIsStored, StagesDone
<1>12. CASE Restart
  BY <1>0, <1>12 DEF Restart, tables, IInv, ScannedIsStored, StagesDone
<1>13. CASE UNCHANGED vars
  BY <1>13 DEF vars, tables, IInv, ScannedIsStored, StagesDone
<1>14. QED
  BY <1>2, <1>3, <1>4, <1>5, <1>6, <1>7, <1>8, <1>9, <1>10, <1>11, <1>12, <1>13
     DEF Next, Indexing

\* When no failed eth_call is swallowed and Infura keeps up with the local node,
\* everything up to the last block indexed is in the tables, wherever rounds
\* fail: a round that fails does not move the last block.
THEOREM ScanComplete ==
    ASSUME ConstantsAssumption, NoLoss PROVE Spec => []ScannedIsStored
<1>1. Init => IInv
  BY InitScan
<1>2. IInv /\ [Next]_vars => IInv'
  BY ScanStep
<1>3. IInv => ScannedIsStored
  BY DEF IInv
<1>4. QED
  BY <1>1, <1>2, <1>3, PTL DEF Spec

-----------------------------------------------------------------------------
\* The periods stored are those before some period that has not ended later.
Contiguous == \E h \in 0 .. ended : periods = 0 .. h - 1

LEMMA ResumePeriod ==
    ASSUME NEW h \in Nat, h > 1, periods = 0 .. h - 1
    PROVE  StartPeriod = h
<1>1. \A q \in periods : q <= h - 1
  OBVIOUS
<1>2. h - 1 \in periods
  OBVIOUS
<1>3. LastStored(periods) \in periods /\ h - 1 <= LastStored(periods)
  BY <1>1, <1>2 DEF LastStored
<1>4. LastStored(periods) = h - 1
  BY <1>1, <1>3
<1>5. periods # {} /\ periods # {0}
  BY <1>2
<1>6. QED
  BY <1>4, <1>5 DEF StartPeriod

LEMMA ContiguousStep ==
    ASSUME ConstantsAssumption, TypeOK, Contiguous, [Next]_vars PROVE Contiguous'
<1>0. ended \in 0 .. LastPeriod /\ LastPeriod \in Nat
  BY DEF TypeOK, ConstantsAssumption
<1>1. PICK h \in 0 .. ended : periods = 0 .. h - 1
  BY DEF Contiguous
<1>2. ASSUME NEW lag \in 0 .. MaxLag, NEW seen \in Seen(lag), IndexPeriods(seen)
      PROVE  Contiguous'
  <2>0. seen \in 0 .. ended
    BY <1>0, <1>2 DEF Seen
  <2>1. periods' = periods \cup NewPeriods(seen) /\ ended' = ended
    BY <1>2 DEF IndexPeriods, chain
  <2>2. CASE h = 0
    <3>1. periods = {} /\ StartPeriod = 0
      BY <1>1, <2>2 DEF StartPeriod
    <3>2. periods' = 0 .. seen - 1
      BY <1>0, <2>0, <2>1, <3>1 DEF NewPeriods
    <3>3. QED
      BY <1>0, <2>0, <2>1, <3>2 DEF Contiguous
  <2>3. CASE h = 1
    <3>1. periods = {0} /\ StartPeriod = 0 /\ 0 < ended
      BY <1>0, <1>1, <2>3 DEF StartPeriod
    <3>2. CASE seen > 0
      <4>1. 0 \in Duplicates(seen)
        BY <1>0, <2>0, <3>1, <3>2 DEF NewPeriods, Duplicates
      <4>2. QED
        BY <1>2, <4>1 DEF IndexPeriods
    <3>3. CASE seen = 0
      <4>1. periods' = periods
        BY <2>1, <3>3 DEF NewPeriods
      <4>2. QED
        BY <1>1, <2>1, <4>1 DEF Contiguous
    <3>4. QED
      BY <2>0, <3>2, <3>3
  <2>4. CASE h > 1
    <3>1. StartPeriod = h
      BY <1>1, <2>4, ResumePeriod
    <3>2. CASE seen > h
      <4>1. periods' = 0 .. seen - 1
        BY <1>0, <1>1, <2>0, <2>1, <3>1, <3>2 DEF NewPeriods
      <4>2. QED
        BY <2>0, <2>1, <4>1 DEF Contiguous
    <3>3. CASE seen <= h
      <4>1. periods' = periods
        BY <1>0, <1>1, <2>0, <2>1, <3>1, <3>3 DEF NewPeriods
      <4>2. QED
        BY <1>1, <2>1, <4>1 DEF Contiguous
    <3>4. QED
      BY <1>1, <2>0, <3>2, <3>3
  <2>5. QED
    BY <1>0, <1>1, <2>2, <2>3, <2>4
<1>3. CASE EndPeriod
  <2>1. periods' = periods /\ h \in 0 .. ended'
    BY <1>0, <1>1, <1>3 DEF EndPeriod, tables
  <2>2. QED
    BY <1>1, <2>1 DEF Contiguous
<1>4. CASE /\ ~ \E lag \in 0 .. MaxLag : \E seen \in Seen(lag) : IndexPeriods(seen)
           /\ ~EndPeriod
  <2>1. UNCHANGED <<periods, ended>>
    BY <1>4 DEF Next, Indexing, NewBlock, StartRound, IndexNodes, IndexMinipools,
                MinipoolTwice, IndexReductions, PeriodTwice, Fail, Restart,
                vars, chain, tables
  <2>2. QED
    BY <2>1 DEF Contiguous
<1>5. QED
  BY <1>2, <1>3, <1>4

\* Whatever fails, and even though period 0 counts as none, the reward periods
\* stored have no hole: a round that starts again at 0 adds everything or fails.
THEOREM PeriodsContiguous ==
    ASSUME ConstantsAssumption PROVE Spec => []PeriodsHaveNoHoles
<1>1. Init => TypeOK /\ Contiguous
  <2>1. Init => \E h \in 0 .. ended : h = 0 /\ periods = 0 .. h - 1
    BY DEF Init, ConstantsAssumption
  <2>2. QED
    BY <2>1, InitType DEF Contiguous
<1>2. (TypeOK /\ Contiguous) /\ [Next]_vars => (TypeOK /\ Contiguous)'
  BY TypeStep, ContiguousStep
<1>3. TypeOK /\ Contiguous => PeriodsHaveNoHoles
  BY DEF TypeOK, Contiguous, PeriodsHaveNoHoles
<1>4. QED
  BY <1>1, <1>2, <1>3, PTL DEF Spec

-----------------------------------------------------------------------------
(***************************************************************************)
(* The logs a round reads: one run of LogRange, for the blocks 0 .. End.   *)
(***************************************************************************)
ACall == [from : Int, to : Int, depth : Int]

LogsTypes == todo \in Seq(ACall) /\ fetched \in [Blocks -> Nat]

InCall(b, call) == b \in call.from .. call.to

LogsInv == LogsTypes /\ NothingMissed

LEMMA DivMeans ==
    ASSUME NEW L \in Nat \ {0}, NEW n \in Nat
    PROVE  n \div L \in Nat /\ L * (n \div L) <= n /\ n < L * (n \div L) + L
  OBVIOUS

LEMMA DivGrows ==
    ASSUME NEW L \in Nat \ {0}, NEW m \in Nat, NEW n \in Nat, m <= n
    PROVE  m \div L <= n \div L
<1>1. /\ m \div L \in Nat /\ n \div L \in Nat
      /\ L * (m \div L) <= m /\ n < L * (n \div L) + L
  BY DivMeans
<1>2. SUFFICES ASSUME n \div L < m \div L PROVE FALSE
  BY <1>1
<1>3. L * ((m \div L) - (n \div L) - 1) >= 0
  BY <1>1, <1>2
<1>4. L * (m \div L) >= L * (n \div L) + L
  BY <1>1, <1>3
<1>5. QED
  BY <1>1, <1>4

\* Every block of the range is in a chunk, the last ones too.
LEMMA ChunksCover ==
    ASSUME RangeAssumption
    PROVE  /\ Chunks \in Seq(ACall)
           /\ \A b \in Blocks : \E i \in 1 .. Len(Chunks) : InCall(b, Chunks[i])
<1> DEFINE n == (End \div MaxBlockRange) + 1
<1>1. MaxBlockRange \in Nat \ {0} /\ End \in Nat /\ n \in Nat
  BY DivMeans DEF RangeAssumption
<1>2. \A i \in 1 .. n :
        Call((i - 1) * MaxBlockRange, ChunkEnd((i - 1) * MaxBlockRange), 1) \in ACall
  BY <1>1 DEF Call, ACall, ChunkEnd
<1>3. Chunks \in Seq(ACall) /\ Len(Chunks) = n
  BY <1>1, <1>2 DEF Chunks
<1>4. ASSUME NEW b \in Blocks PROVE \E i \in 1 .. n : InCall(b, Chunks[i])
  <2> DEFINE q == b \div MaxBlockRange
  <2>1. b \in Nat /\ b <= End
    BY <1>1, <1>4 DEF Blocks
  <2>2. q \in Nat /\ MaxBlockRange * q <= b /\ b < MaxBlockRange * q + MaxBlockRange
    BY <1>1, <2>1, DivMeans
  <2>3. q + 1 \in 1 .. n
    BY <1>1, <2>1, <2>2, DivGrows
  <2>4. Chunks[q + 1] = Call(q * MaxBlockRange, ChunkEnd(q * MaxBlockRange), 1)
    BY <1>1, <2>2, <2>3 DEF Chunks
  <2> HIDE DEF q
  <2>5. q * MaxBlockRange <= b /\ b <= ChunkEnd(q * MaxBlockRange)
    BY <1>1, <2>1, <2>2 DEF ChunkEnd
  <2>6. InCall(b, Chunks[q + 1])
    BY <1>1, <2>1, <2>2, <2>4, <2>5 DEF InCall, Call, ChunkEnd
  <2>7. QED
    BY <2>3, <2>6
<1>5. QED
  BY <1>3, <1>4

\* Every set of natural numbers that is not empty has a least one.
LEMMA LeastNat ==
    ASSUME NEW T, T \subseteq Nat, T # {}
    PROVE  \E x \in T : \A y \in T : x <= y
<1> DEFINE Less == OpToRel(<, Nat)
<1>1. IsWellFoundedOn(Less, Nat)
  BY NatLessThanWellFounded
<1>2. \A x, y \in Nat : y < x => <<y, x>> \in Less
  BY DEF OpToRel
<1> HIDE DEF Less
<1>3. PICK x \in T : \A y \in T : ~ (<<y, x>> \in Less)
  BY <1>1, WFMin
<1>4. \A u, y \in Nat : y < u \/ u <= y
  OBVIOUS
<1>5. \A u, y \in Nat : <<y, u>> \in Less \/ u <= y
  BY <1>2, <1>4, Zenon
<1>6. \A y \in T : x <= y
  BY <1>3, <1>5, Zenon
<1>7. QED
  BY <1>6

\* Where a call is cut is a block, whichever end the provider suggests.
LEMMA CutIsBlock ==
    ASSUME RangeAssumption, LogsTypes, todo # <<>>, NEW cut \in CutPoints
    PROVE  cut \in Int
<1> DEFINE call == Head(todo)
           S == Answerable(call)
<1>1. call \in ACall
  BY DEF LogsTypes
<1>2. Middle(call) \in Int
  BY <1>1 DEF Middle, ACall
<1>3. ASSUME S # {} PROVE Max(S) \in Int
  <2> DEFINE T == {call.to - b : b \in S}
  <2>1. \A b \in S : b \in Int /\ call.to - b \in Nat
    BY <1>1 DEF Answerable, ACall
  <2>2. PICK t \in T : \A u \in T : t <= u
    <3>1. T \subseteq Nat /\ T # {}
      BY <1>3, <2>1
    <3> HIDE DEF T
    <3>2. QED
      BY <3>1, LeastNat
  <2>3. PICK x \in S : t = call.to - x
    BY <2>2
  <2>4. \A y \in S : x >= y
    <3>1. ASSUME NEW y \in S PROVE x >= y
      <4>1. call.to - x <= call.to - y
        BY <2>2, <2>3
      <4>2. call.to \in Int /\ x \in Int /\ y \in Int
        BY <1>1, <2>1 DEF ACall
      <4> HIDE DEF call
      <4>3. QED
        BY <4>1, <4>2
    <3>2. QED
      BY <3>1
  <2>5. Max(S) \in S
    BY <2>4 DEF Max
  <2>6. QED
    BY <2>1, <2>5
<1>4. QED
  BY <1>2, <1>3 DEF CutPoints, Suggestions

Waiting(b, calls) == \E i \in 1 .. Len(calls) : InCall(b, calls[i])

LEMMA HeadAndTail ==
    ASSUME NEW s \in Seq(ACall), s # <<>>, NEW b
    PROVE  /\ Head(s) \in ACall /\ Tail(s) \in Seq(ACall)
           /\ Waiting(b, s) => InCall(b, Head(s)) \/ Waiting(b, Tail(s))
<1>1. /\ Head(s) = s[1] /\ Len(s) \in Nat /\ Len(Tail(s)) = Len(s) - 1
      /\ \A i \in 1 .. Len(Tail(s)) : Tail(s)[i] = s[i + 1]
  OBVIOUS
<1>2. ASSUME NEW i \in 1 .. Len(s), InCall(b, s[i])
      PROVE  InCall(b, Head(s)) \/ Waiting(b, Tail(s))
  <2>1. CASE i = 1
    BY <1>1, <1>2, <2>1
  <2>2. CASE i > 1
    <3>1. i - 1 \in 1 .. Len(Tail(s)) /\ Tail(s)[i - 1] = s[i]
      BY <1>1, <2>2
    <3>2. QED
      BY <1>2, <3>1 DEF Waiting
  <2>3. QED
    BY <2>1, <2>2
<1>3. QED
  BY <1>2 DEF Waiting

LEMMA PushedParts ==
    ASSUME NEW s \in Seq(ACall), NEW c1 \in ACall, NEW c2 \in ACall, NEW b
    PROVE  /\ <<c1, c2>> \o s \in Seq(ACall)
           /\ InCall(b, c1) \/ InCall(b, c2) \/ Waiting(b, s) => Waiting(b, <<c1, c2>> \o s)
<1> DEFINE t == <<c1, c2>> \o s
<1>1. /\ t \in Seq(ACall) /\ Len(t) = Len(s) + 2 /\ Len(s) \in Nat
      /\ t[1] = c1 /\ t[2] = c2
      /\ \A i \in 1 .. Len(s) : t[i + 2] = s[i]
  OBVIOUS
<1> HIDE DEF t
<1>2. ASSUME InCall(b, c1) \/ InCall(b, c2) PROVE Waiting(b, t)
  BY <1>1, <1>2 DEF Waiting
<1>3. ASSUME NEW i \in 1 .. Len(s), InCall(b, s[i]) PROVE Waiting(b, t)
  <2>1. i + 2 \in 1 .. Len(t) /\ InCall(b, t[i + 2])
    BY <1>1, <1>3
  <2>2. QED
    BY <2>1 DEF Waiting
<1>4. QED
  BY <1>1, <1>2, <1>3 DEF Waiting, t

LEMMA LogsBegin ==
    ASSUME RangeAssumption
    PROVE  LogsInit => LogsInv
<1>1. LogsInit => LogsTypes
  BY ChunksCover DEF LogsInit, LogsTypes
<1>2. LogsInit => NothingMissed
  BY ChunksCover DEF LogsInit, NothingMissed, InCall
<1>3. QED
  BY <1>1, <1>2 DEF LogsInv

LEMMA SplitStep ==
    ASSUME RangeAssumption, LogsInv, NEW cut \in CutPoints, Split(cut) PROVE LogsInv'
<1> DEFINE call == Head(todo)
<1>1. /\ todo \in Seq(ACall) /\ todo # <<>> /\ fetched' = fetched
      /\ todo' = Parts(call, cut) \o Tail(todo)
  BY DEF LogsInv, LogsTypes, Split
<1>2. call \in ACall /\ Tail(todo) \in Seq(ACall)
  BY <1>1, HeadAndTail
<1>3. cut \in Int
  BY <1>1, CutIsBlock DEF LogsInv
<1> DEFINE c1 == Call(call.from, cut, call.depth + 1)
           c2 == Call(cut, call.to, call.depth + 1)
<1>4. c1 \in ACall /\ c2 \in ACall /\ Parts(call, cut) = <<c1, c2>>
  BY <1>2, <1>3 DEF Parts, Call, ACall
<1>5. ASSUME NEW b \in Blocks, InCall(b, call) PROVE InCall(b, c1) \/ InCall(b, c2)
  BY <1>2, <1>3, <1>5 DEF RangeAssumption, InCall, Call, ACall, Blocks
<1> HIDE DEF c1, c2, call
<1>6. ASSUME NEW b \in Blocks, Waiting(b, todo) PROVE Waiting(b, todo')
  <2>1. InCall(b, call) \/ Waiting(b, Tail(todo))
    BY <1>1, <1>6, HeadAndTail DEF call
  <2>2. InCall(b, c1) \/ InCall(b, c2) \/ Waiting(b, Tail(todo))
    BY <1>5, <2>1
  <2>3. QED
    BY <1>1, <1>2, <1>4, <2>2, PushedParts
<1>7. todo' \in Seq(ACall)
  BY <1>1, <1>2, <1>4, PushedParts
<1>8. QED
  BY <1>1, <1>6, <1>7 DEF LogsInv, LogsTypes, NothingMissed, Waiting, InCall

LEMMA QueryStep ==
    ASSUME RangeAssumption, LogsInv, Query PROVE LogsInv'
<1> DEFINE call == Head(todo)
<1>1. /\ todo \in Seq(ACall) /\ todo # <<>> /\ todo' = Tail(todo)
      /\ fetched \in [Blocks -> Nat]
      /\ fetched' = [b \in Blocks |-> fetched[b] + (IF InCall(b, call) THEN 1 ELSE 0)]
  BY DEF LogsInv, LogsTypes, Query, InCall
<1> HIDE DEF call
<1>2. fetched' \in [Blocks -> Nat] /\ todo' \in Seq(ACall)
  BY <1>1, HeadAndTail
<1>3. ASSUME NEW b \in Blocks, fetched[b] > 0 \/ Waiting(b, todo)
      PROVE  fetched'[b] > 0 \/ Waiting(b, todo')
  <2>1. fetched[b] \in Nat /\ fetched'[b] = fetched[b] + (IF InCall(b, call) THEN 1 ELSE 0)
    BY <1>1
  <2>2. Waiting(b, todo) => InCall(b, call) \/ Waiting(b, todo')
    BY <1>1, HeadAndTail DEF call
  <2>3. QED
    BY <1>3, <2>1, <2>2
<1>4. QED
  BY <1>2, <1>3 DEF LogsInv, LogsTypes, NothingMissed, Waiting, InCall

\* However the provider cuts the ranges, a result misses no block.
THEOREM NoBlockMissed ==
    ASSUME RangeAssumption
    PROVE  LogsSpec => []NothingMissed
<1>1. LogsInv /\ [LogsNext]_logsVars => LogsInv'
  <2> SUFFICES ASSUME LogsInv, [LogsNext]_logsVars PROVE LogsInv'
    OBVIOUS
  <2>1. ASSUME GiveUp \/ ProviderFails \/ Return \/ UNCHANGED logsVars PROVE LogsInv'
    BY <2>1 DEF GiveUp, ProviderFails, Return, logsVars, LogsInv, LogsTypes, NothingMissed
  <2>2. QED
    BY <2>1, QueryStep, SplitStep DEF LogsNext
<1>2. LogsInv => NothingMissed
  BY DEF LogsInv
<1>3. QED
  BY <1>1, <1>2, LogsBegin, PTL DEF LogsSpec
=============================================================================
