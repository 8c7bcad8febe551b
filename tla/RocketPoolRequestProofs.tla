---------------------- MODULE RocketPoolRequestProofs ----------------------
(***************************************************************************)
(* Proofs about RocketPoolRequest, for every chain and every interleaving  *)
(* of a request with the indexers.                                         *)
(*                                                                         *)
(* The tables only grow and keep their foreign keys. So the minipools that *)
(* one query found are still joined with their validators and nodes when a *)
(* later query, in a transaction of its own, looks for fee distributors.   *)
(* What the node is paid needs sums over finite sets, and how the division *)
(* of a sum differs from the sum of the divisions.                         *)
(***************************************************************************)
EXTENDS RocketPoolRequest, FiniteSetTheorems, WellFoundedInduction, TLAPS

\* The tables and their foreign keys.
Keyed ==
    /\ validators \subseteq Validators /\ nodes \subseteq Nodes
    /\ minipools \subseteq {v \in Pools : NodeOf[v] \in nodes}
    /\ reductions \subseteq {r \in Reductions : r.pool \in minipools}
    /\ periods \subseteq Periods /\ withdrawals \subseteq Withdrawals
    /\ reward.failed \subseteq reward.stored /\ reward.stored \subseteq Proposals

\* What the request has read so far is still in the tables.
Read ==
    /\ pc \in {"idle", "withdrawals", "rewards", "minipools", "node_rewards",
               "distributors", "shares", "done"}
    /\ req.validators \subseteq Validators
    /\ all_withdrawals \subseteq withdrawals
    /\ \A b \in all_block_rewards : b.row \in reward.stored
    /\ DOMAIN pools \subseteq validators \cap minipools
    /\ node_rewards \subseteq Nodes \X Periods
    /\ fee_distributors \subseteq DOMAIN pools
    /\ answer.kind \in {"none", "error", "ok"}

\* From the query for the minipools on every validator of the request has one,
\* and in the end every one of them has a fee distributor.
Found ==
    /\ pc \in {"idle", "withdrawals", "rewards", "minipools"} => fee_distributors = {}
    /\ pc \in {"node_rewards", "distributors", "shares"} => req.validators = DOMAIN pools
    /\ pc = "shares" => fee_distributors = DOMAIN pools

IInv == Keyed /\ Read /\ Found

\* What an indexer's step does to the tables, whichever it is.
Grown ==
    /\ validators \subseteq validators' /\ nodes \subseteq nodes'
    /\ minipools \subseteq minipools' /\ reductions \subseteq reductions'
    /\ periods \subseteq periods' /\ withdrawals \subseteq withdrawals'
    /\ reward.stored \subseteq reward'.stored

LEMMA Initially == ChainAssumption /\ Init => IInv
<1> SUFFICES ASSUME ChainAssumption, Init PROVE IInv
  OBVIOUS
<1>1. Keyed
  BY DEF ChainAssumption, Pools, Init, Keyed
<1>2. Read /\ Found
  BY DEF Init, Read, Found, NoRequest, NoAnswer
<1>3. QED
  BY <1>1, <1>2 DEF IInv

LEMMA IndexersGrow ==
    ASSUME ChainAssumption, Keyed, Index
    PROVE  Keyed' /\ Grown
<1>1. ASSUME NEW known \in Validators, IndexValidators(known) PROVE Keyed' /\ Grown
  BY <1>1 DEF Keyed, Grown, IndexValidators
<1>2. ASSUME NEW n \in Nodes, IndexNode(n) PROVE Keyed' /\ Grown
  BY <1>2 DEF Keyed, Grown, IndexNode
<1>3. ASSUME NEW v \in Pools, IndexMinipool(v) PROVE Keyed' /\ Grown
  BY <1>3 DEF Keyed, Grown, IndexMinipool
<1>4. ASSUME NEW r \in Reductions, IndexReduction(r) PROVE Keyed' /\ Grown
  BY <1>4 DEF Keyed, Grown, IndexReduction
<1>5. ASSUME NEW p \in Periods, IndexPeriod(p) PROVE Keyed' /\ Grown
  BY <1>5 DEF Keyed, Grown, IndexPeriod
<1>6. ASSUME NEW w \in Withdrawals, IndexWithdrawal(w) PROVE Keyed' /\ Grown
  BY <1>6 DEF Keyed, Grown, IndexWithdrawal
<1>7. ASSUME NEW p \in Proposals, NEW failed \in BOOLEAN, IndexReward(p, failed)
      PROVE  Keyed' /\ Grown
  BY <1>7 DEF Keyed, Grown, IndexReward
<1>8. QED
  BY <1>1, <1>2, <1>3, <1>4, <1>5, <1>6, <1>7 DEF Index

LEMMA Indexing ==
    ASSUME ChainAssumption, IInv, Index, UNCHANGED request
    PROVE  IInv'
<1>1. Keyed' /\ Grown
  BY IndexersGrow DEF IInv
<1>2. UNCHANGED <<pc, req, all_withdrawals, all_block_rewards, pools, node_rewards,
                 fee_distributors, answer>>
  BY DEF request
<1>3. Read' /\ Found'
  BY <1>1, <1>2 DEF IInv, Read, Found, Grown
<1>4. QED
  BY <1>1, <1>3 DEF IInv

\* A step of the request leaves the tables alone.
LEMMA TablesKeyed ==
    ASSUME IInv, UNCHANGED tables
    PROVE  /\ Keyed' /\ Keyed
           /\ UNCHANGED <<validators, nodes, minipools, reductions, periods, withdrawals, reward>>
  BY DEF IInv, Keyed, tables

LEMMA Asking ==
    ASSUME ChainAssumption, IInv,
           NEW vs \in Requests, NEW start \in 0 .. Today, NEW end \in 0 .. Today,
           Receive(vs, start, end)
    PROVE  IInv'
<1>1. /\ pc = "idle" /\ pc' = "withdrawals" /\ req'.validators = vs
      /\ UNCHANGED <<tables, all_withdrawals, all_block_rewards, pools, node_rewards,
                     fee_distributors, answer>>
  BY DEF Receive
<1>2. vs \subseteq Validators
  BY DEF ChainAssumption
<1>3. Read' /\ Found'
  BY <1>1, <1>2, TablesKeyed DEF IInv, Read, Found
<1>4. QED
  BY <1>1, <1>3, TablesKeyed DEF IInv

LEMMA Reading ==
    ASSUME ChainAssumption, IInv,
           ReadWithdrawals \/ ReadRewards \/ ReadMinipools \/ ReadNodeRewards \/ ReadDistributors
    PROVE  IInv'
<1>1. CASE ReadWithdrawals
  <2>1. /\ pc = "withdrawals" /\ pc' = "rewards" /\ all_withdrawals' \subseteq withdrawals
        /\ UNCHANGED <<tables, req, all_block_rewards, pools, node_rewards,
                       fee_distributors, answer>>
    BY <1>1 DEF ReadWithdrawals, Requested
  <2>2. Read' /\ Found'
    BY <2>1, TablesKeyed DEF IInv, Read, Found
  <2>3. QED
    BY <2>1, <2>2, TablesKeyed DEF IInv
<1>2. CASE ReadRewards
  <2>1. /\ pc = "rewards" /\ pc' = "minipools"
        /\ UNCHANGED <<tables, req, all_withdrawals, pools, node_rewards,
                       fee_distributors, answer>>
    BY <1>2 DEF ReadRewards
  <2>2. \A b \in all_block_rewards' : b.row \in reward.stored
    BY <1>2 DEF ReadRewards, Requested
  <2>3. Read' /\ Found'
    BY <2>1, <2>2, TablesKeyed DEF IInv, Read, Found
  <2>4. QED
    BY <2>1, <2>3, TablesKeyed DEF IInv
<1>3. CASE ReadMinipools
  <2>1. /\ DOMAIN pools' = req.validators \cap validators \cap minipools
        /\ UNCHANGED <<tables, req, all_withdrawals, all_block_rewards, node_rewards,
                       fee_distributors>>
        /\ pc = "minipools"
    BY <1>3 DEF ReadMinipools
  <2>2. \/ pc' = "node_rewards" /\ answer' = answer /\ req.validators = DOMAIN pools'
        \/ pc' = "done" /\ answer'.kind = "error"
    BY <1>3, <2>1 DEF ReadMinipools, Finish, Error
  <2>3. fee_distributors = {}
    BY <2>1 DEF IInv, Found
  <2>4. Read' /\ Found'
    BY <2>1, <2>2, <2>3, TablesKeyed DEF IInv, Read, Found
  <2>5. QED
    BY <2>1, <2>4, TablesKeyed DEF IInv
<1>4. CASE ReadNodeRewards
  <2>1. /\ pc = "node_rewards" /\ pc' = "distributors"
        /\ UNCHANGED <<tables, req, all_withdrawals, all_block_rewards, pools,
                       fee_distributors, answer>>
    BY <1>4 DEF ReadNodeRewards
  <2>2. \A v \in DOMAIN pools : NodeOf[v] \in Nodes
    BY DEF IInv, Keyed, Read
  <2>3. node_rewards' \subseteq Nodes \X Periods
    BY <1>4, <2>2 DEF ReadNodeRewards, IInv, Keyed
  <2>4. Read' /\ Found'
    BY <2>1, <2>3, TablesKeyed DEF IInv, Read, Found
  <2>5. QED
    BY <2>1, <2>4, TablesKeyed DEF IInv
<1>5. CASE ReadDistributors
  <2>1. /\ pc = "distributors" /\ pc' = "shares"
        /\ fee_distributors' = {v \in DOMAIN pools \cap validators \cap minipools :
                                   NodeOf[v] \in nodes}
        /\ UNCHANGED <<tables, req, all_withdrawals, all_block_rewards, pools,
                       node_rewards, answer>>
    BY <1>5 DEF ReadDistributors
  <2>2. \A v \in DOMAIN pools : v \in validators \cap minipools /\ NodeOf[v] \in nodes
    BY DEF IInv, Keyed, Read
  <2>3. fee_distributors' = DOMAIN pools
    BY <2>1, <2>2
  <2>4. Read' /\ Found'
    BY <2>1, <2>3, TablesKeyed DEF IInv, Read, Found
  <2>5. QED
    BY <2>1, <2>4, TablesKeyed DEF IInv
<1>6. QED
  BY <1>1, <1>2, <1>3, <1>4, <1>5

LEMMA Inductive == ChainAssumption /\ IInv /\ [Next]_vars => IInv'
<1> SUFFICES ASSUME ChainAssumption, IInv, [Next]_vars PROVE IInv'
  OBVIOUS
<1>1. CASE \E vs \in Requests, start, end \in 0 .. Today : Receive(vs, start, end)
  BY <1>1, Asking
<1>2. CASE ReadWithdrawals \/ ReadRewards \/ ReadMinipools \/ ReadNodeRewards \/ ReadDistributors
  BY <1>2, Reading
<1>3. CASE Work
  <2>1. /\ pc' = "done" /\ answer'.kind \in {"error", "ok"}
        /\ UNCHANGED <<tables, req, all_withdrawals, all_block_rewards, pools,
                       node_rewards, fee_distributors>>
    <3>1. Error.kind = "error" /\ \A g : Paid(g).kind = "ok"
      BY DEF Error, Paid
    <3>2. QED
      BY <1>3, <3>1 DEF Work, Finish
  <2>2. Read' /\ Found'
    BY <2>1, TablesKeyed DEF IInv, Read, Found
  <2>3. QED
    BY <2>1, <2>2, TablesKeyed DEF IInv
<1>4. CASE pc # "done" /\ Index /\ UNCHANGED request
  BY <1>4, Indexing
<1>5. CASE UNCHANGED vars
  <2>1. UNCHANGED <<tables, pc, req, all_withdrawals, all_block_rewards, pools, node_rewards,
                    fee_distributors, answer>>
    BY <1>5 DEF vars, request
  <2>2. Read' /\ Found'
    BY <2>1, TablesKeyed DEF IInv, Read, Found
  <2>3. QED
    BY <2>1, <2>2, TablesKeyed DEF IInv
<1>6. QED
  BY <1>1, <1>2, <1>3, <1>4, <1>5 DEF Next

LEMMA Always == Spec => []IInv
<1>1. ChainAssumption /\ Init => IInv
  BY Initially
<1>2. ChainAssumption /\ IInv /\ [Next]_vars => IInv'
  BY Inductive
<1>3. QED
  BY <1>1, <1>2, ChainAssumption, PTL DEF Spec

\* The tables keep their foreign keys whatever order the indexers work in, and
\* the request holds nothing that is not stored.
THEOREM TypeCorrect == Spec => []TypeOK
<1>1. IInv => TypeOK
  BY DEF IInv, Keyed, Read, TypeOK
<1>2. QED
  BY <1>1, Always, PTL

\* The loops of the answer never miss a minipool or a fee distributor, though
\* four queries in transactions of their own collected them.
THEOREM LookupsNeverMiss == Spec => []LookupsSucceed
<1>1. IInv => LookupsSucceed
  BY DEF IInv, Found, LookupsSucceed
<1>2. QED
  BY <1>1, Always, PTL

-----------------------------------------------------------------------------
\* Every set of natural numbers that is not empty has a least one.
LEMMA LeastNat ==
    ASSUME NEW T, T \subseteq Nat, T # {}
    PROVE  \E x \in T : \A y \in T : x <= y
<1> DEFINE Less == OpToRel(<, Nat)
<1>1. IsWellFoundedOn(Less, Nat)
  BY NatLessThanWellFounded
<1>2. \A x, y \in Nat : y < x => <<y, x>> \in Less
  BY DEF OpToRel
<1> HIDE DEF Less
<1>3. PICK x \in T : \A y \in T : ~ (<<y, x>> \in Less)
  BY <1>1, WFMin
<1>4. \A u, y \in Nat : y < u \/ u <= y
  OBVIOUS
<1>5. \A u, y \in Nat : <<y, u>> \in Less \/ u <= y
  BY <1>2, <1>4, Zenon
<1>6. \A y \in T : x <= y
  BY <1>3, <1>5, Zenon
<1>7. QED
  BY <1>6

\* Of some bond reductions one is the most recent.
LEMMA MostRecent ==
    ASSUME NEW S, S # {}, \A r \in S : r.slot \in Slots
    PROVE  \E x \in S : \A y \in S : y.slot <= x.slot
<1> DEFINE Until(r) == StartSlot(Today) - r.slot
           T == {Until(r) : r \in S}
<1>1. StartSlot(Today) \in Nat
  BY DaysAssumption DEF StartSlot
<1>2. \A r \in S : r.slot \in Int /\ Until(r) \in Nat
  BY <1>1 DEF Slots
<1>3. PICK t \in T : \A u \in T : t <= u
  BY <1>2, LeastNat
<1>4. PICK x \in S : t = Until(x)
  BY <1>3
<1>5. \A y \in S : Until(x) <= Until(y)
  BY <1>3, <1>4
<1>6. QED
  BY <1>1, <1>2, <1>4, <1>5

\* The withdrawals of the answer belong to validators whose minipools were read,
\* each with reductions of its own.
Split ==
    /\ pc \in {"idle", "withdrawals"} => all_withdrawals = {}
    /\ \A w \in all_withdrawals : w.validator \in req.validators
    /\ \A v \in DOMAIN pools : pools[v] \subseteq {r \in Reductions : r.pool = v}
    /\ answer.kind = "ok" =>
         /\ pc = "done" /\ req.validators \subseteq DOMAIN pools
         /\ answer.withdrawals = [w \in all_withdrawals |-> WithdrawalShare(w)]

LEMMA SplitStep ==
    ASSUME ChainAssumption, IInv, Split, [Next]_vars PROVE Split'
<1>1. CASE \E vs \in Requests, start, end \in 0 .. Today : Receive(vs, start, end)
  <2>1. /\ pc = "idle" /\ pc' = "withdrawals"
        /\ UNCHANGED <<all_withdrawals, pools, answer>>
    BY <1>1 DEF Receive
  <2>2. QED
    BY <2>1 DEF Split
<1>2. CASE ReadWithdrawals
  <2>1. /\ pc = "withdrawals" /\ pc' = "rewards" /\ UNCHANGED <<req, pools, answer>>
        /\ \A w \in all_withdrawals' : w.validator \in req.validators
    BY <1>2 DEF ReadWithdrawals, Requested
  <2>2. QED
    BY <2>1 DEF Split
<1>3. CASE ReadMinipools
  <2>1. /\ pc = "minipools" /\ UNCHANGED <<req, all_withdrawals>>
        /\ pools' = [v \in req.validators \cap validators \cap minipools |->
                        {r \in reductions : r.pool = v}]
    BY <1>3 DEF ReadMinipools
  <2>2. reductions \subseteq Reductions
    BY DEF IInv, Keyed
  <2>3. \A v \in DOMAIN pools' : pools'[v] \subseteq {r \in Reductions : r.pool = v}
    BY <2>1, <2>2
  <2>4. pc' \in {"node_rewards", "done"} /\ answer'.kind # "ok"
    BY <1>3, <2>1 DEF ReadMinipools, Finish, Error, Split
  <2>5. QED
    BY <2>1, <2>3, <2>4 DEF Split
<1>4. CASE ReadRewards \/ ReadNodeRewards \/ ReadDistributors
  <2>1. /\ pc \notin {"idle", "done"} /\ pc' \notin {"idle", "withdrawals"}
        /\ UNCHANGED <<req, all_withdrawals, pools, answer>>
    BY <1>4 DEF ReadRewards, ReadNodeRewards, ReadDistributors
  <2>2. QED
    BY <2>1 DEF Split
<1>5. CASE Work
  <2>1. /\ pc = "shares" /\ pc' = "done" /\ UNCHANGED <<req, all_withdrawals, pools>>
    BY <1>5 DEF Work, Finish
  <2>2. CASE Refused
    <3>1. answer'.kind = "error"
      BY <1>5, <2>2 DEF Work, Finish, Error
    <3>2. QED
      BY <2>1, <3>1 DEF Split
  <2>3. CASE ~Refused
    <3>1. PICK glitches : answer' = Paid(glitches)
      BY <1>5, <2>3 DEF Work, Finish
    <3>2. answer'.withdrawals = [w \in all_withdrawals |-> WithdrawalShare(w)]
      BY <3>1 DEF Paid
    <3>3. req.validators \subseteq DOMAIN pools
      BY <2>3 DEF Refused
    <3>4. \A w : WithdrawalShare(w)' = WithdrawalShare(w)
      BY <2>1 DEF WithdrawalShare, TermsAt
    <3>5. QED
      BY <2>1, <3>2, <3>3, <3>4 DEF Split
  <2>4. QED
    BY <2>2, <2>3
<1>6. CASE (pc # "done" /\ Index /\ UNCHANGED request) \/ UNCHANGED vars
  <2>1. UNCHANGED <<pc, req, all_withdrawals, pools, answer>>
    BY <1>6 DEF request, vars
  <2>2. \A w : WithdrawalShare(w)' = WithdrawalShare(w)
    BY <2>1 DEF WithdrawalShare, TermsAt
  <2>3. QED
    BY <2>1, <2>2 DEF Split
<1>7. QED
  BY <1>1, <1>2, <1>3, <1>4, <1>5, <1>6 DEF Next

LEMMA SplitMeans ==
    ASSUME ChainAssumption, IInv, Split PROVE SplitAtItsTime
<1> SUFFICES
      ASSUME Answered, NEW w \in DOMAIN answer.withdrawals,
             {r \in Reductions : r.pool = w.validator /\ r.slot < w.slot}
                 \subseteq pools[w.validator]
      PROVE  LET earlier == {r \in Reductions : r.pool = w.validator /\ r.slot < w.slot}
                 income == IF w.amount > 8 THEN w.amount - 32 ELSE w.amount IN
             \/ /\ earlier = {}
                /\ answer.withdrawals[w] = NodePart(income, InitialTerms[w.validator])
             \/ \E r \in earlier :
                   /\ \A q \in earlier : q.slot <= r.slot
                   /\ answer.withdrawals[w] = NodePart(income, [bond |-> r.bond, fee |-> r.fee])
  BY DEF SplitAtItsTime
<1> DEFINE v == w.validator
           earlier == {r \in Reductions : r.pool = v /\ r.slot < w.slot}
           income == IF w.amount > 8 THEN w.amount - 32 ELSE w.amount
<1>1. /\ w \in all_withdrawals /\ v \in DOMAIN pools
      /\ answer.withdrawals[w] = NodePart(income, TermsAt(v, w.slot))
  BY DEF Answered, Split, WithdrawalShare
<1>2. w.slot \in Slots /\ \A r \in Reductions : r.slot \in Slots
  BY <1>1 DEF IInv, Keyed, Read, ChainAssumption
<1>3. earlier = {r \in pools[v] : w.slot > r.slot}
  BY <1>1, <1>2 DEF Split, Slots
<1>4. CASE earlier = {}
  <2>1. TermsAt(v, w.slot) = InitialTerms[v]
    BY <1>3, <1>4 DEF TermsAt
  <2>2. QED
    BY <1>1, <1>4, <2>1
<1>5. CASE earlier # {}
  <2> DEFINE r == CHOOSE x \in earlier : \A y \in earlier : y.slot <= x.slot
  <2>1. \E x \in earlier : \A y \in earlier : y.slot <= x.slot
    BY <1>2, <1>5, MostRecent
  <2>2. r \in earlier /\ \A q \in earlier : q.slot <= r.slot
    BY <2>1
  <2>3. TermsAt(v, w.slot) = [bond |-> r.bond, fee |-> r.fee]
    BY <1>3, <1>5 DEF TermsAt
  <2>4. QED
    BY <1>1, <2>2, <2>3
<1>6. QED
  BY <1>4, <1>5

\* Whatever reductions are stored while the request reads, a withdrawal is split
\* by the last terms agreed before it, unless an earlier reduction was not
\* stored when its minipool was read.
THEOREM SplitsAreRight == Spec => []SplitAtItsTime
<1>1. ChainAssumption /\ Init => Split
  BY DEF Init, Split, NoAnswer, NoRequest
<1>2. ChainAssumption /\ (IInv /\ Split) /\ [Next]_vars => Split'
  BY SplitStep
<1>3. ChainAssumption /\ IInv /\ Split => SplitAtItsTime
  BY SplitMeans
<1>4. QED
  BY <1>1, <1>2, <1>3, Always, ChainAssumption, PTL DEF Spec

-----------------------------------------------------------------------------
(* Which slots are those of a range of days. *)

LEMMA DivMeans ==
    ASSUME NEW L \in Nat \ {0}, NEW n \in Int
    PROVE  n \div L \in Int /\ L * (n \div L) <= n /\ n < L * (n \div L) + L
  OBVIOUS

LEMMA Times ==
    ASSUME NEW L \in Nat \ {0}, NEW a \in Int, NEW b \in Int, a < b
    PROVE  L * a \in Int /\ L * b \in Int /\ L * a + L <= L * b
<1>1. L * (b - a - 1) >= 0
  OBVIOUS
<1>2. L * (b - a - 1) = L * b - L * a - L
  OBVIOUS
<1>3. QED
  BY <1>1, <1>2

\* The slots the queries ask for are those that are dated in the range and the
\* one it begins in.
LEMMA RangeIsDays ==
    ASSUME NEW slot \in Slots, NEW s \in Int, NEW e \in Int, s <= e
    PROVE  StartSlot(s) <= slot /\ slot <= EodSlot(e)
             <=> DateOf(slot) \in s .. e \/ slot = StartSlot(s)
<1> DEFINE q == DateOf(slot)
<1>1. DayLen \in Nat \ {0} /\ slot \in Int
  BY DaysAssumption, DivMeans DEF StartSlot, Slots
<1>2. /\ q \in Int /\ DayLen * q <= slot - 1 /\ slot - 1 < DayLen * q + DayLen
  BY <1>1, DivMeans DEF DateOf
<1> HIDE DEF q
<1>3. /\ DayLen * s \in Int /\ DayLen * q \in Int /\ DayLen * e \in Int
      /\ DayLen * (e + 1) = DayLen * e + DayLen
  BY <1>1, <1>2
<1>4. /\ q < s => DayLen * q + DayLen <= DayLen * s
      /\ s < q => DayLen * s + DayLen <= DayLen * q
      /\ q < e => DayLen * q + DayLen <= DayLen * e
      /\ e < q => DayLen * e + DayLen <= DayLen * q
      /\ s < e => DayLen * s + DayLen <= DayLen * e
  BY <1>1, <1>2, Times
<1>5. StartSlot(s) = DayLen * s /\ EodSlot(e) = DayLen * e + DayLen
  BY <1>3 DEF StartSlot, EodSlot
<1>6. (DayLen * s <= slot /\ slot <= DayLen * e + DayLen)
        <=> (s <= q /\ q <= e) \/ slot = DayLen * s
  BY <1>1, <1>2, <1>3, <1>4
<1>7. QED
  BY <1>2, <1>5, <1>6 DEF q

-----------------------------------------------------------------------------
\* What the queries have returned, when nothing was missing as the request came.
Complete ==
    /\ req.start \in Int /\ req.end \in Int /\ req.start <= req.end
    /\ req.settled =>
         /\ Settled
         /\ pc \in {"rewards", "minipools", "node_rewards", "distributors", "shares"} =>
                all_withdrawals = Requested(Withdrawals)
         /\ pc \in {"minipools", "node_rewards", "distributors", "shares"} =>
                {b.row : b \in all_block_rewards} = Requested(Proposals)
         /\ pc \in {"distributors", "shares"} =>
                node_rewards = {NodeOf[v] : v \in DOMAIN pools}
                    \X {p \in Periods : PeriodDay[p] \in req.start .. req.end}
    /\ Answered => pc = "done" /\ SettledAnswerComplete

LEMMA RequestedIsWanted ==
    ASSUME NEW S, \A x \in S : x.slot \in Slots,
           req.start \in Int, req.end \in Int, req.start <= req.end
    PROVE  Requested(S) = Wanted(S)
<1>1. \A x \in S : InRange(x.slot) <=>
          DateOf(x.slot) \in req.start .. req.end \/ x.slot = StartSlot(req.start)
  BY RangeIsDays DEF InRange
<1>2. QED
  BY <1>1 DEF Requested, Wanted

LEMMA SettledStays ==
    ASSUME ChainAssumption, Settled, Index PROVE Settled'
<1>1. ASSUME NEW known \in Validators, IndexValidators(known) PROVE Settled'
  BY <1>1 DEF IndexValidators, Settled
<1>2. ASSUME NEW n \in Nodes, IndexNode(n) PROVE Settled'
  BY <1>2 DEF IndexNode, Settled
<1>3. ASSUME NEW v \in Pools, IndexMinipool(v) PROVE Settled'
  BY <1>3 DEF IndexMinipool, Settled
<1>4. ASSUME NEW r \in Reductions, IndexReduction(r) PROVE Settled'
  BY <1>4 DEF IndexReduction, Settled
<1>5. ASSUME NEW p \in Periods, IndexPeriod(p) PROVE Settled'
  BY <1>5 DEF IndexPeriod, Settled
<1>6. ASSUME NEW w \in Withdrawals, IndexWithdrawal(w) PROVE Settled'
  BY <1>6 DEF IndexWithdrawal, Settled
<1>7. ASSUME NEW p \in Proposals, NEW failed \in BOOLEAN, IndexReward(p, failed)
      PROVE  FALSE
  BY <1>7 DEF IndexReward, Settled
<1>8. QED
  BY <1>1, <1>2, <1>3, <1>4, <1>5, <1>6, <1>7 DEF Index

LEMMA AnsweringStep ==
    ASSUME ChainAssumption, IInv, Complete, Work
    PROVE  Complete'
<1>1. /\ pc = "shares" /\ pc' = "done"
      /\ UNCHANGED <<tables, req, all_withdrawals, all_block_rewards, pools,
                     node_rewards, fee_distributors>>
  BY DEF Work, Finish
<1>2. Settled' = Settled
  BY <1>1 DEF Settled, tables
<1>3. ASSUME Answered', req.settled PROVE SettledAnswerComplete'
  <2>1. PICK glitches : answer' = Paid(glitches)
    BY <1>3 DEF Work, Finish, Answered, Error
  <2>2. /\ DOMAIN answer'.withdrawals = all_withdrawals
        /\ DOMAIN answer'.el = {OfDay(p) : p \in Distributed}
        /\ answer'.nodes = node_rewards
    BY <2>1 DEF Paid, ExecutionLayer
  <2>3. all_withdrawals = Wanted(Withdrawals)
    BY <1>1, <1>3, RequestedIsWanted DEF Complete, ChainAssumption
  <2>4. {b.row : b \in all_block_rewards} = Wanted(Proposals)
    BY <1>1, <1>3, RequestedIsWanted DEF Complete, ChainAssumption
  <2>5. Distributed = {q \in Wanted(Proposals) : q.to = "distributor"}
    BY <2>4 DEF Distributed
  <2>6. DOMAIN pools = req.validators
    BY <1>1 DEF IInv, Found
  <2>7. node_rewards = {NodeOf[v] : v \in req.validators}
            \X {p \in Periods : PeriodDay[p] \in req.start .. req.end}
    BY <1>1, <1>3, <2>6 DEF Complete
  <2>8. \A S : Wanted(S)' = Wanted(S)
    BY <1>1 DEF Wanted
  <2>9. QED
    BY <1>1, <2>2, <2>3, <2>5, <2>7, <2>8 DEF SettledAnswerComplete
<1>4. Answered' => SettledAnswerComplete'
  BY <1>1, <1>3 DEF SettledAnswerComplete
<1>5. QED
  BY <1>1, <1>2, <1>4 DEF Complete

LEMMA CompleteStep ==
    ASSUME ChainAssumption, IInv, Complete, [Next]_vars PROVE Complete'
<1>1. ASSUME NEW vs \in Requests, NEW start \in 0 .. Today, NEW end \in 0 .. Today,
             Receive(vs, start, end)
      PROVE  Complete'
  <2>1. /\ pc = "idle" /\ pc' = "withdrawals" /\ UNCHANGED <<tables, answer>>
        /\ req'.start = start /\ req'.end = CappedEnd(end) /\ req'.settled = Settled
        /\ start < end
    BY <1>1 DEF Receive
  <2>2. start \in Int /\ CappedEnd(end) \in Int /\ start <= CappedEnd(end)
    BY <2>1, DaysAssumption DEF CappedEnd
  <2>3. Settled' = Settled
    BY <2>1 DEF Settled, tables
  <2>4. ~Answered'
    BY <2>1 DEF Complete, Answered
  <2>5. QED
    BY <2>1, <2>2, <2>3, <2>4 DEF Complete
<1>2. CASE ReadWithdrawals
  <2>1. /\ pc = "withdrawals" /\ pc' = "rewards" /\ UNCHANGED <<tables, req, answer>>
        /\ all_withdrawals' = Requested(withdrawals)
    BY <1>2 DEF ReadWithdrawals
  <2>2. Settled' = Settled /\ \A S : Requested(S)' = Requested(S)
    BY <2>1 DEF Settled, tables, Requested, InRange
  <2>3. Settled => withdrawals = Withdrawals
    BY DEF Settled
  <2>4. ~Answered'
    BY <2>1 DEF Complete, Answered
  <2>5. QED
    BY <2>1, <2>2, <2>3, <2>4 DEF Complete
<1>3. CASE ReadRewards
  <2>1. /\ pc = "rewards" /\ pc' = "minipools"
        /\ UNCHANGED <<tables, req, answer, all_withdrawals>>
        /\ {b.row : b \in all_block_rewards'} = Requested(reward.stored)
    <3> DEFINE Row(p) == [row |-> p, ok |-> p \notin reward.failed]
    <3>1. all_block_rewards' = {Row(p) : p \in Requested(reward.stored)}
      BY <1>3 DEF ReadRewards
    <3>2. \A p : Row(p).row = p
      OBVIOUS
    <3> HIDE DEF Row
    <3>3. {b.row : b \in all_block_rewards'} = Requested(reward.stored)
      BY <3>1, <3>2
    <3>4. QED
      BY <1>3, <3>3 DEF ReadRewards
  <2>2. Settled' = Settled /\ \A S : Requested(S)' = Requested(S)
    BY <2>1 DEF Settled, tables, Requested, InRange
  <2>3. Settled => reward.stored = Proposals
    BY DEF Settled
  <2>4. ~Answered'
    BY <2>1 DEF Complete, Answered
  <2>5. QED
    BY <2>1, <2>2, <2>3, <2>4 DEF Complete
<1>4. CASE ReadMinipools
  <2>1. /\ pc = "minipools" /\ pc' \in {"node_rewards", "done"}
        /\ UNCHANGED <<tables, req, all_withdrawals, all_block_rewards>>
    BY <1>4 DEF ReadMinipools, Finish
  <2>2. Settled' = Settled /\ \A S : Requested(S)' = Requested(S)
    BY <2>1 DEF Settled, tables, Requested, InRange
  <2>3. ~Answered'
    BY <1>4, <2>1 DEF ReadMinipools, Finish, Error, Complete, Answered
  <2>4. QED
    BY <2>1, <2>2, <2>3 DEF Complete
<1>5. CASE ReadNodeRewards
  <2>1. /\ pc = "node_rewards" /\ pc' = "distributors"
        /\ UNCHANGED <<tables, req, answer, all_withdrawals, all_block_rewards, pools>>
        /\ node_rewards' = {NodeOf[v] : v \in DOMAIN pools}
              \X {p \in periods : req.start <= PeriodDay[p] /\ PeriodDay[p] <= req.end}
    BY <1>5 DEF ReadNodeRewards
  <2>2. Settled' = Settled /\ \A S : Requested(S)' = Requested(S)
    BY <2>1 DEF Settled, tables, Requested, InRange
  <2>3. Settled =>
          {p \in periods : req.start <= PeriodDay[p] /\ PeriodDay[p] <= req.end}
            = {p \in Periods : PeriodDay[p] \in req.start .. req.end}
    BY DEF Settled, ChainAssumption, Complete
  <2>4. ~Answered'
    BY <2>1 DEF Complete, Answered
  <2>5. QED
    BY <2>1, <2>2, <2>3, <2>4 DEF Complete
<1>6. CASE ReadDistributors
  <2>1. /\ pc = "distributors" /\ pc' = "shares"
        /\ UNCHANGED <<tables, req, answer, all_withdrawals, all_block_rewards, pools,
                       node_rewards>>
    BY <1>6 DEF ReadDistributors
  <2>2. Settled' = Settled /\ \A S : Requested(S)' = Requested(S)
    BY <2>1 DEF Settled, tables, Requested, InRange
  <2>3. ~Answered'
    BY <2>1 DEF Complete, Answered
  <2>4. QED
    BY <2>1, <2>2, <2>3 DEF Complete
<1>7. CASE (pc # "done" /\ Index /\ UNCHANGED request) \/ UNCHANGED vars
  <2>1. UNCHANGED <<pc, req, all_withdrawals, all_block_rewards, pools, node_rewards, answer>>
    BY <1>7 DEF request, vars
  <2>2. Settled => Settled'
    <3>1. CASE Index
      BY <3>1, SettledStays
    <3>2. CASE UNCHANGED vars
      BY <3>2 DEF vars, tables, Settled
    <3>3. QED
      BY <1>7, <3>1, <3>2
  <2>3. \A S : Requested(S)' = Requested(S)
    BY <2>1 DEF Requested, InRange
  <2>4. Answered' = Answered /\ SettledAnswerComplete' = SettledAnswerComplete
    BY <2>1 DEF Answered, SettledAnswerComplete, Wanted
  <2>5. QED
    BY <2>1, <2>2, <2>3, <2>4 DEF Complete
<1>8. QED
  BY <1>1, <1>2, <1>3, <1>4, <1>5, <1>6, <1>7, AnsweringStep DEF Next

\* A request that came when the tables missed nothing is answered with every
\* withdrawal, every day with a reward and every reward period of its range,
\* whatever the length of a day and wherever the range begins.
THEOREM NothingIsLeftOut == Spec => []SettledAnswerComplete
<1>1. ChainAssumption /\ Init => Complete
  BY DEF Init, Complete, NoRequest, NoAnswer, Answered
<1>2. ChainAssumption /\ (IInv /\ Complete) /\ [Next]_vars => Complete'
  BY CompleteStep
<1>3. Complete => SettledAnswerComplete
  BY DEF Complete, SettledAnswerComplete
<1>4. QED
  BY <1>1, <1>2, <1>3, Always, ChainAssumption, PTL DEF Spec
-----------------------------------------------------------------------------
(* A sum over a finite set adds one element after the other. *)

Pick(S) == CHOOSE x \in S : TRUE
Iterates(g, f, S) ==
    g = [s \in SUBSET S |-> IF s = {} THEN 0 ELSE f[Pick(s)] + g[s \ {Pick(s)}]]

LEMMA SumMeans ==
    ASSUME NEW f, NEW S
    PROVE  SumOver(f, S) = (CHOOSE g : Iterates(g, f, S))[S]
  BY DEF SumOver, MapThenSumSet, MapThenFoldSet, Iterates, Pick

\* Induction over the subsets of a finite set; a set stands for the property.
LEMMA SetInduction ==
    ASSUME NEW S, IsFiniteSet(S), NEW C,
           \A T \in SUBSET S : (\A U \in SUBSET T : U # T => U \in C) => T \in C
    PROVE  SUBSET S \subseteq C
<1> DEFINE R == StrictSubsetOrdering(S)
           D == (SUBSET S) \ C
<1>1. SUFFICES ASSUME D # {} PROVE FALSE
  OBVIOUS
<1>2. IsWellFoundedOn(R, SUBSET S)
  BY FS_StrictSubsetOrderingWellFounded, FS_FiniteSubsetsOfFinite
<1>3. \A T, U \in SUBSET S : U \subseteq T /\ U # T => <<U, T>> \in R
  BY DEF StrictSubsetOrdering
<1>4. D \subseteq SUBSET S
  OBVIOUS
<1>5. PICK T \in D : \A U \in D : ~ (<<U, T>> \in R)
  <2> HIDE DEF D, R
  <2>1. QED
    BY <1>1, <1>2, <1>4, WFMin
<1> HIDE DEF R
<1>6. ASSUME NEW U \in SUBSET T, U # T PROVE U \in C
  <2>1. T \in SUBSET S /\ U \in SUBSET S
    BY <1>5
  <2>2. <<U, T>> \in R
    BY <1>3, <1>6, <2>1
  <2>3. QED
    BY <1>5, <2>1, <2>2
<1>7. QED
  BY <1>5, <1>6

LEMMA IteratesAgree ==
    ASSUME NEW f, NEW S, IsFiniteSet(S), NEW T \in SUBSET S,
           NEW g, Iterates(g, f, S), NEW h, Iterates(h, f, T)
    PROVE  \A s \in SUBSET T : g[s] = h[s]
<1> DEFINE C == {s \in SUBSET T : g[s] = h[s]}
<1>1. ASSUME NEW s \in SUBSET T, \A u \in SUBSET s : u # s => u \in C
      PROVE  s \in C
  <2>1. g[s] = IF s = {} THEN 0 ELSE f[Pick(s)] + g[s \ {Pick(s)}]
    BY <1>1 DEF Iterates
  <2>2. h[s] = IF s = {} THEN 0 ELSE f[Pick(s)] + h[s \ {Pick(s)}]
    BY <1>1 DEF Iterates
  <2>3. s # {} => Pick(s) \in s
    BY DEF Pick
  <2>4. s # {} => g[s \ {Pick(s)}] = h[s \ {Pick(s)}]
    BY <1>1, <2>3
  <2>5. QED
    BY <1>1, <2>1, <2>2, <2>4
<1>2. IsFiniteSet(T)
  BY FS_Subset
<1>3. SUBSET T \subseteq C
  <2> HIDE DEF C
  <2>1. QED
    BY <1>1, <1>2, SetInduction
<1>4. QED
  BY <1>3

LEMMA IterateExists ==
    ASSUME NEW f, NEW S, IsFiniteSet(S)
    PROVE  \E g : Iterates(g, f, S)
<1> DEFINE C == {T \in SUBSET S : \E g : Iterates(g, f, T)}
           It(T) == CHOOSE g : Iterates(g, f, T)
<1>1. ASSUME NEW T \in SUBSET S, \A U \in SUBSET T : U # T => U \in C
      PROVE  T \in C
  <2> DEFINE h == [s \in SUBSET T |-> IF s = {} THEN 0
                                      ELSE f[Pick(s)] + It(s \ {Pick(s)})[s \ {Pick(s)}]]
  <2>1. ASSUME NEW U \in SUBSET T, U # T PROVE Iterates(It(U), f, U)
    <3>1. \E g : Iterates(g, f, U)
      BY <1>1, <2>1
    <3>2. QED
      BY <3>1
  <2> HIDE DEF It
  <2>2. \A s : s # {} => Pick(s) \in s
    BY DEF Pick
  <2>3. ASSUME NEW s \in SUBSET T, s # {}
        PROVE  h[s \ {Pick(s)}] = It(s \ {Pick(s)})[s \ {Pick(s)}]
    <3> DEFINE u == s \ {Pick(s)}
               v == u \ {Pick(u)}
    <3>1. u \in SUBSET T /\ u # T /\ v \in SUBSET u /\ v # T
      BY <2>2, <2>3
    <3>2. Iterates(It(u), f, u) /\ Iterates(It(v), f, v) /\ IsFiniteSet(u)
      <4>1. IsFiniteSet(T)
        BY <1>1, FS_Subset
      <4>2. QED
        BY <2>1, <3>1, <4>1, FS_Subset
    <3>3. It(u)[v] = It(v)[v]
      <4>1. v \in SUBSET v
        OBVIOUS
      <4> HIDE DEF u, v
      <4>2. QED
        BY <3>1, <3>2, <4>1, IteratesAgree
    <3>4. It(u)[u] = IF u = {} THEN 0 ELSE f[Pick(u)] + It(u)[v]
      BY <3>2 DEF Iterates
    <3>5. h[u] = IF u = {} THEN 0 ELSE f[Pick(u)] + It(v)[v]
      BY <3>1
    <3>6. QED
      BY <3>3, <3>4, <3>5
  <2>4. h = [s \in SUBSET T |-> IF s = {} THEN 0 ELSE f[Pick(s)] + h[s \ {Pick(s)}]]
    BY <2>3
  <2>5. Iterates(h, f, T)
    BY <2>4 DEF Iterates
  <2>6. QED
    BY <1>1, <2>5
<1>2. SUBSET S \subseteq C
  <2> HIDE DEF C
  <2>1. QED
    BY <1>1, SetInduction
<1>3. QED
  BY <1>2

LEMMA SumIs ==
    ASSUME NEW f, NEW S, IsFiniteSet(S), NEW g, Iterates(g, f, S), NEW T \in SUBSET S
    PROVE  SumOver(f, T) = g[T]
<1>1. IsFiniteSet(T)
  BY FS_Subset
<1> DEFINE h == CHOOSE h : Iterates(h, f, T)
<1>2. Iterates(h, f, T)
  BY <1>1, IterateExists
<1>3. SumOver(f, T) = h[T]
  BY SumMeans
<1> HIDE DEF h
<1>4. g[T] = h[T]
  BY <1>2, IteratesAgree
<1>5. QED
  BY <1>3, <1>4

\* The sum, one element after the other.
LEMMA SumStep ==
    ASSUME NEW f, NEW S, IsFiniteSet(S)
    PROVE  SumOver(f, S) = IF S = {} THEN 0 ELSE f[Pick(S)] + SumOver(f, S \ {Pick(S)})
<1>1. PICK g : Iterates(g, f, S)
  BY IterateExists
<1>2. g[S] = IF S = {} THEN 0 ELSE f[Pick(S)] + g[S \ {Pick(S)}]
  BY <1>1 DEF Iterates
<1>3. QED
  BY <1>1, <1>2, SumIs

(* Sums of integers. *)

LEMMA SumTake ==
    ASSUME NEW f, NEW S, IsFiniteSet(S), \A y \in S : f[y] \in Int
    PROVE  /\ SumOver(f, S) \in Int
           /\ \A x \in S : SumOver(f, S) = f[x] + SumOver(f, S \ {x})
<1> DEFINE Good(T) == /\ SumOver(f, T) \in Int
                      /\ \A x \in T : SumOver(f, T) = f[x] + SumOver(f, T \ {x})
           C == {T \in SUBSET S : Good(T)}
<1>1. ASSUME NEW T \in SUBSET S, \A U \in SUBSET T : U # T => U \in C
      PROVE  T \in C
  <2> DEFINE c == Pick(T)
  <2>1. \A U \in SUBSET T : U # T => Good(U)
    BY <1>1
  <2>2. SumOver(f, T) = IF T = {} THEN 0 ELSE f[c] + SumOver(f, T \ {c})
    BY SumStep, FS_Subset
  <2>3. CASE T = {}
    BY <2>2, <2>3
  <2>4. CASE T # {}
    <3>1. c \in T
      BY <2>4 DEF Pick
    <3> HIDE DEF c, Good, C
    <3>2. Good(T \ {c}) /\ f[c] \in Int
      BY <2>1, <3>1
    <3>3. SumOver(f, T) \in Int /\ SumOver(f, T \ {c}) \in Int
      BY <2>2, <2>4, <3>2 DEF Good
    <3>4. ASSUME NEW x \in T, x # c PROVE SumOver(f, T) = f[x] + SumOver(f, T \ {x})
      <4> DEFINE R == (T \ {c}) \ {x}
      <4>1. SumOver(f, T \ {c}) = f[x] + SumOver(f, R)
        BY <3>2, <3>4 DEF Good
      <4>2. (T \ {x}) \ {c} = R /\ c \in T \ {x} /\ T \ {x} # T /\ R # T
        BY <3>1, <3>4
      <4>3. SumOver(f, T \ {x}) = f[c] + SumOver(f, R)
        BY <2>1, <4>2 DEF Good
      <4>4. SumOver(f, R) \in Int /\ f[x] \in Int
        BY <2>1, <4>2 DEF Good
      <4> HIDE DEF R
      <4>5. QED
        BY <2>2, <2>4, <3>2, <3>3, <4>1, <4>3, <4>4
    <3>5. QED
      BY <2>2, <2>4, <3>3, <3>4 DEF Good, C
  <2>5. QED
    BY <2>3, <2>4
<1>2. SUBSET S \subseteq C
  <2> HIDE DEF C
  <2>1. QED
    BY <1>1, SetInduction
<1>3. QED
  BY <1>2

LEMMA SumEmpty ==
    ASSUME NEW f PROVE SumOver(f, {}) = 0
  BY SumStep, FS_EmptySet


LEMMA SumNat ==
    ASSUME NEW f, NEW S, IsFiniteSet(S), \A y \in S : f[y] \in Nat
    PROVE  SumOver(f, S) \in Nat
<1> DEFINE C == {T \in SUBSET S : SumOver(f, T) \in Nat}
<1>1. ASSUME NEW T \in SUBSET S, \A U \in SUBSET T : U # T => U \in C
      PROVE  T \in C
  <2>1. CASE T = {}
    BY <2>1, SumEmpty
  <2>2. CASE T # {}
    <3>1. PICK x \in T : TRUE
      BY <2>2
    <3>2. SumOver(f, T) = f[x] + SumOver(f, T \ {x})
      BY <3>1, FS_Subset, SumTake
    <3>3. T \ {x} \in C
      <4>1. T \ {x} \in SUBSET T /\ T \ {x} # T
        BY <3>1
      <4>2. QED
        BY <1>1, <4>1
    <3>4. QED
      BY <3>1, <3>2, <3>3
  <2>3. QED
    BY <2>1, <2>2
<1>2. SUBSET S \subseteq C
  <2> HIDE DEF C
  <2>1. QED
    BY <1>1, SetInduction
<1>3. QED
  BY <1>2

\* Sums of functions that differ by at most two.
LEMMA SumNear ==
    ASSUME NEW S, IsFiniteSet(S), NEW f, NEW g,
           \A x \in S : f[x] \in Int /\ g[x] \in Int /\ f[x] - g[x] \in (-2) .. 2
    PROVE  /\ SumOver(f, S) \in Int /\ SumOver(g, S) \in Int /\ Cardinality(S) \in Nat
           /\ SumOver(g, S) - 2 * Cardinality(S) <= SumOver(f, S)
           /\ SumOver(f, S) <= SumOver(g, S) + 2 * Cardinality(S)
<1> DEFINE Good(T) == /\ SumOver(g, T) - 2 * Cardinality(T) <= SumOver(f, T)
                      /\ SumOver(f, T) <= SumOver(g, T) + 2 * Cardinality(T)
           C == {T \in SUBSET S : Good(T)}
<1>1. ASSUME NEW T \in SUBSET S
      PROVE  /\ IsFiniteSet(T) /\ SumOver(f, T) \in Int /\ SumOver(g, T) \in Int
             /\ Cardinality(T) \in Nat
  BY FS_Subset, FS_CardinalityType, SumTake
<1>2. ASSUME NEW T \in SUBSET S, \A U \in SUBSET T : U # T => U \in C
      PROVE  T \in C
  <2>1. CASE T = {}
    <3>1. Cardinality(T) = 0 /\ SumOver(f, T) = 0 /\ SumOver(g, T) = 0
      BY <2>1, SumEmpty, FS_EmptySet
    <3>2. QED
      BY <3>1
  <2>2. CASE T # {}
    <3>1. PICK x \in T : TRUE
      BY <2>2
    <3> DEFINE U == T \ {x}
    <3>2. U \in SUBSET T /\ U # T /\ U \in SUBSET S
      BY <3>1
    <3>3. Good(U)
      BY <1>2, <3>2
    <3>4. SumOver(f, T) = f[x] + SumOver(f, U) /\ SumOver(g, T) = g[x] + SumOver(g, U)
      <4>1. \A y \in T : f[y] \in Int /\ g[y] \in Int
        OBVIOUS
      <4>2. IsFiniteSet(T)
        BY <1>1
      <4> HIDE DEF C
      <4>3. QED
        BY <3>1, <4>1, <4>2, SumTake
    <3>5. Cardinality(U) = Cardinality(T) - 1
      BY <1>1, <3>1, FS_RemoveElement
    <3>6. f[x] \in Int /\ g[x] \in Int /\ f[x] - g[x] \in (-2) .. 2
      BY <3>1
    <3>7. /\ SumOver(f, U) \in Int /\ SumOver(g, U) \in Int
          /\ Cardinality(U) \in Nat /\ Cardinality(T) \in Nat
      BY <1>1, <3>2
    <3> HIDE DEF U, C
    <3>8. Good(T)
      BY <3>3, <3>4, <3>5, <3>6, <3>7
    <3>9. QED
      BY <3>8 DEF C
  <2>3. QED
    BY <2>1, <2>2
<1>3. SUBSET S \subseteq C
  <2> HIDE DEF C
  <2>1. QED
    BY <1>2, SetInduction
<1>4. Good(S)
  BY <1>3
<1>5. QED
  BY <1>1, <1>4

-----------------------------------------------------------------------------
(* What shares of incomes add up to. *)

\* A quotient that is at least, or at most, some number.
LEMMA DivBetween ==
    ASSUME NEW L \in Nat \ {0}, NEW n \in Int, NEW lo \in Int, NEW hi \in Int,
           L * lo <= n, n < L * (hi + 1)
    PROVE  n \div L \in Int /\ lo <= n \div L /\ n \div L <= hi
<1> DEFINE q == n \div L
<1>1. q \in Int /\ L * q <= n /\ n < L * q + L
  BY DivMeans
<1> HIDE DEF q
<1>2. q < lo => L * q + L <= L * lo
  BY <1>1, Times
<1>3. hi + 1 <= q => L * (hi + 1) <= L * q
  BY <1>1, Times
<1>4. L * lo \in Int /\ L * (hi + 1) \in Int /\ L * q \in Int
  BY <1>1
<1>5. lo <= q /\ q <= hi
  BY <1>1, <1>2, <1>3, <1>4
<1>6. QED
  BY <1>1, <1>5 DEF q

LEMMA DivAdds ==
    ASSUME NEW L \in Nat \ {0}, NEW a \in Int, NEW b \in Int
    PROVE  (a + b) \div L - a \div L - b \div L \in 0 .. 1
<1> DEFINE qa == a \div L
           qb == b \div L
<1>1. /\ qa \in Int /\ L * qa <= a /\ a < L * qa + L
      /\ qb \in Int /\ L * qb <= b /\ b < L * qb + L
  BY DivMeans
<1> HIDE DEF qa, qb
<1>2. /\ L * qa \in Int /\ L * qb \in Int
      /\ L * (qa + qb) = L * qa + L * qb
      /\ L * (qa + qb + 1 + 1) = L * qa + L * qb + L + L
  BY <1>1
<1>3. L * (qa + qb) <= a + b /\ a + b < L * (qa + qb + 1 + 1)
  BY <1>1, <1>2
<1>4. qa + qb <= (a + b) \div L /\ (a + b) \div L <= qa + qb + 1
  BY <1>1, <1>3, DivBetween
<1>5. (a + b) \div L \in Int
  BY DivMeans
<1>6. QED
  BY <1>1, <1>4, <1>5 DEF qa, qb

\* What the contract takes for the node of a balance that grew, but for rounding.
LEMMA ShareAdds ==
    ASSUME AverageFee \in 0 .. 100, NEW r \in Nat \ {0}, NEW a \in Nat, NEW i \in Nat
    PROVE  /\ ContractShare(a + i, r) \in Int /\ ContractShare(a, r) \in Int
           /\ ContractShare(i, r) \in Int
           /\ ContractShare(a + i, r) - ContractShare(a, r) - ContractShare(i, r) \in 0 .. 2
<1> DEFINE F == AverageFee
           oa == a \div r
           oi == i \div r
           os == (a + i) \div r
           A == (a - oa) * F
           B == (i - oi) * F
           C == (a + i - os) * F
<1>1. oa \in Int /\ oi \in Int /\ os \in Int /\ os - oa - oi \in 0 .. 1 /\ F \in Int
  BY DivMeans, DivAdds
<1> HIDE DEF oa, oi, os
<1>2. A \in Int /\ B \in Int /\ C \in Int
  BY <1>1
<1>3. /\ os = oa + oi => C = A + B
      /\ os = oa + oi + 1 => C + F = A + B
  BY <1>1
<1> HIDE DEF A, B, C, F
<1> DEFINE Q(x) == x \div 100
<1>4. /\ Q(A) \in Int /\ Q(B) \in Int /\ Q(C) \in Int /\ Q(A + B) \in Int
      /\ Q(A + B) - Q(A) - Q(B) \in 0 .. 1
  BY <1>2, DivMeans, DivAdds
<1>5. os = oa + oi + 1 => Q(A + B) - Q(C) \in 0 .. 1
  BY <1>1, <1>2, <1>3 DEF F
<1>6. os = oa + oi => Q(A + B) = Q(C)
  BY <1>3
<1>7. /\ ContractShare(a + i, r) = os + Q(C)
      /\ ContractShare(a, r) = oa + Q(A)
      /\ ContractShare(i, r) = oi + Q(B)
  BY DEF ContractShare, A, B, C, F, oa, oi, os
<1> HIDE DEF Q
<1>8. QED
  BY <1>1, <1>4, <1>5, <1>6, <1>7

\* Half of the ETH is the node's: the endpoint's formula and the contract's.
LEMMA HalfAgrees ==
    ASSUME AverageFee \in 0 .. 100, NEW i \in Nat
    PROVE  /\ ContractShare(i, Half) \in Int /\ FallbackShare(i) \in Int
           /\ FallbackShare(i) - ContractShare(i, Half) \in 0 .. 1
<1> DEFINE F == AverageFee
           h == i \div 2
           A == (i - h) * F
           q == A \div 100
           N == i * (100 + F)
<1>1. F \in 0 .. 100 /\ h \in Int /\ (i = h + h \/ i = h + h + 1)
  BY DivMeans
<1> HIDE DEF h, F
<1>2. A \in Int /\ N \in Int
  BY <1>1
<1>3. /\ i = h + h => N = 100 * h + 100 * h + A + A
      /\ i = h + h + 1 => N + F = 100 * h + 100 * h + 100 + A + A
  BY <1>1
<1>4. q \in Int /\ 100 * q <= A /\ A < 100 * q + 100
  BY <1>2, DivMeans
<1> HIDE DEF A, N, q
<1>5. 200 * (h + q) <= N /\ N < 200 * (h + q + 1 + 1)
  BY <1>1, <1>2, <1>3, <1>4
<1>6. N \div 200 \in Int /\ h + q <= N \div 200 /\ N \div 200 <= h + q + 1
  BY <1>1, <1>2, <1>4, <1>5, DivBetween
<1>7. ContractShare(i, Half) = h + q /\ FallbackShare(i) = N \div 200
  BY DEF ContractShare, FallbackShare, Half, h, q, A, N, F
<1>8. QED
  BY <1>1, <1>4, <1>6, <1>7

\* The last time a distributor was emptied is no later than asked for, and the
\* slots in which it was not emptied do not move it.
LEMMA LastEmptiedStays ==
    ASSUME ChainAssumption, NEW n \in Nodes, NEW slot \in Slots, slot \notin Emptied[n]
    PROVE  LastEmptied(n, slot) = LastEmptied(n, slot - 1) /\ LastEmptied(n, slot) <= slot
<1> DEFINE T == {0} \cup {s \in Emptied[n] : s <= slot}
           Until(s) == slot - s
           R == {Until(s) : s \in T}
<1>1. slot \in Nat /\ \A s \in Emptied[n] : s \in Nat
  BY DEF ChainAssumption, Slots
<1>2. T = {0} \cup {s \in Emptied[n] : s <= slot - 1}
  BY <1>1
<1>3. \A s \in T : s \in Nat /\ s <= slot /\ Until(s) \in Nat
  BY <1>1
<1>4. 0 \in T
  OBVIOUS
<1> HIDE DEF T
<1>5. PICK r \in R : \A q \in R : r <= q
  <2>1. R # {} /\ R \subseteq Nat
    BY <1>3, <1>4
  <2> HIDE DEF R
  <2>2. QED
    BY <2>1, LeastNat
<1>6. PICK m \in T : r = Until(m)
  BY <1>5
<1>7. \A s \in T : m >= s
  BY <1>1, <1>3, <1>5, <1>6
<1>8. Max(T) \in T
  BY <1>7 DEF Max
<1>9. Max(T) <= slot
  BY <1>3, <1>8
<1>10. QED
  BY <1>2, <1>9 DEF LastEmptied, T

\* A block raises the balance of its distributor by its reward, unless it
\* empties it.
LEMMA BalanceMoves ==
    ASSUME ChainAssumption, NEW p \in Proposals, p.to = "distributor",
           p.validator \in Pools, p.slot \notin Emptied[NodeOf[p.validator]]
    PROVE  /\ Balance(NodeOf[p.validator], p.slot - 1) \in Nat
           /\ Balance(NodeOf[p.validator], p.slot)
                = Balance(NodeOf[p.validator], p.slot - 1) + p.income
<1> DEFINE n == NodeOf[p.validator]
           f == [q \in Proposals |-> q.income]
           last == LastEmptied(n, p.slot)
           Since(slot) == {q \in Proposals : /\ q.to = "distributor" /\ NodeOf[q.validator] = n
                                             /\ last <= q.slot /\ q.slot <= slot}
           before == Since(p.slot - 1)
           after == Since(p.slot)
<1>1. n \in Nodes /\ p.slot \in Slots /\ p.income \in Nat
  BY DEF ChainAssumption, Pools
<1>2. last = LastEmptied(n, p.slot - 1) /\ last <= p.slot
  BY <1>1, LastEmptiedStays
<1>3. Balance(n, p.slot) = SumOver(f, after) /\ Balance(n, p.slot - 1) = SumOver(f, before)
  BY <1>2 DEF Balance
<1> HIDE DEF last
<1>4. \A q \in Proposals : q.slot \in Nat /\ q.income \in Nat /\ (q.slot = p.slot => q = p)
  BY DEF ChainAssumption, Slots
<1>5. p \in after /\ before = after \ {p}
  BY <1>2, <1>4
<1>6. /\ IsFiniteSet(after) /\ IsFiniteSet(before)
      /\ \A q \in Proposals : f[q] \in Nat
  BY <1>4, FS_Subset DEF ChainAssumption
<1>7. f[p] = p.income
  OBVIOUS
<1>8. after \subseteq Proposals /\ before \subseteq Proposals
  OBVIOUS
<1> HIDE DEF f, before, after, n
<1>9. SumOver(f, after) = p.income + SumOver(f, before)
  BY <1>5, <1>6, <1>7, <1>8, SumTake
<1>10. SumOver(f, before) \in Nat
  BY <1>6, <1>8, SumNat
<1>11. QED
  BY <1>1, <1>3, <1>9, <1>10 DEF n

\* What the endpoint takes for the node of one reward is what is due, but for
\* rounding.
LEMMA ShareNear ==
    ASSUME ChainAssumption, NEW p \in Proposals, p.to = "distributor",
           p.validator \in Pools, p.slot \notin Emptied[NodeOf[p.validator]],
           NEW glitch \in BOOLEAN
    PROVE  /\ ProposalShare(p, glitch) \in Int /\ DueShare(p, glitch) \in Int
           /\ ProposalShare(p, glitch) - DueShare(p, glitch) \in (-2) .. 2
<1> DEFINE n == NodeOf[p.validator]
           before == Balance(n, p.slot - 1)
<1>1. /\ before \in Nat /\ Balance(n, p.slot) = before + p.income
      /\ p.income \in Nat /\ AverageFee \in 0 .. 100 /\ Ratio[n] \in Nat \ {0}
      /\ p.slot \in Nat
  BY BalanceMoves DEF ChainAssumption, Pools, Slots
<1> HIDE DEF before
<1>2. CASE p.slot >= AtlasSlot /\ ~glitch
  <2>1. ProposalShare(p, glitch) = ContractShare(before + p.income, Ratio[n])
                                   - ContractShare(before, Ratio[n])
    BY <1>1, <1>2 DEF ProposalShare, before
  <2>2. DueShare(p, glitch) = ContractShare(p.income, Ratio[n])
    BY <1>1, <1>2 DEF DueShare, ChainAssumption
  <2>3. /\ ContractShare(before + p.income, Ratio[n]) \in Int
        /\ ContractShare(before, Ratio[n]) \in Int
        /\ ContractShare(p.income, Ratio[n]) \in Int
        /\ ContractShare(before + p.income, Ratio[n]) - ContractShare(before, Ratio[n])
             - ContractShare(p.income, Ratio[n]) \in 0 .. 2
    BY <1>1, ShareAdds
  <2>4. QED
    BY <2>1, <2>2, <2>3
<1>3. CASE ~(p.slot >= AtlasSlot /\ ~glitch)
  <2>1. ProposalShare(p, glitch) = FallbackShare(p.income)
    <3>1. before + p.income - before = p.income
      BY <1>1
    <3>2. QED
      BY <1>1, <1>3, <3>1 DEF ProposalShare, before
  <2>2. DueShare(p, glitch) = ContractShare(p.income, Half)
    BY <1>1, <1>3 DEF DueShare, ChainAssumption
  <2>3. QED
    BY <1>1, <2>1, <2>2, HalfAgrees
<1>4. QED
  BY <1>2, <1>3

-----------------------------------------------------------------------------
\* The incomes of an answer are the shares of what was read, each proposal with
\* the provider's error that hit it, if any.
PaidInv ==
    Answered =>
        /\ pc = "done"
        /\ \A p \in Distributed : p.validator \in Pools
        /\ \E glitches \in SUBSET Distributed :
              /\ glitches = {} \/ Glitches
              /\ answer.el = ExecutionLayer(glitches)

LEMMA PaidStep ==
    ASSUME ChainAssumption, IInv, PaidInv, [Next]_vars PROVE PaidInv'
<1>1. ASSUME NEW vs \in Requests, NEW start \in 0 .. Today, NEW end \in 0 .. Today,
             Receive(vs, start, end)
      PROVE  PaidInv'
  <2>1. pc = "idle" /\ UNCHANGED answer
    BY <1>1 DEF Receive
  <2>2. QED
    BY <2>1 DEF PaidInv, Answered
<1>2. CASE ReadWithdrawals \/ ReadRewards \/ ReadMinipools \/ ReadNodeRewards \/ ReadDistributors
  <2>1. /\ pc \in {"withdrawals", "rewards", "minipools", "node_rewards", "distributors"}
        /\ UNCHANGED answer \/ answer' = Error
    BY <1>2 DEF ReadWithdrawals, ReadRewards, ReadMinipools, ReadNodeRewards,
                ReadDistributors, Finish
  <2>2. ~Answered'
    BY <2>1 DEF PaidInv, Answered, Error
  <2>3. QED
    BY <2>2 DEF PaidInv
<1>3. CASE Work
  <2>1. /\ pc' = "done"
        /\ UNCHANGED <<tables, req, all_withdrawals, all_block_rewards, pools,
                       node_rewards, fee_distributors>>
    BY <1>3 DEF Work, Finish
  <2>2. PICK glitches \in SUBSET Distributed :
            /\ glitches = {} \/ Glitches
            /\ answer' = IF Refused THEN Error ELSE Paid(glitches)
    BY <1>3 DEF Work, Finish
  <2>3. CASE Refused
    BY <2>2, <2>3 DEF PaidInv, Answered, Error
  <2>4. CASE ~Refused
    <3>1. answer'.el = ExecutionLayer(glitches)
      BY <2>2, <2>4 DEF Paid
    <3>2. \A p \in Distributed : p.validator \in Pools
      BY <2>4 DEF Refused, IInv, Read, Keyed
    <3>3. Distributed' = Distributed /\ ExecutionLayer(glitches)' = ExecutionLayer(glitches)
      BY <2>1 DEF Distributed, ExecutionLayer
    <3>4. QED
      BY <2>1, <2>2, <3>1, <3>2, <3>3 DEF PaidInv
  <2>5. QED
    BY <2>3, <2>4
<1>4. CASE (pc # "done" /\ Index /\ UNCHANGED request) \/ UNCHANGED vars
  <2>1. UNCHANGED <<pc, all_block_rewards, answer>>
    BY <1>4 DEF request, vars
  <2>2. Distributed' = Distributed /\ \A glitches : ExecutionLayer(glitches)' = ExecutionLayer(glitches)
    BY <2>1 DEF Distributed, ExecutionLayer
  <2>3. QED
    BY <2>1, <2>2 DEF PaidInv, Answered
<1>5. QED
  BY <1>1, <1>2, <1>3, <1>4 DEF Next

LEMMA PaidMeans ==
    ASSUME ChainAssumption, IInv, PaidInv PROVE ProposalsPaid
<1> SUFFICES
      ASSUME Answered, NEW d \in DOMAIN answer.el,
             \A p \in {q \in Distributed : d = OfDay(q)} : p.slot \notin Emptied[NodeOf[p.validator]]
      PROVE  LET those == {p \in Distributed : d = OfDay(p)}
                 slack == 2 * Cardinality(those) IN
             \E glitches \in SUBSET {p \in those : Glitches} :
                LET due == SumOver([p \in those |-> DueShare(p, p \in glitches)], those) IN
                due - slack <= answer.el[d] /\ answer.el[d] <= due + slack
  BY DEF ProposalsPaid
<1> DEFINE those == {p \in Distributed : d = OfDay(p)}
<1>1. PICK all \in SUBSET Distributed :
          (all = {} \/ Glitches) /\ answer.el = ExecutionLayer(all)
  BY DEF PaidInv
<1> DEFINE glitches == all \cap those
           f == [p \in Distributed |-> ProposalShare(p, p \in all)]
           g == [p \in those |-> DueShare(p, p \in glitches)]
<1>2. Distributed \subseteq Proposals /\ \A p \in Distributed : p.to = "distributor"
  BY DEF IInv, Read, Keyed, Distributed
<1>3. IsFiniteSet(those)
  BY <1>2, FS_Subset DEF ChainAssumption
<1>4. answer.el[d] = SumOver(f, those)
  BY <1>1 DEF ExecutionLayer
<1>5. ASSUME NEW p \in those
      PROVE  f[p] \in Int /\ g[p] \in Int /\ f[p] - g[p] \in (-2) .. 2
  <2>1. /\ p \in Proposals /\ p.to = "distributor" /\ p.validator \in Pools
        /\ p.slot \notin Emptied[NodeOf[p.validator]]
    BY <1>2 DEF PaidInv
  <2>2. (p \in glitches) = (p \in all)
    OBVIOUS
  <2> DEFINE hit == p \in all
  <2>3. hit \in BOOLEAN
    OBVIOUS
  <2>4. f[p] = ProposalShare(p, hit) /\ g[p] = DueShare(p, hit)
    BY <2>2
  <2> HIDE DEF f, g, glitches, those, hit
  <2>5. QED
    BY <2>1, <2>3, <2>4, ShareNear
<1>6. glitches \in SUBSET {p \in those : Glitches}
  BY <1>1
<1>7. /\ SumOver(g, those) - 2 * Cardinality(those) <= SumOver(f, those)
      /\ SumOver(f, those) <= SumOver(g, those) + 2 * Cardinality(those)
  <2> HIDE DEF f, g, those
  <2>1. QED
    BY <1>3, <1>5, SumNear
<1>8. LET due == SumOver([p \in those |-> DueShare(p, p \in glitches)], those) IN
      /\ due - 2 * Cardinality(those) <= answer.el[d]
      /\ answer.el[d] <= due + 2 * Cardinality(those)
  <2> HIDE DEF f, those, glitches
  <2>1. QED
    BY <1>4, <1>7 DEF g
<1>9. QED
  <2> HIDE DEF glitches
  <2>1. QED
    BY <1>6, <1>8, Zenon

\* Whatever the indexers store meanwhile and whichever calls the provider fails,
\* an answer pays the node its share of every reward its distributor got, once,
\* but for two wei of rounding each.
THEOREM SharesArePaid == Spec => []ProposalsPaid
<1>1. ChainAssumption /\ Init => PaidInv
  BY DEF Init, PaidInv, NoAnswer, Answered
<1>2. ChainAssumption /\ (IInv /\ PaidInv) /\ [Next]_vars => PaidInv'
  BY PaidStep
<1>3. ChainAssumption /\ IInv /\ PaidInv => ProposalsPaid
  BY PaidMeans
<1>4. QED
  BY <1>1, <1>2, <1>3, Always, ChainAssumption, PTL DEF Spec
=============================================================================
