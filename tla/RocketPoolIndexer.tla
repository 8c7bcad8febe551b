-------------------------- MODULE RocketPoolIndexer --------------------------
(***************************************************************************)
(* The Rocket Pool indexer (src/indexer/rocket_pool/main.py with           *)
(* RocketPoolDataProvider): a round fills four tables one after the other, *)
(* nodes, minipools, bond reductions and reward periods, each with its own *)
(* commit. Minipools and bond reductions come from the logs of the blocks  *)
(* since LAST_BLOCK_NUMBER_INDEXED, a variable of the process that a       *)
(* restart resets, while the tables survive it.                            *)
(*                                                                         *)
(* Nodes are read from the local execution node, logs and minipools from   *)
(* Infura: two nodes with two heads. LogRange shows how a range of logs is *)
(* fetched; here a log of a block in Cuts, where ranges are cut, comes     *)
(* twice.                                                                  *)
(***************************************************************************)
EXTENDS Integers, FiniteSets

CONSTANTS
    Nodes, RegisteredAt,    \* [Nodes -> block]
    Minipools, CreatedAt,   \* [Minipools -> block]
    NodeOf,                 \* [Minipools -> Nodes]
    Reductions, ReducedAt,  \* [Reductions -> block]
    MinipoolOf,             \* [Reductions -> Minipools]
    FirstPeriods,           \* reward periods that ended before the first round
    LastBlock, LastPeriod,  \* bounds: the chain and the reward periods end there
    MaxLag,                 \* blocks Infura may be behind the local node
    Swallows,               \* may an eth_call about a minipool fail?
    Cuts,                   \* blocks at which a range of logs is cut
    CutPeriods,             \* reward periods with their snapshot in such a block
    MaxFaults               \* bound: failed rounds and restarts

ASSUME ConstantsAssumption ==
    /\ LastBlock \in Nat /\ LastPeriod \in Nat /\ FirstPeriods \in 0 .. LastPeriod
    /\ MaxLag \in Nat /\ MaxFaults \in Nat
    /\ RegisteredAt \in [Nodes -> 1 .. LastBlock]
    /\ CreatedAt \in [Minipools -> 1 .. LastBlock]
    /\ NodeOf \in [Minipools -> Nodes]
    /\ ReducedAt \in [Reductions -> 1 .. LastBlock]
    /\ MinipoolOf \in [Reductions -> Minipools]
    /\ Swallows \in BOOLEAN /\ Cuts \subseteq Nat /\ CutPeriods \subseteq Nat
    /\ \A m \in Minipools : RegisteredAt[NodeOf[m]] <= CreatedAt[m]
    /\ \A r \in Reductions : CreatedAt[MinipoolOf[r]] <= ReducedAt[r]

VARIABLES
    head,       \* head of the chain
    ended,      \* reward periods 0 .. ended - 1 have ended
    nodes, minipools, reductions, periods,  \* the committed tables
    pc,         \* "idle" or the stage that is next
    current,    \* current_exec_block_number
    last,       \* LAST_BLOCK_NUMBER_INDEXED
    faults

chain == <<head, ended>>
tables == <<nodes, minipools, reductions, periods>>
vars == <<chain, tables, pc, current, last, faults>>

Stages == {"nodes", "minipools", "reductions", "periods"}

-----------------------------------------------------------------------------
Init ==
    /\ head \in 0 .. LastBlock /\ ended \in FirstPeriods .. LastPeriod
    /\ nodes = {} /\ minipools = {} /\ reductions = {} /\ periods = {}
    /\ pc = "idle" /\ current = 0 /\ last = 0 /\ faults = 0

NewBlock ==
    /\ head < LastBlock /\ head' = head + 1
    /\ UNCHANGED <<ended, tables, pc, current, last, faults>>

EndPeriod ==
    /\ ended < LastPeriod /\ ended' = ended + 1
    /\ UNCHANGED <<head, tables, pc, current, last, faults>>

StartRound ==
    /\ pc = "idle"
    /\ current' = head /\ pc' = "nodes"
    /\ UNCHANGED <<chain, tables, last, faults>>

\* get_nodes: an eth_call at the round's block.
IndexNodes ==
    /\ pc = "nodes"
    /\ nodes' = nodes \cup {n \in Nodes : RegisteredAt[n] <= current}
    /\ pc' = "minipools"
    /\ UNCHANGED <<chain, minipools, reductions, periods, current, last, faults>>

\* Blocks whose logs the round asks for; Infura answers up to its own head.
Scanned(at, lag) == last <= at /\ at <= current /\ at <= head - lag

NewMinipools(lag) ==
    {m \in Minipools \ minipools : Scanned(CreatedAt[m], lag) /\ NodeOf[m] \in nodes}

\* get_minipools logs an error for a minipool whose data it cannot get, and
\* goes on with the next (lines 383-384 of providers/rocket_pool.py).
IndexMinipools(lag, lost) ==
    /\ pc = "minipools"
    /\ lost \subseteq NewMinipools(lag) /\ (lost # {} => Swallows)
    \* a minipool that comes twice would be added twice: the commit fails
    /\ \A m \in NewMinipools(lag) \ lost : CreatedAt[m] \notin Cuts
    /\ minipools' = minipools \cup (NewMinipools(lag) \ lost)
    /\ pc' = "reductions"
    /\ UNCHANGED <<chain, nodes, reductions, periods, current, last, faults>>

MinipoolTwice(lag) ==
    /\ pc = "minipools"
    /\ \E m \in NewMinipools(lag) : CreatedAt[m] \in Cuts
    /\ pc' = "idle"
    /\ UNCHANGED <<chain, tables, current, last, faults>>

\* session.merge: a reduction that comes again replaces itself. One of a
\* minipool that is not in the table is skipped.
IndexReductions(lag) ==
    /\ pc = "reductions"
    /\ reductions' = reductions \cup
           {r \in Reductions : Scanned(ReducedAt[r], lag) /\ MinipoolOf[r] \in minipools}
    /\ pc' = "periods"
    /\ UNCHANGED <<chain, nodes, minipools, periods, current, last, faults>>

\* last_indexed_reward_period+1 if last_indexed_reward_period else 0
LastStored(S) == CHOOSE p \in S : \A q \in S : q <= p
StartPeriod_Stored == IF periods = {} THEN 0 ELSE LastStored(periods)
StartPeriod == IF periods \in {{}, {0}} THEN 0 ELSE LastStored(periods) + 1

\* How many snapshots Infura has; the blocks are read from 0 on every time. The
\* periods it is asked for, and those of them that cannot be added: one that is
\* stored already, and one whose log comes twice.
Seen(lag) == IF lag = 0 THEN {ended} ELSE 0 .. ended
NewPeriods(seen) == {p \in 0 .. LastPeriod - 1 : StartPeriod <= p /\ p < seen}
Duplicates(seen) == NewPeriods(seen) \cap (periods \cup CutPeriods)

\* The reward trees are downloaded one by one, from IPFS or from GitHub; when
\* both fail the stage fails with all its periods (lines 255-268).
IndexPeriods_SkipFailed(seen) ==
    /\ pc = "periods" /\ Duplicates(seen) = {}
    /\ \E got \in SUBSET NewPeriods(seen) : periods' = periods \cup got
    /\ last' = current /\ pc' = "idle"
    /\ UNCHANGED <<chain, nodes, minipools, reductions, current, faults>>
IndexPeriods(seen) ==
    /\ pc = "periods" /\ Duplicates(seen) = {}
    /\ periods' = periods \cup NewPeriods(seen)
    /\ last' = current /\ pc' = "idle"
    /\ UNCHANGED <<chain, nodes, minipools, reductions, current, faults>>

\* A period is added a second time and violates the key: one whose log comes
\* twice, or period 0, which counts as none when it is the only one stored.
PeriodTwice(seen) ==
    /\ pc = "periods" /\ Duplicates(seen) # {}
    /\ pc' = "idle"
    /\ UNCHANGED <<chain, tables, current, last, faults>>

\* A request or a commit fails: what the stage added is rolled back, the outer
\* loop logs the error and sleeps. A restart also forgets the last block.
Fail_Advance ==
    /\ pc \in Stages /\ faults < MaxFaults
    /\ faults' = faults + 1 /\ pc' = "idle" /\ last' = current
    /\ UNCHANGED <<chain, tables, current>>
Fail ==
    /\ pc \in Stages /\ faults < MaxFaults
    /\ faults' = faults + 1 /\ pc' = "idle"
    /\ UNCHANGED <<chain, tables, current, last>>

Restart ==
    /\ faults < MaxFaults
    /\ faults' = faults + 1 /\ pc' = "idle" /\ last' = 0 /\ current' = 0
    /\ UNCHANGED <<chain, tables>>

Indexing ==
    \/ StartRound \/ IndexNodes
    \/ \E lag \in 0 .. MaxLag :
          \/ \E lost \in SUBSET Minipools : IndexMinipools(lag, lost)
          \/ MinipoolTwice(lag)
          \/ IndexReductions(lag)
          \/ \E seen \in Seen(lag) : IndexPeriods(seen) \/ PeriodTwice(seen)

Next == NewBlock \/ EndPeriod \/ Indexing \/ Fail \/ Restart

Spec == Init /\ [][Next]_vars

\* The process keeps working; blocks and periods may or may not come.
FairSpec == Spec /\ WF_vars(Indexing)

-----------------------------------------------------------------------------
\* The variables' types; the tables' foreign keys; no reward period is stored
\* before it has ended; the last block indexed is never ahead of the round, the
\* round never ahead of the chain.
TypeOK ==
    /\ head \in 0 .. LastBlock /\ ended \in 0 .. LastPeriod
    /\ nodes \subseteq Nodes
    /\ minipools \subseteq {m \in Minipools : NodeOf[m] \in nodes}
    /\ reductions \subseteq {r \in Reductions : MinipoolOf[r] \in minipools}
    /\ periods \subseteq 0 .. ended - 1
    /\ pc \in Stages \cup {"idle"}
    /\ last \in 0 .. current /\ current \in 0 .. head
    /\ faults \in 0 .. MaxFaults

\* The next round starts at the last block indexed, so whatever happened up to
\* it is in the tables, or no round will ever look for it again before a
\* restart; a failed round, wherever it failed, leaves the last block alone.
ScannedIsStored ==
    /\ \A m \in Minipools : CreatedAt[m] <= last => m \in minipools
    /\ \A r \in Reductions : ReducedAt[r] <= last => r \in reductions

\* Reward periods are stored without holes.
PeriodsHaveNoHoles ==
    \A p \in periods : \A q \in 0 .. p : q \in periods

\* The two ways in which a round fails whenever it is repeated: a new minipool or a
\* snapshot in a block where the range is cut, and period 0 as the only one stored.
CutForEver ==
    \/ \E m \in Minipools \ minipools : CreatedAt[m] \in Cuts /\ CreatedAt[m] <= head
    \/ \E p \in CutPeriods \ periods : p < ended
PeriodZeroForEver == periods = {0}

\* Every minipool that was created, and every reward period that ended, is stored
\* some day, whatever fails or restarts in between, unless one of the dead ends
\* is reached.
EventuallyStored ==
    /\ \A m \in Minipools : CreatedAt[m] <= head ~> (m \in minipools \/ CutForEver)
    /\ \A p \in 0 .. LastPeriod - 1 :
          ended > p ~> (p \in periods \/ CutForEver \/ PeriodZeroForEver)
=============================================================================
