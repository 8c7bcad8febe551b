------------------------------ MODULE LogRange ------------------------------
(***************************************************************************)
(* How the logs of a block range are fetched (ExecutionNode.get_logs and   *)
(* _get_logs, execution_node.py): the range is cut into chunks of          *)
(* MAX_BLOCK_RANGE blocks; a provider that answers "too many results" for  *)
(* a chunk makes _get_logs call itself on two parts of it, cut at the end  *)
(* the provider suggests or in the middle.                                 *)
(*                                                                         *)
(* `todo` is the stack of calls still to make, in the order of the code's  *)
(* depth-first recursion. Python gives up at its recursion limit.          *)
(***************************************************************************)
EXTENDS Integers, Sequences, FiniteSetsExt

CONSTANTS
    End,            \* the range is 0 .. End
    MaxBlockRange,  \* 500 in the code
    Cap,            \* most logs the provider returns for one query
    LogCounts,      \* [0 .. End -> Nat], histories the run looks at
    MaxDepth        \* Python's recursion limit

ASSUME RangeAssumption ==
    /\ End \in Nat /\ MaxBlockRange \in Nat \ {0} /\ MaxDepth \in Nat
    /\ Cap \in Nat \ {0}

VARIABLES
    logsAt,     \* number of logs in each block
    todo,       \* Seq of [from, to, depth]
    fetched,    \* how often the logs of a block are in the result
    status      \* "running", "done" or "failed"

logsVars == <<logsAt, todo, fetched, status>>

Blocks == 0 .. End

LogsIn(logs, from, to) == MapThenSumSet(LAMBDA b : logs[b], from .. to)

Call(from, to, depth) == [from |-> from, to |-> to, depth |-> depth]

\* Lines 275-283: the last chunk may be shorter.
ChunkEnd(from) ==
    IF from + MaxBlockRange - 1 < End THEN from + MaxBlockRange - 1 ELSE End
Chunks_DropRest ==
    [i \in 1 .. (End + 1) \div MaxBlockRange |->
        Call((i - 1) * MaxBlockRange, ChunkEnd((i - 1) * MaxBlockRange), 1)]
Chunks ==
    [i \in 1 .. (End \div MaxBlockRange) + 1 |->
        Call((i - 1) * MaxBlockRange, ChunkEnd((i - 1) * MaxBlockRange), 1)]

LogsInit ==
    /\ logsAt \in LogCounts
    /\ todo = Chunks
    /\ fetched = [b \in Blocks |-> 0]
    /\ status = "running"

TooMany(call) == LogsIn(logsAt, call.from, call.to) > Cap

\* Lines 229-266: the provider returns the logs of the range.
Query ==
    /\ status = "running" /\ todo # <<>> /\ ~TooMany(Head(todo))
    /\ fetched' = [b \in Blocks |->
            fetched[b] + (IF b \in Head(todo).from .. Head(todo).to THEN 1 ELSE 0)]
    /\ todo' = Tail(todo)
    /\ UNCHANGED <<logsAt, status>>

\* Where the range is cut: at the end the provider names, the last one that
\* leaves it a query it can answer, or in the middle, rounded up.
Middle(call) == call.to - ((call.to - call.from) \div 2)
Answerable(call) ==
    {b \in call.from .. call.to : LogsIn(logsAt, call.from, b) <= Cap}
Suggestions(call) == IF Answerable(call) = {} THEN {} ELSE {Max(Answerable(call))}

\* Both parts contain the block of the cut (245-260).
Parts(call, cut) ==
    <<Call(call.from, cut, call.depth + 1), Call(cut, call.to, call.depth + 1)>>

Split(cut) ==
    /\ status = "running" /\ todo # <<>> /\ TooMany(Head(todo))
    /\ Head(todo).depth < MaxDepth
    /\ todo' = Parts(Head(todo), cut) \o Tail(todo)
    /\ UNCHANGED <<logsAt, fetched, status>>

GiveUp_StartOver ==
    /\ status = "running" /\ todo # <<>> /\ TooMany(Head(todo))
    /\ Head(todo).depth = MaxDepth
    /\ todo' = Chunks /\ fetched' = [b \in Blocks |-> 0]
    /\ UNCHANGED <<logsAt, status>>
GiveUp ==
    /\ status = "running" /\ todo # <<>> /\ TooMany(Head(todo))
    /\ Head(todo).depth = MaxDepth
    /\ status' = "failed"
    /\ UNCHANGED <<logsAt, todo, fetched>>

\* Another error raises (262-264), and so does a suggested end outside of the range:
\* the call for a part of it begins with assertions (206-207).
ProviderFails ==
    /\ status = "running" /\ todo # <<>>
    /\ status' = "failed"
    /\ UNCHANGED <<logsAt, todo, fetched>>

Return ==
    /\ status = "running" /\ todo = <<>>
    /\ status' = "done"
    /\ UNCHANGED <<logsAt, todo, fetched>>

CutPoints == IF todo = <<>> THEN {} ELSE {Middle(Head(todo))} \cup Suggestions(Head(todo))

LogsNext ==
    \/ Query \/ (\E cut \in CutPoints : Split(cut))
    \/ GiveUp \/ ProviderFails \/ Return

LogsSpec == LogsInit /\ [][LogsNext]_logsVars /\ WF_logsVars(LogsNext)

-----------------------------------------------------------------------------
\* At every moment every block is either in the result or in a call still to be
\* made, so a result that is returned misses no block, however the provider
\* cuts the ranges; get_logs never returns part of a range it gave up on.
NothingMissed ==
    \A b \in Blocks :
        \/ fetched[b] > 0
        \/ \E i \in 1 .. Len(todo) : b \in todo[i].from .. todo[i].to

\* The recursion ends: with a result, or with Python's RecursionError.
Ends == <>(status # "running")
=============================================================================
