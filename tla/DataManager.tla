------------------------------ MODULE DataManager ------------------------------
(***************************************************************************)
(* Copies and moves of the cloud file browser, DataManager. Within a       *)
(* library one request does it. To another library the server is asked for *)
(* a task, for all items or, if it is an old one, for each item, and then  *)
(* a timer asks how the task goes. The members of the DataManager belong   *)
(* to the operation that was begun last, whichever answer comes.           *)
(***************************************************************************)
EXTENDS Naturals, FiniteSets, FiniteSetsExt

CONSTANTS
    MaxOps,    \* bound: operations
    MaxItems,  \* bound: files and folders of an operation
    MaxQueries \* bound: queries that are under way

ASSUME CopiesAssumption == MaxOps \in Nat /\ MaxItems \in Nat /\ MaxQueries \in Nat \ {0}

VARIABLES
    inProgress, \* copy_move_in_progress_
    isBatch,    \* is_batch_operation_
    cur,        \* the operation that was begun last
    op,         \* operations: kind, are both ends in one library, number of items
    left,       \* src_dirents_
    taskId,     \* task_id_
    requests,   \* requests under way
    active,     \* operations whose timers run
    queries,    \* queries under way, equal ones numbered
    items,      \* the server: what has become of each item
    failed,     \* history: operations whose failure was signalled
    calm        \* history: no operation was begun during another, and no query
                \* took longer than the timer

vars == <<inProgress, isBatch, cur, op, left, taskId, requests, active, queries, items, failed, calm>>

Ops == 1..MaxOps
Items == 1..MaxItems
Kinds == {"copy", "move"}
All == 0
Doing == [copy |-> "copying", move |-> "moving"]
Done == [copy |-> "copied", move |-> "moved"]

Tasks == [op : Ops, item : Items \cup {All}, how : Kinds]
NoTask == [op |-> 0, item |-> All, how |-> "copy"]
Queries == [task : Tasks, how : Kinds, n : 1..MaxQueries]
Requests == [kind : {"sync", "batch", "one"}, task : Tasks]

ItemsOf(t) == IF t.item = All THEN 1..op[t.op].n ELSE {t.item}
Equal(q, p) == q.task = p.task /\ q.how = p.how

\* Types, and two shapes: an item is taken from src_dirents_ when it is asked for,
\* and a timer has a task to ask about.
TypeOK ==
    /\ inProgress \in BOOLEAN /\ isBatch \in BOOLEAN /\ calm \in BOOLEAN
    /\ cur \in 0..MaxOps
    /\ op \in [Ops -> [kind : Kinds, same : BOOLEAN, n : 0..MaxItems]]
    /\ left \subseteq Items
    /\ taskId \in Tasks \cup {NoTask}
    /\ requests \subseteq Requests
    /\ \A r \in requests : r.kind = "one" /\ r.task.op = cur => r.task.item \notin left
    /\ active \subseteq 1..cur
    /\ active # {} => taskId # NoTask
    /\ queries \subseteq Queries
    /\ items \in [Ops -> [Items -> {"waiting", "copying", "moving", "copied", "moved", "failed"}]]
    /\ failed \subseteq Ops

Init ==
    /\ inProgress = FALSE /\ isBatch \in BOOLEAN
    /\ cur = 0 /\ op = [o \in Ops |-> [kind |-> "copy", same |-> FALSE, n |-> 0]]
    /\ left = {} /\ taskId = NoTask
    /\ requests = {} /\ active = {} /\ queries = {}
    /\ items = [o \in Ops |-> [i \in Items |-> "waiting"]]
    /\ failed = {}
    /\ calm = TRUE

Going == requests # {} \/ active # {} \/ queries # {}

Running(t) == \A i \in ItemsOf(t) : items[t.op][i] = Doing[t.how]
Become(t, what) ==
    items' = [items EXCEPT ![t.op] = [i \in Items |-> IF i \in ItemsOf(t) THEN what ELSE @[i]]]

-----------------------------------------------------------------------------

\* copyDirents, moveDirents; a warning if the flag is set. The timer is a new one.
\* Bound: within a library one item stands for all.
Paste ==
    \E kind \in Kinds, same \in BOOLEAN, n \in Items :
        LET o == cur + 1
            task == [op |-> o, item |-> All, how |-> kind]
        IN /\ ~inProgress
           /\ o \in Ops
           /\ same => n = 1
           /\ inProgress' = TRUE
           /\ cur' = o
           /\ op' = [op EXCEPT ![o] = [kind |-> kind, same |-> same, n |-> n]]
           /\ left' = 1..n
           /\ requests' = requests \cup {[kind |-> IF same THEN "sync" ELSE "batch", task |-> task]}
           /\ calm' = (calm /\ ~Going)
           /\ UNCHANGED <<isBatch, taskId, active, queries, items, failed>>

\* Mutant: only a request within a library clears the flag when it fails.
FlagAfterSyncFailed(o) == inProgress /\ ~op[o].same

\* emit ...Failed, then the flag; its box lets the user paste nothing before that.
FlagAfterFailed(o) == FALSE

Fail(o) ==
    /\ failed' = failed \cup {o}
    /\ inProgress' = FlagAfterFailed(o)

\* Mutant: an item is asked for again.
LeftAfterAgain(i) == left

LeftAfter(i) == left \ {i}

\* asyncCopyOneItemApi, asyncMoveOneItemApi: the request of the item before is
\* deleted later, and its answer may be in the event queue already.
AskNextItem(how, others, flag) ==
    IF left = {}
    THEN inProgress' = FALSE /\ requests' = others /\ UNCHANGED left
    ELSE LET i == Min(left)
             before == {r \in others : r.kind = "one"}
         IN /\ \E deleted \in {{}, before} :
                 requests' = (others \ deleted) \cup
                     {[kind |-> "one", task |-> [op |-> cur, item |-> i, how |-> how]]}
            /\ left' = LeftAfter(i)
            /\ inProgress' = flag

\* onCopyDirentsSuccess and its like, of a request within a library
SyncAnswered(r) ==
    /\ r \in requests /\ r.kind = "sync"
    /\ requests' = requests \ {r}
    /\ \/ /\ Become(r.task, Done[r.task.how])
          /\ inProgress' = FALSE
          /\ UNCHANGED failed
       \/ Become(r.task, "failed") /\ Fail(r.task.op)
    /\ UNCHANGED <<isBatch, cur, op, left, taskId, active, queries, calm>>

\* Mutant: a task that is there already is not replaced.
TaskIdOnce(task) == IF taskId = NoTask THEN task ELSE taskId

TaskIdAfter(task) == task

\* The server takes a task: task_id_, and the timer of the last operation
TaskStarts(task) ==
    /\ taskId' = TaskIdAfter(task)
    /\ active' = active \cup {cur}
    /\ Become(task, Doing[task.how])

\* slotAsyncCopyMutipleItemsSuccess and -Failed; an old server answers 404.
BatchAnswered(r) ==
    /\ r \in requests /\ r.kind = "batch"
    /\ \/ /\ TaskStarts(r.task)
          /\ isBatch' = TRUE
          /\ requests' = requests \ {r}
          /\ UNCHANGED <<inProgress, left, failed>>
       \/ /\ AskNextItem(r.task.how, requests \ {r}, inProgress)
          /\ isBatch' = FALSE
          /\ UNCHANGED <<taskId, active, items, failed>>
       \/ /\ Fail(r.task.op)
          /\ requests' = requests \ {r}
          /\ UNCHANGED <<isBatch, left, taskId, active, items>>
    /\ UNCHANGED <<cur, op, queries, calm>>

\* slotAsyncCopyOneItemSuccess and -Failed
OneAnswered(r) ==
    /\ r \in requests /\ r.kind = "one"
    /\ requests' = requests \ {r}
    /\ \/ TaskStarts(r.task) /\ UNCHANGED <<inProgress, failed>>
       \/ /\ active' = active \ {cur}
          /\ Fail(r.task.op)
          /\ Become(r.task, "failed")
          /\ UNCHANGED taskId
    /\ UNCHANGED <<isBatch, cur, op, left, queries, calm>>

\* The timer of an operation, each second: slotQueryAsyncCopyOperaProgress
Timer(o) ==
    LET q == [task |-> taskId, how |-> op[o].kind, n |-> 1]
    IN /\ o \in active
       /\ Cardinality(queries) < MaxQueries
       /\ queries' = queries \cup {[q EXCEPT !.n = 1 + Cardinality({p \in queries : Equal(p, q)})]}
       /\ calm' = (calm /\ queries = {})
       /\ UNCHANGED <<inProgress, isBatch, cur, op, left, taskId, requests, active, items, failed>>

\* Mutant: a move clears the flag with each item, as a copy does.
FlagBetweenCopies(how) == FALSE

\* onCopyDirentsSuccess clears the flag after each item; a move does not.
FlagBetweenItems(how) == inProgress /\ how = "move"

\* slotQueryAsyncCopyOperationProgressSuccess: the next item if there is one
QuerySucceeds(q) ==
    /\ \A i \in ItemsOf(q.task) : items[q.task.op][i] # "failed"
    /\ Become(q.task, Done[q.task.how])
    /\ active' = active \ {cur}
    /\ IF isBatch
       THEN inProgress' = FALSE /\ UNCHANGED <<left, requests>>
       ELSE AskNextItem(q.how, requests, FlagBetweenItems(q.how))
    /\ UNCHANGED failed

\* slotQueryAsyncCopyOperationProgressFailed: the task has failed, or the request
QueryFails(q) ==
    /\ active' = active \ {cur}
    /\ Fail(q.task.op)
    /\ \/ Running(q.task) /\ Become(q.task, "failed")
       \/ UNCHANGED items
    /\ UNCHANGED <<left, requests>>

\* Neither, and nothing is signalled
QueryIsSilent(q) ==
    /\ Running(q.task)
    /\ UNCHANGED <<inProgress, left, requests, active, items, failed>>

QueryTaken(q) ==
    /\ \A p \in queries : Equal(p, q) => p.n <= q.n
    /\ queries' = queries \ {q}
    /\ UNCHANGED <<isBatch, cur, op, taskId, calm>>

Verdict == \E q \in queries : QueryTaken(q) /\ (QuerySucceeds(q) \/ QueryFails(q))
NoVerdict == \E q \in queries : QueryTaken(q) /\ QueryIsSilent(q)

RequestAnswered == \E r \in requests : SyncAnswered(r) \/ BatchAnswered(r) \/ OneAnswered(r)

Next == Paste \/ RequestAnswered \/ (\E o \in Ops : Timer(o)) \/ Verdict \/ NoVerdict

Spec == Init /\ [][Next]_vars

\* Requests and queries are answered, timers run, and a task does not go on for
\* ever.
Fairness ==
    /\ WF_vars(RequestAnswered) /\ WF_vars(Verdict \/ NoVerdict) /\ SF_vars(Verdict)
    /\ \A o \in Ops : WF_vars(Timer(o))

FairSpec == Spec /\ Fairness

-----------------------------------------------------------------------------
(* Properties.                                                             *)

\* When nothing is under way, each operation has done what it was asked for with
\* all its items, or its failure was signalled, however the server splits it up
\* (slotAsyncCopyMutipleItemsFailed, asyncCopyOneItemApi), if queries were quick
\* and no operation was begun during another.
NothingLost ==
    calm /\ ~Going =>
        \A o \in 1..cur : o \in failed \/ \A i \in 1..op[o].n : items[o][i] = Done[op[o].kind]

\* A move keeps the flag set until it has ended, on old servers too, so that no
\* other operation takes its members away (slotQueryAsyncMoveOperationProgressSuccess).
MovesExclude ==
    calm /\ Going /\ op[cur].kind = "move" => inProgress

\* The flag is cleared again and again, whatever fails, comes late or mixes with
\* other operations, else nothing could be pasted any more
\* (copy_move_in_progress_, data-mgr.cpp:200, 358).
FlagIsCleared == []<>~inProgress

\* "Another copy or move operation is in progress. Please wait until it
\* finishes." (data-mgr.cpp:201): none is begun before.
OneOperationAtATime == [][Paste => ~Going]_vars
=============================================================================
