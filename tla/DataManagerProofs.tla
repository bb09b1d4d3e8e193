-------------------------- MODULE DataManagerProofs --------------------------
(***************************************************************************)
(* The safety properties of DataManager hold for any number of operations, *)
(* items and queries.                                                      *)
(***************************************************************************)
EXTENDS DataManager, FiniteSetTheorems, WellFoundedInduction, TLAPS

\* Whatever is under way belongs to an operation that has been begun.
KnownInv ==
    /\ \A r \in requests : r.task.op \in 1..cur
    /\ \A q \in queries : q.task.op \in 1..cur
    /\ taskId # NoTask => taskId.op \in 1..cur
    /\ IsFiniteSet(queries)

\* While no operation is begun during another, what is under way is one request,
\* or one task with one query, of the last operation.
RequestInv ==
    \A r \in requests :
        /\ requests = {r} /\ active = {} /\ queries = {}
        /\ r.task.op = cur /\ r.task.how = op[cur].kind
        /\ r.kind = "one" => ~isBatch
        /\ r.kind # "one" => r.task.item = All
        /\ r.kind = "batch" => left = 1..op[cur].n

TaskInv ==
    /\ active # {} => /\ active = {cur}
                      /\ taskId.op = cur /\ taskId.how = op[cur].kind
                      /\ isBatch => taskId.item = All
    /\ \A q \in queries : /\ queries = {q} /\ active # {}
                          /\ q.task = taskId /\ q.how = op[cur].kind

\* An item of the last operation that has not been done is still to be asked
\* for, is being asked for, or belongs to the task.
Pending(o, i) ==
    /\ o = cur
    /\ \/ i \in left /\ Going
       \/ \E r \in requests : i \in ItemsOf(r.task)
       \/ active # {} /\ i \in ItemsOf(taskId)

ItemsInv ==
    \A o \in 1..cur :
        \/ o \in failed
        \/ \A i \in 1..op[o].n : items[o][i] = Done[op[o].kind] \/ Pending(o, i)

FlagInv == Going /\ op[cur].kind = "move" => inProgress

AllCalm == RequestInv /\ TaskInv /\ ItemsInv /\ FlagInv

CalmInv == calm => AllCalm

TypeInv == TypeOK /\ KnownInv

IInv == TypeInv /\ CalmInv

-----------------------------------------------------------------------------
(* What the operators of the model return.                                 *)

\* The least of some numbers is one of them.
LEMMA MinIsMember ==
    ASSUME NEW S \in SUBSET Nat, S # {}
    PROVE  Min(S) \in S
<1> DEFINE R == OpToRel(<, Nat)
<1>1. \E m \in S : \A j \in S : <<j, m>> \notin R
  BY WFMin, NatLessThanWellFounded
<1>2. \A j, m \in Nat : <<j, m>> \notin R => m <= j
  BY DEF OpToRel
<1>3. \E m \in S : \A j \in S : m <= j
  BY <1>1, <1>2
<1> QED
  BY <1>3 DEF Min

Statuses == {"waiting", "copying", "moving", "copied", "moved", "failed"}

LEMMA BecomeProperties ==
    ASSUME TypeOK, NEW t \in Tasks, NEW what \in Statuses, Become(t, what)
    PROVE  /\ items' \in [Ops -> [Items -> Statuses]]
           /\ \A o \in Ops, i \in Items :
                  items'[o][i] = IF o = t.op /\ i \in ItemsOf(t) THEN what ELSE items[o][i]
<1> DEFINE row == [i \in Items |-> IF i \in ItemsOf(t) THEN what ELSE items[t.op][i]]
<1>1. items \in [Ops -> [Items -> Statuses]] /\ t.op \in Ops
  BY DEF TypeOK, Statuses, Tasks
<1>2. items' = [items EXCEPT ![t.op] = row]
  BY DEF Become
<1>3. row \in [Items -> Statuses]
  BY <1>1
<1>4. \A i \in Items : row[i] = IF i \in ItemsOf(t) THEN what ELSE items[t.op][i]
  OBVIOUS
<1> HIDE DEF row
<1>5. items' \in [Ops -> [Items -> Statuses]]
  BY <1>1, <1>2, <1>3
<1>6. ASSUME NEW o \in Ops, NEW i \in Items
      PROVE  items'[o][i] = IF o = t.op /\ i \in ItemsOf(t) THEN what ELSE items[o][i]
  BY <1>1, <1>2, <1>4
<1> QED
  BY <1>5, <1>6

LEMMA StatusesOfTasks ==
    ASSUME NEW how \in Kinds
    PROVE  Doing[how] \in Statuses /\ Done[how] \in Statuses
BY DEF Kinds, Doing, Done, Statuses

\* The flag is cleared when no item is left.
LEMMA AskNextItemFlag ==
    ASSUME NEW how, NEW others, NEW flag, AskNextItem(how, others, flag)
    PROVE  IF left = {} THEN inProgress' = FALSE ELSE inProgress' = flag
BY DEF AskNextItem

\* The new request is for an item that was left and is left no more.
AskedFor(r, how, others) ==
    /\ r.kind = "one" /\ r.task \in Tasks
    /\ r.task.op = cur /\ r.task.how = how
    /\ r.task.item \in left /\ left' = left \ {r.task.item}
    /\ others = {} => requests' = {r}

LEMMA AskNextItemProperties ==
    ASSUME TypeOK, NEW how \in Kinds, NEW others \in SUBSET requests, NEW flag,
           cur \in Ops, AskNextItem(how, others, flag)
    PROVE  /\ left' \subseteq left
           /\ requests' \subseteq Requests
           /\ \A r \in requests' : r \in others \/ AskedFor(r, how, others)
           /\ left = {} => left' = {} /\ requests' = others
           /\ left # {} => \E r \in requests' : r.kind = "one"
<1>1. CASE left = {}
  <2>1. left' = left /\ requests' = others
    BY <1>1 DEF AskNextItem
  <2>2. requests \subseteq Requests
    BY DEF TypeOK
  <2> QED
    BY <1>1, <2>1, <2>2
<1>2. CASE left # {}
  <2> DEFINE i == Min(left)
             new == [kind |-> "one", task |-> [op |-> cur, item |-> i, how |-> how]]
             before == {r \in others : r.kind = "one"}
  <2>1. i \in left /\ i \in Items
    BY <1>2, MinIsMember DEF TypeOK, Items
  <2> HIDE DEF i
  <2>2. [op |-> cur, item |-> i, how |-> how] \in Tasks
    BY <2>1 DEF Tasks
  <2>3. new \in Requests
    BY <2>2 DEF Requests
  <2>4. PICK deleted \in {{}, before} : requests' = (others \ deleted) \cup {new}
    BY <1>2 DEF AskNextItem, i
  <2>5. left' = left \ {i} /\ inProgress' = flag
    BY <1>2 DEF AskNextItem, LeftAfter, i
  <2>6. requests \subseteq Requests
    BY DEF TypeOK
  <2>7. new.kind = "one" /\ new.task.op = cur /\ new.task.how = how /\ new.task.item = i
        /\ new.task \in Tasks
    BY <2>2
  <2> HIDE DEF new, before
  <2>8. requests' \subseteq others \cup {new} /\ new \in requests'
        /\ (others = {} => requests' = {new})
    BY <2>4
  <2> QED
    BY <1>2, <2>1, <2>3, <2>5, <2>6, <2>7, <2>8 DEF AskedFor
<1> QED
  BY <1>1, <1>2

-----------------------------------------------------------------------------
(* The types, and what is known of everything under way.                   *)

LEMMA InitTypeInv == Init => TypeInv
<1> SUFFICES ASSUME Init PROVE TypeInv
  OBVIOUS
<1> USE CopiesAssumption DEF Init
<1>1. op \in [Ops -> [kind : Kinds, same : BOOLEAN, n : 0..MaxItems]]
  BY DEF Kinds
<1>2. items \in [Ops -> [Items -> Statuses]]
  BY DEF Statuses
<1>3. /\ cur \in 0..MaxOps /\ left \subseteq Items /\ taskId \in Tasks \cup {NoTask}
      /\ active \subseteq 1..cur
  OBVIOUS
<1>4. TypeOK
  BY <1>1, <1>2, <1>3 DEF TypeOK, Statuses
<1>5. KnownInv
  BY FS_EmptySet DEF KnownInv
<1> QED
  BY <1>4, <1>5 DEF TypeInv

LEMMA PasteType ==
    ASSUME TypeInv, Paste
    PROVE  TypeInv'
<1> USE CopiesAssumption DEF TypeInv
<1> PICK kind \in Kinds, same \in BOOLEAN, n \in Items :
        LET o == cur + 1
            task == [op |-> o, item |-> All, how |-> kind]
        IN /\ o \in Ops
           /\ inProgress' = TRUE
           /\ cur' = o
           /\ op' = [op EXCEPT ![o] = [kind |-> kind, same |-> same, n |-> n]]
           /\ left' = 1..n
           /\ requests' = requests \cup {[kind |-> IF same THEN "sync" ELSE "batch", task |-> task]}
           /\ calm' = (calm /\ ~Going)
           /\ UNCHANGED <<isBatch, taskId, active, queries, items, failed>>
  BY DEF Paste
<1> DEFINE o == cur + 1
           task == [op |-> o, item |-> All, how |-> kind]
           new == [kind |-> IF same THEN "sync" ELSE "batch", task |-> task]
<1>1. cur \in 0..MaxOps /\ o \in 1..MaxOps /\ n \in 1..MaxItems
  BY DEF TypeOK, Ops, Items
<1>2. task \in Tasks /\ task.op = o
  BY DEF Tasks
<1>3. new \in Requests /\ new.kind # "one" /\ new.task.op = o
  BY <1>2 DEF Requests
<1> HIDE DEF task
<1>4. requests' = requests \cup {new} /\ cur' = o
  BY DEF task
<1> HIDE DEF new
<1>5. \A r \in requests' : r.kind = "one" /\ r.task.op = cur' => r.task.item \notin left'
  BY <1>1, <1>3, <1>4 DEF KnownInv
<1>6. op' \in [Ops -> [kind : Kinds, same : BOOLEAN, n : 0..MaxItems]]
  BY <1>1 DEF TypeOK
<1>7. left' \subseteq Items
  BY <1>1 DEF Items
<1>8. active' \subseteq 1..cur'
  BY <1>1, <1>4 DEF TypeOK
<1>9. TypeOK'
  BY <1>1, <1>3, <1>4, <1>5, <1>6, <1>7, <1>8 DEF TypeOK, Going
<1>10. KnownInv'
  BY <1>1, <1>3, <1>4 DEF KnownInv
<1> QED
  BY <1>9, <1>10

LEMMA SyncAnsweredType ==
    ASSUME TypeInv, NEW r, SyncAnswered(r)
    PROVE  TypeInv'
<1> USE DEF TypeInv
<1>1. r \in requests /\ r.task \in Tasks /\ r.task.op \in Ops /\ r.task.how \in Kinds
  BY DEF SyncAnswered, TypeOK, Requests, Tasks
<1>2. items' \in [Ops -> [Items -> Statuses]]
  BY <1>1, BecomeProperties, StatusesOfTasks DEF SyncAnswered, Statuses
<1>3. inProgress' \in BOOLEAN /\ failed' \subseteq Ops
  BY <1>1 DEF SyncAnswered, Fail, FlagAfterFailed, TypeOK
<1>4. TypeOK'
  BY <1>2, <1>3 DEF SyncAnswered, TypeOK, Statuses
<1>5. KnownInv'
  BY DEF SyncAnswered, KnownInv
<1> QED
  BY <1>4, <1>5

LEMMA TaskStartsType ==
    ASSUME TypeInv, NEW task \in Tasks, task.op \in 1..cur, TaskStarts(task)
    PROVE  /\ items' \in [Ops -> [Items -> Statuses]]
           /\ taskId' = task /\ taskId' # NoTask
           /\ active' \subseteq 1..cur
<1> USE DEF TypeInv
<1>1. task.how \in Kinds /\ task # NoTask /\ cur \in 0..MaxOps
  BY CopiesAssumption DEF Tasks, NoTask, Ops, TypeOK
<1>2. items' \in [Ops -> [Items -> Statuses]]
  BY <1>1, BecomeProperties, StatusesOfTasks DEF TaskStarts
<1>3. taskId' = task /\ active' = active \cup {cur}
  BY DEF TaskStarts, TaskIdAfter
<1>4. cur \in 1..cur
  BY <1>1, CopiesAssumption
<1> QED
  BY <1>1, <1>2, <1>3, <1>4 DEF TypeOK

LEMMA BatchAnsweredType ==
    ASSUME TypeInv, NEW r, BatchAnswered(r)
    PROVE  TypeInv'
<1> USE DEF TypeInv
<1>1. /\ r \in requests /\ r.task \in Tasks /\ r.task.op \in Ops /\ r.task.how \in Kinds
      /\ r.task.op \in 1..cur
  BY DEF BatchAnswered, TypeOK, Requests, Tasks, KnownInv
<1>2. cur \in Ops /\ cur \in 1..cur
  BY <1>1, CopiesAssumption DEF TypeOK, Ops
<1>3. UNCHANGED <<cur, op, queries, calm>>
  BY DEF BatchAnswered
<1>4. CASE /\ TaskStarts(r.task) /\ isBatch' = TRUE /\ requests' = requests \ {r}
           /\ UNCHANGED <<inProgress, left, failed>>
  BY <1>1, <1>3, <1>4, TaskStartsType DEF TypeOK, KnownInv, Statuses
<1>5. CASE /\ AskNextItem(r.task.how, requests \ {r}, inProgress) /\ isBatch' = FALSE
           /\ UNCHANGED <<taskId, active, items, failed>>
  <2>1. requests \ {r} \in SUBSET requests /\ inProgress \in BOOLEAN
    BY DEF TypeOK
  <2>2. /\ inProgress' \in BOOLEAN /\ left' \subseteq left /\ requests' \subseteq Requests
        /\ \A s \in requests' :
              \/ s \in requests
              \/ s.task.op = cur /\ left' = left \ {s.task.item}
    <3>1. PICK others \in SUBSET requests, flag \in BOOLEAN :
              others = requests \ {r} /\ flag = inProgress
      BY <2>1
    <3>2. AskNextItem(r.task.how, others, flag)
      BY <1>5, <3>1
    <3>3. left' \subseteq left /\ requests' \subseteq Requests
      BY <1>1, <1>2, <3>2, AskNextItemProperties
    <3>5. \A s \in requests' : s \in others \/ AskedFor(s, r.task.how, others)
      BY <1>1, <1>2, <3>2, AskNextItemProperties
    <3>4. inProgress' \in BOOLEAN
      BY <3>1, <3>2, AskNextItemFlag
    <3> QED
      BY <3>1, <3>3, <3>4, <3>5 DEF AskedFor
  <2>3. TypeOK'
    BY <1>3, <1>5, <2>2 DEF TypeOK
  <2>4. KnownInv'
    BY <1>2, <1>3, <1>5, <2>2 DEF KnownInv
  <2> QED
    BY <2>3, <2>4
<1>6. CASE /\ Fail(r.task.op) /\ requests' = requests \ {r}
           /\ UNCHANGED <<isBatch, left, taskId, active, items>>
  BY <1>1, <1>3, <1>6 DEF Fail, FlagAfterFailed, TypeOK, KnownInv
<1> QED
  BY <1>4, <1>5, <1>6 DEF BatchAnswered

LEMMA OneAnsweredType ==
    ASSUME TypeInv, NEW r, OneAnswered(r)
    PROVE  TypeInv'
<1> USE DEF TypeInv
<1>1. /\ r \in requests /\ r.task \in Tasks /\ r.task.op \in Ops /\ r.task.how \in Kinds
      /\ r.task.op \in 1..cur /\ requests' = requests \ {r}
  BY DEF OneAnswered, TypeOK, Requests, Tasks, KnownInv
<1>2. UNCHANGED <<isBatch, cur, op, left, queries, calm>>
  BY DEF OneAnswered
<1>3. CASE TaskStarts(r.task) /\ UNCHANGED <<inProgress, failed>>
  BY <1>1, <1>2, <1>3, TaskStartsType DEF TypeOK, KnownInv, Statuses
<1>4. CASE /\ active' = active \ {cur} /\ Fail(r.task.op)
           /\ Become(r.task, "failed") /\ UNCHANGED taskId
  <2>1. items' \in [Ops -> [Items -> Statuses]]
    BY <1>1, <1>4, BecomeProperties DEF Statuses
  <2> QED
    BY <1>1, <1>2, <1>4, <2>1 DEF Fail, FlagAfterFailed, TypeOK, KnownInv, Statuses
<1> QED
  BY <1>3, <1>4 DEF OneAnswered

LEMMA TimerType ==
    ASSUME TypeInv, NEW o \in Ops, Timer(o)
    PROVE  TypeInv'
<1> USE DEF TypeInv
<1> DEFINE q == [task |-> taskId, how |-> op[o].kind, n |-> 1]
           same == {p \in queries : Equal(p, q)}
           new == [q EXCEPT !.n = 1 + Cardinality(same)]
<1>1. /\ queries' = queries \cup {new}
      /\ UNCHANGED <<inProgress, isBatch, cur, op, left, taskId, requests, active, items, failed>>
      /\ calm' \in BOOLEAN
  BY DEF Timer, TypeOK
<1>2. taskId \in Tasks /\ taskId # NoTask
  BY DEF Timer, TypeOK
<1>3. 1 + Cardinality(same) \in 1..MaxQueries
  <2>1. IsFiniteSet(queries) /\ same \in SUBSET queries
    BY DEF KnownInv
  <2>2. Cardinality(same) <= Cardinality(queries)
    BY <2>1, FS_Subset
  <2>3. Cardinality(same) \in Nat /\ Cardinality(queries) \in Nat
    BY <2>1, FS_Subset, FS_CardinalityType
  <2>4. Cardinality(queries) < MaxQueries
    BY DEF Timer
  <2> HIDE DEF same
  <2> QED
    BY <2>2, <2>3, <2>4, CopiesAssumption
<1> HIDE DEF same
<1>4. new \in Queries /\ new.task = taskId
  BY <1>2, <1>3 DEF Queries, TypeOK
<1> HIDE DEF new
<1>5. TypeOK'
  BY <1>1, <1>4 DEF TypeOK
<1>6. KnownInv'
  BY <1>1, <1>2, <1>4, FS_AddElement DEF KnownInv
<1> QED
  BY <1>5, <1>6

LEMMA QueryTakenType ==
    ASSUME TypeInv, NEW q \in queries, QueryTaken(q),
           QuerySucceeds(q) \/ QueryFails(q) \/ QueryIsSilent(q)
    PROVE  TypeInv'
<1> USE DEF TypeInv
<1>1. q.task \in Tasks /\ q.how \in Kinds /\ q.task.op \in Ops /\ q.task.how \in Kinds
      /\ q.task.op \in 1..cur
  BY DEF TypeOK, KnownInv, Queries, Tasks
<1>2. cur \in Ops
  BY <1>1, CopiesAssumption DEF TypeOK, Ops
<1>3. UNCHANGED <<isBatch, cur, op, taskId, calm>> /\ queries' = queries \ {q}
  BY DEF QueryTaken
<1>4. queries' \subseteq Queries /\ IsFiniteSet(queries')
  BY <1>3, FS_RemoveElement DEF TypeOK, KnownInv
<1>5. CASE QuerySucceeds(q)
  <2>1. items' \in [Ops -> [Items -> Statuses]] /\ active' = active \ {cur} /\ failed' = failed
    BY <1>1, <1>5, BecomeProperties, StatusesOfTasks DEF QuerySucceeds
  <2>2. /\ inProgress' \in BOOLEAN /\ left' \subseteq left /\ requests' \subseteq Requests
        /\ \A s \in requests' :
              \/ s \in requests
              \/ s.task.op = cur /\ left' = left \ {s.task.item}
    <3>1. CASE isBatch
      BY <1>5, <3>1 DEF QuerySucceeds, TypeOK
    <3>2. CASE ~isBatch
      <4>1. PICK others \in SUBSET requests, flag \in BOOLEAN :
                others = requests /\ flag = FlagBetweenItems(q.how)
        BY DEF FlagBetweenItems, TypeOK
      <4>2. AskNextItem(q.how, others, flag)
        BY <1>5, <3>2, <4>1 DEF QuerySucceeds
      <4>3. left' \subseteq left /\ requests' \subseteq Requests
        BY <1>1, <1>2, <4>2, AskNextItemProperties
      <4>5. \A s \in requests' : s \in others \/ AskedFor(s, q.how, others)
        BY <1>1, <1>2, <4>2, AskNextItemProperties
      <4>4. inProgress' \in BOOLEAN
        BY <4>1, <4>2, AskNextItemFlag
      <4> QED
        BY <4>1, <4>3, <4>4, <4>5 DEF AskedFor
    <3> QED
      BY <3>1, <3>2
  <2>3. TypeOK'
    BY <1>3, <1>4, <2>1, <2>2 DEF TypeOK, Statuses
  <2>4. KnownInv'
    BY <1>2, <1>3, <1>4, <2>2 DEF KnownInv, Ops
  <2> QED
    BY <2>3, <2>4
<1>6. CASE QueryFails(q)
  <2>1. items' \in [Ops -> [Items -> Statuses]]
    BY <1>1, <1>6, BecomeProperties DEF QueryFails, Statuses, TypeOK
  <2>2. /\ active' = active \ {cur} /\ UNCHANGED <<left, requests>>
        /\ failed' \subseteq Ops /\ inProgress' \in BOOLEAN
    BY <1>1, <1>6 DEF QueryFails, Fail, FlagAfterFailed, TypeOK
  <2> QED
    BY <1>3, <1>4, <2>1, <2>2 DEF TypeOK, KnownInv, Statuses
<1>7. CASE QueryIsSilent(q)
  BY <1>3, <1>4, <1>7 DEF QueryIsSilent, TypeOK, KnownInv
<1> QED
  BY <1>5, <1>6, <1>7

LEMMA NextType ==
    ASSUME TypeInv, [Next]_vars
    PROVE  TypeInv'
<1>1. CASE Paste
  BY <1>1, PasteType
<1>2. CASE RequestAnswered
  BY <1>2, SyncAnsweredType, BatchAnsweredType, OneAnsweredType DEF RequestAnswered
<1>3. CASE \E o \in Ops : Timer(o)
  BY <1>3, TimerType
<1>4. CASE Verdict \/ NoVerdict
  BY <1>4, QueryTakenType DEF Verdict, NoVerdict
<1>5. CASE UNCHANGED vars
  BY <1>5 DEF vars, TypeInv, TypeOK, KnownInv
<1> QED
  BY <1>1, <1>2, <1>3, <1>4, <1>5 DEF Next

\* In every reachable state of DataManager the variables have their types; an item
\* being asked for is no longer in src_dirents_, and a timer has a task to ask about.
THEOREM TypeCorrect == Spec => []TypeOK
<1>1. Init => TypeInv
  BY InitTypeInv
<1>2. TypeInv /\ [Next]_vars => TypeInv'
  BY NextType
<1>3. TypeInv => TypeOK
  BY DEF TypeInv
<1> QED
  BY <1>1, <1>2, <1>3, PTL DEF Spec

-----------------------------------------------------------------------------
(* One operation at a time.                                                *)

LEMMA PasteCalm ==
    ASSUME IInv, Paste, calm'
    PROVE  AllCalm'
<1> USE CopiesAssumption DEF IInv, TypeInv
<1> PICK kind \in Kinds, same \in BOOLEAN, n \in Items :
        LET o == cur + 1
            task == [op |-> o, item |-> All, how |-> kind]
        IN /\ o \in Ops
           /\ inProgress' = TRUE
           /\ cur' = o
           /\ op' = [op EXCEPT ![o] = [kind |-> kind, same |-> same, n |-> n]]
           /\ left' = 1..n
           /\ requests' = requests \cup {[kind |-> IF same THEN "sync" ELSE "batch", task |-> task]}
           /\ calm' = (calm /\ ~Going)
           /\ UNCHANGED <<isBatch, taskId, active, queries, items, failed>>
  BY DEF Paste
<1> DEFINE o == cur + 1
           task == [op |-> o, item |-> All, how |-> kind]
           new == [kind |-> IF same THEN "sync" ELSE "batch", task |-> task]
<1>1. calm /\ requests = {} /\ active = {} /\ queries = {} /\ ItemsInv
  BY DEF Going, CalmInv, AllCalm
<1>2. requests' = {new} /\ active' = {} /\ queries' = {} /\ inProgress' = TRUE
  BY <1>1
<1>3. cur \in 0..MaxOps /\ o \in 1..MaxOps /\ cur' = o /\ left' = 1..n
  BY DEF TypeOK, Ops
<1>4. new.kind # "one" /\ new.task.item = All /\ new.task.op = o /\ new.task.how = kind
  OBVIOUS
<1>5. op'[o].kind = kind /\ op'[o].n = n /\ \A p \in 1..cur : op'[p] = op[p]
  BY <1>3 DEF TypeOK, Ops
<1> HIDE DEF new, o
<1>6. RequestInv'
  BY <1>2, <1>3, <1>4, <1>5 DEF RequestInv
<1>7. TaskInv'
  BY <1>2 DEF TaskInv
<1>8. ASSUME NEW p \in 1..cur'
      PROVE  \/ p \in failed'
             \/ \A i \in 1..op'[p].n : items'[p][i] = Done[op'[p].kind] \/ Pending(p, i)'
  <2>1. CASE p = o
    <3>1. PICK r \in requests' : r.task.item = All /\ r.task.op = p
      BY <1>2, <1>4, <2>1
    <3>2. ItemsOf(r.task)' = 1..n
      BY <1>5, <2>1, <3>1 DEF ItemsOf
    <3> QED
      BY <1>3, <1>5, <2>1, <3>1, <3>2 DEF Pending
  <2>2. CASE p # o
    <3>1. p \in 1..cur
      BY <1>3, <2>2 DEF o
    <3>2. p \in failed \/ \A i \in 1..op[p].n : items[p][i] = Done[op[p].kind]
      BY <1>1, <3>1 DEF ItemsInv, Pending, Going
    <3> QED
      BY <1>5, <3>1, <3>2
  <2> QED
    BY <2>1, <2>2
<1>9. ItemsInv'
  BY <1>8 DEF ItemsInv
<1>10. FlagInv'
  BY <1>2 DEF FlagInv
<1> QED
  BY <1>6, <1>7, <1>9, <1>10 DEF AllCalm

\* When nothing is under way and the last operation has failed or is complete, all is well.
LEMMA RestIsCalm ==
    ASSUME IInv, calm, requests' = {}, active' = {}, queries' = {}, UNCHANGED <<cur, op>>,
           NEW t \in Tasks, t.op = cur, NEW what \in Statuses,
           Become(t, what) \/ UNCHANGED items, failed \subseteq failed',
           \/ cur \in failed'
           \/ \A i \in 1..op[cur].n : items'[cur][i] = Done[op[cur].kind]
    PROVE  AllCalm'
<1> USE DEF IInv, TypeInv
<1>1. RequestInv' /\ TaskInv' /\ FlagInv'
  BY DEF RequestInv, TaskInv, FlagInv, Going
<1>2. ASSUME NEW p \in 1..cur
      PROVE  p \in failed' \/ \A i \in 1..op[p].n : items'[p][i] = Done[op[p].kind]
  <2>1. CASE p = cur
    BY <2>1
  <2>2. CASE p # cur
    <3>1. p \in Ops /\ 1..op[p].n \subseteq Items
      BY CopiesAssumption DEF TypeOK, Ops, Items
    <3>2. \A i \in 1..op[p].n : items'[p][i] = items[p][i]
      BY <2>2, <3>1, BecomeProperties
    <3> QED
      BY <2>2, <3>2 DEF CalmInv, AllCalm, ItemsInv, Pending
  <2> QED
    BY <2>1, <2>2
<1>3. ItemsInv'
  BY <1>2 DEF ItemsInv
<1> QED
  BY <1>1, <1>3 DEF AllCalm

LEMMA SyncAnsweredCalm ==
    ASSUME IInv, NEW r, SyncAnswered(r), calm'
    PROVE  AllCalm'
<1> USE DEF IInv, TypeInv
<1>1. /\ r \in requests /\ calm /\ RequestInv /\ r.kind = "sync" /\ requests' = requests \ {r}
      /\ UNCHANGED <<cur, op, active, queries>>
  BY DEF SyncAnswered, CalmInv, AllCalm
<1>2. /\ requests' = {} /\ active' = {} /\ queries' = {}
      /\ r.task.op = cur /\ r.task.how = op[cur].kind /\ r.task.item = All
  BY <1>1 DEF RequestInv
<1>3. r.task \in Tasks /\ cur \in Ops /\ cur \in 1..cur /\ op[cur].kind \in Kinds
      /\ 1..op[cur].n \subseteq Items
  BY <1>1, <1>2, CopiesAssumption DEF TypeOK, Requests, Tasks, Ops, Items
<1>4. CASE Become(r.task, Done[r.task.how]) /\ UNCHANGED failed
  <2>1. Done[op[cur].kind] \in Statuses
    BY <1>3, StatusesOfTasks
  <2>2. \A i \in 1..op[cur].n : items'[cur][i] = Done[op[cur].kind]
    BY <1>2, <1>3, <1>4, <2>1, BecomeProperties DEF ItemsOf
  <2>3. PICK what \in Statuses : Become(r.task, what)
    BY <1>2, <1>4, <2>1
  <2> QED
    BY <1>1, <1>2, <1>3, <1>4, <2>2, <2>3, RestIsCalm
<1>5. CASE Become(r.task, "failed") /\ Fail(r.task.op)
  <2>1. failed \subseteq failed' /\ cur \in failed' /\ "failed" \in Statuses
    BY <1>2, <1>5 DEF Fail, Statuses
  <2> QED
    BY <1>1, <1>2, <1>3, <1>5, <2>1, RestIsCalm
<1> QED
  BY <1>4, <1>5 DEF SyncAnswered

\* A task of the last operation is under way in place of the request for it.
LEMMA TaskStartsCalm ==
    ASSUME IInv, calm, NEW r \in requests, r.kind # "sync", TaskStarts(r.task),
           isBatch' = (r.kind = "batch"),
           requests' = requests \ {r}, UNCHANGED <<cur, op, inProgress, left, failed, queries>>
    PROVE  AllCalm'
<1> USE DEF IInv, TypeInv
<1>1. /\ requests = {r} /\ active = {} /\ queries = {} /\ r.kind \in {"one", "batch"}
      /\ r.task.op = cur /\ r.task.how = op[cur].kind /\ (r.kind # "one" => r.task.item = All)
  BY DEF RequestInv, CalmInv, AllCalm, TypeOK, Requests
<1>2. r.task \in Tasks /\ cur \in Ops /\ cur \in 1..cur /\ op[cur].kind \in Kinds
  BY <1>1, CopiesAssumption DEF TypeOK, Requests, Tasks, Ops
<1>3. requests' = {} /\ active' = {cur} /\ queries' = {} /\ taskId' = r.task
  BY <1>1 DEF TaskStarts, TaskIdAfter
<1>4. RequestInv' /\ TaskInv'
  BY <1>1, <1>3 DEF RequestInv, TaskInv
<1>5. FlagInv'
  BY DEF FlagInv, Going, CalmInv, AllCalm
<1>6. Doing[op[cur].kind] \in Statuses
  BY <1>2, StatusesOfTasks
<1>7. \A p \in Ops, i \in Items :
          items'[p][i] = IF p = cur /\ i \in ItemsOf(r.task) THEN Doing[op[cur].kind] ELSE items[p][i]
  BY <1>1, <1>2, <1>6, BecomeProperties DEF TaskStarts
<1>8. ASSUME NEW p \in 1..cur', p \notin failed', NEW i \in 1..op'[p].n
      PROVE  items'[p][i] = Done[op'[p].kind] \/ Pending(p, i)'
  <2>1. p \in Ops /\ i \in Items
    BY CopiesAssumption DEF TypeOK, Ops, Items
  <2>2. items[p][i] = Done[op[p].kind] \/ Pending(p, i)
    <3>1. p \in 1..cur /\ p \notin failed /\ i \in 1..op[p].n
      BY <1>8
    <3> QED
      BY <3>1 DEF ItemsInv, CalmInv, AllCalm
  <2>3. CASE p = cur /\ i \in ItemsOf(r.task)
    BY <1>3, <2>3 DEF Pending, ItemsOf
  <2>4. CASE p = cur /\ i \notin ItemsOf(r.task)
    BY <1>1, <1>3, <1>7, <2>1, <2>2, <2>4 DEF Pending, Going
  <2>5. CASE p # cur
    BY <1>7, <2>1, <2>2, <2>5 DEF Pending
  <2> QED
    BY <2>3, <2>4, <2>5
<1>9. ItemsInv'
  BY <1>8 DEF ItemsInv
<1> QED
  BY <1>4, <1>5, <1>9 DEF AllCalm

\* The next item of the last operation is asked for once what was asked for
\* before has ended.
LEMMA AskNextItemCalm ==
    ASSUME IInv, calm, cur \in Ops, NEW others, others = {}, NEW flag,
           AskNextItem(op[cur].kind, others, flag),
           active' = {}, queries' = {}, ~isBatch', UNCHANGED <<cur, op, failed>>,
           op[cur].kind = "move" => flag,
           \A p \in 1..cur : p # cur /\ p \notin failed =>
               \A i \in 1..op[p].n : items'[p][i] = Done[op[p].kind],
           cur \notin failed =>
               \A i \in 1..op[cur].n : i \in left \/ items'[cur][i] = Done[op[cur].kind]
    PROVE  AllCalm'
<1> USE DEF IInv, TypeInv
<1>1. op[cur].kind \in Kinds /\ others \in SUBSET requests
  BY DEF TypeOK
<1>2. PICK how \in Kinds : how = op[cur].kind
  BY <1>1
<1>3. AskNextItem(how, others, flag)
  BY <1>2
<1>4. /\ left' \subseteq left
      /\ \A r \in requests' : AskedFor(r, how, others)
      /\ left = {} => requests' = {}
      /\ left # {} => \E r \in requests' : r.kind = "one"
  BY <1>1, <1>3, AskNextItemProperties
<1>5. \A r \in requests' :
          /\ r.kind = "one" /\ r.task.op = cur /\ r.task.how = op[cur].kind
          /\ r.task.item \in left /\ left' = left \ {r.task.item} /\ requests' = {r}
          /\ r.task.item # All
  BY <1>2, <1>4 DEF AskedFor, TypeOK, Items, All
<1>6. RequestInv'
  BY <1>5 DEF RequestInv
<1>7. TaskInv'
  BY DEF TaskInv
<1>8. FlagInv'
  <2>1. CASE left = {}
    BY <1>4, <2>1 DEF FlagInv, Going
  <2>2. CASE left # {}
    <3>1. inProgress' = flag
      BY <1>3, <2>2 DEF AskNextItem
    <3> QED
      BY <3>1 DEF FlagInv
  <2> QED
    BY <2>1, <2>2
<1>9. ASSUME NEW p \in 1..cur', p \notin failed', NEW i \in 1..op'[p].n
      PROVE  items'[p][i] = Done[op'[p].kind] \/ Pending(p, i)'
  <2>1. p \in 1..cur /\ p \notin failed /\ i \in 1..op[p].n
    BY <1>9
  <2>2. CASE p # cur \/ i \notin left
    BY <2>1, <2>2
  <2>3. CASE p = cur /\ i \in left
    <3>1. PICK r \in requests' : r.kind = "one"
      BY <1>4, <2>3
    <3>2. i \in left' \/ i \in ItemsOf(r.task)'
      BY <1>5, <2>3, <3>1 DEF ItemsOf
    <3> QED
      BY <2>3, <3>1, <3>2 DEF Pending, Going
  <2> QED
    BY <2>2, <2>3
<1>10. ItemsInv'
  BY <1>9 DEF ItemsInv
<1> QED
  BY <1>6, <1>7, <1>8, <1>10 DEF AllCalm

LEMMA BatchAnsweredCalm ==
    ASSUME IInv, NEW r, BatchAnswered(r), calm'
    PROVE  AllCalm'
<1> USE DEF IInv, TypeInv
<1>1. /\ r \in requests /\ calm /\ AllCalm /\ r.kind = "batch"
      /\ UNCHANGED <<cur, op, queries>>
  BY DEF BatchAnswered, CalmInv
<1>2. /\ requests = {r} /\ active = {} /\ queries = {} /\ left = 1..op[cur].n
      /\ r.task.op = cur /\ r.task.how = op[cur].kind /\ r.task.item = All
  BY <1>1 DEF RequestInv, AllCalm
<1>3. r.task \in Tasks /\ cur \in Ops /\ cur \in 1..cur
  BY <1>1, <1>2, CopiesAssumption DEF TypeOK, Requests, Tasks, Ops
<1>4. CASE /\ TaskStarts(r.task) /\ isBatch' = TRUE /\ requests' = requests \ {r}
           /\ UNCHANGED <<inProgress, left, failed>>
  BY <1>1, <1>4, TaskStartsCalm
<1>5. CASE /\ AskNextItem(r.task.how, requests \ {r}, inProgress) /\ isBatch' = FALSE
           /\ UNCHANGED <<taskId, active, items, failed>>
  <2>1. PICK others, flag : others = {} /\ flag = inProgress
    OBVIOUS
  <2>2. AskNextItem(op[cur].kind, others, flag)
    <3>1. requests \ {r} = others
      BY <1>2, <2>1
    <3> QED
      BY <1>2, <1>5, <2>1, <3>1
  <2>3. op[cur].kind = "move" => flag
    BY <1>1, <2>1 DEF AllCalm, FlagInv, Going
  <2>4. \A p \in 1..cur : p # cur /\ p \notin failed =>
            \A i \in 1..op[p].n : items'[p][i] = Done[op[p].kind]
    BY <1>1, <1>5 DEF AllCalm, ItemsInv, Pending
  <2>5. \A i \in 1..op[cur].n : i \in left
    BY <1>2
  <2>6. /\ active' = {} /\ queries' = {} /\ ~isBatch' /\ UNCHANGED <<cur, op, failed>>
    BY <1>1, <1>2, <1>5
  <2> QED
    BY <1>1, <1>3, <2>1, <2>2, <2>3, <2>4, <2>5, <2>6, AskNextItemCalm
<1>6. CASE /\ Fail(r.task.op) /\ requests' = requests \ {r}
           /\ UNCHANGED <<isBatch, left, taskId, active, items>>
  <2>1. failed \subseteq failed' /\ cur \in failed' /\ "failed" \in Statuses
    BY <1>2, <1>6 DEF Fail, Statuses
  <2>2. requests' = {} /\ active' = {} /\ queries' = {} /\ UNCHANGED <<cur, op, items>>
    BY <1>1, <1>2, <1>6
  <2> QED
    BY <1>1, <1>2, <1>3, <2>1, <2>2, RestIsCalm
<1> QED
  BY <1>4, <1>5, <1>6 DEF BatchAnswered

LEMMA OneAnsweredCalm ==
    ASSUME IInv, NEW r, OneAnswered(r), calm'
    PROVE  AllCalm'
<1> USE DEF IInv, TypeInv
<1>1. /\ r \in requests /\ calm /\ AllCalm /\ r.kind = "one" /\ requests' = requests \ {r}
      /\ UNCHANGED <<isBatch, cur, op, left, queries>>
  BY DEF OneAnswered, CalmInv
<1>2. /\ requests = {r} /\ active = {} /\ queries = {} /\ ~isBatch
      /\ r.task.op = cur /\ r.task.how = op[cur].kind
  BY <1>1 DEF RequestInv, AllCalm
<1>3. r.task \in Tasks
  BY <1>1 DEF TypeOK, Requests
<1>4. CASE TaskStarts(r.task) /\ UNCHANGED <<inProgress, failed>>
  <2>1. isBatch' = (r.kind = "batch")
    BY <1>1, <1>2 DEF TypeOK
  <2> QED
    BY <1>1, <1>4, <2>1, TaskStartsCalm
<1>5. CASE /\ active' = active \ {cur} /\ Fail(r.task.op)
           /\ Become(r.task, "failed") /\ UNCHANGED taskId
  <2>1. failed \subseteq failed' /\ cur \in failed' /\ "failed" \in Statuses
    BY <1>2, <1>5 DEF Fail, Statuses
  <2>2. requests' = {} /\ active' = {} /\ queries' = {}
    BY <1>1, <1>2, <1>5
  <2> QED
    BY <1>1, <1>2, <1>3, <1>5, <2>1, <2>2, RestIsCalm
<1> QED
  BY <1>4, <1>5 DEF OneAnswered

LEMMA TimerCalm ==
    ASSUME IInv, NEW o \in Ops, Timer(o), calm'
    PROVE  AllCalm'
<1> USE DEF IInv, TypeInv
<1>1. /\ calm /\ AllCalm /\ queries = {} /\ o \in active
      /\ UNCHANGED <<inProgress, isBatch, cur, op, left, taskId, requests, active, items, failed>>
  BY DEF Timer, CalmInv
<1>2. requests = {} /\ o = cur
  BY <1>1 DEF AllCalm, RequestInv, TaskInv
<1>3. PICK n : queries' = {[task |-> taskId, how |-> op[cur].kind, n |-> n]}
  <2>1. \E n : queries' = queries \cup {[task |-> taskId, how |-> op[o].kind, n |-> n]}
    BY DEF Timer
  <2> QED
    BY <1>1, <1>2, <2>1
<1>4. RequestInv' /\ TaskInv'
  BY <1>1, <1>2, <1>3 DEF AllCalm, RequestInv, TaskInv
<1>5. FlagInv'
  BY <1>1 DEF AllCalm, FlagInv, Going
<1>6. ASSUME NEW p \in 1..cur', p \notin failed', NEW i \in 1..op'[p].n
      PROVE  items'[p][i] = Done[op'[p].kind] \/ Pending(p, i)'
  <2>1. items[p][i] = Done[op[p].kind] \/ Pending(p, i)
    BY <1>1, <1>6 DEF AllCalm, ItemsInv
  <2>2. Pending(p, i) => Pending(p, i)'
    BY <1>1 DEF Pending, Going, ItemsOf
  <2> QED
    BY <1>1, <2>1, <2>2
<1>7. ItemsInv'
  BY <1>6 DEF ItemsInv
<1> QED
  BY <1>4, <1>5, <1>7 DEF AllCalm

LEMMA QueryTakenCalm ==
    ASSUME IInv, NEW q \in queries, QueryTaken(q), calm',
           QuerySucceeds(q) \/ QueryFails(q) \/ QueryIsSilent(q)
    PROVE  AllCalm'
<1> USE DEF IInv, TypeInv
<1>1. calm /\ AllCalm /\ queries' = queries \ {q} /\ UNCHANGED <<isBatch, cur, op, taskId>>
  BY DEF QueryTaken, CalmInv
<1>2. /\ queries = {q} /\ active = {cur} /\ requests = {}
      /\ q.task = taskId /\ q.how = op[cur].kind
      /\ taskId.op = cur /\ taskId.how = op[cur].kind /\ (isBatch => taskId.item = All)
  BY <1>1 DEF AllCalm, RequestInv, TaskInv
<1>3. /\ q.task \in Tasks /\ cur \in Ops /\ cur \in 1..cur /\ op[cur].kind \in Kinds
      /\ 1..op[cur].n \subseteq Items
  BY <1>2, CopiesAssumption DEF TypeOK, Queries, Tasks, Ops, Items
<1>4. queries' = {}
  BY <1>1, <1>2
<1>5. CASE QuerySucceeds(q)
  <2>1. Become(q.task, Done[op[cur].kind]) /\ active' = {} /\ UNCHANGED failed
    BY <1>2, <1>5 DEF QuerySucceeds
  <2>2. PICK what \in Statuses : what = Done[op[cur].kind]
    BY <1>3, StatusesOfTasks
  <2>3. Become(q.task, what)
    BY <2>1, <2>2
  <2>4. \A p \in Ops, i \in Items :
            items'[p][i] = IF p = cur /\ i \in ItemsOf(q.task) THEN what ELSE items[p][i]
    BY <1>2, <1>3, <2>3, BecomeProperties
  <2>5. CASE isBatch
    <3>1. \A i \in 1..op[cur].n : items'[cur][i] = Done[op[cur].kind]
      BY <1>2, <1>3, <2>2, <2>4, <2>5 DEF ItemsOf
    <3>2. requests' = {}
      BY <1>2, <1>5, <2>5 DEF QuerySucceeds
    <3> QED
      BY <1>1, <1>2, <1>3, <1>4, <2>1, <2>3, <3>1, <3>2, RestIsCalm
  <2>6. CASE ~isBatch
    <3>1. PICK others, flag : others = {} /\ flag = FlagBetweenItems(q.how)
      OBVIOUS
    <3>2. AskNextItem(op[cur].kind, others, flag)
      BY <1>2, <1>5, <2>6, <3>1 DEF QuerySucceeds
    <3>3. op[cur].kind = "move" => flag
      BY <1>1, <1>2, <3>1 DEF AllCalm, FlagInv, Going, FlagBetweenItems
    <3>4. ASSUME NEW p \in 1..cur, p # cur, p \notin failed, NEW i \in 1..op[p].n
          PROVE  items'[p][i] = Done[op[p].kind]
      <4>1. p \in Ops /\ i \in Items
        BY CopiesAssumption DEF TypeOK, Ops, Items
      <4> QED
        BY <1>1, <2>4, <3>4, <4>1 DEF AllCalm, ItemsInv, Pending
    <3>5. ASSUME cur \notin failed, NEW i \in 1..op[cur].n
          PROVE  i \in left \/ items'[cur][i] = Done[op[cur].kind]
      BY <1>1, <1>2, <1>3, <2>2, <2>4, <3>5 DEF AllCalm, ItemsInv, Pending
    <3> QED
      BY <1>1, <1>3, <1>4, <2>1, <2>6, <3>1, <3>2, <3>3, <3>4, <3>5, AskNextItemCalm
  <2> QED
    BY <2>5, <2>6
<1>6. CASE QueryFails(q)
  <2>1. failed \subseteq failed' /\ cur \in failed' /\ "failed" \in Statuses
    BY <1>2, <1>6 DEF QueryFails, Fail, Statuses
  <2>2. requests' = {} /\ active' = {} /\ (Become(q.task, "failed") \/ UNCHANGED items)
    BY <1>2, <1>6 DEF QueryFails
  <2> QED
    BY <1>1, <1>2, <1>3, <1>4, <2>1, <2>2, RestIsCalm
<1>7. CASE QueryIsSilent(q)
  <2>1. UNCHANGED <<inProgress, left, requests, active, items, failed>>
    BY <1>7 DEF QueryIsSilent
  <2>2. RequestInv' /\ TaskInv'
    BY <1>1, <1>2, <1>4, <2>1 DEF RequestInv, TaskInv
  <2>3. FlagInv'
    BY <1>1, <1>2, <2>1 DEF AllCalm, FlagInv, Going
  <2>4. ASSUME NEW p \in 1..cur', p \notin failed', NEW i \in 1..op'[p].n
        PROVE  items'[p][i] = Done[op'[p].kind] \/ Pending(p, i)'
    <3>1. items[p][i] = Done[op[p].kind] \/ Pending(p, i)
      BY <1>1, <2>1, <2>4 DEF AllCalm, ItemsInv
    <3>2. Pending(p, i) => Pending(p, i)'
      BY <1>1, <1>2, <2>1 DEF Pending, Going, ItemsOf
    <3> QED
      BY <1>1, <2>1, <3>1, <3>2
  <2>5. ItemsInv'
    BY <2>4 DEF ItemsInv
  <2> QED
    BY <2>2, <2>3, <2>5 DEF AllCalm
<1> QED
  BY <1>5, <1>6, <1>7

LEMMA InitIInv == Init => IInv
<1> SUFFICES ASSUME Init PROVE IInv
  OBVIOUS
<1>1. TypeInv
  BY InitTypeInv
<1>2. AllCalm
  BY CopiesAssumption DEF Init, AllCalm, RequestInv, TaskInv, ItemsInv, FlagInv, Going
<1> QED
  BY <1>1, <1>2 DEF IInv, CalmInv

LEMMA NextIInv ==
    ASSUME IInv, [Next]_vars
    PROVE  IInv'
<1>1. TypeInv'
  BY NextType DEF IInv
<1>2. ASSUME calm' PROVE AllCalm'
  <2>1. CASE Paste
    BY <1>2, <2>1, PasteCalm
  <2>2. CASE RequestAnswered
    BY <1>2, <2>2, SyncAnsweredCalm, BatchAnsweredCalm, OneAnsweredCalm DEF RequestAnswered
  <2>3. CASE \E o \in Ops : Timer(o)
    BY <1>2, <2>3, TimerCalm
  <2>4. CASE Verdict \/ NoVerdict
    BY <1>2, <2>4, QueryTakenCalm DEF Verdict, NoVerdict
  <2>5. CASE UNCHANGED vars
    BY <1>2, <2>5 DEF vars, IInv, CalmInv, AllCalm, RequestInv, TaskInv, ItemsInv, FlagInv,
                      Pending, Going, ItemsOf
  <2> QED
    BY <2>1, <2>2, <2>3, <2>4, <2>5 DEF Next
<1> QED
  BY <1>1, <1>2 DEF IInv, CalmInv

LEMMA Invariance == Spec => []IInv
<1>1. IInv /\ [Next]_vars => IInv'
  BY NextIInv
<1> QED
  BY <1>1, InitIInv, PTL DEF Spec

\* An operation that has ended has done all of its items or was reported to have
\* failed, for any number of items and operations, whether the server takes them
\* together or one by one; operations that overlap are set aside.
THEOREM NothingIsLost == Spec => []NothingLost
<1>1. IInv => NothingLost
  BY DEF IInv, CalmInv, AllCalm, ItemsInv, Pending, NothingLost, Going
<1> QED
  BY <1>1, Invariance, PTL

\* A move keeps the flag set until it has ended, with the same exception.
THEOREM MovesAreExclusive == Spec => []MovesExclude
<1>1. IInv => MovesExclude
  BY DEF IInv, CalmInv, AllCalm, FlagInv, MovesExclude
<1> QED
  BY <1>1, Invariance, PTL

=============================================================================
