------------------------ MODULE TransferManagerProofs ------------------------
(***************************************************************************)
(* Proofs about TransferManager, for any number of tasks and files and any *)
(* bounds: type correctness, that the download slot is neither lost nor    *)
(* given to a task that is not downloading, that the manager implements    *)
(* DownloadQueue, that the first thing a task reports of its download is   *)
(* true, and that a canceled download writes no file after a later one of  *)
(* the same file has started.                                              *)
(***************************************************************************)
EXTENDS TransferManager, SequenceTheorems, WellFoundedInduction, TLAPS

\* removeOne takes away one element, and if there was only one of it, all:
\* what is left was there before, in the same order and as often.
LEMMA RemoveFirstProperties ==
    ASSUME NEW S, NEW q \in Seq(S), NEW e
    PROVE  LET r == RemoveFirst(q, e)
           IN  /\ r \in Seq(S)
               /\ Len(r) <= Len(q)
               /\ \A i \in 1..Len(r) : \E j \in 1..Len(q) : r[i] = q[j]
               /\ \A j \in 1..Len(q) : q[j] # e => \E i \in 1..Len(r) : r[i] = q[j]
               /\ (\A i, j \in 1..Len(q) : q[i] = q[j] => i = j)
                    => /\ \A i \in 1..Len(r) : r[i] # e
                       /\ \A i, j \in 1..Len(r) : r[i] = r[j] => i = j
<1>1. CASE ~ \E i \in 1..Len(q) : q[i] = e
  BY <1>1 DEF RemoveFirst
<1>2. CASE \E i \in 1..Len(q) : q[i] = e
  <2> DEFINE I == {i \in 1..Len(q) : q[i] = e}
             k == SelectInSeq(q, LAMBDA v : v = e)
  <2>1. k = Min(I)
    BY <1>2 DEF SelectInSeq
  <2>2. \E m \in I : \A j \in I : m <= j
    <3> DEFINE R == OpToRel(<, Nat)
    <3>1. I \subseteq Nat /\ I # {}
      BY <1>2
    <3>2. \E m \in I : \A j \in I : <<j, m>> \notin R
      BY <3>1, WFMin, NatLessThanWellFounded
    <3>3. \A j, m \in Nat : <<j, m>> \notin R => m <= j
      BY DEF OpToRel
    <3>. QED
      BY <3>1, <3>2, <3>3
  <2>3. k \in I /\ \A j \in I : k <= j
    BY <2>1, <2>2 DEF Min
  <2>. HIDE DEF k
  <2> DEFINE a == SubSeq(q, 1, k - 1)
             b == SubSeq(q, k + 1, Len(q))
             r == a \o b
  <2>4. RemoveFirst(q, e) = r
    BY <1>2 DEF RemoveFirst, RemoveAt, k
  <2>5. /\ a \in Seq(S) /\ Len(a) = k - 1
        /\ \A i \in 1..(k - 1) : a[i] = q[i]
    <3>1. k - 1 \in Int /\ \A i \in 1..(k - 1) : q[i] \in S
      BY <2>3, ElementOfSeq
    <3>. QED
      BY <3>1, <2>3, SubSeqProperties
  <2>6. /\ b \in Seq(S) /\ Len(b) = Len(q) - k
        /\ \A i \in 1..(Len(q) - k) : b[i] = q[k + i]
    <3>1. k + 1 \in Int /\ \A i \in (k + 1)..Len(q) : q[i] \in S
      BY <2>3, ElementOfSeq
    <3>. QED
      BY <3>1, <2>3, SubSeqProperties
  <2>. HIDE DEF a, b
  <2>7. /\ r \in Seq(S)
        /\ Len(r) = Len(q) - 1
        /\ \A i \in 1..Len(r) : r[i] = IF i < k THEN q[i] ELSE q[i + 1]
    <3>1. /\ r \in Seq(S)
          /\ Len(r) = Len(a) + Len(b)
          /\ \A i \in 1..(Len(a) + Len(b)) :
                r[i] = IF i <= Len(a) THEN a[i] ELSE b[i - Len(a)]
      BY <2>5, <2>6, ConcatProperties
    <3>2. Len(r) = Len(q) - 1
      BY <3>1, <2>3, <2>5, <2>6
    <3>3. ASSUME NEW i \in 1..Len(r)
          PROVE  r[i] = IF i < k THEN q[i] ELSE q[i + 1]
      <4>1. CASE i < k
        BY <4>1, <3>1, <2>3, <2>5, <2>6
      <4>2. CASE ~(i < k)
        <5>1. r[i] = b[i - (k - 1)]
          BY <4>2, <3>1, <2>3, <2>5, <2>6
        <5>2. i - (k - 1) \in 1..(Len(q) - k) /\ k + (i - (k - 1)) = i + 1
          BY <4>2, <3>2, <2>3
        <5>. QED
          BY <4>2, <5>1, <5>2, <2>6
      <4>. QED
        BY <4>1, <4>2
    <3>. QED
      BY <3>1, <3>2, <3>3
  <2>. HIDE DEF r
  <2> DEFINE P(i) == IF i < k THEN i ELSE i + 1
  <2>8. \A i \in 1..Len(r) : P(i) \in 1..Len(q) /\ P(i) # k /\ r[i] = q[P(i)]
    BY <2>3, <2>7
  <2>9. \A i, j \in 1..Len(r) : P(i) = P(j) => i = j
    BY <2>3, <2>7
  <2>13. \A j \in 1..Len(q) : q[j] # e => \E i \in 1..Len(r) : r[i] = q[j]
    <3>1. ASSUME NEW j \in 1..Len(q), q[j] # e
          PROVE  \E i \in 1..Len(r) : r[i] = q[j]
      <4>1. j # k
        BY <2>3, <3>1
      <4>2. CASE j < k
        BY <2>3, <2>7, <4>2
      <4>3. CASE k < j
        <5>1. j - 1 \in 1..Len(r) /\ ~(j - 1 < k) /\ (j - 1) + 1 = j
          BY <2>3, <2>7, <4>3
        <5>. QED
          BY <2>7, <5>1
      <4>. QED
        BY <2>3, <4>1, <4>2, <4>3
    <3>. QED
      BY <3>1
  <2>10. q[k] = e /\ k \in 1..Len(q) /\ Len(r) <= Len(q)
    BY <2>3, <2>7
  <2>. HIDE DEF P
  <2>11. ASSUME \A i, j \in 1..Len(q) : q[i] = q[j] => i = j
         PROVE  /\ \A i \in 1..Len(r) : r[i] # e
                /\ \A i, j \in 1..Len(r) : r[i] = r[j] => i = j
    BY <2>8, <2>9, <2>10, <2>11
  <2>12. \A i \in 1..Len(r) : \E j \in 1..Len(q) : r[i] = q[j]
    BY <2>8
  <2>14. r \in Seq(S) /\ Len(r) <= Len(q)
    BY <2>7, <2>10
  <2>. QED
    BY <2>4, <2>11, <2>12, <2>13, <2>14
<1>. QED
  BY <1>1, <1>2

\* The elements of a sequence are its head and those of its tail.
LEMMA ToSetTail ==
    ASSUME NEW S, NEW q \in Seq(S), q # <<>>
    PROVE  ToSet(q) = {Head(q)} \cup ToSet(Tail(q))
<1>1. /\ Len(q) \in Nat /\ Len(q) >= 1 /\ Head(q) = q[1]
      /\ Tail(q) \in Seq(S) /\ Len(Tail(q)) = Len(q) - 1
      /\ \A i \in 1..(Len(q) - 1) : Tail(q)[i] = q[i + 1]
  BY HeadTailProperties, EmptySeq, LenProperties
<1>2. DOMAIN q = 1..Len(q) /\ DOMAIN Tail(q) = 1..(Len(q) - 1)
  BY <1>1, LenProperties
<1>3. ASSUME NEW i \in 1..Len(q), i # 1
      PROVE  \E j \in 1..(Len(q) - 1) : q[i] = Tail(q)[j]
  <2>1. i - 1 \in 1..(Len(q) - 1) /\ (i - 1) + 1 = i
    BY <1>1, <1>3
  <2>2. Tail(q)[i - 1] = q[(i - 1) + 1]
    BY <1>1, <2>1
  <2>. QED
    BY <2>1, <2>2
<1>4. \A i \in 1..(Len(q) - 1) : i + 1 \in 1..Len(q)
  BY <1>1
<1>5. ToSet(q) \subseteq {Head(q)} \cup ToSet(Tail(q))
  <2>1. ASSUME NEW i \in 1..Len(q) PROVE q[i] \in {Head(q)} \cup ToSet(Tail(q))
    <3>1. CASE i = 1
      BY <1>1, <3>1
    <3>2. CASE i # 1
      <4>1. PICK j \in 1..(Len(q) - 1) : q[i] = Tail(q)[j]
        BY <1>3, <3>2
      <4>. QED
        BY <1>2, <4>1 DEF ToSet
    <3>. QED
      BY <3>1, <3>2
  <2>. QED
    BY <1>2, <2>1 DEF ToSet
<1>6. {Head(q)} \cup ToSet(Tail(q)) \subseteq ToSet(q)
  BY <1>1, <1>2, <1>4 DEF ToSet
<1>. QED
  BY <1>5, <1>6

\* Append adds one element.
LEMMA ToSetAppend ==
    ASSUME NEW S, NEW q \in Seq(S), NEW e \in S
    PROVE  ToSet(Append(q, e)) = ToSet(q) \cup {e}
<1>1. /\ Len(q) \in Nat /\ DOMAIN q = 1..Len(q)
      /\ DOMAIN Append(q, e) = 1..(Len(q) + 1)
      /\ Append(q, e)[Len(q) + 1] = e
      /\ \A i \in 1..Len(q) : Append(q, e)[i] = q[i]
  BY AppendProperties, LenProperties
<1>2. \A i \in 1..(Len(q) + 1) : i \in 1..Len(q) \/ i = Len(q) + 1
  BY <1>1
<1>3. Len(q) + 1 \in 1..(Len(q) + 1) /\ 1..Len(q) \subseteq 1..(Len(q) + 1)
  BY <1>1
<1>. QED
  BY <1>1, <1>2, <1>3 DEF ToSet

\* removeOne takes the element away from a queue that holds it once, and does
\* nothing to a queue that does not hold it.
LEMMA ToSetRemoveFirst ==
    ASSUME NEW S, NEW q \in Seq(S), NEW e,
           \A i, j \in 1..Len(q) : q[i] = q[j] => i = j
    PROVE  /\ ToSet(RemoveFirst(q, e)) = ToSet(q) \ {e}
           /\ e \notin ToSet(q) => RemoveFirst(q, e) = q
<1> DEFINE r == RemoveFirst(q, e)
<1>1. /\ r \in Seq(S)
      /\ \A i \in 1..Len(r) : \E j \in 1..Len(q) : r[i] = q[j]
      /\ \A j \in 1..Len(q) : q[j] # e => \E i \in 1..Len(r) : r[i] = q[j]
      /\ \A i \in 1..Len(r) : r[i] # e
  BY RemoveFirstProperties
<1>2. e \notin ToSet(q) => r = q
  BY LenProperties DEF ToSet, RemoveFirst
<1>. HIDE DEF r
<1>3. DOMAIN r = 1..Len(r) /\ DOMAIN q = 1..Len(q)
  BY <1>1, LenProperties
<1>4. ToSet(r) = ToSet(q) \ {e}
  <2>1. ToSet(r) \subseteq ToSet(q) \ {e}
    BY <1>1, <1>3 DEF ToSet
  <2>2. ToSet(q) \ {e} \subseteq ToSet(r)
    BY <1>1, <1>3 DEF ToSet
  <2>. QED
    BY <2>1, <2>2
<1>. QED
  BY <1>2, <1>4 DEF r

-----------------------------------------------------------------------------
(* Type correctness.                                                       *)

LEMMA MainEventsType ==
    ASSUME NEW t \in Tasks, NEW ok \in BOOLEAN
    PROVE  /\ [kind |-> "finished", task |-> t, ok |-> ok] \in MainEvents
           /\ [kind |-> "destroy", task |-> t] \in MainEvents
  BY DEF MainEvents

LEMMA WorkerEventsType ==
    ASSUME NEW t \in Tasks, NEW k \in {"start", "cancel", "destroy"}
    PROVE  [kind |-> k, task |-> t] \in WorkerEvents
  BY DEF WorkerEvents

LEMMA IdleType == \A st \in GetStates : Idle(st) \in GetTasks
  BY BoundsAssumption DEF Idle, GetTasks, TmpStates

\* What the emission of finished() by t leaves in the variables it changes.
LEMMA EmitFinishedType ==
    ASSUME TypeOK, NEW t \in Tasks, NEW ok \in BOOLEAN,
           NEW q \in Seq(MainEvents), EmitFinished(t, ok, q)
    PROVE  /\ signals' \in [Tasks -> Seq(BOOLEAN)]
           /\ phase' \in [Tasks -> Phases]
           /\ mainQ' \in Seq(MainEvents)
<1>1. signals' \in [Tasks -> Seq(BOOLEAN)]
  BY DEF TypeOK, EmitFinished
<1>2. phase' \in [Tasks -> Phases]
  BY DEF TypeOK, EmitFinished, Phases
<1>3. mainQ' \in Seq(MainEvents)
  <2>1. Append(q, [kind |-> "destroy", task |-> t]) \in Seq(MainEvents)
    BY MainEventsType, AppendProperties
  <2>. QED
    BY <2>1 DEF EmitFinished
<1>. QED
  BY <1>1, <1>2, <1>3

LEMMA FinishType ==
    ASSUME TypeOK, NEW t \in Tasks, NEW ok \in BOOLEAN,
           NEW q \in Seq(MainEvents), Finish(t, ok, q)
    PROVE  /\ current' \in Tasks \cup {NoTask}
           /\ pending' \in Seq(Tasks)
           /\ signals' \in [Tasks -> Seq(BOOLEAN)]
           /\ phase' \in [Tasks -> Phases]
           /\ mainQ' \in Seq(MainEvents)
<1>1. pending \in Seq(Tasks)
  BY DEF TypeOK
<1>2. pending # <<>> => Head(pending) \in Tasks /\ Tail(pending) \in Seq(Tasks)
  BY <1>1
<1>3. RemoveFirst(pending, t) \in Seq(Tasks)
  BY <1>1, RemoveFirstProperties
<1>4. current' \in Tasks \cup {NoTask}
  BY <1>2 DEF TypeOK, Finish, CurrentAfter, HandsOver
<1>5. pending' \in Seq(Tasks)
  BY <1>1, <1>2, <1>3 DEF Finish, PendingAfter, HandsOver
<1>. QED
  BY <1>4, <1>5, EmitFinishedType DEF Finish

THEOREM TypeCorrect == Spec => []TypeOK
<1>1. Init => TypeOK
  <2>. SUFFICES ASSUME Init PROVE TypeOK
    OBVIOUS
  <2>1. get \in [Tasks -> GetTasks]
    BY IdleType DEF Init, GetStates
  <2>2. phase \in [Tasks -> Phases] /\ signals \in [Tasks -> Seq(BOOLEAN)]
    BY EmptySeq DEF Init, Phases
  <2>. QED
    <3>1. /\ pending \in Seq(Tasks) /\ mainQ \in Seq(MainEvents)
          /\ workerQ \in Seq(WorkerEvents)
      BY EmptySeq DEF Init
    <3>. QED
      BY <2>1, <2>2, <3>1 DEF Init, TypeOK
<1>2. TypeOK /\ [Next]_vars => TypeOK'
  <2>. SUFFICES ASSUME TypeOK, [Next]_vars PROVE TypeOK'
    OBVIOUS
  <2>. USE DEF TypeOK
  <2>1. ASSUME NEW t \in Tasks, NEW f \in Files, AddDownloadTask(t, f)
        PROVE  TypeOK'
    <3>1. /\ current' \in Tasks \cup {NoTask}
          /\ file' \in [Tasks -> Files \cup {NoFile}]
      BY <2>1 DEF AddDownloadTask
    <3>3. phase' \in [Tasks -> Phases]
      <4>1. "linking" \in Phases /\ "queued" \in Phases
        BY DEF Phases
      <4>. QED
        BY <2>1, <4>1 DEF AddDownloadTask
    <3>2. pending' \in Seq(Tasks)
      <4>1. Append(pending, t) \in Seq(Tasks)
        BY AppendProperties
      <4>. QED
        BY <2>1, <4>1 DEF AddDownloadTask
    <3>. QED
      BY <2>1, <3>1, <3>2, <3>3 DEF AddDownloadTask, worker
  <2>2. ASSUME NEW t \in Tasks, OnLinkGet(t) PROVE TypeOK'
    <3>1. get' \in [Tasks -> GetTasks] /\ phase' \in [Tasks -> Phases]
      BY <2>2, IdleType DEF OnLinkGet, GetStates, Phases
    <3>2. workerQ' \in Seq(WorkerEvents)
      BY <2>2, WorkerEventsType, AppendProperties DEF OnLinkGet
    <3>. QED
      BY <2>2, <3>1, <3>2 DEF OnLinkGet
  <2>3. ASSUME NEW t \in Tasks, OnGetLinkFailed(t) PROVE TypeOK'
    BY <2>3, FinishType DEF OnGetLinkFailed, worker
  <2>4. ASSUME NEW t \in Tasks, MarkCanceled(t)
        PROVE  canceled' \in [Tasks -> BOOLEAN] /\ workerQ' \in Seq(WorkerEvents)
    BY <2>4, WorkerEventsType, AppendProperties DEF MarkCanceled
  <2>5. ASSUME NEW t \in Tasks, Cancel(t) PROVE TypeOK'
    BY <2>4, <2>5, FinishType DEF Cancel
  <2>6. CASE CancelAllDownloadTasks
    <3>1. current \in Tasks
      BY <2>6 DEF CancelAllDownloadTasks
    <3>2. forgotten' \subseteq Tasks
      <4>1. Queued \subseteq Tasks
        BY ElementOfSeq DEF Queued, ToSet
      <4>. QED
        BY <2>6, <4>1 DEF CancelAllDownloadTasks
    <3>3. canceled' \in [Tasks -> BOOLEAN] /\ workerQ' \in Seq(WorkerEvents)
      BY <2>4, <2>6, <3>1 DEF CancelAllDownloadTasks
    <3>4. /\ signals' \in [Tasks -> Seq(BOOLEAN)]
          /\ phase' \in [Tasks -> Phases]
          /\ mainQ' \in Seq(MainEvents)
      BY <2>6, <3>1, EmitFinishedType DEF CancelAllDownloadTasks
    <3>5. pending' \in Seq(Tasks)
      BY <2>6, EmptySeq DEF CancelAllDownloadTasks
    <3>. QED
      BY <2>6, <3>2, <3>3, <3>4, <3>5 DEF CancelAllDownloadTasks
  <2>7. ASSUME mainQ # <<>>
        PROVE  Head(mainQ) \in MainEvents /\ Tail(mainQ) \in Seq(MainEvents)
    BY <2>7, HeadTailProperties
  <2>8. CASE HandleFinished
    <3> DEFINE t == Head(mainQ).task
    <3>1. t \in Tasks /\ Head(mainQ).ok \in BOOLEAN
      BY <2>7, <2>8 DEF HandleFinished, MainEvents
    <3>2. CASE IsIgnored(t)
      BY <2>7, <2>8, <3>2 DEF HandleFinished, worker
    <3>3. CASE ~IsIgnored(t)
      BY <2>7, <2>8, <3>1, <3>3, FinishType DEF HandleFinished, worker
    <3>. QED
      BY <3>2, <3>3
  <2>9. CASE HandleDestroy
    <3> DEFINE t == Head(mainQ).task
    <3>1. t \in Tasks
      BY <2>7, <2>9 DEF HandleDestroy, MainEvents
    <3>2. phase' \in [Tasks -> Phases] /\ mainQ' \in Seq(MainEvents)
      BY <2>7, <2>9, <3>1 DEF HandleDestroy, Phases
    <3>3. workerQ' \in Seq(WorkerEvents)
      BY <2>9, <3>1, WorkerEventsType, AppendProperties DEF HandleDestroy
    <3>. QED
      BY <2>9, <3>2, <3>3 DEF HandleDestroy
  <2>10. ASSUME NEW t \in Tasks, NEW ok \in BOOLEAN, Post(t, ok)
         PROVE  mainQ' \in Seq(MainEvents)
    BY <2>10, MainEventsType, AppendProperties DEF Post
  <2>11. workerQ # <<>> => Tail(workerQ) \in Seq(WorkerEvents)
    BY HeadTailProperties
  <2>12. ASSUME NEW t \in Tasks, NEW tmp \in {"null", "unopened", "good"},
                StartGetFile(t, tmp)
         PROVE  TypeOK'
    <3>1. get' \in [Tasks -> GetTasks]
      <4>1. PICK g : g = [get[t] EXCEPT !.st = "running", !.tmp = tmp]
        OBVIOUS
      <4>2. get' = [get EXCEPT ![t] = g]
        BY <2>12, <4>1 DEF StartGetFile
      <4>3. g \in GetTasks
        <5>1. get[t] \in GetTasks /\ "running" \in GetStates /\ tmp \in TmpStates
          BY DEF GetStates, TmpStates
        <5>. QED
          BY <4>1, <5>1 DEF GetTasks
      <4>. QED
        BY <4>2, <4>3
    <3>. QED
      BY <2>10, <2>11, <2>12, <3>1 DEF StartGetFile, main
  <2>13. ASSUME NEW t \in Tasks, CancelGetFile(t) PROVE TypeOK'
    <3>1. get' \in [Tasks -> GetTasks]
      BY <2>13, IdleType DEF CancelGetFile, GetStates
    <3>. QED
      BY <2>10, <2>11, <2>13, <3>1 DEF CancelGetFile, main
  <2>14. ASSUME NEW t \in Tasks, DestroyGetFile(t) PROVE TypeOK'
    <3>1. get' \in [Tasks -> GetTasks]
      BY <2>14, IdleType DEF DestroyGetFile, GetStates
    <3>. QED
      BY <2>11, <2>14, <3>1 DEF DestroyGetFile, main
  <2>15. ASSUME NEW t \in Tasks, NEW written \in BOOLEAN, HttpReadyRead(t, written)
         PROVE  TypeOK'
    <3>1. get' \in [Tasks -> GetTasks]
      <4> DEFINE g == [get[t] EXCEPT
                         !.chunks = get[t].chunks + 1,
                         !.tmp = IF written \/ get[t].tmp = "unopened"
                                 THEN get[t].tmp ELSE "gapped"]
      <4>1. g \in GetTasks
        <5>1. get[t] \in GetTasks
          OBVIOUS
        <5>2. get[t].chunks + 1 \in 0..MaxChunks
          BY <2>15, <5>1, BoundsAssumption DEF HttpReadyRead, GetTasks
        <5>3. (IF written \/ get[t].tmp = "unopened" THEN get[t].tmp ELSE "gapped")
                 \in TmpStates
          BY <5>1 DEF GetTasks, TmpStates
        <5>. QED
          BY <5>1, <5>2, <5>3 DEF GetTasks
      <4>2. get' = get \/ get' = [get EXCEPT ![t] = g]
        BY <2>15 DEF HttpReadyRead
      <4>. QED
        BY <4>1, <4>2
    <3>2. mainQ' \in Seq(MainEvents) /\ crashed' \in BOOLEAN
      BY <2>10, <2>15 DEF HttpReadyRead
    <3>. QED
      BY <2>15, <3>1, <3>2 DEF HttpReadyRead, main
  <2>16. ASSUME NEW t \in Tasks, HandleHttpRedirect(t) PROVE TypeOK'
    <3>1. get' \in [Tasks -> GetTasks]
      <4> DEFINE g == [get[t] EXCEPT
                         !.redirects = get[t].redirects + 1, !.chunks = 0,
                         !.tmp = IF get[t].tmp = "good" /\ get[t].chunks > 0
                                 THEN "prefixed" ELSE get[t].tmp]
      <4>1. ~TooManyRedirects(t) => g \in GetTasks
        <5>1. get[t] \in GetTasks
          OBVIOUS
        <5>2. ~TooManyRedirects(t)
                => get[t].redirects + 1 \in 0..(MaxRedirects + 1)
          BY <5>1, BoundsAssumption DEF TooManyRedirects, GetTasks
        <5>3. 0 \in 0..MaxChunks
          BY BoundsAssumption
        <5>4. (IF get[t].tmp = "good" /\ get[t].chunks > 0
               THEN "prefixed" ELSE get[t].tmp) \in TmpStates
          BY <5>1 DEF GetTasks, TmpStates
        <5>. QED
          BY <5>1, <5>2, <5>3, <5>4 DEF GetTasks
      <4>2. Idle("over") \in GetTasks
        BY IdleType DEF GetStates
      <4>3. \/ get' = [get EXCEPT ![t] = Idle("over")]
            \/ ~TooManyRedirects(t) /\ get' = [get EXCEPT ![t] = g]
        BY <2>16 DEF HandleHttpRedirect
      <4>. QED
        BY <4>1, <4>2, <4>3
    <3>2. mainQ' \in Seq(MainEvents)
      BY <2>10, <2>16 DEF HandleHttpRedirect
    <3>. QED
      BY <2>16, <3>1, <3>2 DEF HandleHttpRedirect, main
  <2>17. ASSUME NEW t \in Tasks, RequestFailed(t) PROVE TypeOK'
    <3>1. get' \in [Tasks -> GetTasks]
      BY <2>17, IdleType DEF RequestFailed, GetStates
    <3>. QED
      BY <2>10, <2>17, <3>1 DEF RequestFailed, main
  <2>18. ASSUME NEW t \in Tasks, NEW renamed \in BOOLEAN,
                OnHttpRequestFinished(t, renamed)
         PROVE  TypeOK'
    <3>1. get' \in [Tasks -> GetTasks]
      BY <2>18, IdleType DEF OnHttpRequestFinished, GetStates
    <3>2. mainQ' \in Seq(MainEvents) /\ crashed' \in BOOLEAN
      BY <2>10, <2>18 DEF OnHttpRequestFinished, Deliver
    <3>3. moved' \in [Tasks -> {"nothing", "good", "prefixed", "gapped"}]
      <4>1. get[t].tmp \in TmpStates
        BY DEF GetTasks
      <4>2. \/ moved' = moved
            \/ moved' = [moved EXCEPT ![t] = get[t].tmp] /\ get[t].tmp \notin {"null", "unopened"}
        BY <2>18 DEF OnHttpRequestFinished, Deliver
      <4>. QED
        BY <4>1, <4>2 DEF TmpStates
    <3>. QED
      BY <2>18, <3>1, <3>2, <3>3 DEF OnHttpRequestFinished, main
  <2>19. CASE UNCHANGED vars
    BY <2>19 DEF vars
  <2>. QED
    BY <2>1, <2>2, <2>3, <2>5, <2>6, <2>8, <2>9, <2>12, <2>13, <2>14, <2>15,
       <2>16, <2>17, <2>18, <2>19 DEF Next, MainStep, WorkerStep
<1>. QED
  BY <1>1, <1>2, PTL DEF Spec

-----------------------------------------------------------------------------
(* The slot.                                                               *)
(*                                                                         *)
(* OneRunning and SlotIsUsed are inductive only together with what is known*)
(* about the queue (its tasks are queued, each once, so that the task that *)
(* gets the slot is not also left in the queue) and about the objects that *)
(* are being deleted (they have reported, so none of them is in the slot). *)

SlotInv == OneRunning /\ SlotIsUsed /\ PendingIsQueued /\ OverIsReported

IInv == TypeOK /\ SlotInv

\* The emission of finished() by t schedules the deletion of t, and t is over.
LEMMA EmitKeepsOver ==
    ASSUME IInv, NEW t \in Tasks, NEW ok \in BOOLEAN, NEW q \in Seq(MainEvents),
           EmitFinished(t, ok, q),
           \A i \in 1..Len(q) : \E j \in 1..Len(mainQ) : q[i] = mainQ[j],
           \A u \in Tasks \ {t} : canceled'[u] = canceled[u]
    PROVE  OverIsReported'
<1>. USE DEF IInv, SlotInv
<1>1. /\ phase \in [Tasks -> Phases] /\ mainQ \in Seq(MainEvents)
  BY DEF TypeOK
<1>2. pending # <<>> => phase[Head(pending)] = "queued" /\ Head(pending) \in Tasks
  <2>1. pending # <<>> => 1 \in 1..Len(pending) /\ Head(pending) = pending[1]
                            /\ Head(pending) \in Tasks
    BY DEF TypeOK
  <2>. QED
    BY <2>1 DEF PendingIsQueued
<1>3. /\ phase' = [u \in Tasks |-> IF u = t THEN "finished"
                                   ELSE IF HandsOver(t) /\ u = Head(pending)
                                        THEN "linking" ELSE phase[u]]
      /\ mainQ' = IF phase[t] = "finished" THEN q
                  ELSE Append(q, [kind |-> "destroy", task |-> t])
  BY DEF EmitFinished
<1>4. \A u \in Tasks : phase[u] \in {"finished", "gone"} \/ u = t
                          => phase'[u] \in {"finished", "gone"}
  BY <1>2, <1>3 DEF HandsOver
<1>5. \A i \in 1..Len(mainQ') :
           \/ mainQ'[i] = [kind |-> "destroy", task |-> t]
           \/ \E j \in 1..Len(mainQ) : mainQ'[i] = mainQ[j]
  BY <1>3, AppendProperties
<1>6. \A i \in 1..Len(mainQ) : mainQ[i].task \in Tasks
  BY <1>1, ElementOfSeq DEF MainEvents
<1>7. \A i \in 1..Len(mainQ') :
           mainQ'[i].kind = "destroy" => phase'[mainQ'[i].task] \in {"finished", "gone"}
  <2>1. ASSUME NEW i \in 1..Len(mainQ'), NEW e, e = mainQ'[i], e.kind = "destroy"
        PROVE  phase'[e.task] \in {"finished", "gone"}
    <3>1. CASE e = [kind |-> "destroy", task |-> t]
      BY <1>4, <3>1
    <3>2. CASE \E j \in 1..Len(mainQ) : e = mainQ[j]
      BY <1>4, <1>6, <2>1, <3>2 DEF OverIsReported
    <3>. QED
      BY <1>5, <2>1, <3>1, <3>2
  <2>. QED
    BY <2>1
<1>8. \A u \in Tasks : canceled'[u] => phase'[u] \in {"finished", "gone"}
  BY <1>4 DEF OverIsReported
<1>. QED
  BY <1>7, <1>8 DEF OverIsReported

\* finished() of a task that is not canceled, or is just being canceled.
LEMMA FinishKeepsSlot ==
    ASSUME IInv, NEW t \in Tasks, NEW ok \in BOOLEAN, NEW q \in Seq(MainEvents),
           Finish(t, ok, q),
           \A i \in 1..Len(q) : \E j \in 1..Len(mainQ) : q[i] = mainQ[j],
           \A u \in Tasks \ {t} : canceled'[u] = canceled[u],
           UNCHANGED forgotten
    PROVE  SlotInv'
<1>. USE DEF IInv, SlotInv
<1>1. /\ pending \in Seq(Tasks) /\ phase \in [Tasks -> Phases]
      /\ current \in Tasks \cup {NoTask} /\ mainQ \in Seq(MainEvents)
  BY DEF TypeOK
<1>2. \A i \in 1..Len(pending) : pending[i] \in Tasks
  BY <1>1, ElementOfSeq
<1>3. /\ phase' = [u \in Tasks |-> IF u = t THEN "finished"
                                   ELSE IF HandsOver(t) /\ u = Head(pending)
                                        THEN "linking" ELSE phase[u]]
      /\ current' = CurrentAfter(t) /\ pending' = PendingAfter(t)
      /\ mainQ' = IF phase[t] = "finished" THEN q
                  ELSE Append(q, [kind |-> "destroy", task |-> t])
  BY DEF Finish, EmitFinished
<1>4. pending # <<>> => /\ 1 \in 1..Len(pending) /\ Head(pending) = pending[1]
                        /\ phase[Head(pending)] = "queued"
                        /\ Head(pending) \in Tasks
  BY <1>1, <1>2 DEF PendingIsQueued
<1>5. OneRunning' /\ SlotIsUsed' /\ PendingIsQueued'
  <2>1. CASE HandsOver(t)
    <3>1. /\ t = current /\ pending # <<>> /\ phase[t] \in {"linking", "serving"}
          /\ current' = Head(pending) /\ pending' = Tail(pending)
      BY <1>3, <2>1, NoTaskAssumption
         DEF HandsOver, CurrentAfter, PendingAfter, SlotIsUsed
    <3>2. /\ Head(pending) # t /\ phase'[Head(pending)] = "linking"
          /\ Head(pending) # NoTask
      BY <1>3, <1>4, <2>1, <3>1, NoTaskAssumption
    <3>3. Running' \subseteq {Head(pending)} \cup (Running \ {t})
      BY <1>3, <2>1 DEF Running
    <3>4. \A i \in 1..Len(Tail(pending)) :
             i + 1 \in 1..Len(pending) /\ Tail(pending)[i] = pending[i + 1]
      BY <1>1, <3>1, HeadTailProperties
    <3>5. \A i \in 1..Len(Tail(pending)) :
             Tail(pending)[i] # Head(pending) /\ Tail(pending)[i] # t
      BY <1>4, <3>1, <3>4 DEF PendingIsQueued
    <3>6. PendingIsQueued'
      <4>1. ASSUME NEW i \in 1..Len(Tail(pending))
            PROVE  phase'[Tail(pending)[i]] = "queued"
        <5>1. phase[pending[i + 1]] = "queued" /\ pending[i + 1] \in Tasks
          BY <1>2, <3>4 DEF PendingIsQueued
        <5>. QED
          BY <1>3, <3>4, <3>5, <5>1
      <4>2. ASSUME NEW i \in 1..Len(Tail(pending)), NEW j \in 1..Len(Tail(pending)),
                   Tail(pending)[i] = Tail(pending)[j]
            PROVE  i = j
        <5>1. i + 1 = j + 1
          BY <3>4, <4>2 DEF PendingIsQueued
        <5>. QED
          BY <5>1
      <4>. QED
        BY <3>1, <4>1, <4>2 DEF PendingIsQueued
    <3>. QED
      BY <3>1, <3>2, <3>3, <3>6 DEF OneRunning, SlotIsUsed
  <2>2. CASE t = current /\ pending = <<>>
    <3>1. current' = NoTask /\ pending' = <<>>
      BY <1>3, <2>2 DEF HandsOver, CurrentAfter, PendingAfter
    <3>2. Running' \subseteq Running \ {t}
      BY <1>3, <2>2 DEF Running, HandsOver
    <3>. QED
      BY <2>2, <3>1, <3>2 DEF OneRunning, SlotIsUsed, PendingIsQueued
  <2>3. CASE t # current
    <3>1. current' = current /\ pending' = RemoveFirst(pending, t)
      BY <1>3, <2>3 DEF CurrentAfter, PendingAfter
    <3>2. \A u \in Tasks : phase'[u] = IF u = t THEN "finished" ELSE phase[u]
      BY <1>3, <2>3 DEF HandsOver
    <3>3. OneRunning'
      BY <3>1, <3>2 DEF OneRunning, Running
    <3>4. SlotIsUsed'
      <4>1. pending = <<>> => pending' = <<>>
        BY <3>1 DEF RemoveFirst
      <4>. QED
        BY <1>1, <2>3, <3>1, <3>2, <4>1, NoTaskAssumption DEF SlotIsUsed
    <3>5. PendingIsQueued'
      <4>1. /\ \A i \in 1..Len(pending') : \E j \in 1..Len(pending) : pending'[i] = pending[j]
            /\ \A i \in 1..Len(pending') : pending'[i] # t
            /\ \A i, j \in 1..Len(pending') : pending'[i] = pending'[j] => i = j
        <5>1. \A i, j \in 1..Len(pending) : pending[i] = pending[j] => i = j
          BY DEF PendingIsQueued
        <5> DEFINE r == RemoveFirst(pending, t)
        <5>2. /\ \A i \in 1..Len(r) : \E j \in 1..Len(pending) : r[i] = pending[j]
              /\ \A i \in 1..Len(r) : r[i] # t
              /\ \A i, j \in 1..Len(r) : r[i] = r[j] => i = j
          <6>. HIDE DEF PendingIsQueued
          <6>. QED
            BY <1>1, <5>1, RemoveFirstProperties
        <5>. HIDE DEF r
        <5>3. pending' = r
          BY <3>1 DEF r
        <5>. QED
          BY <5>2, <5>3
      <4>2. ASSUME NEW i \in 1..Len(pending') PROVE phase'[pending'[i]] = "queued"
        <5>1. PICK j \in 1..Len(pending) : pending'[i] = pending[j]
          BY <4>1
        <5>2. phase[pending[j]] = "queued" /\ pending[j] \in Tasks /\ pending[j] # t
          BY <1>2, <4>1, <5>1 DEF PendingIsQueued
        <5>. QED
          BY <3>2, <5>1, <5>2
      <4>. QED
        BY <4>1, <4>2 DEF PendingIsQueued
    <3>. QED
      BY <3>3, <3>4, <3>5
  <2>. QED
    BY <2>1, <2>2, <2>3 DEF HandsOver
<1>6. OverIsReported'
  BY EmitKeepsOver DEF Finish
<1>. QED
  BY <1>5, <1>6

\* A step of the worker thread at most appends a finished() to mainQ.
LEMMA WorkerKeepsSlot ==
    ASSUME IInv, UNCHANGED main,
           mainQ' = mainQ \/ \E t \in Tasks, ok \in BOOLEAN : Post(t, ok)
    PROVE  SlotInv'
<1>. USE DEF IInv, SlotInv, main
<1>1. OneRunning' /\ SlotIsUsed' /\ PendingIsQueued'
  BY DEF OneRunning, SlotIsUsed, PendingIsQueued, Running
<1>2. OverIsReported'
  <2>1. CASE mainQ' = mainQ
    BY <2>1 DEF OverIsReported
  <2>2. ASSUME NEW t \in Tasks, NEW ok \in BOOLEAN, Post(t, ok)
        PROVE  OverIsReported'
    <3> DEFINE m == [kind |-> "finished", task |-> t, ok |-> ok]
    <3>1. mainQ' = Append(mainQ, m) /\ m.kind # "destroy"
      BY <2>2 DEF Post
    <3>. HIDE DEF m
    <3>2. \A i \in 1..Len(mainQ') :
             \/ i = Len(mainQ) + 1 /\ mainQ'[i] = m
             \/ i \in 1..Len(mainQ) /\ mainQ'[i] = mainQ[i]
      <4>1. mainQ \in Seq(MainEvents) /\ m \in MainEvents
        BY MainEventsType DEF TypeOK, m
      <4>. HIDE DEF IInv, SlotInv, main
      <4>. QED
        BY <3>1, <4>1, AppendProperties
    <3>. QED
      BY <3>1, <3>2 DEF OverIsReported
  <2>. QED
    BY <2>1, <2>2
<1>. QED
  BY <1>1, <1>2

THEOREM SlotInvariant == Spec => []IInv
<1>1. Init => SlotInv
  BY DEF Init, SlotInv, OneRunning, SlotIsUsed, PendingIsQueued, OverIsReported, Running
<1>2. IInv /\ [Next]_vars => SlotInv'
  <2>. SUFFICES ASSUME IInv, [Next]_vars PROVE SlotInv'
    OBVIOUS
  <2>. USE DEF IInv
  <2>1. ASSUME NEW t \in Tasks, NEW f \in Files, AddDownloadTask(t, f)
        PROVE  SlotInv'
    <3>1. /\ pending \in Seq(Tasks) /\ phase \in [Tasks -> Phases]
          /\ phase[t] = "unborn" /\ UNCHANGED <<canceled, mainQ, forgotten>>
      BY <2>1 DEF AddDownloadTask, TypeOK
    <3>2. /\ \A i \in 1..Len(pending) : pending[i] \in Tasks /\ pending[i] # t
          /\ t # current /\ t # NoTask
      BY <3>1, ElementOfSeq, NoTaskAssumption DEF SlotInv, PendingIsQueued, SlotIsUsed
    <3>3. /\ \A u \in Tasks \ {t} : phase'[u] = phase[u]
          /\ phase'[t] # "finished"
      BY <2>1, <3>1 DEF AddDownloadTask
    <3>4. OverIsReported'
      <4>1. \A i \in 1..Len(mainQ) : mainQ[i].task \in Tasks
        BY ElementOfSeq DEF TypeOK, MainEvents
      <4>. QED
        BY <3>1, <3>3, <4>1 DEF SlotInv, OverIsReported
    <3>5. CASE current = NoTask
      <4>1. current' = t /\ pending' = <<>> /\ phase'[t] = "linking" /\ pending = <<>>
        BY <2>1, <3>1, <3>5 DEF AddDownloadTask, SlotInv, SlotIsUsed
      <4>2. Running' \subseteq Running \cup {t} /\ Running \subseteq forgotten
        BY <3>3, <3>5, NoTaskAssumption DEF SlotInv, OneRunning, Running
      <4>3. OneRunning' /\ SlotIsUsed' /\ PendingIsQueued'
        BY <3>1, <3>2, <4>1, <4>2 DEF OneRunning, SlotIsUsed, PendingIsQueued
      <4>. QED
        BY <3>4, <4>3 DEF SlotInv
    <3>6. CASE current # NoTask
      <4>1. current' = current /\ pending' = Append(pending, t) /\ phase'[t] = "queued"
        BY <2>1, <3>1, <3>6 DEF AddDownloadTask
      <4>2. OneRunning' /\ SlotIsUsed'
        BY <3>1, <3>2, <3>3, <3>6, <4>1
           DEF SlotInv, OneRunning, SlotIsUsed, Running, TypeOK
      <4>3. \A i \in 1..Len(pending') :
               \/ i = Len(pending) + 1 /\ pending'[i] = t
               \/ i \in 1..Len(pending) /\ pending'[i] = pending[i]
        BY <3>1, <4>1, AppendProperties
      <4>4. PendingIsQueued'
        BY <3>2, <3>3, <4>1, <4>3 DEF SlotInv, PendingIsQueued
      <4>. QED
        BY <3>4, <4>2, <4>4 DEF SlotInv
    <3>. QED
      BY <3>5, <3>6
  <2>2. ASSUME NEW t \in Tasks, OnLinkGet(t) PROVE SlotInv'
    <3>1. /\ \A u \in Tasks \ {t} : phase'[u] = phase[u]
          /\ phase[t] = "linking" /\ phase'[t] = "serving"
          /\ UNCHANGED <<current, pending, canceled, mainQ, forgotten>>
      BY <2>2 DEF OnLinkGet, TypeOK
    <3>2. \A i \in 1..Len(mainQ) : mainQ[i].task \in Tasks
      BY ElementOfSeq DEF TypeOK, MainEvents
    <3>3. \A i \in 1..Len(pending) : pending[i] \in Tasks
      BY ElementOfSeq DEF TypeOK
    <3>4. OneRunning' /\ SlotIsUsed'
      BY <3>1 DEF SlotInv, OneRunning, SlotIsUsed, Running, TypeOK
    <3>5. PendingIsQueued' /\ OverIsReported'
      BY <3>1, <3>2, <3>3 DEF SlotInv, PendingIsQueued, OverIsReported
    <3>. QED
      BY <3>4, <3>5 DEF SlotInv
  <2>3. ASSUME NEW t \in Tasks, OnGetLinkFailed(t) PROVE SlotInv'
    BY <2>3, FinishKeepsSlot DEF OnGetLinkFailed, TypeOK
  <2>4. ASSUME NEW t \in Tasks, Cancel(t) PROVE SlotInv'
    <3>1. \A u \in Tasks \ {t} : canceled'[u] = canceled[u]
      BY <2>4 DEF Cancel, MarkCanceled, TypeOK
    <3>. QED
      BY <2>4, <3>1, FinishKeepsSlot DEF Cancel, TypeOK
  <2>5. CASE CancelAllDownloadTasks
    <3>1. /\ current \in Tasks /\ EmitFinished(current, FALSE, mainQ)
          /\ current' = NoTask /\ pending' = <<>>
          /\ forgotten' = forgotten \cup Queued
      BY <2>5 DEF CancelAllDownloadTasks, TypeOK
    <3>2. \A u \in Tasks \ {current} : canceled'[u] = canceled[u]
      BY <2>5, <3>1 DEF CancelAllDownloadTasks, MarkCanceled, TypeOK
    <3>3. OverIsReported'
      BY <3>1, <3>2, EmitKeepsOver DEF TypeOK
    <3>4. pending # <<>> => Head(pending) \in Queued
      BY DEF TypeOK, Queued, ToSet
    <3>5. Running' \subseteq forgotten'
      BY <3>1, <3>4
         DEF EmitFinished, HandsOver, SlotInv, OneRunning, Running
    <3>. QED
      BY <3>1, <3>3, <3>5 DEF SlotInv, OneRunning, SlotIsUsed, PendingIsQueued
  <2>6. ASSUME mainQ # <<>>
        PROVE  /\ Head(mainQ) \in MainEvents /\ Head(mainQ) = mainQ[1]
               /\ 1 \in 1..Len(mainQ) /\ Tail(mainQ) \in Seq(MainEvents)
               /\ \A i \in 1..Len(Tail(mainQ)) :
                     \E j \in 1..Len(mainQ) : Tail(mainQ)[i] = mainQ[j]
    <3>1. mainQ \in Seq(MainEvents)
      BY DEF TypeOK
    <3>2. \A i \in 1..Len(Tail(mainQ)) :
             i + 1 \in 1..Len(mainQ) /\ Tail(mainQ)[i] = mainQ[i + 1]
      BY <2>6, <3>1, HeadTailProperties
    <3>. QED
      BY <2>6, <3>1, <3>2
  <2>7. CASE HandleFinished
    <3> DEFINE t == Head(mainQ).task
    <3>1. /\ mainQ # <<>> /\ t \in Tasks /\ Head(mainQ).ok \in BOOLEAN
          /\ UNCHANGED <<canceled, forgotten>>
      BY <2>6, <2>7 DEF HandleFinished, MainEvents
    <3>2. CASE IsIgnored(t)
      <4>1. mainQ' = Tail(mainQ) /\ UNCHANGED <<current, pending, phase>>
        BY <2>7, <3>2 DEF HandleFinished
      <4>. QED
        BY <2>6, <3>1, <4>1
           DEF SlotInv, OneRunning, SlotIsUsed, PendingIsQueued, OverIsReported, Running
    <3>3. CASE ~IsIgnored(t)
      <4>1. Finish(t, Head(mainQ).ok, Tail(mainQ))
        BY <2>7, <3>3 DEF HandleFinished
      <4>. QED
        BY <2>6, <3>1, <4>1, FinishKeepsSlot
    <3>. QED
      BY <3>2, <3>3
  <2>10. CASE HandleDestroy
    <3> DEFINE t == Head(mainQ).task
    <3>1. /\ mainQ # <<>> /\ Head(mainQ).kind = "destroy"
          /\ mainQ' = Tail(mainQ) /\ phase' = [phase EXCEPT ![t] = "gone"]
          /\ UNCHANGED <<current, pending, canceled, forgotten>>
      BY <2>10 DEF HandleDestroy
    <3>2. t \in Tasks /\ phase[t] \in {"finished", "gone"}
      BY <2>6, <3>1 DEF SlotInv, OverIsReported, MainEvents
    <3>. HIDE DEF t
    <3>3. /\ \A u \in Tasks \ {t} : phase'[u] = phase[u]
          /\ phase'[t] = "gone"
      BY <3>1, <3>2 DEF TypeOK
    <3>4. OneRunning' /\ SlotIsUsed'
      BY <3>1, <3>2, <3>3 DEF SlotInv, OneRunning, SlotIsUsed, Running, TypeOK
    <3>5. PendingIsQueued'
      <4>1. \A i \in 1..Len(pending) : pending[i] \in Tasks
        BY ElementOfSeq DEF TypeOK
      <4>. QED
        BY <3>1, <3>2, <3>3, <4>1 DEF SlotInv, PendingIsQueued
    <3>6. OverIsReported'
      <4>1. \A i \in 1..Len(mainQ) : mainQ[i].task \in Tasks
        BY ElementOfSeq DEF TypeOK, MainEvents
      <4>. QED
        BY <2>6, <3>1, <3>3, <4>1 DEF SlotInv, OverIsReported
    <3>. QED
      BY <3>4, <3>5, <3>6 DEF SlotInv
  <2>8. ASSUME NEW t \in Tasks, WorkerStep(t) PROVE SlotInv'
    <3>1. /\ UNCHANGED main
          /\ mainQ' = mainQ \/ \E ok \in BOOLEAN : Post(t, ok)
      BY <2>8 DEF WorkerStep, StartGetFile, CancelGetFile, DestroyGetFile,
           HttpReadyRead, HandleHttpRedirect, RequestFailed,
           OnHttpRequestFinished, Deliver
    <3>. QED
      BY <3>1, WorkerKeepsSlot
  <2>9. CASE UNCHANGED vars
    BY <2>9 DEF vars, SlotInv, OneRunning, SlotIsUsed, PendingIsQueued,
         OverIsReported, Running
  <2>. QED
    BY <2>1, <2>2, <2>3, <2>4, <2>5, <2>7, <2>8, <2>9, <2>10 DEF Next, MainStep
<1>. QED
  BY <1>1, <1>2, TypeCorrect, PTL DEF Spec, IInv

\* The slot runs what it holds, and nothing waits while it is free.
THEOREM SlotNeverStalls == Spec => [](SlotIsUsed /\ OneRunning)
<1>1. IInv => SlotIsUsed /\ OneRunning
  BY DEF IInv, SlotInv
<1>. QED
  BY <1>1, SlotInvariant, PTL

\* What IInv says of the queue, in terms of sets.
LEMMA QueueFacts ==
    ASSUME IInv
    PROVE  /\ pending \in Seq(Tasks) /\ phase \in [Tasks -> Phases]
           /\ Queued \subseteq {t \in Tasks : phase[t] = "queued"}
           /\ \A i, j \in 1..Len(pending) : pending[i] = pending[j] => i = j
           /\ current \in Tasks => current \in Running
           /\ pending # <<>> => /\ current \in Running
                               /\ Head(pending) \in Queued
                               /\ ToSet(Tail(pending)) = Queued \ {Head(pending)}
<1>1. pending \in Seq(Tasks) /\ phase \in [Tasks -> Phases] /\ current \in Tasks \cup {NoTask}
  BY DEF IInv, TypeOK
<1>2. DOMAIN pending = 1..Len(pending) /\ \A i \in 1..Len(pending) : pending[i] \in Tasks
  BY <1>1, LenProperties, ElementOfSeq
<1>3. Queued \subseteq {t \in Tasks : phase[t] = "queued"}
  BY <1>2 DEF Queued, ToSet, IInv, SlotInv, PendingIsQueued
<1>4. \A i, j \in 1..Len(pending) : pending[i] = pending[j] => i = j
  BY DEF IInv, SlotInv, PendingIsQueued
<1>5. /\ current \in Tasks => current \in Running
      /\ pending # <<>> => current \in Running
  BY <1>1, NoTaskAssumption DEF IInv, SlotInv, SlotIsUsed, Running
<1>6. ASSUME pending # <<>>
      PROVE  /\ Head(pending) \in Queued
             /\ ToSet(Tail(pending)) = Queued \ {Head(pending)}
  <2>1. Queued = {Head(pending)} \cup ToSet(Tail(pending))
    BY <1>1, <1>6, ToSetTail DEF Queued
  <2>2. Head(pending) \notin ToSet(Tail(pending))
    <3>1. /\ Head(pending) = pending[1] /\ Len(pending) \in Nat /\ 1 \in 1..Len(pending)
          /\ DOMAIN Tail(pending) = 1..(Len(pending) - 1)
          /\ \A i \in 1..(Len(pending) - 1) : Tail(pending)[i] = pending[i + 1]
      BY <1>1, <1>6, HeadTailProperties, EmptySeq, LenProperties
    <3>2. \A i \in 1..(Len(pending) - 1) : i + 1 \in 1..Len(pending) /\ i + 1 # 1
      BY <3>1
    <3>. QED
      BY <1>4, <3>1, <3>2 DEF ToSet
  <2>. QED
    BY <2>1, <2>2
<1>. QED
  BY <1>1, <1>3, <1>4, <1>5, <1>6

\* Whoever finishes, nothing new is tracked: the slot is given to a task of the
\* queue.
LEMMA FinishTracks ==
    ASSUME IInv, NEW t \in Tasks, NEW ok, NEW q, Finish(t, ok, q)
    PROVE  Tracked' \subseteq Tracked
<1>1. pending \in Seq(Tasks) /\ (\A i, j \in 1..Len(pending) : pending[i] = pending[j] => i = j)
  BY QueueFacts
<1>2. Queued' \subseteq Queued
  <2>1. CASE t # current
    BY <1>1, <2>1, ToSetRemoveFirst DEF Finish, PendingAfter, Queued
  <2>2. CASE HandsOver(t)
    BY <2>2, QueueFacts DEF Finish, PendingAfter, Queued, HandsOver
  <2>3. CASE t = current /\ ~HandsOver(t)
    BY <2>3 DEF Finish, PendingAfter, Queued
  <2>. QED
    BY <2>1, <2>2, <2>3
<1>3. current' \in {current, NoTask} \cup Queued
  BY QueueFacts DEF Finish, CurrentAfter, HandsOver
<1>. QED
  BY <1>2, <1>3 DEF Tracked

\* What the manager tracks has not ended.
LEMMA TrackedAreLive == IInv => Tracked \subseteq Live
<1>. SUFFICES ASSUME IInv PROVE Tracked \subseteq Live
  OBVIOUS
<1>1. Queued \subseteq Live
  BY QueueFacts DEF Live
<1>2. current \in Tasks \cup {NoTask} /\ (current \in Tasks => current \in Live)
  BY QueueFacts DEF Live, Running, IInv, TypeOK
<1>. QED
  BY <1>1, <1>2 DEF Tracked

\* No file is downloaded twice at the same time by tasks the manager knows of,
\* so two opened views of a file share one download.
THEOREM FilesAreDownloadedOnce == Spec => []OneDownloadPerFile
<1>1. Init => OneDownloadPerFile
  BY DEF Init, OneDownloadPerFile, Tracked, Queued, ToSet
<1>2. IInv' => (Tracked \subseteq Live)'
  BY TrackedAreLive, PTL
<1>3. IInv /\ IInv' /\ OneDownloadPerFile /\ [Next]_vars => OneDownloadPerFile'
  <2>. SUFFICES ASSUME IInv, IInv', OneDownloadPerFile, [Next]_vars
                PROVE  OneDownloadPerFile'
    OBVIOUS
  <2>1. Tracked \subseteq Live /\ Tracked' \subseteq Live'
    BY <1>2, TrackedAreLive
  <2>2. ASSUME Tracked' \subseteq Tracked, file' = file PROVE OneDownloadPerFile'
    BY <2>1, <2>2 DEF OneDownloadPerFile
  <2>3. ASSUME NEW t \in Tasks, NEW f \in Files, AddDownloadTask(t, f)
        PROVE  OneDownloadPerFile'
    <3>1. t \notin Tracked /\ Tracked' \subseteq Tracked \cup {t}
      <4>1. t \notin Tracked
        BY <2>1, <2>3 DEF AddDownloadTask, Live
      <4>2. Queued' \subseteq Queued \cup {t}
        <5>1. ToSet(Append(pending, t)) = Queued \cup {t}
          BY QueueFacts, ToSetAppend DEF Queued
        <5>2. pending' = pending \/ pending' = Append(pending, t)
          BY <2>3 DEF AddDownloadTask
        <5>. QED
          BY <5>1, <5>2 DEF Queued
      <4>. QED
        BY <2>3, <4>1, <4>2 DEF AddDownloadTask, Tracked
    <3>2. /\ \A u \in Tracked : file[u] # f
          /\ \A u \in Tasks : file'[u] = IF u = t THEN f ELSE file[u]
      BY <2>3 DEF AddDownloadTask, Existing, IInv, TypeOK
    <3>3. Tracked \subseteq Tasks
      BY <2>1 DEF Live
    <3>. QED
      BY <2>1, <3>1, <3>2, <3>3 DEF OneDownloadPerFile
  <2>4. ASSUME NEW t \in Tasks, NEW ok, NEW q, Finish(t, ok, q), UNCHANGED file
        PROVE  OneDownloadPerFile'
    BY <2>2, <2>4, FinishTracks
  <2>5. ASSUME NEW t \in Tasks, MainStep(t) PROVE OneDownloadPerFile'
    <3>1. OnLinkGet(t) => Tracked' = Tracked /\ file' = file
      BY DEF OnLinkGet, Tracked, Queued
    <3>2. OnGetLinkFailed(t) \/ Cancel(t) => Finish(t, FALSE, mainQ) /\ UNCHANGED file
      BY DEF OnGetLinkFailed, Cancel
    <3>. QED
      BY <2>2, <2>3, <2>4, <2>5, <3>1, <3>2 DEF MainStep
  <2>6. CASE CancelAllDownloadTasks
    BY <2>2, <2>6 DEF CancelAllDownloadTasks, Tracked, Queued, ToSet
  <2>7. CASE HandleFinished
    <3> DEFINE t == Head(mainQ).task
    <3>1. t \in Tasks /\ UNCHANGED file
      <4>1. Head(mainQ) \in MainEvents
        BY <2>7 DEF HandleFinished, IInv, TypeOK
      <4>. QED
        BY <2>7, <4>1 DEF HandleFinished, MainEvents
    <3>2. CASE IsIgnored(t)
      BY <2>2, <2>7, <3>2 DEF HandleFinished, Tracked, Queued
    <3>3. CASE ~IsIgnored(t)
      BY <2>4, <2>7, <3>1, <3>3 DEF HandleFinished
    <3>. QED
      BY <3>2, <3>3
  <2>8. CASE HandleDestroy
    BY <2>2, <2>8 DEF HandleDestroy, Tracked, Queued
  <2>9. ASSUME NEW t \in Tasks, WorkerStep(t) PROVE OneDownloadPerFile'
    <3>1. UNCHANGED <<current, pending, file>>
      BY <2>9 DEF WorkerStep, StartGetFile, CancelGetFile, DestroyGetFile, main,
         HttpReadyRead, HandleHttpRedirect, RequestFailed, OnHttpRequestFinished
    <3>. QED
      BY <2>2, <3>1 DEF Tracked, Queued
  <2>10. CASE UNCHANGED vars
    BY <2>2, <2>10 DEF vars, Tracked, Queued
  <2>. QED
    BY <2>5, <2>6, <2>7, <2>8, <2>9, <2>10 DEF Next
<1>. QED
  BY <1>1, <1>3, SlotInvariant, PTL DEF Spec

\* finished() is emitted by a task that is not canceled, and by cancel() while
\* it makes it canceled: afterwards the task is over and its events ignored.
THEOREM CanceledStaysSilent == Spec => CanceledIsSilent
<1>1. IInv /\ [Next]_vars => [\A t \in Tasks : canceled[t] => signals'[t] = signals[t]]_vars
  <2>. SUFFICES ASSUME IInv, Next, NEW u \in Tasks, canceled[u]
                PROVE  signals'[u] = signals[u]
    OBVIOUS
  <2>1. phase[u] \in {"finished", "gone"} /\ signals \in [Tasks -> Seq(BOOLEAN)]
    BY DEF IInv, SlotInv, OverIsReported, TypeOK
  <2>2. ASSUME NEW t \in Tasks, NEW ok, NEW q, EmitFinished(t, ok, q), t # u
        PROVE  signals'[u] = signals[u]
    BY <2>1, <2>2 DEF EmitFinished
  <2>3. ASSUME NEW t \in Tasks, MainStep(t) PROVE signals'[u] = signals[u]
    <3>1. u \notin Tracked
      <4>1. u # current
        BY <2>1, NoTaskAssumption DEF IInv, SlotInv, SlotIsUsed, TypeOK
      <4>2. u \notin Queued
        <5>1. \A i \in 1..Len(pending) : phase[pending[i]] = "queued"
          BY DEF IInv, SlotInv, PendingIsQueued
        <5>2. DOMAIN pending = 1..Len(pending)
          BY DEF IInv, TypeOK
        <5>. QED
          BY <2>1, <5>1, <5>2 DEF Queued, ToSet
      <4>. QED
        BY <4>1, <4>2 DEF Tracked
    <3>. QED
      BY <2>1, <2>2, <2>3, <3>1 DEF MainStep, AddDownloadTask, OnLinkGet,
         OnGetLinkFailed, Cancel, Finish
  <2>4. ASSUME NEW t \in Tasks, WorkerStep(t) PROVE signals'[u] = signals[u]
    BY <2>4 DEF WorkerStep, StartGetFile, CancelGetFile, DestroyGetFile, main,
       HttpReadyRead, HandleHttpRedirect, RequestFailed, OnHttpRequestFinished
  <2>5. CASE CancelAllDownloadTasks
    <3>1. current \in Tasks /\ current # u /\ EmitFinished(current, FALSE, mainQ)
      BY <2>1, <2>5 DEF CancelAllDownloadTasks, IInv, SlotInv, SlotIsUsed, TypeOK
    <3>. QED
      BY <2>2, <3>1
  <2>6. CASE HandleFinished
    <3> DEFINE t == Head(mainQ).task
    <3>1. t \in Tasks
      <4>1. Head(mainQ) \in MainEvents
        BY <2>6 DEF HandleFinished, IInv, TypeOK
      <4>. QED
        BY <2>6, <4>1 DEF HandleFinished, MainEvents
    <3>2. CASE IsIgnored(t)
      BY <2>6, <3>2 DEF HandleFinished
    <3>3. CASE ~IsIgnored(t)
      <4>1. t # u /\ EmitFinished(t, Head(mainQ).ok, Tail(mainQ))
        BY <2>6, <3>3 DEF HandleFinished, IsIgnored, Finish
      <4>. QED
        BY <2>2, <3>1, <4>1
    <3>. QED
      BY <3>2, <3>3
  <2>7. CASE HandleDestroy
    BY <2>7 DEF HandleDestroy
  <2>. QED
    BY <2>3, <2>4, <2>5, <2>6, <2>7 DEF Next
<1>. QED
  BY <1>1, SlotInvariant, PTL DEF Spec, CanceledIsSilent

-----------------------------------------------------------------------------
(* TransferManager implements DownloadQueue.  The slot invariant says who  *)
(* has the slot and what waits.  What it does not say is where the events  *)
(* come from: a finished() of a task that still waits would take it out of *)
(* the queue without a cancel.  EventsOfStarted is the part that excludes  *)
(* it.                                                                     *)

Started == {t \in Tasks : phase[t] \notin {"unborn", "queued"}}

\* Only a task that was started has a GetFileTask, or events about it.
EventsOfStarted ==
    /\ \A i \in 1..Len(mainQ) : mainQ[i].task \in Started
    /\ \A i \in 1..Len(workerQ) : workerQ[i].task \in Started
    /\ \A t \in Tasks : get[t].st # "none" => t \in Started

RInv == IInv /\ EventsOfStarted

-----------------------------------------------------------------------------
(* The invariant.                                                          *)

\* Started is never left, and an event that is appended is of a started task.
LEMMA StartedGrows ==
    ASSUME TypeOK, TypeOK', Started \subseteq Started',
           \/ mainQ' = mainQ
           \/ mainQ # <<>> /\ mainQ' = Tail(mainQ)
           \/ \E m \in MainEvents : /\ m.task \in Started'
                                    /\ \/ mainQ' = Append(mainQ, m)
                                       \/ mainQ # <<>> /\ mainQ' = Append(Tail(mainQ), m),
           \/ workerQ' = workerQ
           \/ workerQ # <<>> /\ workerQ' = Tail(workerQ)
           \/ \E m \in WorkerEvents : m.task \in Started' /\ workerQ' = Append(workerQ, m),
           \A t \in Tasks : get'[t].st = get[t].st \/ t \in Started',
           EventsOfStarted
    PROVE  EventsOfStarted'
<1>1. ASSUME NEW S, NEW q \in Seq(S), NEW m \in S, NEW P,
             \A i \in 1..Len(q) : q[i].task \in P
      PROVE  /\ m.task \in P => \A i \in 1..Len(Append(q, m)) : Append(q, m)[i].task \in P
             /\ q # <<>> => /\ Tail(q) \in Seq(S)
                           /\ \A i \in 1..Len(Tail(q)) : Tail(q)[i].task \in P
  <2>1. \A i \in 1..(Len(q) + 1) : i \in 1..Len(q) \/ i = Len(q) + 1
    BY <1>1, LenProperties
  <2>2. m.task \in P => \A i \in 1..Len(Append(q, m)) : Append(q, m)[i].task \in P
    BY <1>1, <2>1, AppendProperties
  <2>3. ASSUME q # <<>>
        PROVE  Tail(q) \in Seq(S) /\ \A i \in 1..Len(Tail(q)) : Tail(q)[i].task \in P
    <3>1. /\ Tail(q) \in Seq(S) /\ Len(Tail(q)) = Len(q) - 1 /\ Len(q) \in Nat
          /\ \A i \in 1..Len(Tail(q)) : Tail(q)[i] = q[i + 1]
      BY <1>1, <2>3, HeadTailProperties, LenProperties
    <3>2. \A i \in 1..Len(Tail(q)) : i + 1 \in 1..Len(q)
      BY <3>1
    <3>. QED
      BY <1>1, <3>1, <3>2
  <2>. QED
    BY <2>2, <2>3
<1>2. mainQ \in Seq(MainEvents) /\ workerQ \in Seq(WorkerEvents)
  BY DEF TypeOK
<1>3. /\ \A i \in 1..Len(mainQ) : mainQ[i].task \in Started'
      /\ \A i \in 1..Len(workerQ) : workerQ[i].task \in Started'
  BY DEF EventsOfStarted
<1>4. \A i \in 1..Len(mainQ') : mainQ'[i].task \in Started'
  <2>1. CASE mainQ # <<>> /\ mainQ' = Tail(mainQ)
    <3>1. PICK m : m = Head(mainQ)
      OBVIOUS
    <3>2. m \in MainEvents
      BY <1>2, <2>1, <3>1, HeadTailProperties
    <3>. QED
      BY <1>1, <1>2, <1>3, <2>1, <3>2
  <2>2. ASSUME NEW m \in MainEvents, m.task \in Started', mainQ' = Append(mainQ, m)
        PROVE  \A i \in 1..Len(mainQ') : mainQ'[i].task \in Started'
    BY <1>1, <1>2, <1>3, <2>2
  <2>3. ASSUME NEW m \in MainEvents, m.task \in Started',
               mainQ # <<>>, mainQ' = Append(Tail(mainQ), m)
        PROVE  \A i \in 1..Len(mainQ') : mainQ'[i].task \in Started'
    <3>1. /\ Tail(mainQ) \in Seq(MainEvents)
          /\ \A i \in 1..Len(Tail(mainQ)) : Tail(mainQ)[i].task \in Started'
      BY <1>1, <1>2, <1>3, <2>3
    <3>. QED
      BY <1>1, <2>3, <3>1
  <2>. QED
    BY <1>3, <2>1, <2>2, <2>3
<1>5. \A i \in 1..Len(workerQ') : workerQ'[i].task \in Started'
  <2>1. CASE workerQ # <<>> /\ workerQ' = Tail(workerQ)
    <3>1. PICK m : m = Head(workerQ)
      OBVIOUS
    <3>2. m \in WorkerEvents
      BY <1>2, <2>1, <3>1, HeadTailProperties
    <3>. QED
      BY <1>1, <1>2, <1>3, <2>1, <3>2
  <2>2. ASSUME NEW m \in WorkerEvents, m.task \in Started', workerQ' = Append(workerQ, m)
        PROVE  \A i \in 1..Len(workerQ') : workerQ'[i].task \in Started'
    BY <1>1, <1>2, <1>3, <2>2
  <2>. QED
    BY <1>3, <2>1, <2>2
<1>6. \A t \in Tasks : get'[t].st # "none" => t \in Started'
  BY DEF EventsOfStarted
<1>. QED
  BY <1>4, <1>5, <1>6 DEF EventsOfStarted

\* The emission of finished() starts the next task, and un-starts none.
LEMMA EmitStarts ==
    ASSUME TypeOK, NEW t \in Tasks, NEW ok, NEW q, EmitFinished(t, ok, q)
    PROVE  /\ Started \subseteq Started' /\ t \in Started'
           /\ \/ mainQ' = q
              \/ \E m \in MainEvents : m.task = t /\ mainQ' = Append(q, m)
<1>1. Started \subseteq Started' /\ t \in Started'
  BY DEF Started, EmitFinished, TypeOK
<1>. QED
  BY <1>1, MainEventsType DEF EmitFinished

\* The next event of the main queue.
LEMMA HeadOfMainQ ==
    ASSUME TypeOK, EventsOfStarted, mainQ # <<>>
    PROVE  /\ Head(mainQ) \in MainEvents /\ Tail(mainQ) \in Seq(MainEvents)
           /\ Head(mainQ).task \in Started
<1>1. mainQ \in Seq(MainEvents)
  BY DEF TypeOK
<1>2. /\ Head(mainQ) \in MainEvents /\ Tail(mainQ) \in Seq(MainEvents)
      /\ Head(mainQ) = mainQ[1] /\ 1 \in 1..Len(mainQ)
  BY <1>1, HeadTailProperties, EmptySeq, LenProperties
<1>. QED
  BY <1>2 DEF EventsOfStarted

\* The events in both queues, and the GetFileTasks, are those of started tasks:
\* what waits in the manager's queue is touched by nobody but the manager.
THEOREM EventsInvariant == Spec => []RInv
<1>1. Init => EventsOfStarted
  BY DEF Init, EventsOfStarted, Idle
<1>2. RInv /\ IInv' /\ [Next]_vars => EventsOfStarted'
  <2>. SUFFICES ASSUME RInv, IInv', [Next]_vars PROVE EventsOfStarted'
    OBVIOUS
  <2>0. TypeOK /\ TypeOK' /\ EventsOfStarted
    BY DEF RInv, IInv
  <2>1. ASSUME NEW t \in Tasks, NEW f \in Files, AddDownloadTask(t, f)
        PROVE  EventsOfStarted'
    <3>1. Started \subseteq Started'
      BY <2>0, <2>1 DEF AddDownloadTask, Started, TypeOK
    <3>. QED
      BY <2>0, <2>1, <3>1, StartedGrows DEF AddDownloadTask, worker
  <2>2. ASSUME NEW t \in Tasks, OnLinkGet(t) PROVE EventsOfStarted'
    <3>1. Started \subseteq Started' /\ t \in Started'
      BY <2>0, <2>2 DEF OnLinkGet, Started, TypeOK
    <3>2. /\ workerQ' = Append(workerQ, [kind |-> "start", task |-> t])
          /\ [kind |-> "start", task |-> t] \in WorkerEvents
          /\ \A u \in Tasks : get'[u].st = get[u].st \/ u = t
      BY <2>0, <2>2, WorkerEventsType DEF OnLinkGet, TypeOK
    <3>. QED
      BY <2>0, <2>2, <3>1, <3>2, StartedGrows DEF OnLinkGet
  <2>3. ASSUME NEW t \in Tasks, NEW ok, EmitFinished(t, ok, mainQ), UNCHANGED get,
               \/ workerQ' = workerQ
               \/ workerQ' = Append(workerQ, [kind |-> "cancel", task |-> t])
        PROVE  EventsOfStarted'
    <3>1. /\ Started \subseteq Started' /\ t \in Started'
          /\ \/ mainQ' = mainQ
             \/ \E m \in MainEvents : m.task = t /\ mainQ' = Append(mainQ, m)
      BY <2>0, <2>3, EmitStarts
    <3>2. [kind |-> "cancel", task |-> t] \in WorkerEvents
      BY WorkerEventsType
    <3>. QED
      BY <2>0, <2>3, <3>1, <3>2, StartedGrows
  <2>4. ASSUME NEW t \in Tasks, OnGetLinkFailed(t) PROVE EventsOfStarted'
    BY <2>3, <2>4 DEF OnGetLinkFailed, Finish, worker
  <2>5. ASSUME NEW t \in Tasks, Cancel(t) PROVE EventsOfStarted'
    BY <2>3, <2>5 DEF Cancel, Finish, MarkCanceled
  <2>6. CASE CancelAllDownloadTasks
    <3>1. current \in Tasks
      BY <2>0, <2>6 DEF CancelAllDownloadTasks, TypeOK
    <3>. QED
      BY <2>3, <2>6, <3>1 DEF CancelAllDownloadTasks, MarkCanceled
  <2>7. CASE HandleFinished
    <3>1. mainQ # <<>> /\ Head(mainQ).task \in Tasks /\ UNCHANGED worker
      BY <2>0, <2>7, HeadOfMainQ DEF HandleFinished, Started
    <3>2. CASE IsIgnored(Head(mainQ).task)
      <4>1. mainQ' = Tail(mainQ) /\ Started' = Started
        BY <2>7, <3>2 DEF HandleFinished, Started
      <4>. QED
        BY <2>0, <3>1, <4>1, StartedGrows DEF worker
    <3>3. CASE ~IsIgnored(Head(mainQ).task)
      <4>1. EmitFinished(Head(mainQ).task, Head(mainQ).ok, Tail(mainQ))
        BY <2>7, <3>3 DEF HandleFinished, Finish
      <4>2. /\ Started \subseteq Started' /\ Head(mainQ).task \in Started'
            /\ \/ mainQ' = Tail(mainQ)
               \/ \E m \in MainEvents : /\ m.task = Head(mainQ).task
                                        /\ mainQ' = Append(Tail(mainQ), m)
        BY <2>0, <3>1, <4>1, EmitStarts
      <4>. QED
        BY <2>0, <3>1, <4>2, StartedGrows DEF worker
    <3>. QED
      BY <3>2, <3>3
  <2>8. CASE HandleDestroy
    <3> DEFINE t == Head(mainQ).task
               m == [kind |-> "destroy", task |-> t]
    <3>1. /\ mainQ # <<>> /\ mainQ' = Tail(mainQ) /\ UNCHANGED get
          /\ phase' = [phase EXCEPT ![t] = "gone"]
          /\ workerQ' = workerQ \/ workerQ' = Append(workerQ, m)
      BY <2>8 DEF HandleDestroy
    <3>2. t \in Started /\ t \in Tasks
      BY <2>0, <3>1, HeadOfMainQ DEF Started
    <3>3. Started \subseteq Started' /\ t \in Started'
      BY <2>0, <3>1, <3>2 DEF Started, TypeOK
    <3>4. m \in WorkerEvents /\ m.task = t
      BY <3>2, WorkerEventsType
    <3>. HIDE DEF t, m
    <3>. QED
      BY <2>0, <3>1, <3>3, <3>4, StartedGrows
  <2>9. ASSUME NEW t \in Tasks, WorkerStep(t) PROVE EventsOfStarted'
    <3>1. Started' = Started
      BY <2>9 DEF WorkerStep, StartGetFile, CancelGetFile, DestroyGetFile, main,
         HttpReadyRead, HandleHttpRedirect, RequestFailed, OnHttpRequestFinished,
         Started
    <3>6. \/ get[t].st = "running" /\ workerQ' = workerQ
          \/ workerQ # <<>> /\ Head(workerQ).task = t /\ workerQ' = Tail(workerQ)
      <4>1. ASSUME NEW tmp, StartGetFile(t, tmp)
            PROVE  workerQ # <<>> /\ Head(workerQ).task = t /\ workerQ' = Tail(workerQ)
        BY <4>1 DEF StartGetFile
      <4>2. CancelGetFile(t)
              => workerQ # <<>> /\ Head(workerQ).task = t /\ workerQ' = Tail(workerQ)
        BY DEF CancelGetFile
      <4>3. DestroyGetFile(t)
              => workerQ # <<>> /\ Head(workerQ).task = t /\ workerQ' = Tail(workerQ)
        BY DEF DestroyGetFile
      <4>. QED
        BY <2>9, <4>1, <4>2, <4>3 DEF WorkerStep, HttpReadyRead, HandleHttpRedirect,
           RequestFailed, OnHttpRequestFinished
    <3>2. t \in Started
      <4>1. CASE get[t].st = "running"
        BY <2>0, <4>1 DEF EventsOfStarted
      <4>2. CASE workerQ # <<>> /\ Head(workerQ).task = t
        <5>1. workerQ \in Seq(WorkerEvents)
          BY <2>0 DEF TypeOK
        <5>2. Head(workerQ) = workerQ[1] /\ 1 \in 1..Len(workerQ)
          BY <4>2, <5>1, HeadTailProperties, EmptySeq, LenProperties
        <5>. QED
          BY <2>0, <4>2, <5>2 DEF EventsOfStarted
      <4>. QED
        BY <3>6, <4>1, <4>2
    <3>3. mainQ' = mainQ \/ \E m \in MainEvents : m.task = t /\ mainQ' = Append(mainQ, m)
      BY <2>9, MainEventsType DEF WorkerStep, StartGetFile, CancelGetFile,
         DestroyGetFile, HttpReadyRead, HandleHttpRedirect, RequestFailed,
         OnHttpRequestFinished, Deliver, Post
    <3>5. \A u \in Tasks : get'[u].st = get[u].st \/ u = t
      BY <2>0, <2>9 DEF WorkerStep, StartGetFile, CancelGetFile, DestroyGetFile,
         HttpReadyRead, HandleHttpRedirect, RequestFailed, OnHttpRequestFinished,
         TypeOK
    <3>. QED
      BY <2>0, <3>1, <3>2, <3>3, <3>5, <3>6, StartedGrows
  <2>10. CASE UNCHANGED vars
    BY <2>0, <2>10 DEF vars, worker, EventsOfStarted, Started
  <2>. QED
    BY <2>1, <2>2, <2>4, <2>5, <2>6, <2>7, <2>8, <2>9, <2>10 DEF Next, MainStep
<1>. QED
  BY <1>1, <1>2, SlotInvariant, PTL DEF Spec, RInv

-----------------------------------------------------------------------------
(* The refinement.                                                         *)

\* DownloadQueue brings its own copy of the sequence operators.
LEMMA SameOperators ==
    \A q, e : Queue!ToSet(q) = ToSet(q) /\ Queue!RemoveFirst(q, e) = RemoveFirst(q, e)
BY DEF ToSet, Queue!ToSet, RemoveFirst, Queue!RemoveFirst, SelectInSeq,
       Queue!SelectInSeq, RemoveAt, Queue!RemoveAt, Min, Queue!Min

\* A tracked or started task finishes: one that runs leaves, one that waits is
\* canceled, and the second finished() of one that is over is not noticed.
LEMMA FinishImplements ==
    ASSUME IInv, NEW t \in Tasks, NEW ok, NEW q, Finish(t, ok, q),
           t \in Queued \/ t \in Running \/ phase[t] = "finished"
    PROVE  [Queue!Next]_Queue!vars
<1>1. /\ phase' = [u \in Tasks |-> IF u = t THEN "finished"
                                   ELSE IF HandsOver(t) /\ u = Head(pending)
                                        THEN "linking" ELSE phase[u]]
      /\ pending' = PendingAfter(t)
  BY DEF Finish, EmitFinished
<1>2. CASE t \in Running /\ HandsOver(t)
  <2>1. pending' = Tail(pending) /\ Queued' = Queued \ {Head(pending)} /\ pending # <<>>
    BY <1>1, <1>2, QueueFacts DEF HandsOver, PendingAfter, Queued
  <2>2. /\ Head(pending) \in Queued /\ Head(pending) \in Tasks /\ Head(pending) # t
        /\ phase[Head(pending)] = "queued"
    BY <1>2, <2>1, QueueFacts DEF Running
  <2>3. Running' = (Running \ {t}) \cup {Head(pending)}
    BY <1>1, <1>2, <2>2 DEF Running
  <2>4. Over' = Over \cup {t}
    BY <1>1, <1>2, <2>2 DEF Over
  <2>5. Dropped' = Dropped
    BY <1>1, <1>2, <2>1, <2>2 DEF Dropped, Running
  <2>6. Queue!HandOver(t)
    BY <1>2, <2>1, <2>3, <2>4, <2>5 DEF Queue!HandOver, Queue!Leave
  <2>. QED
    BY <2>6 DEF Queue!Next
<1>3. CASE t \in Running /\ ~HandsOver(t)
  <2>1. pending' = pending
    <3>1. t \notin Queued
      BY <1>3, QueueFacts DEF Running
    <3>. QED
      BY <1>1, <1>3, <3>1, QueueFacts, ToSetRemoveFirst
         DEF HandsOver, PendingAfter, Queued
  <2>2. Queued' = Queued
    BY <2>1 DEF Queued
  <2>3. pending = <<>> \/ Running # {t}
    BY <1>3, QueueFacts DEF HandsOver
  <2>4. Running' = Running \ {t} /\ Over' = Over \cup {t}
    BY <1>1, <1>3 DEF Running, Over
  <2>5. Dropped' = Dropped
    BY <1>1, <1>3, <2>2 DEF Dropped, Running
  <2>6. Queue!Stop(t)
    BY <1>3, <2>1, <2>3, <2>4, <2>5 DEF Queue!Stop, Queue!Leave
  <2>. QED
    BY <2>6 DEF Queue!Next
<1>4. CASE t \in Queued
  <2>1. t # current /\ ~HandsOver(t) /\ phase[t] = "queued"
    BY <1>4, QueueFacts DEF HandsOver, Running
  <2>2. pending' = RemoveFirst(pending, t) /\ Queued' = Queued \ {t}
    BY <1>1, <2>1, QueueFacts, ToSetRemoveFirst DEF PendingAfter, Queued
  <2>3. Running' = Running /\ Over' = Over \cup {t}
    BY <1>1, <2>1 DEF Running, Over
  <2>4. Dropped' = Dropped
    BY <1>1, <1>4, <2>1, <2>2 DEF Dropped
  <2>5. Queue!Cancel(t)
    BY <1>4, <2>2, <2>3, <2>4, SameOperators DEF Queue!Cancel, Queued
  <2>. QED
    BY <2>5 DEF Queue!Next
<1>5. CASE phase[t] = "finished"
  <2>1. t \notin Queued /\ t # current /\ ~HandsOver(t)
    BY <1>5, QueueFacts DEF HandsOver, Running
  <2>2. pending' = pending
    BY <1>1, <2>1, QueueFacts, ToSetRemoveFirst DEF PendingAfter, Queued
  <2>3. phase' = phase
    BY <1>1, <1>5, <2>1, QueueFacts
  <2>. QED
    BY <2>2, <2>3 DEF Queue!vars, Running, Over, Dropped, Queued
<1>. QED
  BY <1>2, <1>3, <1>4, <1>5

\* Seen from who asks for downloads, the manager is a first-come first-served
\* queue: every step of its code is a step of DownloadQueue or does not show.
THEOREM ManagerImplementsQueue == Spec => ImplementsQueue
<1>1. Init => Queue!Init
  BY DEF Init, Queue!Init, Running, Over, Dropped
<1>2. RInv /\ [Next]_vars => [Queue!Next]_Queue!vars
  <2>. SUFFICES ASSUME RInv, [Next]_vars PROVE [Queue!Next]_Queue!vars
    OBVIOUS
  <2>0. IInv /\ TypeOK /\ EventsOfStarted
    BY DEF RInv, IInv
  <2>1. ASSUME NEW t \in Tasks, NEW f \in Files, AddDownloadTask(t, f)
        PROVE  [Queue!Next]_Queue!vars
    <3>1. /\ phase[t] = "unborn" /\ t \notin Queued /\ t \notin Running
          /\ t \notin Over /\ t \notin Dropped
      BY <2>0, <2>1, QueueFacts DEF AddDownloadTask, Running, Over, Dropped
    <3>2. t \in Queue!Fresh
      BY <3>1, SameOperators DEF Queue!Fresh, Queued
    <3>3. CASE current = NoTask
      <4>1. /\ pending = <<>> /\ pending' = pending
            /\ phase' = [phase EXCEPT ![t] = "linking"]
        BY <2>0, <2>1, <3>3 DEF AddDownloadTask, IInv, SlotInv, SlotIsUsed
      <4>2. Queued' = Queued
        BY <4>1 DEF Queued
      <4>3. Running' = Running \cup {t} /\ Over' = Over /\ Dropped' = Dropped
        BY <2>0, <3>1, <4>1, <4>2, QueueFacts DEF Running, Over, Dropped
      <4>. QED
        BY <3>2, <4>1, <4>3 DEF Queue!Next, Queue!Ask
    <3>4. CASE current # NoTask
      <4>1. /\ pending' = Append(pending, t) /\ phase' = [phase EXCEPT ![t] = "queued"]
            /\ current \in Running
        BY <2>0, <2>1, <3>4, QueueFacts DEF AddDownloadTask, TypeOK
      <4>2. Queued' = Queued \cup {t}
        BY <2>0, <4>1, QueueFacts, ToSetAppend DEF Queued
      <4>3. Running' = Running /\ Over' = Over /\ Dropped' = Dropped
        BY <2>0, <3>1, <4>1, <4>2, QueueFacts DEF Running, Over, Dropped
      <4>. QED
        BY <3>2, <4>1, <4>3 DEF Queue!Next, Queue!Ask
    <3>. QED
      BY <3>3, <3>4
  <2>2. ASSUME pending' = pending, NEW t \in Tasks, NEW p \in Phases,
               phase' = [phase EXCEPT ![t] = p],
               \/ phase[t] = "linking" /\ p = "serving"
               \/ phase[t] \in {"finished", "gone"} /\ p = "gone"
        PROVE  [Queue!Next]_Queue!vars
    <3>1. Queued' = Queued
      BY <2>2 DEF Queued
    <3>. QED
      BY <2>0, <2>2, <3>1, QueueFacts DEF Queue!vars, Running, Over, Dropped
  <2>3. ASSUME NEW t \in Tasks, OnLinkGet(t) PROVE [Queue!Next]_Queue!vars
    BY <2>2, <2>3 DEF OnLinkGet, Phases
  <2>4. ASSUME NEW t \in Tasks, OnGetLinkFailed(t) PROVE [Queue!Next]_Queue!vars
    BY <2>0, <2>4, FinishImplements DEF OnGetLinkFailed, Running
  <2>5. ASSUME NEW t \in Tasks, Cancel(t) PROVE [Queue!Next]_Queue!vars
    BY <2>0, <2>5, QueueFacts, FinishImplements DEF Cancel, Tracked
  <2>6. CASE CancelAllDownloadTasks
    <3> DEFINE t == current
    <3>1. /\ t \in Tasks /\ t \in Running /\ pending' = <<>>
          /\ phase' = [u \in Tasks |-> IF u = t THEN "finished"
                                      ELSE IF HandsOver(t) /\ u = Head(pending)
                                           THEN "linking" ELSE phase[u]]
      BY <2>0, <2>6, QueueFacts DEF CancelAllDownloadTasks, EmitFinished, TypeOK
    <3>2. Queued' = {}
      BY <3>1 DEF Queued, ToSet
    <3>. HIDE DEF t
    <3>3. CASE pending = <<>>
      <4>1. Running' = Running \ {t} /\ Over' = Over \cup {t}
        BY <3>1, <3>3 DEF Running, Over, HandsOver
      <4>2. Queued = {}
        BY <3>3 DEF Queued, ToSet
      <4>3. Dropped' = Dropped
        BY <3>1, <3>2, <3>3, <4>2 DEF Dropped, HandsOver, Running
      <4>4. Queue!CancelAll(t)
        BY <3>1, <3>3, <4>1, <4>3 DEF Queue!CancelAll, Queue!Leave
      <4>. QED
        BY <3>1, <4>4 DEF Queue!Next
    <3>4. CASE pending # <<>>
      <4>1. /\ HandsOver(t) /\ Head(pending) \in Tasks /\ Head(pending) # t
            /\ phase[Head(pending)] = "queued"
            /\ ToSet(Tail(pending)) = Queued \ {Head(pending)}
            /\ Head(pending) \in Queued
        BY <2>0, <3>1, <3>4, QueueFacts DEF HandsOver, Running, t
      <4>2. Running' = (Running \ {t}) \cup {Head(pending)} /\ Over' = Over \cup {t}
        BY <3>1, <4>1 DEF Running, Over
      <4>3. Dropped' = Dropped \cup ToSet(Tail(pending))
        <5>1. \A u \in Tasks : phase'[u] = "queued"
                                  <=> phase[u] = "queued" /\ u # Head(pending)
          BY <3>1, <4>1 DEF Running
        <5>2. \A u \in Queued : u \in Tasks /\ phase[u] = "queued"
          BY <2>0, QueueFacts
        <5>. QED
          BY <3>2, <4>1, <5>1, <5>2 DEF Dropped
      <4>4. Queue!CancelAll(t)
        BY <3>1, <3>4, <4>2, <4>3, SameOperators DEF Queue!CancelAll, Queue!Leave
      <4>. QED
        BY <3>1, <4>4 DEF Queue!Next
    <3>. QED
      BY <3>3, <3>4
  <2>7. CASE HandleFinished
    <3> DEFINE t == Head(mainQ).task
    <3>1. mainQ # <<>> /\ t \in Started
      BY <2>0, <2>7, HeadOfMainQ DEF HandleFinished
    <3>2. CASE IsIgnored(t)
      BY <2>7, <3>2 DEF HandleFinished, Queue!vars, Running, Over, Dropped, Queued
    <3>3. CASE ~IsIgnored(t)
      <4>1. t \in Tasks /\ (t \in Running \/ phase[t] = "finished")
        BY <2>0, <3>1, <3>3 DEF IsIgnored, Started, Running, TypeOK, Phases
      <4>2. Finish(t, Head(mainQ).ok, Tail(mainQ))
        BY <2>7, <3>3 DEF HandleFinished
      <4>. HIDE DEF t
      <4>. QED
        BY <2>0, <4>1, <4>2, FinishImplements
    <3>. QED
      BY <3>2, <3>3
  <2>8. CASE HandleDestroy
    <3> DEFINE t == Head(mainQ).task
    <3>1. /\ mainQ # <<>> /\ Head(mainQ).kind = "destroy"
          /\ pending' = pending /\ phase' = [phase EXCEPT ![t] = "gone"]
      BY <2>8 DEF HandleDestroy
    <3>2. t \in Tasks
      BY <2>0, <3>1, HeadOfMainQ DEF Started
    <3>3. phase[t] \in {"finished", "gone"}
      <4>1. mainQ \in Seq(MainEvents)
        BY <2>0 DEF TypeOK
      <4>2. Head(mainQ) = mainQ[1] /\ 1 \in 1..Len(mainQ)
        BY <3>1, <4>1, HeadTailProperties, EmptySeq, LenProperties
      <4>. QED
        BY <2>0, <3>1, <4>2 DEF IInv, SlotInv, OverIsReported
    <3>. HIDE DEF t
    <3>. QED
      BY <2>2, <3>1, <3>2, <3>3 DEF Phases
  <2>9. ASSUME NEW t \in Tasks, WorkerStep(t) PROVE [Queue!Next]_Queue!vars
    <3>1. pending' = pending /\ phase' = phase
      BY <2>9 DEF WorkerStep, StartGetFile, CancelGetFile, DestroyGetFile, main,
         HttpReadyRead, HandleHttpRedirect, RequestFailed, OnHttpRequestFinished
    <3>. QED
      BY <3>1 DEF Queue!vars, Running, Over, Dropped, Queued
  <2>10. CASE UNCHANGED vars
    BY <2>10 DEF vars, Queue!vars, Running, Over, Dropped, Queued
  <2>. QED
    BY <2>1, <2>3, <2>4, <2>5, <2>6, <2>7, <2>8, <2>9, <2>10 DEF Next, MainStep
<1>. QED
  BY <1>1, <1>2, EventsInvariant, PTL DEF Spec, ImplementsQueue, Queue!Spec


-----------------------------------------------------------------------------
(* What the GetFileTasks in the worker thread do for the manager.          *)

Event(kind, t) == [kind |-> kind, task |-> t]
Report(t, ok)  == [kind |-> "finished", task |-> t, ok |-> ok]

\* A GetFileTask is made once, its start() comes before everything else that is
\* queued for it, and it moves its file at the end.
LifeInv ==
    /\ \A t \in Tasks : phase[t] \in {"unborn", "queued", "linking"} => get[t].st = "none"
    /\ \A t \in Tasks : phase[t] = "serving" => get[t].st # "none"
    /\ \A t \in Tasks : get[t].st = "posted"
                           => \E i \in 1..Len(workerQ) : workerQ[i] = Event("start", t)
    /\ \A t \in Tasks : moved[t] # "nothing" => get[t].st \in {"over", "gone"}

OrderInv ==
    \A i \in 1..Len(workerQ) :
        /\ get[workerQ[i].task].st # "none"
        /\ workerQ[i].kind = "start" => get[workerQ[i].task].st = "posted"
        /\ \A j \in 1..Len(workerQ) :
               workerQ[i].kind = "start" /\ workerQ[j].task = workerQ[i].task => i <= j

\* A task that has not ended is tracked, unless cancelAllDownloadTasks dropped it.
NoneIsLost == Live \ forgotten \subseteq Tracked

\* Until a canceled download is over, its cancel() waits in the worker's queue,
\* before the start() of every later download of the same file.
Later(t) == {u \in Live \ forgotten : u # t /\ file[u] = file[t]}

Before(t, i) ==
    \A u \in Later(t) :
        /\ get[u].st # "running"
        /\ \A j \in 1..Len(workerQ) : workerQ[j] = Event("start", u) => i < j

CancelInv ==
    \A t \in Tasks : canceled[t] /\ get[t].st \in {"posted", "running"}
        => \E i \in 1..Len(workerQ) : workerQ[i] = Event("cancel", t) /\ Before(t, i)

\* A failed write is reported when it happens: a success that is reported for a
\* file with a gap comes after a failure.
Whole == {"good", "prefixed"}

Warned(t, n) == signals[t] # <<>> \/ \E j \in 1..n : mainQ[j] = Report(t, FALSE)

TruthInv ==
    /\ \A t \in Tasks : phase[t] \in {"finished", "gone"} => signals[t] # <<>>
    /\ \A t \in Tasks : get[t].st = "running" /\ get[t].tmp = "gapped"
           => \E n \in 0..Len(mainQ) : Warned(t, n)
    /\ \A t \in Tasks, i \in 1..Len(mainQ) :
           mainQ[i] = Report(t, TRUE) => moved[t] \in Whole \/ Warned(t, i - 1)
    /\ FirstSignalTruthful

WInv == NoneIsLost /\ LifeInv /\ OrderInv /\ CancelInv /\ TruthInv

Known == RInv /\ RInv' /\ OneDownloadPerFile /\ WInv

-----------------------------------------------------------------------------
(* Queues.                                                                 *)

LEMMA AppendIndex ==
    ASSUME NEW S, NEW q \in Seq(S), NEW e \in S
    PROVE  LET r == Append(q, e)
           IN  /\ r \in Seq(S) /\ Len(q) \in Nat /\ Len(r) = Len(q) + 1
               /\ r[Len(r)] = e
               /\ \A i \in 1..Len(q) : i \in 1..Len(r) /\ r[i] = q[i]
               /\ \A i \in 1..Len(r) : i \in 1..Len(q) \/ i = Len(r)
<1>1. Len(q) \in Nat /\ Append(q, e) \in Seq(S) /\ Len(Append(q, e)) = Len(q) + 1
  BY AppendProperties, LenProperties
<1>2. \A i \in 1..(Len(q) + 1) : i \in 1..Len(q) \/ i = Len(q) + 1
  BY <1>1
<1> QED
  BY <1>1, <1>2, AppendProperties

LEMMA AppendDiffers ==
    ASSUME NEW S, NEW q \in Seq(S), NEW e \in S
    PROVE  Append(q, e) # q
<1>1. Len(Append(q, e)) = Len(q) + 1 /\ Len(q) \in Nat
  BY AppendIndex
<1> QED
  BY <1>1

LEMMA TailIndex ==
    ASSUME NEW S, NEW q \in Seq(S), q # <<>>
    PROVE  LET r == Tail(q)
           IN  /\ r \in Seq(S) /\ Len(q) \in Nat /\ Len(r) = Len(q) - 1
               /\ Head(q) = q[1] /\ 1 \in 1..Len(q)
               /\ \A i \in 1..Len(r) : i + 1 \in 1..Len(q) /\ r[i] = q[i + 1]
               /\ \A i \in 1..Len(q) : i # 1 => i - 1 \in 1..Len(r) /\ r[i - 1] = q[i]
<1>1. /\ Len(q) \in Nat /\ Tail(q) \in Seq(S) /\ Len(Tail(q)) = Len(q) - 1
      /\ Head(q) = q[1] /\ Len(q) # 0
      /\ \A i \in 1..Len(Tail(q)) : Tail(q)[i] = q[i + 1]
  BY HeadTailProperties, LenProperties, EmptySeq
<1>2. \A i \in 1..Len(Tail(q)) : i + 1 \in 1..Len(q)
  BY <1>1
<1>3. \A i \in 1..Len(q) : i # 1 => i - 1 \in 1..Len(Tail(q)) /\ (i - 1) + 1 = i
  BY <1>1
<1>4. \A i \in 1..Len(q) : i # 1 => Tail(q)[i - 1] = q[i]
  BY <1>1, <1>3
<1> QED
  BY <1>1, <1>2, <1>3, <1>4

LEMMA EventTypes ==
    /\ \A t \in Tasks : \A k \in {"start", "cancel", "destroy"} : Event(k, t) \in WorkerEvents
    /\ \A t \in Tasks : \A ok \in BOOLEAN : Report(t, ok) \in MainEvents
    /\ \A t \in Tasks : [kind |-> "destroy", task |-> t] \in MainEvents
    /\ \A t, u \in Tasks : \A ok \in BOOLEAN : Report(t, ok) # [kind |-> "destroy", task |-> u]
<1>1. \A t, u \in Tasks : \A ok \in BOOLEAN :
          Report(t, ok).kind = "finished" /\ [kind |-> "destroy", task |-> u].kind = "destroy"
  BY DEF Report
<1> QED
  BY <1>1, MainEventsType, WorkerEventsType DEF Event, Report

\* An event of the worker's queue.
LEMMA WorkerQEvents ==
    ASSUME TypeOK
    PROVE  \A i \in 1..Len(workerQ) :
               /\ workerQ[i].task \in Tasks
               /\ workerQ[i] = Event(workerQ[i].kind, workerQ[i].task)
<1>1. \A i \in 1..Len(workerQ) : workerQ[i] \in WorkerEvents
  BY ElementOfSeq DEF TypeOK
<1>2. \A e \in WorkerEvents : e.task \in Tasks /\ e = Event(e.kind, e.task)
  BY DEF WorkerEvents, Event
<1> QED
  BY <1>1, <1>2

LEMMA OrderAppend ==
    ASSUME TypeOK, TypeOK', OrderInv, NEW t \in Tasks, NEW k \in {"start", "cancel", "destroy"},
           workerQ' = Append(workerQ, Event(k, t)),
           get'[t].st # "none",
           \A u \in Tasks : u # t \/ k # "start" => get'[u].st = get[u].st,
           k = "start" => /\ get'[t].st = "posted"
                          /\ \A i \in 1..Len(workerQ) : workerQ[i].task # t
    PROVE  OrderInv'
<1> DEFINE e == Event(k, t)
<1>1. /\ Len(workerQ) \in Nat /\ Len(workerQ') = Len(workerQ) + 1
      /\ workerQ'[Len(workerQ')] = e
      /\ \A i \in 1..Len(workerQ) : i \in 1..Len(workerQ') /\ workerQ'[i] = workerQ[i]
      /\ \A i \in 1..Len(workerQ') : i \in 1..Len(workerQ) \/ i = Len(workerQ')
  <2>1. e \in WorkerEvents /\ workerQ \in Seq(WorkerEvents)
    BY EventTypes DEF TypeOK
  <2> QED
    BY <2>1, AppendIndex
<1>2. e.kind = k /\ e.task = t
  BY DEF Event
<1> HIDE DEF e
<1>3. \A i \in 1..Len(workerQ) : workerQ[i].task \in Tasks
  BY WorkerQEvents
<1>4. ASSUME NEW i \in 1..Len(workerQ)
      PROVE  /\ get'[workerQ[i].task].st # "none"
             /\ workerQ[i].kind = "start" => get'[workerQ[i].task].st = "posted"
             /\ \A j \in 1..Len(workerQ') :
                    workerQ[i].kind = "start" /\ workerQ'[j].task = workerQ[i].task => i <= j
  <2>1. get'[workerQ[i].task].st = get[workerQ[i].task].st
    BY <1>3
  <2>2. ASSUME NEW j \in 1..Len(workerQ'), workerQ[i].kind = "start",
               workerQ'[j].task = workerQ[i].task
        PROVE  i <= j
    <3>1. CASE j \in 1..Len(workerQ)
      BY <1>1, <2>2, <3>1 DEF OrderInv
    <3>2. CASE j = Len(workerQ')
      BY <1>1, <3>2
    <3> QED
      BY <1>1, <3>1, <3>2
  <2> QED
    BY <2>1, <2>2 DEF OrderInv
<1>5. ASSUME NEW j \in 1..Len(workerQ'), k = "start", workerQ'[j].task = t
      PROVE  Len(workerQ') <= j
  BY <1>1, <1>5
<1>6. ASSUME NEW i \in 1..Len(workerQ')
      PROVE  /\ get'[workerQ'[i].task].st # "none"
             /\ workerQ'[i].kind = "start" => get'[workerQ'[i].task].st = "posted"
             /\ \A j \in 1..Len(workerQ') :
                    workerQ'[i].kind = "start" /\ workerQ'[j].task = workerQ'[i].task => i <= j
  <2>1. CASE i \in 1..Len(workerQ)
    BY <1>1, <1>4, <2>1
  <2>2. CASE i = Len(workerQ')
    BY <1>1, <1>2, <1>5, <2>2
  <2> QED
    BY <1>1, <2>1, <2>2
<1> QED
  BY <1>6 DEF OrderInv

LEMMA OrderTail ==
    ASSUME TypeOK, OrderInv, workerQ # <<>>, workerQ' = Tail(workerQ),
           NEW t \in Tasks, workerQ[1].task = t,
           \A u \in Tasks \ {t} : get'[u].st = get[u].st, get'[t].st # "none"
    PROVE  OrderInv'
<1>1. /\ Len(workerQ) \in Nat /\ Len(workerQ') = Len(workerQ) - 1 /\ 1 \in 1..Len(workerQ)
      /\ \A i \in 1..Len(workerQ') : i + 1 \in 1..Len(workerQ) /\ workerQ'[i] = workerQ[i + 1]
  BY TailIndex DEF TypeOK
<1>2. \A i \in 1..Len(workerQ) : workerQ[i].task \in Tasks
  BY WorkerQEvents
<1>3. ASSUME NEW i \in 1..Len(workerQ), i # 1
      PROVE  /\ get'[workerQ[i].task].st # "none"
             /\ workerQ[i].kind = "start" => get'[workerQ[i].task].st = "posted"
  <2>1. workerQ[i].kind = "start" => workerQ[i].task # t
    BY <1>1, <1>3 DEF OrderInv
  <2> QED
    BY <1>2, <2>1 DEF OrderInv
<1>4. ASSUME NEW i \in 1..Len(workerQ')
      PROVE  /\ get'[workerQ'[i].task].st # "none"
             /\ workerQ'[i].kind = "start" => get'[workerQ'[i].task].st = "posted"
             /\ \A j \in 1..Len(workerQ') :
                    workerQ'[i].kind = "start" /\ workerQ'[j].task = workerQ'[i].task => i <= j
  <2>1. i + 1 \in 1..Len(workerQ) /\ i + 1 # 1 /\ workerQ'[i] = workerQ[i + 1]
    BY <1>1
  <2>2. ASSUME NEW j \in 1..Len(workerQ'), workerQ'[i].kind = "start",
               workerQ'[j].task = workerQ'[i].task
        PROVE  i <= j
    <3>1. j + 1 \in 1..Len(workerQ) /\ workerQ'[j] = workerQ[j + 1]
      BY <1>1
    <3>2. i + 1 <= j + 1
      BY <2>1, <2>2, <3>1 DEF OrderInv
    <3> QED
      BY <3>2
  <2> QED
    BY <1>3, <2>1, <2>2
<1> QED
  BY <1>4 DEF OrderInv

LEMMA OrderSame ==
    ASSUME TypeOK, OrderInv, workerQ' = workerQ,
           \A u \in Tasks : \/ get'[u].st = get[u].st
                            \/ get[u].st \notin {"none", "posted"} /\ get'[u].st # "none"
    PROVE  OrderInv'
<1>1. \A i \in 1..Len(workerQ) : workerQ[i].task \in Tasks
  BY WorkerQEvents
<1> QED
  BY <1>1 DEF OrderInv

-----------------------------------------------------------------------------
(* Canceled downloads.                                                     *)

UnderWay == {"posted", "running"}

CancelOf(t) ==
    canceled[t] /\ get[t].st \in UnderWay
        => \E i \in 1..Len(workerQ) : workerQ[i] = Event("cancel", t) /\ Before(t, i)

\* The queue is as it was, or has one event more at the end.
LEMMA CancelAppend ==
    ASSUME TypeOK, OrderInv', CancelInv, NEW e \in WorkerEvents,
           \/ workerQ' = workerQ
           \/ workerQ' = Append(workerQ, e),
           NEW t \in Tasks,
           canceled'[t] /\ get'[t].st \in UnderWay => canceled[t] /\ get[t].st \in UnderWay,
           Later(t)' \subseteq {u \in Tasks : u \in Later(t) \/ get'[u].st = "none"},
           \A u \in Tasks : get'[u].st = "running" => get[u].st = "running"
    PROVE  CancelOf(t)'
<1> SUFFICES ASSUME canceled'[t], get'[t].st \in UnderWay
             PROVE  \E i \in 1..Len(workerQ') : workerQ'[i] = Event("cancel", t) /\ Before(t, i)'
  BY DEF CancelOf
<1>1. PICK i \in 1..Len(workerQ) : workerQ[i] = Event("cancel", t) /\ Before(t, i)
  BY DEF CancelInv, UnderWay
<1>2. workerQ \in Seq(WorkerEvents)
  BY DEF TypeOK
<1>3. /\ Len(workerQ) \in Nat
      /\ i \in 1..Len(workerQ') /\ workerQ'[i] = workerQ[i]
      /\ \A j \in 1..Len(workerQ') : \/ j \in 1..Len(workerQ) /\ workerQ'[j] = workerQ[j]
                                     \/ i < j
  <2>1. CASE workerQ' = workerQ
    BY <1>2, <2>1, LenProperties
  <2>2. CASE workerQ' = Append(workerQ, e)
    <3>1. /\ Len(workerQ) \in Nat /\ Len(workerQ') = Len(workerQ) + 1
          /\ \A j \in 1..Len(workerQ) : j \in 1..Len(workerQ') /\ workerQ'[j] = workerQ[j]
          /\ \A j \in 1..Len(workerQ') : j \in 1..Len(workerQ) \/ j = Len(workerQ')
      BY <1>2, <2>2, AppendIndex
    <3> QED
      BY <3>1
  <2> QED
    BY <2>1, <2>2
<1>4. ASSUME NEW u \in Later(t)'
      PROVE  /\ get'[u].st # "running"
             /\ \A j \in 1..Len(workerQ') : workerQ'[j] = Event("start", u) => i < j
  <2>1. CASE u \in Later(t)
    BY <1>1, <1>3, <2>1 DEF Before, Later, Live
  <2>2. CASE get'[u].st = "none"
    <3>1. \A j \in 1..Len(workerQ') : workerQ'[j] # Event("start", u)
      BY <2>2 DEF OrderInv, Event
    <3> QED
      BY <2>2, <3>1
  <2> QED
    BY <2>1, <2>2
<1>5. Before(t, i)'
  BY <1>4 DEF Before
<1> QED
  BY <1>1, <1>3, <1>5

\* The first event of the queue is handled.
LEMMA CancelTail ==
    ASSUME TypeOK, CancelInv, workerQ # <<>>, workerQ' = Tail(workerQ),
           UNCHANGED <<canceled, phase, file, forgotten>>,
           \A t \in Tasks : get'[t].st \in UnderWay
               => get[t].st \in UnderWay /\ (canceled[t] => workerQ[1] # Event("cancel", t)),
           \A u \in Tasks : get'[u].st = "running"
               => get[u].st = "running" \/ workerQ[1] = Event("start", u)
    PROVE  CancelInv'
<1> SUFFICES ASSUME NEW t \in Tasks, canceled'[t], get'[t].st \in UnderWay
             PROVE  \E i \in 1..Len(workerQ') : workerQ'[i] = Event("cancel", t) /\ Before(t, i)'
  BY DEF CancelInv, UnderWay
<1>1. PICK i \in 1..Len(workerQ) : workerQ[i] = Event("cancel", t) /\ Before(t, i)
  BY DEF CancelInv, UnderWay
<1>2. /\ Len(workerQ) \in Nat /\ Len(workerQ') = Len(workerQ) - 1 /\ 1 \in 1..Len(workerQ)
      /\ \A j \in 1..Len(workerQ') : j + 1 \in 1..Len(workerQ) /\ workerQ'[j] = workerQ[j + 1]
      /\ \A j \in 1..Len(workerQ) : j # 1 => j - 1 \in 1..Len(workerQ') /\ workerQ'[j - 1] = workerQ[j]
  BY TailIndex DEF TypeOK
<1>3. i # 1
  BY <1>1
<1>4. i - 1 \in 1..Len(workerQ') /\ workerQ'[i - 1] = Event("cancel", t)
  BY <1>1, <1>2, <1>3
<1>5. Later(t)' = Later(t)
  BY DEF Later, Live
<1>6. ASSUME NEW u \in Later(t)
      PROVE  /\ get'[u].st # "running"
             /\ \A j \in 1..Len(workerQ') : workerQ'[j] = Event("start", u) => i - 1 < j
  <2>1. /\ get[u].st # "running" /\ u \in Tasks
        /\ \A j \in 1..Len(workerQ) : workerQ[j] = Event("start", u) => i < j
    BY <1>1 DEF Before, Later, Live
  <2>2. workerQ[1] # Event("start", u)
    BY <1>2, <2>1
  <2>3. ASSUME NEW j \in 1..Len(workerQ'), workerQ'[j] = Event("start", u)
        PROVE  i - 1 < j
    <3>1. i < j + 1
      BY <1>2, <2>1, <2>3
    <3> QED
      BY <1>2, <3>1
  <2> QED
    BY <2>1, <2>2, <2>3
<1>7. PICK k \in 1..Len(workerQ') : k = i - 1
  BY <1>4
<1>8. Before(t, k)'
  BY <1>5, <1>6, <1>7 DEF Before
<1> QED
  BY <1>4, <1>7, <1>8

LEMMA AllCancels == (CancelInv <=> \A t \in Tasks : CancelOf(t))
                    /\ (CancelInv' <=> \A t \in Tasks : CancelOf(t)')
  BY DEF CancelInv, CancelOf, UnderWay

-----------------------------------------------------------------------------
(* What was reported.                                                      *)

LEMMA WarnedAppend ==
    ASSUME TypeOK, NEW e \in MainEvents, mainQ' = mainQ \/ mainQ' = Append(mainQ, e),
           \A t \in Tasks : signals[t] # <<>> => signals'[t] # <<>>
    PROVE  /\ Len(mainQ) \in Nat /\ Len(mainQ') \in Nat /\ Len(mainQ) <= Len(mainQ')
           /\ \A t \in Tasks, n \in 0..Len(mainQ) : Warned(t, n) => Warned(t, n)'
           /\ \A i \in 1..Len(mainQ') :
                  \/ i \in 1..Len(mainQ) /\ mainQ'[i] = mainQ[i]
                  \/ i = Len(mainQ') /\ i = Len(mainQ) + 1 /\ mainQ'[i] = e
           /\ mainQ' # mainQ => Len(mainQ') = Len(mainQ) + 1 /\ mainQ'[Len(mainQ')] = e
<1>1. /\ Len(mainQ) \in Nat /\ Len(mainQ') \in Nat /\ Len(mainQ) <= Len(mainQ')
      /\ \A i \in 1..Len(mainQ) : i \in 1..Len(mainQ') /\ mainQ'[i] = mainQ[i]
      /\ \A i \in 1..Len(mainQ') :
             \/ i \in 1..Len(mainQ) /\ mainQ'[i] = mainQ[i]
             \/ i = Len(mainQ') /\ i = Len(mainQ) + 1 /\ mainQ'[i] = e
      /\ mainQ' # mainQ => Len(mainQ') = Len(mainQ) + 1 /\ mainQ'[Len(mainQ')] = e
  <2>1. mainQ \in Seq(MainEvents)
    BY DEF TypeOK
  <2>2. CASE mainQ' = mainQ
    BY <2>1, <2>2, LenProperties
  <2>3. CASE mainQ' = Append(mainQ, e)
    BY <2>1, <2>3, AppendIndex
  <2> QED
    BY <2>2, <2>3
<1>2. ASSUME NEW t \in Tasks, NEW n \in 0..Len(mainQ), Warned(t, n)
      PROVE  Warned(t, n)'
  <2>1. \A j \in 1..n : mainQ'[j] = mainQ[j]
    BY <1>1
  <2> QED
    BY <1>2, <2>1 DEF Warned
<1> QED
  BY <1>1, <1>2

LEMMA WarnedTail ==
    ASSUME TypeOK, mainQ # <<>>, NEW e \in MainEvents,
           mainQ' = Tail(mainQ) \/ mainQ' = Append(Tail(mainQ), e),
           \A t \in Tasks : signals[t] # <<>> \/ mainQ[1] = Report(t, FALSE) => signals'[t] # <<>>
    PROVE  /\ Len(mainQ) \in Nat /\ Len(mainQ) >= 1 /\ Len(mainQ') \in Nat /\ Len(mainQ') >= Len(mainQ) - 1
           /\ \A t \in Tasks, n \in 1..Len(mainQ) : Warned(t, n) => Warned(t, n - 1)'
           /\ \A i \in 1..Len(mainQ') :
                  \/ i + 1 \in 1..Len(mainQ) /\ mainQ'[i] = mainQ[i + 1]
                  \/ mainQ'[i] = e
<1>1. /\ Len(mainQ) \in Nat /\ Len(mainQ) >= 1 /\ Len(mainQ') \in Nat /\ Len(mainQ') >= Len(mainQ) - 1
      /\ \A i \in 1..Len(mainQ) : i # 1 => i - 1 \in 1..Len(mainQ') /\ mainQ'[i - 1] = mainQ[i]
      /\ \A i \in 1..Len(mainQ') :
             \/ i + 1 \in 1..Len(mainQ) /\ mainQ'[i] = mainQ[i + 1]
             \/ mainQ'[i] = e
  <2>1. PICK r : r = Tail(mainQ)
    OBVIOUS
  <2>2. /\ r \in Seq(MainEvents) /\ Len(mainQ) \in Nat /\ Len(r) = Len(mainQ) - 1
        /\ 1 \in 1..Len(mainQ)
        /\ \A i \in 1..Len(r) : i + 1 \in 1..Len(mainQ) /\ r[i] = mainQ[i + 1]
        /\ \A i \in 1..Len(mainQ) : i # 1 => i - 1 \in 1..Len(r) /\ r[i - 1] = mainQ[i]
    BY <2>1, TailIndex DEF TypeOK
  <2>3. CASE mainQ' = r
    BY <2>2, <2>3
  <2>4. CASE mainQ' = Append(r, e)
    <3>1. /\ Len(mainQ') = Len(r) + 1 /\ mainQ'[Len(mainQ')] = e
          /\ \A i \in 1..Len(r) : i \in 1..Len(mainQ') /\ mainQ'[i] = r[i]
          /\ \A i \in 1..Len(mainQ') : i \in 1..Len(r) \/ i = Len(mainQ')
      BY <2>2, <2>4, AppendIndex
    <3> QED
      BY <2>2, <3>1
  <2> QED
    BY <2>1, <2>3, <2>4
<1>2. ASSUME NEW t \in Tasks, NEW n \in 1..Len(mainQ), Warned(t, n)
      PROVE  Warned(t, n - 1)'
  <2>1. CASE signals[t] # <<>>
    BY <2>1 DEF Warned
  <2>2. ASSUME NEW j \in 1..n, mainQ[j] = Report(t, FALSE)
        PROVE  Warned(t, n - 1)'
    <3>1. CASE j = 1
      BY <2>2, <3>1 DEF Warned
    <3>2. CASE j # 1
      <4>1. j - 1 \in 1..(n - 1) /\ mainQ'[j - 1] = Report(t, FALSE)
        <5>1. j \in 1..Len(mainQ) /\ j - 1 \in 1..(n - 1)
          BY <1>1, <3>2
        <5> QED
          BY <1>1, <2>2, <3>2, <5>1
      <4> QED
        BY <4>1 DEF Warned
    <3> QED
      BY <3>1, <3>2
  <2> QED
    BY <1>2, <2>1, <2>2 DEF Warned
<1> QED
  BY <1>1, <1>2

\* A warning is also one for a longer part of the queue.
LEMMA WarnedMore ==
    ASSUME NEW u \in Tasks, NEW n \in Nat, NEW m \in Nat, n <= m, Warned(u, n)'
    PROVE  Warned(u, m)'
<1>1. \A j \in 1..n : j \in 1..m
  OBVIOUS
<1> QED
  BY <1>1 DEF Warned

\* A step of the GetFileTask of t.
LEMMA TruthWorker ==
    ASSUME TypeOK, LifeInv, TruthInv, UNCHANGED <<phase, signals>>,
           NEW e \in MainEvents, mainQ' = mainQ \/ mainQ' = Append(mainQ, e),
           NEW t \in Tasks,
           \A u \in Tasks \ {t} : moved'[u] = moved[u] /\ get'[u] = get[u],
           moved'[t] = moved[t] \/ get[t].st = "running",
           get'[t].st = "running" /\ get'[t].tmp = "gapped"
               => \/ get[t].st = "running" /\ get[t].tmp = "gapped"
                  \/ e = Report(t, FALSE) /\ mainQ' = Append(mainQ, e),
           \A u \in Tasks : e = Report(u, TRUE) /\ mainQ' # mainQ
               => u = t /\ (moved'[t] \in Whole \/ \E n \in 0..Len(mainQ) : Warned(t, n))
    PROVE  TruthInv'
<1>1. /\ Len(mainQ) \in Nat /\ Len(mainQ') \in Nat /\ Len(mainQ) <= Len(mainQ')
      /\ \A u \in Tasks, n \in 0..Len(mainQ) : Warned(u, n) => Warned(u, n)'
      /\ \A i \in 1..Len(mainQ') :
             \/ i \in 1..Len(mainQ) /\ mainQ'[i] = mainQ[i]
             \/ i = Len(mainQ') /\ i = Len(mainQ) + 1 /\ mainQ'[i] = e
      /\ mainQ' # mainQ => Len(mainQ') = Len(mainQ) + 1 /\ mainQ'[Len(mainQ')] = e
  BY WarnedAppend
<1>2. \A u \in Tasks : moved[u] \in Whole => moved'[u] = moved[u]
  BY DEF LifeInv, Whole
<1>3. ASSUME NEW u \in Tasks, get'[u].st = "running", get'[u].tmp = "gapped"
      PROVE  \E n \in 0..Len(mainQ') : Warned(u, n)'
  <2>1. CASE get[u].st = "running" /\ get[u].tmp = "gapped"
    <3>1. PICK n \in 0..Len(mainQ) : Warned(u, n)
      BY <2>1 DEF TruthInv
    <3>2. n \in 0..Len(mainQ') /\ Warned(u, n)'
      BY <1>1, <3>1
    <3> QED
      BY <3>2
  <2>2. CASE u = t /\ e = Report(t, FALSE) /\ mainQ' = Append(mainQ, e)
    <3>1. PICK n : n = Len(mainQ')
      OBVIOUS
    <3>2. Len(mainQ') = Len(mainQ) + 1 /\ mainQ'[Len(mainQ')] = e
      <4>1. mainQ' # mainQ
        <5>1. Append(mainQ, e) # mainQ
          BY AppendDiffers DEF TypeOK
        <5> QED
          BY <2>2, <5>1
      <4> QED
        BY <1>1, <4>1
    <3>3. n \in 0..Len(mainQ') /\ n \in 1..n /\ mainQ'[n] = Report(u, FALSE)
      <4>1. n \in 0..Len(mainQ') /\ n \in 1..n
        BY <1>1, <3>1, <3>2
      <4>2. mainQ'[n] = e
        BY <3>1, <3>2
      <4> QED
        BY <2>2, <4>1, <4>2
    <3>4. Warned(u, n)'
      BY <3>3 DEF Warned
    <3> QED
      BY <3>3, <3>4
  <2> QED
    BY <1>3, <2>1, <2>2
<1>4. ASSUME NEW u \in Tasks, NEW i \in 1..Len(mainQ'), mainQ'[i] = Report(u, TRUE)
      PROVE  moved'[u] \in Whole \/ Warned(u, i - 1)'
  <2>1. CASE i \in 1..Len(mainQ) /\ mainQ'[i] = mainQ[i]
    <3>1. moved[u] \in Whole \/ Warned(u, i - 1)
      BY <1>4, <2>1 DEF TruthInv
    <3>2. i - 1 \in 0..Len(mainQ)
      BY <1>1, <2>1
    <3> QED
      BY <1>1, <1>2, <3>1, <3>2
  <2>2. CASE i = Len(mainQ) + 1 /\ mainQ'[i] = e
    <3>1. mainQ' # mainQ
      BY <1>1, <1>4, <2>2
    <3>2. CASE moved'[u] \in Whole
      BY <3>2
    <3>3. ASSUME NEW n \in 0..Len(mainQ), Warned(u, n)
          PROVE  Warned(u, i - 1)'
      <4>1. Warned(u, n)' /\ n \in Nat /\ i - 1 \in Nat /\ n <= i - 1
        BY <1>1, <2>2, <3>3
      <4> QED
        BY <4>1, WarnedMore
    <3> QED
      BY <1>4, <2>2, <3>1, <3>2, <3>3
  <2> QED
    BY <1>1, <2>1, <2>2
<1>5. FirstSignalTruthful'
  BY <1>2 DEF TruthInv, FirstSignalTruthful, Whole
<1>6. \A u \in Tasks : phase'[u] \in {"finished", "gone"} => signals'[u] # <<>>
  BY DEF TruthInv
<1> QED
  BY <1>3, <1>4, <1>5, <1>6 DEF TruthInv

\* A step of the main thread; e is a deletion if there is one more event.
LEMMA TruthMain ==
    ASSUME TypeOK, TruthInv, UNCHANGED moved,
           \A u \in Tasks : get'[u].st = "running" => get'[u] = get[u],
           NEW e \in MainEvents, \A u \in Tasks : e # Report(u, TRUE),
           \/ mainQ' = mainQ \/ mainQ' = Append(mainQ, e)
           \/ /\ mainQ # <<>>
              /\ mainQ' = Tail(mainQ) \/ mainQ' = Append(Tail(mainQ), e)
              /\ \A u \in Tasks : mainQ[1] = Report(u, FALSE) => signals'[u] # <<>>,
           \A u \in Tasks : signals[u] # <<>> => signals'[u] # <<>>,
           FirstSignalTruthful',
           \A u \in Tasks : phase'[u] \in {"finished", "gone"} => signals'[u] # <<>>
    PROVE  TruthInv'
<1>1. FirstSignalTruthful'
  OBVIOUS
<1>2. CASE mainQ' = mainQ \/ mainQ' = Append(mainQ, e)
  <2>1. /\ Len(mainQ) \in Nat /\ Len(mainQ') \in Nat /\ Len(mainQ) <= Len(mainQ')
        /\ \A u \in Tasks, n \in 0..Len(mainQ) : Warned(u, n) => Warned(u, n)'
        /\ \A i \in 1..Len(mainQ') :
               \/ i \in 1..Len(mainQ) /\ mainQ'[i] = mainQ[i]
               \/ i = Len(mainQ') /\ i = Len(mainQ) + 1 /\ mainQ'[i] = e
    BY <1>2, WarnedAppend
  <2>2. ASSUME NEW u \in Tasks, get'[u].st = "running", get'[u].tmp = "gapped"
        PROVE  \E n \in 0..Len(mainQ') : Warned(u, n)'
    <3>1. PICK n \in 0..Len(mainQ) : Warned(u, n)
      BY <2>2 DEF TruthInv
    <3>2. n \in 0..Len(mainQ') /\ Warned(u, n)'
      BY <2>1, <3>1
    <3> QED
      BY <3>2
  <2>3. ASSUME NEW u \in Tasks, NEW i \in 1..Len(mainQ'), mainQ'[i] = Report(u, TRUE)
        PROVE  moved'[u] \in Whole \/ Warned(u, i - 1)'
    <3>1. i \in 1..Len(mainQ) /\ mainQ[i] = Report(u, TRUE) /\ i - 1 \in 0..Len(mainQ)
      <4>1. mainQ'[i] # e
        BY <2>3
      <4>2. i \in 1..Len(mainQ) /\ mainQ[i] = mainQ'[i]
        BY <2>1, <4>1
      <4>3. i - 1 \in 0..Len(mainQ)
        BY <2>1, <4>2
      <4> QED
        BY <2>3, <4>2, <4>3
    <3> QED
      BY <2>1, <3>1 DEF TruthInv
  <2> QED
    BY <1>1, <2>2, <2>3 DEF TruthInv
<1>3. CASE /\ mainQ # <<>>
           /\ mainQ' = Tail(mainQ) \/ mainQ' = Append(Tail(mainQ), e)
           /\ \A u \in Tasks : mainQ[1] = Report(u, FALSE) => signals'[u] # <<>>
  <2>1. /\ Len(mainQ) \in Nat /\ Len(mainQ) >= 1 /\ Len(mainQ') \in Nat /\ Len(mainQ') >= Len(mainQ) - 1
        /\ \A u \in Tasks, n \in 1..Len(mainQ) : Warned(u, n) => Warned(u, n - 1)'
        /\ \A i \in 1..Len(mainQ') :
               \/ i + 1 \in 1..Len(mainQ) /\ mainQ'[i] = mainQ[i + 1]
               \/ mainQ'[i] = e
    BY <1>3, WarnedTail
  <2>2. ASSUME NEW u \in Tasks, get'[u].st = "running", get'[u].tmp = "gapped"
        PROVE  \E n \in 0..Len(mainQ') : Warned(u, n)'
    <3>1. PICK n \in 0..Len(mainQ) : Warned(u, n)
      BY <2>2 DEF TruthInv
    <3>2. CASE n # 0
      <4>1. n \in 1..Len(mainQ) /\ n - 1 \in 0..Len(mainQ')
        BY <2>1, <3>2
      <4> QED
        BY <2>1, <3>1, <4>1
    <3>3. CASE n = 0
      <4>1. signals'[u] # <<>> /\ 0 \in 0..Len(mainQ')
        BY <2>1, <3>1, <3>3 DEF Warned
      <4>2. Warned(u, 0)'
        BY <4>1 DEF Warned
      <4> QED
        BY <4>1, <4>2
    <3> QED
      BY <3>2, <3>3
  <2>3. ASSUME NEW u \in Tasks, NEW i \in 1..Len(mainQ'), mainQ'[i] = Report(u, TRUE)
        PROVE  moved'[u] \in Whole \/ Warned(u, i - 1)'
    <3>1. i + 1 \in 1..Len(mainQ) /\ mainQ[i + 1] = Report(u, TRUE)
      BY <2>1, <2>3
    <3>2. moved[u] \in Whole \/ Warned(u, i)
      <4>1. (i + 1) - 1 = i
        BY <2>1
      <4> QED
        BY <3>1, <4>1 DEF TruthInv
    <3>3. i \in 1..Len(mainQ)
      BY <2>1, <3>1
    <3> QED
      BY <2>1, <3>2, <3>3
  <2> QED
    BY <1>1, <2>2, <2>3 DEF TruthInv
<1> QED
  BY <1>2, <1>3

-----------------------------------------------------------------------------
(* The steps of the main thread.                                           *)

LEMMA HeadAppend ==
    ASSUME NEW S, NEW q \in Seq(S), NEW e \in S
    PROVE  /\ Append(q, e) # <<>>
           /\ q = <<>> => Head(Append(q, e)) = e
           /\ q # <<>> => Head(Append(q, e)) = Head(q)
<1>1. /\ Len(q) \in Nat /\ Append(q, e) \in Seq(S) /\ Len(Append(q, e)) = Len(q) + 1
      /\ Append(q, e)[Len(q) + 1] = e
      /\ \A i \in 1..Len(q) : Append(q, e)[i] = q[i]
  BY AppendProperties, LenProperties
<1>2. Append(q, e) # <<>> /\ Head(Append(q, e)) = Append(q, e)[1]
  <2>1. Append(q, e) # <<>>
    BY <1>1, EmptySeq
  <2> QED
    BY <1>1, <2>1, HeadTailProperties
<1>3. q = <<>> => Len(q) + 1 = 1
  BY <1>1, EmptySeq
<1>4. q # <<>> => 1 \in 1..Len(q) /\ Head(q) = q[1]
  BY <1>1, HeadTailProperties, EmptySeq
<1> QED
  BY <1>1, <1>2, <1>3, <1>4

\* A task that finishes leaves the manager, and no other task is lost by it.
LEMMA FinishLosesNone ==
    ASSUME IInv, NoneIsLost, NEW t \in Tasks, NEW ok, NEW q, Finish(t, ok, q),
           UNCHANGED forgotten
    PROVE  NoneIsLost'
<1>1. /\ pending \in Seq(Tasks) /\ phase \in [Tasks -> Phases]
      /\ \A i, j \in 1..Len(pending) : pending[i] = pending[j] => i = j
      /\ current \in Tasks => current \in Running
      /\ pending # <<>> => /\ current \in Running
                           /\ Head(pending) \in Queued
                           /\ ToSet(Tail(pending)) = Queued \ {Head(pending)}
  BY QueueFacts
<1> SUFFICES ASSUME NEW u \in Live' \ forgotten' PROVE u \in Tracked'
  BY DEF NoneIsLost
<1>2. u \in Tasks /\ u # t /\ u \in Tracked
  BY <1>1 DEF Live, Finish, EmitFinished, HandsOver, NoneIsLost, Queued, Phases,
     Tracked, Running
<1>3. CASE t # current
  <2>1. Queued' = Queued \ {t} /\ current' = current
    BY <1>1, <1>3, ToSetRemoveFirst DEF Finish, PendingAfter, CurrentAfter, Queued
  <2> QED
    BY <1>2, <2>1 DEF Tracked
<1>4. CASE HandsOver(t)
  <2>1. Queued' = Queued \ {Head(pending)} /\ current' = Head(pending)
    BY <1>1, <1>4 DEF Finish, PendingAfter, CurrentAfter, Queued, HandsOver
  <2>2. current' # NoTask
    BY <1>1, <1>4, <2>1, QueueFacts, NoTaskAssumption DEF HandsOver
  <2> QED
    BY <1>2, <1>4, <2>1, <2>2 DEF Tracked, HandsOver
<1>5. CASE t = current /\ ~HandsOver(t)
  <2>1. Queued = {}
    BY <1>5, EmptySeq DEF HandsOver, Queued, ToSet
  <2> QED
    BY <1>2, <1>5, <2>1 DEF Tracked
<1> QED
  BY <1>3, <1>4, <1>5

\* The first report of t is false, or true.
LEMMA EmitTruthful ==
    ASSUME TypeOK, TruthInv, UNCHANGED moved,
           NEW t \in Tasks, NEW ok \in BOOLEAN, NEW q, EmitFinished(t, ok, q),
           ok = FALSE \/ moved[t] \in Whole \/ signals[t] # <<>>
    PROVE  /\ FirstSignalTruthful'
           /\ signals'[t] # <<>>
           /\ \A u \in Tasks : signals[u] # <<>> => signals'[u] # <<>>
           /\ \A u \in Tasks : phase'[u] \in {"finished", "gone"} => signals'[u] # <<>>
<1>1. /\ signals \in [Tasks -> Seq(BOOLEAN)]
      /\ signals' = [signals EXCEPT ![t] = Append(@, ok)]
      /\ \A u \in Tasks \ {t} : signals'[u] = signals[u]
      /\ signals'[t] = Append(signals[t], ok)
  BY DEF TypeOK, EmitFinished
<1>2. /\ signals'[t] # <<>>
      /\ signals[t] = <<>> => Head(signals'[t]) = ok
      /\ signals[t] # <<>> => Head(signals'[t]) = Head(signals[t])
  BY <1>1, HeadAppend
<1>3. ASSUME NEW u \in Tasks, signals'[u] # <<>>, Head(signals'[u])
      PROVE  moved[u] \in Whole
  <2>1. CASE u # t
    BY <1>1, <1>3, <2>1 DEF TruthInv, FirstSignalTruthful, Whole
  <2>2. CASE u = t /\ signals[t] # <<>>
    <3>1. Head(signals[t])
      BY <1>2, <1>3, <2>2, Zenon
    <3> QED
      BY <2>2, <3>1 DEF TruthInv, FirstSignalTruthful, Whole
  <2>3. CASE u = t /\ signals[t] = <<>>
    <3>1. ok
      BY <1>2, <1>3, <2>3, Zenon
    <3> QED
      BY <2>3, <3>1
  <2> QED
    BY <2>1, <2>2, <2>3
<1>4. ASSUME NEW u \in Tasks, phase'[u] \in {"finished", "gone"} PROVE signals'[u] # <<>>
  <2>1. u = t \/ phase'[u] = phase[u]
    BY <1>4 DEF EmitFinished, TypeOK
  <2> QED
    BY <1>1, <1>2, <1>4, <2>1 DEF TruthInv
<1> QED
  BY <1>1, <1>2, <1>3, <1>4 DEF FirstSignalTruthful, Whole

LEMMA LifeAppend ==
    ASSUME TypeOK, LifeInv, NEW e \in WorkerEvents,
           workerQ' = workerQ \/ workerQ' = Append(workerQ, e),
           \A u \in Tasks : phase'[u] \in {"unborn", "queued", "linking"} => get'[u].st = "none",
           \A u \in Tasks : phase'[u] = "serving" => get'[u].st # "none",
           \A u \in Tasks : get'[u].st = "posted"
               => \/ get[u].st = "posted"
                  \/ e = Event("start", u) /\ workerQ' = Append(workerQ, e),
           \A u \in Tasks : moved'[u] # "nothing" => get'[u].st \in {"over", "gone"}
    PROVE  LifeInv'
<1>1. workerQ \in Seq(WorkerEvents)
  BY DEF TypeOK
<1>2. \A i \in 1..Len(workerQ) : i \in 1..Len(workerQ') /\ workerQ'[i] = workerQ[i]
  <2>1. CASE workerQ' = workerQ
    BY <2>1
  <2>2. CASE workerQ' = Append(workerQ, e)
    BY <1>1, <2>2, AppendIndex
  <2> QED
    BY <2>1, <2>2
<1>3. ASSUME NEW u \in Tasks, get'[u].st = "posted"
      PROVE  \E i \in 1..Len(workerQ') : workerQ'[i] = Event("start", u)
  <2>1. CASE get[u].st = "posted"
    BY <1>2, <2>1 DEF LifeInv
  <2>2. CASE e = Event("start", u) /\ workerQ' = Append(workerQ, e)
    <3>1. Len(workerQ) \in Nat /\ Len(workerQ') = Len(workerQ) + 1 /\ workerQ'[Len(workerQ')] = e
      BY <1>1, <2>2, AppendIndex
    <3>2. Len(workerQ') \in 1..Len(workerQ')
      BY <3>1
    <3> QED
      BY <2>2, <3>1, <3>2
  <2> QED
    BY <1>3, <2>1, <2>2
<1> QED
  BY <1>3 DEF LifeInv

LEMMA LifeTail ==
    ASSUME TypeOK, LifeInv, workerQ # <<>>, workerQ' = Tail(workerQ), UNCHANGED <<phase, moved>>,
           NEW t \in Tasks, \A u \in Tasks \ {t} : get'[u] = get[u],
           workerQ[1].task = t, get'[t].st # "none", get[t].st # "none",
           get'[t].st # "posted",
           get'[t].st = get[t].st \/ get[t].st = "posted" \/ get'[t].st \in {"over", "gone"}
    PROVE  LifeInv'
<1>1. \A j \in 1..Len(workerQ) : j # 1 => j - 1 \in 1..Len(workerQ') /\ workerQ'[j - 1] = workerQ[j]
  BY TailIndex DEF TypeOK
<1>2. ASSUME NEW u \in Tasks, get'[u].st = "posted"
      PROVE  \E i \in 1..Len(workerQ') : workerQ'[i] = Event("start", u)
  <2>1. u # t /\ get[u].st = "posted"
    BY <1>2
  <2>2. PICK i \in 1..Len(workerQ) : workerQ[i] = Event("start", u)
    BY <2>1 DEF LifeInv
  <2>3. i # 1
    BY <2>1, <2>2 DEF Event
  <2> QED
    BY <1>1, <2>2, <2>3
<1> QED
  BY <1>2 DEF LifeInv

\* The first event of a queue.
LEMMA FirstOfWorkerQ ==
    ASSUME TypeOK, workerQ # <<>>
    PROVE  /\ Head(workerQ) = workerQ[1] /\ 1 \in 1..Len(workerQ)
           /\ workerQ[1].task \in Tasks
           /\ workerQ[1] = Event(workerQ[1].kind, workerQ[1].task)
<1>1. Head(workerQ) = workerQ[1] /\ 1 \in 1..Len(workerQ)
  BY TailIndex DEF TypeOK
<1> QED
  BY <1>1, WorkerQEvents

LEMMA FirstOfMainQ ==
    ASSUME TypeOK, mainQ # <<>>
    PROVE  /\ Head(mainQ) = mainQ[1] /\ 1 \in 1..Len(mainQ) /\ mainQ[1] \in MainEvents
           /\ Tail(mainQ) \in Seq(MainEvents)
           /\ \A i \in 1..Len(Tail(mainQ)) : \E j \in 1..Len(mainQ) : Tail(mainQ)[i] = mainQ[j]
<1>1. mainQ \in Seq(MainEvents)
  BY DEF TypeOK
<1>2. /\ Head(mainQ) = mainQ[1] /\ 1 \in 1..Len(mainQ) /\ Tail(mainQ) \in Seq(MainEvents)
      /\ \A i \in 1..Len(Tail(mainQ)) : i + 1 \in 1..Len(mainQ) /\ Tail(mainQ)[i] = mainQ[i + 1]
  BY <1>1, TailIndex
<1>3. mainQ[1] \in MainEvents
  BY <1>1, <1>2, ElementOfSeq
<1> QED
  BY <1>2, <1>3

\* A task that ends a download, whose cancel() is queued if it is canceled.
LEMMA FinishKeeps ==
    ASSUME Known, NEW t \in Tasks, NEW ok \in BOOLEAN, NEW q \in Seq(MainEvents),
           Finish(t, ok, q), UNCHANGED <<file, get, moved, forgotten>>,
           ok = FALSE \/ moved[t] \in Whole \/ signals[t] # <<>>,
           \/ q = mainQ
           \/ /\ mainQ # <<>> /\ q = Tail(mainQ)
              /\ \A u \in Tasks : mainQ[1] = Report(u, FALSE) => u = t,
           \/ UNCHANGED <<canceled, workerQ>>
           \/ t \in Tracked /\ MarkCanceled(t)
    PROVE  WInv'
<1>1. /\ TypeOK /\ TypeOK' /\ IInv /\ IInv' /\ NoneIsLost /\ LifeInv /\ OrderInv
      /\ CancelInv /\ TruthInv
  BY DEF Known, RInv, IInv, WInv
<1>2. NoneIsLost'
  BY <1>1, FinishLosesNone
<1>3. /\ phase \in [Tasks -> Phases] /\ phase'[t] = "finished"
      /\ \A u \in Tasks \ {t} : \/ phase'[u] = phase[u]
                                \/ phase[u] = "queued" /\ phase'[u] = "linking"
  <2>1. pending # <<>> => phase[Head(pending)] = "queued"
    BY <1>1, QueueFacts
  <2> QED
    BY <1>1, <2>1 DEF Finish, EmitFinished, HandsOver, TypeOK
<1>4. Event("cancel", t) \in WorkerEvents
  BY EventTypes
<1>5. \/ workerQ' = workerQ
      \/ phase[t] = "serving" /\ workerQ' = Append(workerQ, Event("cancel", t))
  BY DEF MarkCanceled, Event
<1>6. LifeInv'
  <2>1. \A u \in Tasks : phase'[u] \in {"unborn", "queued", "linking"} => get'[u].st = "none"
    BY <1>1, <1>3 DEF LifeInv
  <2>2. \A u \in Tasks : phase'[u] = "serving" => get'[u].st # "none"
    BY <1>1, <1>3 DEF LifeInv
  <2>3. \A u \in Tasks : moved'[u] # "nothing" => get'[u].st \in {"over", "gone"}
    BY <1>1 DEF LifeInv
  <2>4. PICK e \in WorkerEvents : e = Event("cancel", t)
    BY <1>4
  <2>5. workerQ' = workerQ \/ workerQ' = Append(workerQ, e)
    BY <1>5, <2>4
  <2> QED
    BY <1>1, <2>1, <2>2, <2>3, <2>5, LifeAppend
<1>7. OrderInv'
  <2>1. CASE workerQ' = workerQ
    BY <1>1, <2>1, OrderSame
  <2>2. CASE phase[t] = "serving" /\ workerQ' = Append(workerQ, Event("cancel", t))
    <3>1. get'[t].st # "none" /\ \A u \in Tasks : get'[u].st = get[u].st
      BY <1>1, <2>2 DEF LifeInv
    <3> QED
      BY <1>1, <2>2, <3>1, OrderAppend
  <2> QED
    BY <1>5, <2>1, <2>2
<1>8. \A u \in Tasks : Later(u)' \subseteq Later(u)
  BY <1>3 DEF Later, Live
<1>9. ASSUME NEW u \in Tasks PROVE CancelOf(u)'
  <2>1. CASE canceled'[u] = canceled[u]
    <3>1. PICK e \in WorkerEvents : e = Event("cancel", t)
      BY <1>4
    <3>2. workerQ' = workerQ \/ workerQ' = Append(workerQ, e)
      BY <1>5, <3>1
    <3>3. Later(u)' \subseteq {v \in Tasks : v \in Later(u) \/ get'[v].st = "none"}
      BY <1>8 DEF Later, Live
    <3> QED
      BY <1>1, <1>7, <2>1, <3>2, <3>3, CancelAppend
  <2>2. CASE t \in Tracked /\ MarkCanceled(t) /\ u = t
    <3> SUFFICES ASSUME get'[t].st \in UnderWay
                 PROVE  \E i \in 1..Len(workerQ') :
                            workerQ'[i] = Event("cancel", t) /\ Before(t, i)'
      BY <2>2 DEF CancelOf
    <3>1. phase[t] = "serving"
      <4>1. phase[t] \in {"queued", "linking", "serving"}
        BY <1>1, <2>2, TrackedAreLive DEF Live
      <4> QED
        BY <1>1, <4>1 DEF LifeInv, UnderWay
    <3>2. workerQ' = Append(workerQ, Event("cancel", t))
      BY <2>2, <3>1 DEF MarkCanceled, Event
    <3>3. Len(workerQ) \in Nat /\ Len(workerQ') = Len(workerQ) + 1
          /\ workerQ'[Len(workerQ')] = Event("cancel", t)
      <4>1. workerQ \in Seq(WorkerEvents)
        BY <1>1 DEF TypeOK
      <4> QED
        BY <1>4, <3>2, <4>1, AppendIndex
    <3>4. Later(t)' = {}
      <4>1. ASSUME NEW v \in Later(t)' PROVE FALSE
        <5>1. v \in Live \ forgotten /\ v # t /\ file[v] = file[t]
          BY <1>8, <4>1 DEF Later
        <5>2. v \in Tracked
          BY <1>1, <5>1 DEF NoneIsLost
        <5> QED
          BY <2>2, <5>1, <5>2 DEF Known, OneDownloadPerFile
      <4> QED
        BY <4>1
    <3>5. PICK i \in 1..Len(workerQ') : i = Len(workerQ')
      BY <3>3
    <3>6. Before(t, i)'
      BY <3>4 DEF Before
    <3> QED
      BY <3>3, <3>5, <3>6
  <2> QED
    BY <1>1, <2>1, <2>2 DEF MarkCanceled, TypeOK
<1>10. CancelInv'
  BY <1>9, AllCancels
<1>11. TruthInv'
  <2>1. EmitFinished(t, ok, q)
    BY DEF Finish
  <2>2. /\ FirstSignalTruthful'
        /\ signals'[t] # <<>>
        /\ \A u \in Tasks : signals[u] # <<>> => signals'[u] # <<>>
        /\ \A u \in Tasks : phase'[u] \in {"finished", "gone"} => signals'[u] # <<>>
    BY <1>1, <2>1, EmitTruthful
  <2>3. PICK e \in MainEvents : e = [kind |-> "destroy", task |-> t]
    BY EventTypes
  <2>4. \A u \in Tasks : e # Report(u, TRUE)
    BY <2>3, EventTypes
  <2>5. mainQ' = q \/ mainQ' = Append(q, e)
    BY <2>1, <2>3 DEF EmitFinished
  <2>6. \/ mainQ' = mainQ \/ mainQ' = Append(mainQ, e)
        \/ /\ mainQ # <<>>
           /\ mainQ' = Tail(mainQ) \/ mainQ' = Append(Tail(mainQ), e)
           /\ \A u \in Tasks : mainQ[1] = Report(u, FALSE) => signals'[u] # <<>>
    BY <2>2, <2>5
  <2> HIDE DEF Finish
  <2> QED
    BY <1>1, <2>2, <2>4, <2>6, TruthMain
<1> QED
  BY <1>2, <1>6, <1>7, <1>10, <1>11 DEF WInv

LEMMA AddKeeps ==
    ASSUME Known, NEW t \in Tasks, NEW f \in Files, AddDownloadTask(t, f)
    PROVE  WInv'
<1>1. /\ TypeOK /\ TypeOK' /\ IInv /\ NoneIsLost /\ LifeInv /\ OrderInv
      /\ CancelInv /\ TruthInv
  BY DEF Known, RInv, IInv, WInv
<1>2. /\ UNCHANGED <<canceled, mainQ, signals, forgotten, get, workerQ, moved>>
      /\ phase[t] = "unborn" /\ phase'[t] \in {"queued", "linking"}
      /\ \A u \in Tasks \ {t} : phase'[u] = phase[u] /\ file'[u] = file[u]
  BY <1>1 DEF AddDownloadTask, worker, TypeOK
<1>3. NoneIsLost'
  <2>1. Live' = Live \cup {t}
    BY <1>2 DEF Live
  <2>2. Tracked \cup {t} \subseteq Tracked'
    <3>1. CASE current = NoTask
      BY <1>1, <3>1, NoTaskAssumption DEF AddDownloadTask, Tracked, Queued
    <3>2. CASE current # NoTask
      <4>1. Queued' = Queued \cup {t}
        <5>1. pending' = Append(pending, t) /\ pending \in Seq(Tasks)
          BY <1>1, <3>2 DEF AddDownloadTask, TypeOK
        <5>2. ToSet(Append(pending, t)) = ToSet(pending) \cup {t}
          BY <5>1, ToSetAppend
        <5> QED
          BY <5>1, <5>2 DEF Queued
      <4> QED
        BY <3>2, <4>1 DEF AddDownloadTask, Tracked
    <3> QED
      BY <3>1, <3>2
  <2> QED
    BY <1>1, <1>2, <2>1, <2>2 DEF NoneIsLost
<1>4. LifeInv'
  BY <1>1, <1>2 DEF LifeInv
<1>5. OrderInv'
  BY <1>1, <1>2, OrderSame
<1>6. ASSUME NEW u \in Tasks PROVE CancelOf(u)'
  <2>1. CASE u = t
    BY <1>1, <1>2, <2>1 DEF CancelOf, LifeInv, UnderWay
  <2>2. CASE u # t
    <3>1. Later(u)' \subseteq {v \in Tasks : v \in Later(u) \/ get'[v].st = "none"}
      BY <1>1, <1>2, <2>2 DEF Later, Live, LifeInv
    <3>2. PICK e \in WorkerEvents : e = Event("cancel", t)
      BY EventTypes
    <3> QED
      BY <1>1, <1>2, <1>5, <3>1, CancelAppend
  <2> QED
    BY <2>1, <2>2
<1>7. TruthInv'
  <2>1. \A u \in Tasks : phase'[u] \in {"finished", "gone"} => signals'[u] # <<>>
    BY <1>1, <1>2 DEF TruthInv
  <2>2. FirstSignalTruthful'
    BY <1>1, <1>2 DEF TruthInv, FirstSignalTruthful
  <2>3. PICK e \in MainEvents : e = [kind |-> "destroy", task |-> t]
    BY EventTypes
  <2>4. \A u \in Tasks : e # Report(u, TRUE)
    BY <2>3, EventTypes
  <2> QED
    BY <1>1, <1>2, <2>1, <2>2, <2>4, TruthMain
<1> QED
  BY <1>3, <1>4, <1>5, <1>6, <1>7, AllCancels DEF WInv

LEMMA LinkKeeps ==
    ASSUME Known, NEW t \in Tasks, OnLinkGet(t)
    PROVE  WInv'
<1>1. /\ TypeOK /\ TypeOK' /\ IInv /\ NoneIsLost /\ LifeInv /\ OrderInv
      /\ CancelInv /\ TruthInv
  BY DEF Known, RInv, IInv, WInv
<1>2. /\ UNCHANGED <<current, pending, file, canceled, mainQ, moved, signals, forgotten>>
      /\ phase[t] = "linking" /\ phase'[t] = "serving"
      /\ get[t].st = "none" /\ get'[t].st = "posted"
      /\ \A u \in Tasks \ {t} : phase'[u] = phase[u] /\ get'[u] = get[u]
      /\ workerQ' = Append(workerQ, Event("start", t))
  BY <1>1 DEF OnLinkGet, TypeOK, Idle, LifeInv, Event
<1>3. Live' = Live
  BY <1>2 DEF Live
<1>4. NoneIsLost'
  BY <1>1, <1>2, <1>3 DEF NoneIsLost, Tracked, Queued
<1>5. PICK e \in WorkerEvents : e = Event("start", t)
  BY EventTypes
<1>6. LifeInv'
  <2>1. \A u \in Tasks : phase'[u] \in {"unborn", "queued", "linking"} => get'[u].st = "none"
    BY <1>1, <1>2 DEF LifeInv
  <2>2. \A u \in Tasks : phase'[u] = "serving" => get'[u].st # "none"
    BY <1>1, <1>2 DEF LifeInv
  <2>3. \A u \in Tasks : moved'[u] # "nothing" => get'[u].st \in {"over", "gone"}
    BY <1>1, <1>2 DEF LifeInv
  <2>4. \A u \in Tasks : get'[u].st = "posted" => get[u].st = "posted" \/ u = t
    BY <1>2
  <2> QED
    BY <1>1, <1>2, <1>5, <2>1, <2>2, <2>3, <2>4, LifeAppend
<1>7. OrderInv'
  <2>1. \A i \in 1..Len(workerQ) : workerQ[i].task # t
    BY <1>1, <1>2 DEF OrderInv
  <2> QED
    BY <1>1, <1>2, <2>1, OrderAppend
<1>8. ASSUME NEW u \in Tasks PROVE CancelOf(u)'
  <2>1. CASE u = t
    BY <1>1, <1>2, <2>1 DEF CancelOf, IInv, SlotInv, OverIsReported
  <2>2. CASE u # t
    <3>1. Later(u)' \subseteq {v \in Tasks : v \in Later(u) \/ get'[v].st = "none"}
      BY <1>2, <1>3 DEF Later, Live
    <3>2. \A v \in Tasks : get'[v].st = "running" => get[v].st = "running"
      BY <1>2
    <3> QED
      BY <1>1, <1>2, <1>5, <1>7, <2>2, <3>1, <3>2, CancelAppend
  <2> QED
    BY <2>1, <2>2
<1>9. TruthInv'
  <2>1. \A u \in Tasks : phase'[u] \in {"finished", "gone"} => signals'[u] # <<>>
    BY <1>1, <1>2 DEF TruthInv
  <2>2. FirstSignalTruthful'
    BY <1>1, <1>2 DEF TruthInv, FirstSignalTruthful
  <2>3. PICK m \in MainEvents : m = [kind |-> "destroy", task |-> t]
    BY EventTypes
  <2>4. \A u \in Tasks : m # Report(u, TRUE)
    BY <2>3, EventTypes
  <2>5. \A u \in Tasks : get'[u].st = "running" => get'[u] = get[u]
    BY <1>2
  <2> QED
    BY <1>1, <1>2, <2>1, <2>2, <2>4, <2>5, TruthMain
<1> QED
  BY <1>4, <1>6, <1>7, <1>8, <1>9, AllCancels DEF WInv

LEMMA CancelAllKeeps ==
    ASSUME Known, CancelAllDownloadTasks
    PROVE  WInv'
<1>1. /\ TypeOK /\ TypeOK' /\ IInv /\ NoneIsLost /\ LifeInv /\ OrderInv
      /\ CancelInv /\ TruthInv
  BY DEF Known, RInv, IInv, WInv
<1>2. PICK t \in Tasks : t = current
  BY <1>1 DEF CancelAllDownloadTasks, TypeOK
<1>3. /\ MarkCanceled(t) /\ EmitFinished(t, FALSE, mainQ)
      /\ forgotten' = forgotten \cup Queued /\ UNCHANGED <<file, get, moved>>
      /\ pending' = <<>> /\ current' = NoTask
  BY <1>2 DEF CancelAllDownloadTasks
<1>4. /\ phase \in [Tasks -> Phases] /\ phase'[t] = "finished"
      /\ \A u \in Tasks \ {t} : \/ phase'[u] = phase[u]
                                \/ phase[u] = "queued" /\ phase'[u] = "linking"
  <2>1. pending # <<>> => phase[Head(pending)] = "queued"
    BY <1>1, QueueFacts
  <2> QED
    BY <1>1, <1>3, <2>1 DEF EmitFinished, HandsOver, TypeOK
<1>5. Live' \ forgotten' = {}
  <2>1. Live' \subseteq Live \ {t}
    BY <1>4 DEF Live
  <2>2. Live \ forgotten \subseteq Queued \cup {t}
    BY <1>1, <1>2 DEF NoneIsLost, Tracked
  <2> QED
    BY <1>3, <2>1, <2>2
<1>6. NoneIsLost'
  BY <1>5 DEF NoneIsLost
<1>7. \A u \in Tasks : Later(u)' = {}
  BY <1>5 DEF Later
<1>8. Event("cancel", t) \in WorkerEvents
  BY EventTypes
<1>9. \/ phase[t] # "serving" /\ workerQ' = workerQ
      \/ phase[t] = "serving" /\ workerQ' = Append(workerQ, Event("cancel", t))
  BY <1>3 DEF MarkCanceled, Event
<1>10. LifeInv'
  <2>1. \A u \in Tasks : phase'[u] \in {"unborn", "queued", "linking"} => get'[u].st = "none"
    BY <1>1, <1>3, <1>4 DEF LifeInv
  <2>2. \A u \in Tasks : phase'[u] = "serving" => get'[u].st # "none"
    BY <1>1, <1>3, <1>4 DEF LifeInv
  <2>3. \A u \in Tasks : moved'[u] # "nothing" => get'[u].st \in {"over", "gone"}
    BY <1>1, <1>3 DEF LifeInv
  <2>4. PICK e \in WorkerEvents : e = Event("cancel", t)
    BY <1>8
  <2>5. workerQ' = workerQ \/ workerQ' = Append(workerQ, e)
    BY <1>9, <2>4
  <2> QED
    BY <1>1, <1>3, <2>1, <2>2, <2>3, <2>5, LifeAppend
<1>11. OrderInv'
  <2>1. CASE workerQ' = workerQ
    BY <1>1, <1>3, <2>1, OrderSame
  <2>2. CASE phase[t] = "serving" /\ workerQ' = Append(workerQ, Event("cancel", t))
    <3>1. get'[t].st # "none" /\ \A u \in Tasks : get'[u].st = get[u].st
      BY <1>1, <1>3, <2>2 DEF LifeInv
    <3> QED
      BY <1>1, <2>2, <3>1, OrderAppend
  <2> QED
    BY <1>9, <2>1, <2>2
<1>12. workerQ \in Seq(WorkerEvents)
  BY <1>1 DEF TypeOK
<1>13. ASSUME NEW u \in Tasks, canceled'[u], get'[u].st \in UnderWay
       PROVE  \E i \in 1..Len(workerQ') : workerQ'[i] = Event("cancel", u) /\ Before(u, i)'
  <2>1. CASE u = t
    <3>1. phase[t] = "serving"
      <4>1. phase[t] \in {"queued", "linking", "serving"}
        BY <1>1, <1>2, QueueFacts DEF Running
      <4> QED
        BY <1>1, <1>3, <1>13, <2>1, <4>1 DEF LifeInv, UnderWay
    <3>2. Len(workerQ) \in Nat /\ Len(workerQ') = Len(workerQ) + 1
          /\ workerQ'[Len(workerQ')] = Event("cancel", t)
      BY <1>8, <1>9, <1>12, <3>1, AppendIndex
    <3>3. PICK i \in 1..Len(workerQ') : i = Len(workerQ')
      BY <3>2
    <3>4. Before(u, i)'
      BY <1>7 DEF Before
    <3> QED
      BY <2>1, <3>2, <3>3, <3>4
  <2>2. CASE u # t
    <3>1. canceled[u] /\ get[u].st \in UnderWay
      BY <1>1, <1>3, <1>13, <2>2 DEF MarkCanceled, TypeOK
    <3>2. PICK i \in 1..Len(workerQ) : workerQ[i] = Event("cancel", u)
      BY <1>1, <3>1 DEF CancelInv, UnderWay
    <3>3. i \in 1..Len(workerQ') /\ workerQ'[i] = workerQ[i]
      BY <1>8, <1>9, <1>12, AppendIndex
    <3>4. Before(u, i)'
      BY <1>7 DEF Before
    <3> QED
      BY <3>2, <3>3, <3>4
  <2> QED
    BY <2>1, <2>2
<1>14. CancelInv'
  BY <1>13 DEF CancelInv, UnderWay
<1>15. TruthInv'
  <2>1. /\ FirstSignalTruthful'
        /\ \A u \in Tasks : signals[u] # <<>> => signals'[u] # <<>>
        /\ \A u \in Tasks : phase'[u] \in {"finished", "gone"} => signals'[u] # <<>>
    BY <1>1, <1>3, EmitTruthful
  <2>2. PICK e \in MainEvents : e = [kind |-> "destroy", task |-> t]
    BY EventTypes
  <2>3. \A u \in Tasks : e # Report(u, TRUE)
    BY <2>2, EventTypes
  <2>4. mainQ' = mainQ \/ mainQ' = Append(mainQ, e)
    BY <1>3, <2>2 DEF EmitFinished
  <2> QED
    BY <1>1, <1>3, <2>1, <2>3, <2>4, TruthMain
<1> QED
  BY <1>6, <1>10, <1>11, <1>14, <1>15 DEF WInv

LEMMA HandleFinishedKeeps ==
    ASSUME Known, HandleFinished
    PROVE  WInv'
<1>1. /\ TypeOK /\ TypeOK' /\ IInv /\ NoneIsLost /\ LifeInv /\ OrderInv
      /\ CancelInv /\ TruthInv
  BY DEF Known, RInv, IInv, WInv
<1>2. /\ mainQ # <<>> /\ Head(mainQ).kind = "finished"
      /\ UNCHANGED <<file, canceled, forgotten, get, workerQ, moved>>
  BY DEF HandleFinished, worker
<1>3. /\ Head(mainQ) = mainQ[1] /\ 1 \in 1..Len(mainQ) /\ mainQ[1] \in MainEvents
      /\ Tail(mainQ) \in Seq(MainEvents)
  BY <1>1, <1>2, FirstOfMainQ
<1>4. PICK t \in Tasks, ok \in BOOLEAN : mainQ[1] = Report(t, ok)
  BY <1>2, <1>3 DEF MainEvents, Report
<1>5. Head(mainQ).task = t /\ Head(mainQ).ok = ok
  BY <1>3, <1>4 DEF Report
<1>6. CASE ~IsIgnored(t)
  <2>1. Finish(t, ok, Tail(mainQ))
    BY <1>5, <1>6 DEF HandleFinished
  <2>2. ok = FALSE \/ moved[t] \in Whole \/ signals[t] # <<>>
    <3>1. CASE ok
      <4>1. mainQ[1] = Report(t, TRUE)
        BY <1>4, <3>1
      <4>2. moved[t] \in Whole \/ Warned(t, 1 - 1)
        BY <1>1, <1>3, <4>1 DEF TruthInv
      <4> QED
        BY <4>2 DEF Warned
    <3> QED
      BY <3>1
  <2>3. \A u \in Tasks : mainQ[1] = Report(u, FALSE) => u = t
    BY <1>4 DEF Report
  <2> QED
    BY <1>2, <1>3, <2>1, <2>2, <2>3, FinishKeeps
<1>7. CASE IsIgnored(t)
  <2>1. mainQ' = Tail(mainQ) /\ UNCHANGED <<current, pending, phase, signals>>
    BY <1>5, <1>7 DEF HandleFinished
  <2>2. NoneIsLost'
    BY <1>1, <1>2, <2>1 DEF NoneIsLost, Live, Tracked, Queued
  <2>3. LifeInv' /\ OrderInv'
    BY <1>1, <1>2, <2>1 DEF LifeInv, OrderInv
  <2>4. CancelInv'
    BY <1>1, <1>2, <2>1 DEF CancelInv, Before, Later, Live
  <2>5. phase[t] \in {"finished", "gone"}
    BY <1>1, <1>7 DEF IsIgnored, IInv, SlotInv, OverIsReported
  <2>6. TruthInv'
    <3>1. \A u \in Tasks : mainQ[1] = Report(u, FALSE) => signals'[u] # <<>>
      <4>1. \A u \in Tasks : mainQ[1] = Report(u, FALSE) => u = t
        BY <1>4 DEF Report
      <4> QED
        BY <1>1, <2>1, <2>5, <4>1 DEF TruthInv
    <3>2. PICK e \in MainEvents : e = [kind |-> "destroy", task |-> t]
      BY EventTypes
    <3>3. \A u \in Tasks : e # Report(u, TRUE)
      BY <3>2, EventTypes
    <3>4. FirstSignalTruthful'
      BY <1>1, <1>2, <2>1 DEF TruthInv, FirstSignalTruthful
    <3>5. \A u \in Tasks : phase'[u] \in {"finished", "gone"} => signals'[u] # <<>>
      BY <1>1, <2>1 DEF TruthInv
    <3> QED
      BY <1>1, <1>2, <2>1, <3>1, <3>3, <3>4, <3>5, TruthMain
  <2> QED
    BY <2>2, <2>3, <2>4, <2>6 DEF WInv
<1> QED
  BY <1>6, <1>7

LEMMA HandleDestroyKeeps ==
    ASSUME Known, HandleDestroy
    PROVE  WInv'
<1>1. /\ TypeOK /\ TypeOK' /\ IInv /\ NoneIsLost /\ LifeInv /\ OrderInv
      /\ CancelInv /\ TruthInv
  BY DEF Known, RInv, IInv, WInv
<1>2. /\ mainQ # <<>> /\ Head(mainQ).kind = "destroy" /\ mainQ' = Tail(mainQ)
      /\ UNCHANGED <<current, pending, file, canceled, get, moved, signals, forgotten>>
  BY DEF HandleDestroy
<1>3. /\ Head(mainQ) = mainQ[1] /\ 1 \in 1..Len(mainQ) /\ mainQ[1] \in MainEvents
  BY <1>1, <1>2, FirstOfMainQ
<1>4. PICK t \in Tasks : mainQ[1] = [kind |-> "destroy", task |-> t]
  BY <1>2, <1>3 DEF MainEvents
<1>5. /\ phase[t] \in {"finished", "gone"}
      /\ phase'[t] = "gone" /\ \A u \in Tasks \ {t} : phase'[u] = phase[u]
  <2>1. Head(mainQ).task = t
    BY <1>3, <1>4
  <2>2. phase' = [phase EXCEPT ![t] = "gone"]
    BY <2>1 DEF HandleDestroy
  <2>3. phase[mainQ[1].task] \in {"finished", "gone"}
    BY <1>1, <1>2, <1>3 DEF IInv, SlotInv, OverIsReported
  <2> QED
    BY <1>1, <1>4, <2>2, <2>3 DEF TypeOK
<1>6. PICK e \in WorkerEvents : e = Event("destroy", t)
  BY EventTypes
<1>7. \/ workerQ' = workerQ
      \/ get[t].st # "none" /\ workerQ' = Append(workerQ, Event("destroy", t))
  BY <1>3, <1>4 DEF HandleDestroy, Event
<1>8. Live' = Live
  BY <1>5 DEF Live
<1>9. NoneIsLost'
  BY <1>1, <1>2, <1>8 DEF NoneIsLost, Tracked, Queued
<1>10. LifeInv'
  <2>1. \A u \in Tasks : phase'[u] \in {"unborn", "queued", "linking"} => get'[u].st = "none"
    BY <1>1, <1>2, <1>5 DEF LifeInv
  <2>2. \A u \in Tasks : phase'[u] = "serving" => get'[u].st # "none"
    BY <1>1, <1>2, <1>5 DEF LifeInv
  <2>3. \A u \in Tasks : moved'[u] # "nothing" => get'[u].st \in {"over", "gone"}
    BY <1>1, <1>2 DEF LifeInv
  <2> QED
    BY <1>1, <1>2, <1>6, <1>7, <2>1, <2>2, <2>3, LifeAppend
<1>11. OrderInv'
  <2>1. CASE workerQ' = workerQ
    BY <1>1, <1>2, <2>1, OrderSame
  <2>2. CASE get[t].st # "none" /\ workerQ' = Append(workerQ, Event("destroy", t))
    BY <1>1, <1>2, <2>2, OrderAppend
  <2> QED
    BY <1>7, <2>1, <2>2
<1>12. ASSUME NEW u \in Tasks PROVE CancelOf(u)'
  <2>1. Later(u)' \subseteq {v \in Tasks : v \in Later(u) \/ get'[v].st = "none"}
    BY <1>2, <1>8 DEF Later, Live
  <2> QED
    BY <1>1, <1>2, <1>6, <1>7, <1>11, <2>1, CancelAppend
<1>13. TruthInv'
  <2>1. \A u \in Tasks : mainQ[1] # Report(u, FALSE)
    BY <1>4, EventTypes
  <2>2. PICK m \in MainEvents : m = [kind |-> "destroy", task |-> t]
    BY EventTypes
  <2>3. \A u \in Tasks : m # Report(u, TRUE)
    BY <2>2, EventTypes
  <2>4. FirstSignalTruthful'
    BY <1>1, <1>2 DEF TruthInv, FirstSignalTruthful
  <2>5. \A u \in Tasks : phase'[u] \in {"finished", "gone"} => signals'[u] # <<>>
    BY <1>1, <1>2, <1>5 DEF TruthInv
  <2> QED
    BY <1>1, <1>2, <2>1, <2>3, <2>4, <2>5, TruthMain
<1> QED
  BY <1>9, <1>10, <1>11, <1>12, <1>13, AllCancels DEF WInv

-----------------------------------------------------------------------------
(* The steps of the worker thread.                                         *)

LEMMA StartKeeps ==
    ASSUME Known, NEW t \in Tasks, NEW tmp \in {"null", "unopened", "good"},
           StartGetFile(t, tmp)
    PROVE  WInv'
<1>1. /\ TypeOK /\ TypeOK' /\ NoneIsLost /\ LifeInv /\ OrderInv /\ CancelInv /\ TruthInv
  BY DEF Known, RInv, IInv, WInv
<1>2. /\ workerQ # <<>> /\ Head(workerQ) = Event("start", t) /\ workerQ' = Tail(workerQ)
      /\ UNCHANGED <<current, pending, phase, file, canceled, signals, forgotten, moved>>
      /\ get'[t].st = "running" /\ get'[t].tmp = tmp
      /\ \A u \in Tasks \ {t} : get'[u] = get[u]
  BY <1>1 DEF StartGetFile, main, TypeOK, GetTasks, Event
<1>3. workerQ[1] = Event("start", t) /\ 1 \in 1..Len(workerQ) /\ workerQ[1].task = t
  BY <1>1, <1>2, FirstOfWorkerQ DEF Event
<1>4. get[t].st = "posted"
  BY <1>1, <1>3 DEF OrderInv, Event
<1>5. NoneIsLost'
  BY <1>1, <1>2 DEF NoneIsLost, Live, Tracked, Queued
<1>6. LifeInv'
  BY <1>1, <1>2, <1>3, <1>4, LifeTail
<1>7. OrderInv'
  BY <1>1, <1>2, <1>3, OrderTail
<1>8. CancelInv'
  <2>1. \A u \in Tasks : get'[u].st \in UnderWay
            => get[u].st \in UnderWay /\ (canceled[u] => workerQ[1] # Event("cancel", u))
    BY <1>2, <1>3, <1>4 DEF UnderWay, Event
  <2>2. \A u \in Tasks : get'[u].st = "running"
            => get[u].st = "running" \/ workerQ[1] = Event("start", u)
    BY <1>2, <1>3
  <2> QED
    BY <1>1, <1>2, <2>1, <2>2, CancelTail
<1>9. TruthInv'
  <2>1. PICK e \in MainEvents : e = Report(t, FALSE)
    BY EventTypes
  <2>2. mainQ' = mainQ \/ mainQ' = Append(mainQ, e)
    BY <2>1 DEF StartGetFile, Post, Report
  <2>3. \A u \in Tasks : e # Report(u, TRUE)
    BY <2>1 DEF Report
  <2> QED
    BY <1>1, <1>2, <2>2, <2>3, TruthWorker
<1> QED
  BY <1>5, <1>6, <1>7, <1>8, <1>9 DEF WInv

LEMMA CancelGetKeeps ==
    ASSUME Known, NEW t \in Tasks, CancelGetFile(t)
    PROVE  WInv'
<1>1. /\ TypeOK /\ TypeOK' /\ NoneIsLost /\ LifeInv /\ OrderInv /\ CancelInv /\ TruthInv
  BY DEF Known, RInv, IInv, WInv
<1>2. /\ workerQ # <<>> /\ Head(workerQ) = Event("cancel", t) /\ workerQ' = Tail(workerQ)
      /\ UNCHANGED <<current, pending, phase, file, canceled, signals, forgotten, moved>>
      /\ \/ get[t].st = "running" /\ get'[t].st = "over"
         \/ get[t].st # "running" /\ get'[t] = get[t]
      /\ \A u \in Tasks \ {t} : get'[u] = get[u]
  <2>1. CASE get[t].st = "running"
    BY <1>1, <2>1 DEF CancelGetFile, main, TypeOK, Idle, Event
  <2>2. CASE get[t].st # "running"
    BY <1>1, <2>2 DEF CancelGetFile, main, Event
  <2> QED
    BY <2>1, <2>2
<1>3. workerQ[1] = Event("cancel", t) /\ 1 \in 1..Len(workerQ) /\ workerQ[1].task = t
  BY <1>1, <1>2, FirstOfWorkerQ DEF Event
\* The start() of t is not behind its cancel().
<1>4. get[t].st \notin {"none", "posted"}
  <2>1. ASSUME get[t].st = "posted" PROVE FALSE
    <3>1. PICK i \in 1..Len(workerQ) : workerQ[i] = Event("start", t)
      BY <1>1, <2>1 DEF LifeInv
    <3>2. i <= 1 /\ i \in Nat /\ i >= 1
      BY <1>1, <1>3, <3>1 DEF OrderInv, Event
    <3>3. i = 1
      BY <3>2
    <3>4. Event("start", t).kind # Event("cancel", t).kind
      BY DEF Event
    <3> QED
      BY <1>3, <3>1, <3>3, <3>4
  <2> QED
    BY <1>1, <1>3, <2>1 DEF OrderInv
<1>5. NoneIsLost'
  BY <1>1, <1>2 DEF NoneIsLost, Live, Tracked, Queued
<1>6. LifeInv'
  BY <1>1, <1>2, <1>3, <1>4, LifeTail
<1>7. OrderInv'
  BY <1>1, <1>2, <1>3, <1>4, OrderTail
<1>8. CancelInv'
  <2>1. \A u \in Tasks : get'[u].st \in UnderWay
            => get[u].st \in UnderWay /\ (canceled[u] => workerQ[1] # Event("cancel", u))
    BY <1>2, <1>3, <1>4 DEF UnderWay, Event
  <2>2. \A u \in Tasks : get'[u].st = "running"
            => get[u].st = "running" \/ workerQ[1] = Event("start", u)
    BY <1>2
  <2> QED
    BY <1>1, <1>2, <2>1, <2>2, CancelTail
<1>9. TruthInv'
  <2>1. PICK e \in MainEvents : e = Report(t, FALSE)
    BY EventTypes
  <2>2. mainQ' = mainQ \/ mainQ' = Append(mainQ, e)
    BY <2>1 DEF CancelGetFile, Post, Report
  <2>3. \A u \in Tasks : e # Report(u, TRUE)
    BY <2>1 DEF Report
  <2> QED
    BY <1>1, <1>2, <2>2, <2>3, TruthWorker
<1> QED
  BY <1>5, <1>6, <1>7, <1>8, <1>9 DEF WInv

LEMMA DestroyGetKeeps ==
    ASSUME Known, NEW t \in Tasks, DestroyGetFile(t)
    PROVE  WInv'
<1>1. /\ TypeOK /\ TypeOK' /\ NoneIsLost /\ LifeInv /\ OrderInv /\ CancelInv /\ TruthInv
  BY DEF Known, RInv, IInv, WInv
<1>2. /\ workerQ # <<>> /\ Head(workerQ) = Event("destroy", t) /\ workerQ' = Tail(workerQ)
      /\ UNCHANGED <<current, pending, phase, file, canceled, signals, forgotten, moved, mainQ>>
      /\ get'[t].st = "gone"
      /\ \A u \in Tasks \ {t} : get'[u] = get[u]
  BY <1>1 DEF DestroyGetFile, main, TypeOK, Idle, Event
<1>3. workerQ[1] = Event("destroy", t) /\ 1 \in 1..Len(workerQ) /\ workerQ[1].task = t
  BY <1>1, <1>2, FirstOfWorkerQ DEF Event
<1>4. get[t].st # "none"
  BY <1>1, <1>3 DEF OrderInv
<1>5. NoneIsLost'
  BY <1>1, <1>2 DEF NoneIsLost, Live, Tracked, Queued
<1>6. LifeInv'
  BY <1>1, <1>2, <1>3, <1>4, LifeTail
<1>7. OrderInv'
  BY <1>1, <1>2, <1>3, OrderTail
<1>8. CancelInv'
  <2>1. \A u \in Tasks : get'[u].st \in UnderWay
            => get[u].st \in UnderWay /\ (canceled[u] => workerQ[1] # Event("cancel", u))
    BY <1>2, <1>3 DEF UnderWay, Event
  <2>2. \A u \in Tasks : get'[u].st = "running"
            => get[u].st = "running" \/ workerQ[1] = Event("start", u)
    BY <1>2
  <2> QED
    BY <1>1, <1>2, <2>1, <2>2, CancelTail
<1>9. TruthInv'
  <2>1. PICK e \in MainEvents : e = Report(t, FALSE)
    BY EventTypes
  <2>2. \A u \in Tasks : e # Report(u, TRUE)
    BY <2>1 DEF Report
  <2> QED
    BY <1>1, <1>2, <2>2, TruthWorker
<1> QED
  BY <1>5, <1>6, <1>7, <1>8, <1>9 DEF WInv

\* What the request of t does, while it is under way, does not touch the queue of
\* the worker.
LEMMA RequestKeeps ==
    ASSUME Known, NEW t \in Tasks, get[t].st = "running",
           UNCHANGED <<current, pending, phase, file, canceled, signals, forgotten, workerQ>>,
           get'[t].st \in {"running", "over"}, \A u \in Tasks \ {t} : get'[u] = get[u],
           \A u \in Tasks \ {t} : moved'[u] = moved[u],
           get'[t].st = "running" => moved'[t] = moved[t],
           TruthInv'
    PROVE  WInv'
<1>1. /\ TypeOK /\ TypeOK' /\ NoneIsLost /\ LifeInv /\ OrderInv /\ CancelInv /\ TruthInv
  BY DEF Known, RInv, IInv, WInv
<1>2. NoneIsLost'
  BY <1>1 DEF NoneIsLost, Live, Tracked, Queued
<1>3. LifeInv'
  BY <1>1 DEF LifeInv
<1>4. OrderInv'
  BY <1>1, OrderSame
<1>5. PICK e \in WorkerEvents : e = Event("cancel", t)
  BY EventTypes
<1>6. ASSUME NEW u \in Tasks PROVE CancelOf(u)'
  <2>1. Later(u)' \subseteq {v \in Tasks : v \in Later(u) \/ get'[v].st = "none"}
    BY DEF Later, Live
  <2>2. canceled'[u] /\ get'[u].st \in UnderWay => canceled[u] /\ get[u].st \in UnderWay
    BY DEF UnderWay
  <2>3. \A v \in Tasks : get'[v].st = "running" => get[v].st = "running"
    OBVIOUS
  <2> QED
    BY <1>1, <1>4, <2>1, <2>2, <2>3, CancelAppend
<1> QED
  BY <1>2, <1>3, <1>4, <1>6, AllCancels DEF WInv

LEMMA ReadKeeps ==
    ASSUME Known, NEW t \in Tasks, NEW written \in BOOLEAN, HttpReadyRead(t, written)
    PROVE  WInv'
<1>1. TypeOK /\ LifeInv /\ TruthInv /\ get[t].st = "running" /\ UNCHANGED <<main, workerQ, moved>>
  BY DEF Known, RInv, IInv, WInv, HttpReadyRead
<1>2. PICK e \in MainEvents : e = Report(t, FALSE)
  BY EventTypes
<1>3. \A u \in Tasks : e # Report(u, TRUE)
  BY <1>2 DEF Report
<1>4. /\ \A u \in Tasks \ {t} : get'[u] = get[u]
      /\ get'[t].st = "running"
      /\ mainQ' = mainQ \/ mainQ' = Append(mainQ, e)
      /\ get'[t].tmp = "gapped" => get[t].tmp = "gapped" \/ mainQ' = Append(mainQ, e)
  <2>1. CASE get[t].tmp = "null"
    BY <1>1, <2>1 DEF HttpReadyRead
  <2>2. CASE get[t].tmp # "null"
    <3>1. PICK g : g = [get[t] EXCEPT !.chunks = get[t].chunks + 1,
                                      !.tmp = IF written \/ get[t].tmp = "unopened"
                                              THEN get[t].tmp ELSE "gapped"]
      OBVIOUS
    <3>2. get' = [get EXCEPT ![t] = g] /\ get \in [Tasks -> GetTasks]
      BY <1>1, <2>2, <3>1 DEF HttpReadyRead, TypeOK
    <3>3. g.st = "running" /\ g.tmp = (IF written \/ get[t].tmp = "unopened"
                                      THEN get[t].tmp ELSE "gapped")
      BY <1>1, <3>1, <3>2 DEF GetTasks
    <3>4. get'[t] = g /\ \A u \in Tasks \ {t} : get'[u] = get[u]
      BY <3>2
    <3>5. (written => mainQ' = mainQ) /\ (~written => mainQ' = Append(mainQ, e))
      <4>1. CASE written
        BY <2>2, <4>1, Zenon DEF HttpReadyRead
      <4>2. CASE ~written
        BY <1>2, <2>2, <4>2 DEF HttpReadyRead, Post, Report
      <4> QED
        BY <4>1, <4>2
    <3> QED
      BY <3>3, <3>4, <3>5
  <2> QED
    BY <2>1, <2>2
<1>5. TruthInv'
  BY <1>1, <1>2, <1>3, <1>4, TruthWorker DEF main
<1> QED
  BY <1>1, <1>4, <1>5, RequestKeeps DEF main

LEMMA RedirectKeeps ==
    ASSUME Known, NEW t \in Tasks, HandleHttpRedirect(t) \/ RequestFailed(t)
    PROVE  WInv'
<1>1. TypeOK /\ LifeInv /\ TruthInv /\ get[t].st = "running" /\ UNCHANGED <<main, workerQ, moved>>
  BY DEF Known, RInv, IInv, WInv, HandleHttpRedirect, RequestFailed
<1>2. PICK e \in MainEvents : e = Report(t, FALSE)
  BY EventTypes
<1>3. \A u \in Tasks : e # Report(u, TRUE)
  BY <1>2 DEF Report
<1>4. /\ \A u \in Tasks \ {t} : get'[u] = get[u]
      /\ get'[t].st \in {"running", "over"}
      /\ mainQ' = mainQ \/ mainQ' = Append(mainQ, e)
      /\ get'[t].st = "running" /\ get'[t].tmp = "gapped" => get[t].tmp = "gapped"
  <2>1. CASE RequestFailed(t)
    BY <1>1, <1>2, <2>1 DEF RequestFailed, TypeOK, Post, Report, Idle
  <2>2. CASE HandleHttpRedirect(t) /\ TooManyRedirects(t)
    BY <1>1, <1>2, <2>2 DEF HandleHttpRedirect, TypeOK, Post, Report, Idle
  <2>3. CASE HandleHttpRedirect(t) /\ ~TooManyRedirects(t)
    <3>1. PICK g : g = [get[t] EXCEPT !.redirects = get[t].redirects + 1, !.chunks = 0,
                                      !.tmp = IF get[t].tmp = "good" /\ get[t].chunks > 0
                                              THEN "prefixed" ELSE get[t].tmp]
      OBVIOUS
    <3>2. get' = [get EXCEPT ![t] = g] /\ get \in [Tasks -> GetTasks] /\ mainQ' = mainQ
      BY <1>1, <2>3, <3>1 DEF HandleHttpRedirect, TypeOK
    <3>3. g.st = "running" /\ (g.tmp = "gapped" => get[t].tmp = "gapped")
      BY <1>1, <3>1, <3>2 DEF GetTasks
    <3> QED
      BY <3>2, <3>3
  <2> QED
    BY <2>1, <2>2, <2>3
<1>5. TruthInv'
  BY <1>1, <1>3, <1>4, TruthWorker DEF main
<1> QED
  BY <1>1, <1>4, <1>5, RequestKeeps DEF main

LEMMA DeliverKeeps ==
    ASSUME Known, NEW t \in Tasks, NEW renamed \in BOOLEAN, OnHttpRequestFinished(t, renamed)
    PROVE  WInv'
<1>1. TypeOK /\ LifeInv /\ TruthInv /\ get[t].st = "running" /\ UNCHANGED <<main, workerQ>>
  BY DEF Known, RInv, IInv, WInv, OnHttpRequestFinished
<1>2. CASE get[t].tmp = "null"
  <2>1. UNCHANGED <<get, mainQ, moved>>
    BY <1>2 DEF OnHttpRequestFinished
  <2>2. PICK e \in MainEvents : e = Report(t, FALSE)
    BY EventTypes
  <2>3. \A u \in Tasks : e # Report(u, TRUE)
    BY <2>2 DEF Report
  <2>4. TruthInv'
    BY <1>1, <2>1, <2>3, TruthWorker DEF main
  <2> QED
    BY <1>1, <2>1, <2>4, RequestKeeps DEF main
<1>3. CASE get[t].tmp # "null"
  <2>1. /\ renamed => get[t].tmp # "unopened"
        /\ get'[t].st = "over" /\ \A u \in Tasks \ {t} : get'[u] = get[u] /\ moved'[u] = moved[u]
        /\ renamed => moved'[t] = get[t].tmp
    BY <1>1, <1>3 DEF OnHttpRequestFinished, Deliver, TypeOK, Idle
  <2>2. PICK e \in MainEvents : e = Report(t, renamed)
    BY EventTypes
  <2>3. mainQ' = Append(mainQ, e)
    BY <1>3, <2>2 DEF OnHttpRequestFinished, Deliver, Post, Report
  <2>4. get[t].tmp \in TmpStates
    BY <1>1 DEF TypeOK, GetTasks
  <2>5. ASSUME NEW u \in Tasks, e = Report(u, TRUE)
        PROVE  u = t /\ (moved'[t] \in Whole \/ \E n \in 0..Len(mainQ) : Warned(t, n))
    <3>1. u = t /\ renamed
      <4>1. CASE renamed
        BY <2>2, <2>5, <4>1 DEF Report
      <4>2. CASE ~renamed
        BY <2>2, <2>5, <4>2 DEF Report
      <4> QED
        BY <4>1, <4>2
    <3>2. CASE get[t].tmp = "gapped"
      BY <1>1, <3>1, <3>2 DEF TruthInv
    <3>3. CASE get[t].tmp # "gapped"
      BY <1>3, <2>1, <2>4, <3>1, <3>3 DEF TmpStates, Whole
    <3> QED
      BY <3>1, <3>2, <3>3
  <2>6. TruthInv'
    BY <1>1, <2>1, <2>3, <2>5, TruthWorker DEF main
  <2> QED
    BY <1>1, <2>1, <2>6, RequestKeeps DEF main
<1> QED
  BY <1>2, <1>3

-----------------------------------------------------------------------------
(* The theorems.                                                           *)

\* What the two threads know of each other, at every moment: where the start()
\* and the cancel() of a GetFileTask are, and what was said of its file.
THEOREM ThreadsInvariant == Spec => []WInv
<1>1. Init => WInv
  <2> SUFFICES ASSUME Init PROVE WInv
    OBVIOUS
  <2>1. NoneIsLost /\ LifeInv /\ CancelInv
    BY DEF Init, NoneIsLost, LifeInv, CancelInv, Live, Idle
  <2>2. /\ \A i \in 1..Len(workerQ) : FALSE
        /\ \A i \in 1..Len(mainQ) : FALSE
    BY DEF Init
  <2>3. OrderInv
    BY <2>2 DEF OrderInv
  <2>4. FirstSignalTruthful
    BY DEF Init, FirstSignalTruthful
  <2>5. TruthInv
    BY <2>2, <2>4 DEF Init, TruthInv, Idle
  <2> QED
    BY <2>1, <2>3, <2>5 DEF WInv
<1>2. RInv /\ RInv' /\ OneDownloadPerFile /\ WInv /\ [Next]_vars => WInv'
  <2> SUFFICES ASSUME Known, [Next]_vars PROVE WInv'
    BY DEF Known
  <2>0. TypeOK /\ NoneIsLost /\ LifeInv /\ OrderInv /\ CancelInv /\ TruthInv
    BY DEF Known, RInv, IInv, WInv
  <2>1. ASSUME NEW t \in Tasks, MainStep(t) PROVE WInv'
    <3>1. CASE OnGetLinkFailed(t)
      <4>1. Finish(t, FALSE, mainQ) /\ UNCHANGED <<file, canceled, forgotten, worker>>
        BY <3>1 DEF OnGetLinkFailed
      <4>2. mainQ \in Seq(MainEvents)
        BY <2>0 DEF TypeOK
      <4> QED
        BY <4>1, <4>2, FinishKeeps DEF worker
    <3>2. CASE Cancel(t)
      <4>1. /\ Finish(t, FALSE, mainQ) /\ UNCHANGED <<file, get, moved, forgotten>>
            /\ t \in Tracked /\ MarkCanceled(t)
        BY <3>2 DEF Cancel
      <4>2. mainQ \in Seq(MainEvents)
        BY <2>0 DEF TypeOK
      <4> QED
        BY <4>1, <4>2, FinishKeeps
    <3> QED
      BY <2>1, <3>1, <3>2, AddKeeps, LinkKeeps DEF MainStep
  <2>2. ASSUME NEW t \in Tasks, WorkerStep(t) PROVE WInv'
    BY <2>2, StartKeeps, CancelGetKeeps, DestroyGetKeeps, ReadKeeps, RedirectKeeps,
       DeliverKeeps DEF WorkerStep
  <2>3. CASE UNCHANGED vars
    <3>1. NoneIsLost' /\ LifeInv'
      BY <2>0, <2>3 DEF vars, worker, NoneIsLost, LifeInv, Live, Tracked, Queued
    <3>2. OrderInv'
      BY <2>0, <2>3 DEF vars, worker, OrderInv
    <3>3. CancelInv'
      BY <2>0, <2>3 DEF vars, worker, CancelInv, Before, Later, Live
    <3>4. TruthInv'
      BY <2>0, <2>3 DEF vars, worker, TruthInv, Warned, FirstSignalTruthful
    <3> QED
      BY <3>1, <3>2, <3>3, <3>4 DEF WInv
  <2> QED
    BY <2>1, <2>2, <2>3, CancelAllKeeps, HandleFinishedKeeps, HandleDestroyKeeps DEF Next
<1> QED
  BY <1>1, <1>2, EventsInvariant, FilesAreDownloadedOnce, PTL DEF Spec

\* The first thing a task reports of its download is true, whatever failed on the
\* way: a write that fails is reported before the success of the rename.
THEOREM FirstSignalIsTrue == Spec => []FirstSignalTruthful
<1>1. WInv => FirstSignalTruthful
  BY DEF WInv, TruthInv
<1> QED
  BY <1>1, ThreadsInvariant, PTL

\* A canceled download that completes all the same moves its file before any later
\* download of that file is under way, so no newer copy is overwritten.
THEOREM CanceledNeverOverwrites == Spec => CanceledWritesFirst
<1>1. TypeOK /\ WInv /\ [Next]_vars
        => [\A t \in Tasks \ forgotten : moved'[t] # moved[t] /\ canceled[t] =>
               \A u \in Live \ forgotten : u # t /\ file[u] = file[t]
                                               => get[u].st # "running"]_vars
  <2> SUFFICES ASSUME TypeOK, WInv, Next, NEW t \in Tasks, moved'[t] # moved[t], canceled[t],
                      NEW u \in Live \ forgotten, u # t, file[u] = file[t]
               PROVE  get[u].st # "running"
    OBVIOUS
  <2>1. get[t].st = "running"
    <3>1. ASSUME NEW v \in Tasks, NEW renamed \in BOOLEAN, OnHttpRequestFinished(v, renamed)
          PROVE  get[t].st = "running"
      <4>1. get[v].st = "running" /\ \A w \in Tasks \ {v} : moved'[w] = moved[w]
        BY <3>1 DEF OnHttpRequestFinished, Deliver, TypeOK
      <4> QED
        BY <4>1
    <3>2. ASSUME NEW v \in Tasks, MainStep(v) PROVE moved' = moved
      BY <3>2 DEF MainStep, AddDownloadTask, OnLinkGet, OnGetLinkFailed, Cancel, worker
    <3>3. CancelAllDownloadTasks \/ HandleFinished \/ HandleDestroy => moved' = moved
      BY DEF CancelAllDownloadTasks, HandleFinished, HandleDestroy, worker
    <3>4. ASSUME NEW v \in Tasks, WorkerStep(v),
                 ~ \E renamed \in BOOLEAN : OnHttpRequestFinished(v, renamed)
          PROVE  moved' = moved
      BY <3>4 DEF WorkerStep, StartGetFile, CancelGetFile, DestroyGetFile, HttpReadyRead,
         HandleHttpRedirect, RequestFailed
    <3> QED
      BY <3>1, <3>2, <3>3, <3>4 DEF Next
  <2>2. PICK i \in 1..Len(workerQ) : Before(t, i)
    BY <2>1 DEF WInv, CancelInv
  <2>3. u \in Later(t)
    BY DEF Later
  <2> QED
    BY <2>2, <2>3 DEF Before
<1> QED
  BY <1>1, TypeCorrect, ThreadsInvariant, PTL DEF Spec, CanceledWritesFirst

=============================================================================
