--------------------------- MODULE TransferManager ---------------------------
(***************************************************************************)
(* The download side of the cloud file browser: the TransferManager        *)
(* singleton with its one-slot queue, the FileDownloadTask objects that    *)
(* live in the main thread, and the GetFileTask objects that live in the   *)
(* worker thread and write the file.                                       *)
(*                                                                         *)
(* The two threads talk through their Qt event queues.  mainQ holds the    *)
(* `finished' signals the worker emitted and the deferred deletions of the *)
(* main thread; workerQ holds the queued invocations `start' and `cancel'  *)
(* and the deferred deletions of the worker.  A direct connection          *)
(* (FileDownloadTask to TransferManager) is a nested call, so everything   *)
(* it does belongs to the step of the emitter.                             *)
(***************************************************************************)
EXTENDS Naturals, FiniteSets, SequencesExt

CONSTANTS
    Tasks,          \* identities of the FileDownloadTask objects ever created
    NoTask,         \* the null pointer
    Files,          \* (repo_id, path) pairs
    NoFile,         \* the file of a task that does not exist yet
    MaxChunks,      \* bound: readyRead notifications of one download
    MaxRedirects    \* kMaxRedirects

ASSUME NoTaskAssumption == NoTask \notin Tasks
ASSUME BoundsAssumption == MaxChunks \in Nat /\ MaxRedirects \in Nat

VARIABLES
    current,        \* current_download_
    pending,        \* pending_downloads_
    phase,          \* per task: what the FileDownloadTask is doing
    file,           \* per task: the (repo_id, path) it downloads
    canceled,       \* per task: FileNetworkTask::canceled_
    get,            \* per task: its GetFileTask
    mainQ,          \* event queue of the main thread
    workerQ,        \* event queue of the worker thread
    moved,          \* per task: what tmp_file_->rename put at local_path_
    signals,        \* history: arguments of the finished() each task emitted
    forgotten,      \* history: tasks cancelAllDownloadTasks dropped unfinished
    crashed         \* a null tmp_file_ was dereferenced

worker == <<get, workerQ, moved, crashed>>
vars == <<current, pending, phase, file, canceled, get, mainQ, workerQ,
          moved, signals, forgotten, crashed>>

Phases    == {"unborn", "queued", "linking", "serving", "finished", "gone"}
GetStates == {"none", "posted", "running", "over", "gone"}

\* tmp_file_ of a GetFileTask: null before prepare or if its directory could
\* not be made, unopened if open() failed; prefixed if the body of a redirect
\* was written before the file; gapped if a chunk could not be written.
TmpStates == {"null", "unopened", "good", "prefixed", "gapped"}
GetTasks  == [st : GetStates, tmp : TmpStates,
              chunks : 0..MaxChunks, redirects : 0..(MaxRedirects + 1)]

\* A GetFileTask without a request and a temporary file: in particular one
\* whose request is over, of which nothing is used any more.
Idle(st) == [st |-> st, tmp |-> "null", chunks |-> 0, redirects |-> 0]

MainEvents   == [kind : {"finished"}, task : Tasks, ok : BOOLEAN]
                  \cup [kind : {"destroy"}, task : Tasks]
WorkerEvents == [kind : {"start", "cancel", "destroy"}, task : Tasks]

TypeOK ==
    /\ current \in Tasks \cup {NoTask}
    /\ pending \in Seq(Tasks)
    /\ phase \in [Tasks -> Phases]
    /\ file \in [Tasks -> Files \cup {NoFile}]
    /\ canceled \in [Tasks -> BOOLEAN]
    /\ get \in [Tasks -> GetTasks]
    /\ mainQ \in Seq(MainEvents)
    /\ workerQ \in Seq(WorkerEvents)
    /\ moved \in [Tasks -> {"nothing", "good", "prefixed", "gapped"}]
    /\ signals \in [Tasks -> Seq(BOOLEAN)]
    /\ forgotten \subseteq Tasks
    /\ crashed \in BOOLEAN

Init ==
    /\ current = NoTask
    /\ pending = <<>>
    /\ phase = [t \in Tasks |-> "unborn"]
    /\ file = [t \in Tasks |-> NoFile]
    /\ canceled = [t \in Tasks |-> FALSE]
    /\ get = [t \in Tasks |-> Idle("none")]
    /\ mainQ = <<>>
    /\ workerQ = <<>>
    /\ moved = [t \in Tasks |-> "nothing"]
    /\ signals = [t \in Tasks |-> <<>>]
    /\ forgotten = {}
    /\ crashed = FALSE

Queued  == ToSet(pending)
Tracked == Queued \cup ({current} \ {NoTask})
Running == {t \in Tasks : phase[t] \in {"linking", "serving"}}
Over    == {t \in Tasks : phase[t] \in {"finished", "gone"}}
Dropped == {t \in Tasks \ Queued : phase[t] = "queued"}
Live    == {t \in Tasks : phase[t] \in {"queued", "linking", "serving"}}

-----------------------------------------------------------------------------
(* The manager and its download tasks, in the main thread.                 *)

\* getDownloadTask: the tracked tasks for file f.
\* Mutant: only the running task is looked at.
ExistingRunningOnly(f) == {t \in {current} \ {NoTask} : file[t] = f}

Existing(f) == {t \in Tracked : file[t] = f}

\* addDownloadTask when it creates a task; if one exists it only returns it.
AddDownloadTask(t, f) ==
    /\ ~crashed
    /\ phase[t] = "unborn"
    /\ Existing(f) = {}
    /\ file' = [file EXCEPT ![t] = f]
    /\ IF current = NoTask
       THEN /\ current' = t
            /\ pending' = pending
            /\ phase' = [phase EXCEPT ![t] = "linking"]
       ELSE /\ current' = current
            /\ pending' = Append(pending, t)
            /\ phase' = [phase EXCEPT ![t] = "queued"]
    /\ UNCHANGED <<canceled, mainQ, signals, forgotten, worker>>

\* onDownloadTaskFinished(t): a finished current task hands the slot to the
\* oldest pending one and starts it, any other is removed from the queue.
HandsOver(t) == t = current /\ pending # <<>>

\* Mutant: the slot is freed whichever task finished.
CurrentAfterAny(t) == IF HandsOver(t) THEN Head(pending) ELSE NoTask

CurrentAfter(t) ==
    IF t # current THEN current ELSE IF HandsOver(t) THEN Head(pending) ELSE NoTask

\* Mutant: a task that finishes while it waits stays in the queue.
PendingAfterKept(t) == IF t = current /\ pending # <<>> THEN Tail(pending) ELSE pending

PendingAfter(t) ==
    IF t # current THEN RemoveFirst(pending, t)
    ELSE IF HandsOver(t) THEN Tail(pending) ELSE pending

\* `emit finished(ok)' of t, whose slot is onDownloadTaskFinished, then the
\* deleteLater() of FileNetworkTask::onFinished (a second one has no effect).
\* q is what remains of the main queue at that point.
EmitFinished(t, ok, q) ==
    /\ signals' = [signals EXCEPT ![t] = Append(@, ok)]
    /\ phase' = [u \in Tasks |-> IF u = t THEN "finished"
                                 ELSE IF HandsOver(t) /\ u = Head(pending) THEN "linking"
                                 ELSE phase[u]]
    /\ mainQ' = IF phase[t] = "finished" THEN q
                ELSE Append(q, [kind |-> "destroy", task |-> t])

Finish(t, ok, q) ==
    /\ EmitFinished(t, ok, q)
    /\ current' = CurrentAfter(t)
    /\ pending' = PendingAfter(t)

\* FileDownloadTask::onLinkGet, startFileServerTask: the GetFileTask is made,
\* moved to the worker thread, and its start() queued there.
OnLinkGet(t) ==
    /\ ~crashed
    /\ phase[t] = "linking"
    /\ phase' = [phase EXCEPT ![t] = "serving"]
    /\ get' = [get EXCEPT ![t] = Idle("posted")]
    /\ workerQ' = Append(workerQ, [kind |-> "start", task |-> t])
    /\ UNCHANGED <<current, pending, file, canceled, mainQ, moved, signals,
                   forgotten, crashed>>

\* onGetLinkFailed
OnGetLinkFailed(t) ==
    /\ ~crashed
    /\ phase[t] = "linking"
    /\ Finish(t, FALSE, mainQ)
    /\ UNCHANGED <<file, canceled, forgotten, worker>>

\* FileNetworkTask::cancel up to its call of onFinished(false).
\* Mutant: the GetFileTask is not told.
MarkCanceledLocally(t) ==
    /\ canceled' = [canceled EXCEPT ![t] = TRUE]
    /\ UNCHANGED workerQ

MarkCanceled(t) ==
    /\ canceled' = [canceled EXCEPT ![t] = TRUE]
    /\ workerQ' = IF phase[t] = "serving"
                  THEN Append(workerQ, [kind |-> "cancel", task |-> t])
                  ELSE workerQ

\* cancelDownload(f) with t the task it finds for f.  The cancel button of a
\* progress dialog goes this way too, so nothing cancels a forgotten task.
Cancel(t) ==
    /\ ~crashed
    /\ t \in Tracked
    /\ MarkCanceled(t)
    /\ Finish(t, FALSE, mainQ)
    /\ UNCHANGED <<file, get, moved, forgotten, crashed>>

\* cancelAllDownloadTasks.  While the slot is free nothing waits either, and it
\* does nothing.  current->cancel() runs the whole of Finish, which
\* may already have started the next task when the slot and queue are wiped.
CancelAllDownloadTasks ==
    /\ ~crashed
    /\ current # NoTask
    /\ MarkCanceled(current)
    /\ EmitFinished(current, FALSE, mainQ)
    /\ current' = NoTask
    /\ pending' = <<>>
    /\ forgotten' = forgotten \cup Queued
    /\ UNCHANGED <<file, get, moved, crashed>>

\* FileNetworkTask::onFileServerTaskFinished ignores a canceled task, and Qt
\* drops the events of a destroyed object.
\* Mutant: without the check of canceled_.
IsIgnoredIfGone(t) == phase[t] = "gone"

IsIgnored(t) == canceled[t] \/ phase[t] = "gone"

\* The main thread takes the next event of its queue.
HandleFinished ==
    /\ ~crashed
    /\ mainQ # <<>> /\ Head(mainQ).kind = "finished"
    /\ LET t == Head(mainQ).task
       IN  IF IsIgnored(t)
           THEN /\ mainQ' = Tail(mainQ)
                /\ UNCHANGED <<current, pending, phase, signals>>
           ELSE Finish(t, Head(mainQ).ok, Tail(mainQ))
    /\ UNCHANGED <<file, canceled, forgotten, worker>>

\* The deferred deletion of a FileDownloadTask; ~FileNetworkTask in turn
\* schedules that of its GetFileTask in the worker.
HandleDestroy ==
    /\ ~crashed
    /\ mainQ # <<>> /\ Head(mainQ).kind = "destroy"
    /\ LET t == Head(mainQ).task
       IN  /\ phase' = [phase EXCEPT ![t] = "gone"]
           /\ workerQ' = IF get[t].st = "none" THEN workerQ
                         ELSE Append(workerQ, [kind |-> "destroy", task |-> t])
    /\ mainQ' = Tail(mainQ)
    /\ UNCHANGED <<current, pending, file, canceled, get, moved, signals,
                   forgotten, crashed>>

-----------------------------------------------------------------------------
(* The worker thread: the GetFileTask objects.                             *)

main == <<current, pending, phase, file, canceled, signals, forgotten>>

\* `emit finished(ok)' in the worker: a queued call to the main thread.
Post(t, ok) == mainQ' = Append(mainQ, [kind |-> "finished", task |-> t, ok |-> ok])

\* FileServerTask::start: prepare() makes the temporary file.  When it cannot,
\* it reports the failure and returns, and start() sends the request all the
\* same.
StartGetFile(t, tmp) ==
    /\ ~crashed
    /\ workerQ # <<>> /\ Head(workerQ) = [kind |-> "start", task |-> t]
    /\ workerQ' = Tail(workerQ)
    /\ get' = [get EXCEPT ![t] = [@ EXCEPT !.st = "running", !.tmp = tmp]]
    /\ IF tmp = "good" THEN UNCHANGED mainQ ELSE Post(t, FALSE)
    /\ UNCHANGED <<main, moved, crashed>>

\* FileServerTask::cancel: abort() makes a running reply finish at once, and
\* httpRequestFinished reports a canceled task.
CancelGetFile(t) ==
    /\ ~crashed
    /\ workerQ # <<>> /\ Head(workerQ) = [kind |-> "cancel", task |-> t]
    /\ workerQ' = Tail(workerQ)
    /\ IF get[t].st = "running"
       THEN get' = [get EXCEPT ![t] = Idle("over")] /\ Post(t, FALSE)
       ELSE UNCHANGED <<get, mainQ>>
    /\ UNCHANGED <<main, moved, crashed>>

\* ~GetFileTask removes the temporary file; a reply still running loses its
\* receiver.
DestroyGetFile(t) ==
    /\ ~crashed
    /\ workerQ # <<>> /\ Head(workerQ) = [kind |-> "destroy", task |-> t]
    /\ workerQ' = Tail(workerQ)
    /\ get' = [get EXCEPT ![t] = Idle("gone")]
    /\ UNCHANGED <<main, mainQ, moved, crashed>>

\* httpReadyRead: whatever the reply brings is written to tmp_file_, also the
\* body of a redirect.  A write that fails is reported, and the download goes on.
HttpReadyRead(t, written) ==
    /\ ~crashed
    /\ get[t].st = "running"
    /\ get[t].chunks < MaxChunks
    /\ IF get[t].tmp = "null"
       THEN crashed' = TRUE /\ UNCHANGED <<get, mainQ>>
       ELSE /\ written => get[t].tmp # "unopened"
            /\ get' = [get EXCEPT ![t] = [get[t] EXCEPT
                         !.chunks = get[t].chunks + 1,
                         !.tmp = IF written \/ get[t].tmp = "unopened"
                                 THEN get[t].tmp ELSE "gapped"]]
            /\ IF written THEN UNCHANGED mainQ ELSE Post(t, FALSE)
            /\ UNCHANGED crashed
    /\ UNCHANGED <<main, workerQ, moved>>

\* redirect_count_++ > kMaxRedirects
\* Mutant: redirects are not limited where they should be.
TooManyRedirectsLate(t) == get[t].redirects > MaxRedirects + 1

TooManyRedirects(t) == get[t].redirects > MaxRedirects

\* handleHttpRedirect: what was read so far stays in tmp_file_.
HandleHttpRedirect(t) ==
    /\ ~crashed
    /\ get[t].st = "running"
    /\ IF TooManyRedirects(t)
       THEN get' = [get EXCEPT ![t] = Idle("over")] /\ Post(t, FALSE)
       ELSE /\ get' = [get EXCEPT ![t] = [get[t] EXCEPT
                         !.redirects = get[t].redirects + 1, !.chunks = 0,
                         !.tmp = IF get[t].tmp = "good" /\ get[t].chunks > 0
                                 THEN "prefixed" ELSE get[t].tmp]]
            /\ UNCHANGED mainQ
    /\ UNCHANGED <<main, workerQ, moved, crashed>>

\* httpRequestFinished on a network error, an aborted reply or a 4xx or 5xx
\* status.  retryEnabled() is false for a GetFileTask.
RequestFailed(t) ==
    /\ ~crashed
    /\ get[t].st = "running"
    /\ get' = [get EXCEPT ![t] = Idle("over")]
    /\ Post(t, FALSE)
    /\ UNCHANGED <<main, workerQ, moved, crashed>>

\* What GetFileTask::onHttpRequestFinished leaves at local_path_ and reports.
\* Mutant: the result of the rename is not looked at.
DeliverUnchecked(t, renamed) ==
    /\ moved' = IF renamed THEN [moved EXCEPT ![t] = get[t].tmp] ELSE moved
    /\ Post(t, TRUE)

\* Mutant: a failed rename is not reported.
DeliverSilently(t, renamed) ==
    /\ moved' = IF renamed THEN [moved EXCEPT ![t] = get[t].tmp] ELSE moved
    /\ IF renamed THEN Post(t, TRUE) ELSE UNCHANGED mainQ

Deliver(t, renamed) ==
    /\ moved' = IF renamed THEN [moved EXCEPT ![t] = get[t].tmp] ELSE moved
    /\ Post(t, renamed)

\* GetFileTask::onHttpRequestFinished: the temporary file replaces the file at
\* local_path_, unless its directory cannot be made, the old file cannot be
\* removed, or the rename fails, as it does for a file that was never opened.
OnHttpRequestFinished(t, renamed) ==
    /\ ~crashed
    /\ get[t].st = "running"
    /\ IF get[t].tmp = "null"
       THEN crashed' = TRUE /\ UNCHANGED <<get, mainQ, moved>>
       ELSE /\ renamed => get[t].tmp # "unopened"
            /\ get' = [get EXCEPT ![t] = Idle("over")]
            /\ Deliver(t, renamed)
            /\ UNCHANGED crashed
    /\ UNCHANGED <<main, workerQ>>

-----------------------------------------------------------------------------
MainStep(t) ==
    \/ \E f \in Files : AddDownloadTask(t, f)
    \/ OnLinkGet(t)
    \/ OnGetLinkFailed(t)
    \/ Cancel(t)

WorkerStep(t) ==
    \/ \E tmp \in {"null", "unopened", "good"} : StartGetFile(t, tmp)
    \/ CancelGetFile(t)
    \/ DestroyGetFile(t)
    \/ \E written \in BOOLEAN : HttpReadyRead(t, written)
    \/ HandleHttpRedirect(t)
    \/ RequestFailed(t)
    \/ \E renamed \in BOOLEAN : OnHttpRequestFinished(t, renamed)

Next ==
    \/ \E t \in Tasks : MainStep(t) \/ WorkerStep(t)
    \/ CancelAllDownloadTasks
    \/ HandleFinished
    \/ HandleDestroy

Spec == Init /\ [][Next]_vars

\* Both event loops handle the event in front, a link request is answered within
\* the transfer timeout of its network manager and a download within ten hours.
MainLoopRuns == HandleFinished \/ HandleDestroy

WorkerLoopRuns ==
    \E t \in Tasks :
        \/ \E tmp \in {"null", "unopened", "good"} : StartGetFile(t, tmp)
        \/ CancelGetFile(t)
        \/ DestroyGetFile(t)

ReplyEnds(t) ==
    \/ RequestFailed(t)
    \/ HandleHttpRedirect(t)
    \/ \E renamed \in BOOLEAN : OnHttpRequestFinished(t, renamed)

Fairness ==
    /\ WF_vars(MainLoopRuns)
    /\ WF_vars(WorkerLoopRuns)
    /\ \A t \in Tasks : WF_vars(OnLinkGet(t) \/ OnGetLinkFailed(t)) /\ WF_vars(ReplyEnds(t))

FairSpec == Spec /\ Fairness

-----------------------------------------------------------------------------
(* Properties.                                                             *)

\* A download runs outside the manager's slot only if cancelAllDownloadTasks
\* started and then dropped it: one download at a time (transfer-mgr.h).
OneRunning == Running \subseteq {current} \cup forgotten

\* The queue never stalls: whenever the slot is free nothing waits, and what
\* sits in the slot is really being downloaded.
SlotIsUsed ==
    /\ current = NoTask => pending = <<>>
    /\ current # NoTask => phase[current] \in {"linking", "serving"}

\* What waits in the queue is a task nobody started, and it waits there once:
\* no task is started twice, and no canceled one is started at all.
PendingIsQueued ==
    \A i, j \in 1..Len(pending) :
        /\ phase[pending[i]] = "queued"
        /\ pending[i] = pending[j] => i = j

\* A task is scheduled for deletion only when it has reported, and a task that
\* was canceled has reported: nobody waits for it any more.
OverIsReported ==
    /\ \A i \in 1..Len(mainQ) :
          mainQ[i].kind = "destroy" => phase[mainQ[i].task] \in {"finished", "gone"}
    /\ \A t \in Tasks : canceled[t] => phase[t] \in {"finished", "gone"}

\* What the manager tracks is live, and no two of its tasks are for one file,
\* so two opened views of a file share one download.
OneDownloadPerFile ==
    /\ Tracked \subseteq Live
    /\ \A t, u \in Tracked : file[t] = file[u] => t = u

\* The first thing a task says about its download is true: success means that
\* every chunk that arrived is in the file at local_path_.
FirstSignalTruthful ==
    \A t \in Tasks : signals[t] # <<>> /\ Head(signals[t])
                        => moved[t] \in {"good", "prefixed"}

\* Nothing is reported of a canceled task after the failure its cancel()
\* itself reports, although its GetFileTask may finish meanwhile.
CanceledIsSilent ==
    [][\A t \in Tasks : canceled[t] => signals'[t] = signals[t]]_vars

\* A canceled download that still completes does so before any later download
\* of the same file starts, so it cannot overwrite a newer copy.
CanceledWritesFirst ==
    [][\A t \in Tasks \ forgotten : moved'[t] # moved[t] /\ canceled[t] =>
          \A u \in Live \ forgotten : u # t /\ file[u] = file[t]
                                          => get[u].st # "running"]_vars

\* Every task that the manager accepted is finished in the end, unless
\* cancelAllDownloadTasks dropped it or the process crashed.
EveryDownloadEnds ==
    \A t \in Tasks : (t \in Live) ~> (t \notin Live \/ t \in forgotten \/ crashed)

\* What the manager does to its queue, seen from outside, is what DownloadQueue
\* allows: who is started, when, in which order, and that it happens once.  The
\* slot, the threads, the repeated finished() of a task and the deletion of
\* its objects do not show.
Queue == INSTANCE DownloadQueue WITH
            waiting <- pending, running <- Running, over <- Over, dropped <- Dropped

ImplementsQueue == Queue!Spec

\* transfer-mgr.h: "At any moment only one download task is running, others
\* are waiting in the queue."
OnlyOneDownloadRuns == Cardinality(Running) <= 1

\* tasks.h: "The downloaded file is first written to a tmp location, then
\* moved to its final location": what arrives there is the whole file.
FinalLocationHasWholeFile == \A t \in Tasks : moved[t] \in {"nothing", "good"}

=============================================================================
