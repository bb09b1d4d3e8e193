------------------------------ MODULE FileUpload ------------------------------
(***************************************************************************)
(* The upload of one file: a FileUploadTask and its ReliablePostFileTask,  *)
(* both in the main thread, the PostFileTask that sends one piece of the   *)
(* file from the worker thread, and the server that puts pieces together.  *)
(*                                                                         *)
(* Sizes and offsets are counted in units of which ChunkSize make a chunk. *)
(* The signals of the two tasks of the main thread are direct calls and    *)
(* belong to the step that emits them; what reaches the main thread from   *)
(* elsewhere goes through its event queue mainQ.                           *)
(***************************************************************************)
EXTENDS Naturals, Sequences

CONSTANTS
    Sizes,          \* sizes the local file may have
    ChunkSize,      \* kUploadChunkSize
    MinChunked,     \* kMinimalSizeForChunkedUploads
    MaxRetry,       \* kFileServerTaskMaxRetry
    MaxUserRetries, \* bound: how often the user asks for another attempt
    MaxEdits        \* bound: how often the local file changes its size

ASSUME SizesAssumption ==
    /\ Sizes \subseteq Nat \ {0}
    /\ \E m \in Sizes : \A n \in Sizes : n <= m
    /\ ChunkSize \in Nat \ {0} /\ ChunkSize <= MinChunked
    /\ MinChunked \in Nat /\ MaxRetry \in Nat
    /\ MaxUserRetries \in Nat /\ MaxEdits \in Nat

VARIABLES
    opts,       \* use_upload_, accept_user_confirmation_, and what the server supports
    phase,      \* what the FileUploadTask is doing
    canceled,   \* canceled_ of the FileUploadTask and of the ReliablePostFileTask
    rel,        \* the ReliablePostFileTask
    post,       \* its current PostFileTask, task_
    mainQ,      \* event queue of the main thread
    fsize,      \* size of the local file
    received,   \* server: bytes of the file in its temporary file
    stored,     \* server: what was committed last
    told,       \* history: the finished() the task emitted first
    hist        \* history: bounded counters and marks

vars == <<opts, phase, canceled, rel, post, mainQ, fsize, received, stored, told, hist>>

Phases == {"linking", "serving", "asking", "relinking", "finished", "gone"}

\* An error is told apart by what onPostFileTaskFinished does with it:
\* ApiRequestError is retried, 442 and 443 (quota) end the task.
Results == {"ok", "api", "quota", "io", "canceled"}

MaxOf(S) == CHOOSE m \in S : \A n \in S : n <= m
Bytes == 0..(MaxOf(Sizes) + ChunkSize)

TypeOK ==
    /\ opts \in [upload : BOOLEAN, confirm : BOOLEAN, chunking : BOOLEAN]
    /\ phase \in Phases
    /\ canceled \in BOOLEAN
    /\ rel \in [st : {"none", "querying", "posting", "waiting", "idle", "gone"},
                resumable : BOOLEAN, total : Bytes, offset : Bytes,
                chunk : 0..ChunkSize, retries : 0..MaxRetry]
    /\ post \in [st : {"none", "posted", "running", "over", "gone"},
                 start : Bytes, size : 0..ChunkSize, of : Bytes,
                 readable : BOOLEAN, taken : BOOLEAN,
                 cancel : BOOLEAN, destroy : BOOLEAN]
    /\ mainQ \in Seq([kind : {"posted"}, result : Results]
                       \cup [kind : {"uploadedBytes"}, ok : BOOLEAN, bytes : Bytes]
                       \cup [kind : {"destroy", "destroyRel"}])
    /\ fsize \in Sizes
    /\ received \in Bytes
    /\ stored \in {"nothing", "whole", "partial"}
    /\ told \in {"nothing", "success", "failure"}
    /\ hist \in [userRetries : 0..MaxUserRetries, edits : 0..MaxEdits,
                 fellBack : BOOLEAN, late : Nat]

NoPost == [st |-> "none", start |-> 0, size |-> 0, of |-> 0, readable |-> TRUE,
           taken |-> FALSE, cancel |-> FALSE, destroy |-> FALSE]

\* The task has been started.  An earlier attempt may have left part of the
\* file on the server, possibly of a longer version of it.
Init ==
    /\ opts \in [upload : BOOLEAN, confirm : BOOLEAN, chunking : BOOLEAN]
    /\ phase = "linking"
    /\ canceled = FALSE
    /\ rel = [st |-> "none", resumable |-> opts.upload, total |-> 0, offset |-> 0,
              chunk |-> 0, retries |-> 0]
    /\ post = NoPost
    /\ mainQ = <<>>
    /\ fsize \in Sizes
    /\ received \in IF opts.chunking THEN {0, ChunkSize} \cup Sizes ELSE {0}
    /\ stored = "nothing"
    /\ told = "nothing"
    /\ hist = [userRetries |-> 0, edits |-> 0, fellBack |-> FALSE, late |-> 0]

server == <<received, stored>>

-----------------------------------------------------------------------------
(* The FileUploadTask and the ReliablePostFileTask.                        *)

\* useResumableUpload
UseResumableUpload(r) == r.resumable /\ r.total > MinChunked

\* startPostFileTask with the state r of the ReliablePostFileTask.  The size
\* of a chunk is computed from unsigned numbers, and is left as it was when
\* the upload is not resumable any more.
NextChunk(r) ==
    IF ~UseResumableUpload(r) THEN r.chunk
    ELSE IF r.offset <= r.total /\ r.total - r.offset < ChunkSize
         THEN r.total - r.offset ELSE ChunkSize

StartPostFileTask(r, readable) ==
    /\ rel' = [r EXCEPT !.st = "posting", !.chunk = NextChunk(r)]
    /\ post' = [NoPost EXCEPT !.st = "posted", !.start = r.offset,
                              !.size = NextChunk(r), !.readable = readable]
    /\ hist' = [hist EXCEPT !.late = IF canceled THEN @ + 1 ELSE @,
                            !.fellBack = \/ @
                                         \/ ~UseResumableUpload(r) /\ r.chunk > 0]

\* FileNetworkTask::onFileServerTaskFinished and onFinished.  q is what remains
\* of the main queue.
EmitFinished(success, q) ==
    IF canceled \/ phase = "gone"
    THEN /\ mainQ' = q
         /\ UNCHANGED <<phase, told>>
    ELSE /\ phase' = "finished"
         /\ told' = IF told # "nothing" THEN told
                    ELSE IF success THEN "success" ELSE "failure"
         /\ mainQ' = Append(q, [kind |-> "destroy"])

\* FileServerTask::start: prepare() opens the file; a failure is reported, and
\* the request is sent all the same, with the size of the previous attempt.
Start(opened) ==
    LET r == IF opened THEN [rel EXCEPT !.total = fsize] ELSE rel
    IN  /\ IF opened
           THEN /\ phase' = IF phase = "gone" THEN phase ELSE "serving"
                /\ UNCHANGED <<told, mainQ>>
           ELSE EmitFinished(FALSE, mainQ)
        /\ IF UseResumableUpload(r)
           THEN rel' = [r EXCEPT !.st = "querying"] /\ UNCHANGED <<post, hist>>
           ELSE StartPostFileTask(r, opened)

\* onLinkGet, and onLinkGetAgain after the user asked for a retry: both start
\* the ReliablePostFileTask, which keeps the link it was made with.
OnLinkGet(opened) ==
    /\ phase \in {"linking", "relinking"}
    /\ Start(opened)
    /\ UNCHANGED <<opts, canceled, fsize, server>>

\* onGetLinkFailed
OnGetLinkFailed ==
    /\ phase \in {"linking", "relinking"}
    /\ EmitFinished(FALSE, mainQ)
    /\ UNCHANGED <<opts, canceled, rel, post, fsize, server, hist>>

\* FileUploadTask::continueWithFailedFile(true)
ContinueWithFailedFile ==
    /\ phase = "asking"
    /\ hist.userRetries < MaxUserRetries
    /\ phase' = "relinking"
    /\ hist' = [hist EXCEPT !.userRetries = @ + 1]
    /\ UNCHANGED <<opts, canceled, rel, post, mainQ, fsize, server, told>>

\* FileNetworkTask::cancel, also when the user answers `abort'.
Cancel ==
    /\ phase \notin {"finished", "gone"}
    /\ canceled' = TRUE
    /\ phase' = "finished"
    /\ told' = "failure"
    /\ mainQ' = Append(mainQ, [kind |-> "destroy"])
    /\ post' = IF post.st = "none" THEN post ELSE [post EXCEPT !.cancel = TRUE]
    /\ UNCHANGED <<opts, rel, fsize, server, hist>>

\* FileServerTask::retry when the retry timer fires.
Retry(opened) ==
    /\ rel.st = "waiting"
    /\ IF canceled
       THEN rel' = [rel EXCEPT !.st = "idle"] /\ UNCHANGED <<phase, told, mainQ, post, hist>>
       ELSE Start(opened)
    /\ UNCHANGED <<opts, canceled, fsize, server>>

\* onGetFileUploadedBytesSuccess, onGetFileUploadedBytesFailed
\* Mutant: the offset of the previous attempt is kept.
WithUploadedBytesKept(ok, bytes) ==
    IF ok /\ opts.chunking THEN rel ELSE [rel EXCEPT !.resumable = FALSE, !.offset = 0]

WithUploadedBytes(ok, bytes) ==
    IF ok /\ opts.chunking THEN [rel EXCEPT !.offset = bytes]
    ELSE [rel EXCEPT !.resumable = FALSE, !.offset = 0]

OnGetFileUploadedBytes ==
    /\ mainQ # <<>> /\ Head(mainQ).kind = "uploadedBytes" /\ rel.st # "gone"
    /\ StartPostFileTask(WithUploadedBytes(Head(mainQ).ok, Head(mainQ).bytes), TRUE)
    /\ mainQ' = Tail(mainQ)
    /\ UNCHANGED <<opts, phase, canceled, fsize, server, told>>

\* maybeRetry
\* Mutant: there is no limit to the retries.
MaybeRetryForever(result) == result = "api" /\ ~canceled

MaybeRetry(result) == result = "api" /\ ~canceled /\ rel.retries < MaxRetry

\* handlePostFileTaskFailure
AskOrFinish(asks) ==
    /\ IF asks
       THEN /\ phase' = IF phase = "gone" THEN phase ELSE "asking"
            /\ mainQ' = Tail(mainQ)
            /\ UNCHANGED told
       ELSE EmitFinished(FALSE, Tail(mainQ))
    /\ UNCHANGED <<post, hist>>

\* Mutant: the user is asked, and the retry timer set as well.
FailureRetriesToo ==
    /\ AskOrFinish(~canceled /\ opts.confirm)
    /\ rel' = [rel EXCEPT !.st = "waiting"]

\* Mutant: the failure is reported only to a user who is asked.
FailureOnlyAsks ==
    /\ IF opts.confirm THEN AskOrFinish(~canceled)
       ELSE mainQ' = Tail(mainQ) /\ UNCHANGED <<phase, told, post, hist>>
    /\ rel' = [rel EXCEPT !.st = "idle"]

HandlePostFileTaskFailure ==
    /\ AskOrFinish(~canceled /\ opts.confirm)
    /\ rel' = [rel EXCEPT !.st = "idle"]

\* The file is complete when the last chunk is, or after a simple upload.
\* Mutant: a chunk is forgotten.
IsLastEarly == UseResumableUpload(rel) => rel.offset + rel.chunk + ChunkSize >= rel.total

IsLast == UseResumableUpload(rel) => rel.offset + rel.chunk >= rel.total

OnPostFileTaskFinished ==
    /\ mainQ # <<>> /\ Head(mainQ).kind = "posted" /\ rel.st # "gone"
    /\ LET result == Head(mainQ).result
       IN  IF result = "quota"
           THEN /\ rel' = [rel EXCEPT !.st = "idle"]
                /\ EmitFinished(FALSE, Tail(mainQ))
                /\ UNCHANGED <<post, hist>>
           ELSE IF MaybeRetry(result)
           THEN /\ rel' = [rel EXCEPT !.st = "waiting", !.retries = @ + 1]
                /\ mainQ' = Tail(mainQ)
                /\ UNCHANGED <<phase, told, post, hist>>
           ELSE IF result # "ok" THEN HandlePostFileTaskFailure
           ELSE IF IsLast
           THEN /\ rel' = [rel EXCEPT !.st = "idle"]
                /\ EmitFinished(TRUE, Tail(mainQ))
                /\ UNCHANGED <<post, hist>>
           ELSE /\ StartPostFileTask([rel EXCEPT !.offset = @ + rel.chunk], TRUE)
                /\ mainQ' = Tail(mainQ)
                /\ UNCHANGED <<phase, told>>
    /\ UNCHANGED <<opts, canceled, fsize, server>>

\* ~FileNetworkTask, a deferred deletion, schedules another one for the
\* ReliablePostFileTask, which works on for events that come before it.
\* Mutant: the ReliablePostFileTask is not deleted.
HandleDestroyKeepsRel ==
    /\ mainQ # <<>> /\ Head(mainQ).kind = "destroy"
    /\ phase' = "gone"
    /\ mainQ' = Tail(mainQ)
    /\ UNCHANGED <<opts, canceled, rel, post, fsize, server, told, hist>>

HandleDestroy ==
    /\ mainQ # <<>> /\ Head(mainQ).kind = "destroy"
    /\ phase' = "gone"
    /\ mainQ' = IF rel.st = "none" THEN Tail(mainQ)
                ELSE Append(Tail(mainQ), [kind |-> "destroyRel"])
    /\ UNCHANGED <<opts, canceled, rel, post, fsize, server, told, hist>>

\* ~ReliablePostFileTask; the PostFileTask is to be deleted in the worker.
HandleDestroyRel ==
    /\ mainQ # <<>> /\ Head(mainQ).kind = "destroyRel"
    /\ rel' = [rel EXCEPT !.st = "gone"]
    /\ mainQ' = Tail(mainQ)
    /\ post' = IF post.st = "none" THEN post ELSE [post EXCEPT !.destroy = TRUE]
    /\ UNCHANGED <<opts, phase, canceled, fsize, server, told, hist>>

\* Events for a destroyed object are dropped.
DropEvent ==
    /\ mainQ # <<>> /\ Head(mainQ).kind \in {"posted", "uploadedBytes"} /\ rel.st = "gone"
    /\ mainQ' = Tail(mainQ)
    /\ UNCHANGED <<opts, phase, canceled, rel, post, fsize, server, told, hist>>

-----------------------------------------------------------------------------
(* The PostFileTask in the worker thread.                                  *)

reliable == <<opts, phase, canceled, rel, told, hist>>

Report(result) == mainQ' = Append(mainQ, [kind |-> "posted", result |-> result])

\* sendRequest.  A chunk is mapped to memory; beyond the end of the file that
\* may fail, or give what the system puts there.
MapFails ==
    /\ post.st = "posted" /\ post.size > 0
    /\ ~post.readable \/ post.start + post.size > fsize
    /\ post' = [post EXCEPT !.st = "over"]
    /\ Report("io")
    /\ UNCHANGED <<reliable, fsize, server>>

SendRequest ==
    /\ post.st = "posted" /\ (post.size > 0 => post.readable)
    /\ post' = [post EXCEPT !.st = "running", !.of = fsize]
    /\ UNCHANGED <<reliable, mainQ, fsize, server>>

\* httpRequestFinished on an error, and on an aborted request.  A redirect
\* sends the same request again and is not told apart from it.
RequestFails(result) ==
    /\ post.st = "running"
    /\ result = "quota" => ~post.taken
    /\ post' = [post EXCEPT !.st = "over"]
    /\ Report(result)
    /\ UNCHANGED <<reliable, fsize, server>>

\* PostFileTask::onHttpRequestFinished
RequestSucceeds ==
    /\ post.st = "running" /\ post.taken
    /\ post' = [post EXCEPT !.st = "over"]
    /\ Report("ok")
    /\ UNCHANGED <<reliable, fsize, server>>

\* FileServerTask::cancel, queued after start.
CancelPost ==
    /\ post.cancel /\ post.st \in {"running", "over"}
    /\ IF post.st = "running" THEN Report("canceled") ELSE UNCHANGED mainQ
    /\ post' = [post EXCEPT !.st = "over", !.cancel = FALSE]
    /\ UNCHANGED <<reliable, fsize, server>>

\* ~PostFileTask, queued after start and cancel.
DestroyPost ==
    /\ post.destroy /\ ~post.cancel /\ post.st \in {"running", "over"}
    /\ post' = [post EXCEPT !.st = "gone", !.destroy = FALSE]
    /\ UNCHANGED <<reliable, mainQ, fsize, server>>

-----------------------------------------------------------------------------
(* The server and the local file system.                                   *)

\* The answer to a GetFileUploadedBytesRequest.
AnswerUploadedBytes(ok) ==
    /\ rel.st = "querying"
    /\ rel' = [rel EXCEPT !.st = "posting"]
    /\ mainQ' = Append(mainQ, [kind |-> "uploadedBytes", ok |-> ok,
                               bytes |-> IF ok THEN received ELSE 0])
    /\ UNCHANGED <<opts, phase, canceled, post, fsize, server, told, hist>>

\* The server takes what is posted: a whole file is committed, a chunk joins
\* the temporary file, and the last one commits it.  A range that does not fit
\* in the size it names is refused.
ServerTakes ==
    /\ post.st = "running" /\ ~post.taken /\ post.readable
    /\ post.size > 0 => post.start + post.size <= post.of
    /\ post' = [post EXCEPT !.taken = TRUE]
    /\ LET end == post.start + post.size
       IN  IF post.size = 0
           THEN stored' = "whole" /\ UNCHANGED received
           ELSE IF end # post.of
           THEN received' = (IF end > received THEN end ELSE received) /\ UNCHANGED stored
           ELSE /\ stored' = IF post.start <= received THEN "whole" ELSE "partial"
                /\ received' = 0
    /\ UNCHANGED <<reliable, mainQ, fsize>>

\* Another program changes the size of the file.
Edit(size) ==
    /\ hist.edits < MaxEdits
    /\ size # fsize /\ phase \notin {"finished", "gone"}
    /\ fsize' = size
    /\ hist' = [hist EXCEPT !.edits = @ + 1]
    /\ UNCHANGED <<opts, phase, canceled, rel, post, mainQ, server, told>>

-----------------------------------------------------------------------------
MainStep ==
    \/ OnLinkGet(TRUE) \/ OnLinkGet(FALSE) \/ OnGetLinkFailed
    \/ ContinueWithFailedFile \/ Cancel
    \/ Retry(TRUE) \/ Retry(FALSE)
    \/ OnGetFileUploadedBytes \/ OnPostFileTaskFinished
    \/ HandleDestroy \/ HandleDestroyRel \/ DropEvent

WorkerStep ==
    \/ MapFails \/ SendRequest \/ RequestSucceeds \/ CancelPost \/ DestroyPost
    \/ \E result \in {"api", "quota"} : RequestFails(result)

ServerStep == ServerTakes \/ AnswerUploadedBytes(TRUE) \/ AnswerUploadedBytes(FALSE)

Next ==
    \/ MainStep
    \/ WorkerStep
    \/ ServerStep
    \/ \E size \in Sizes : Edit(size)

Spec == Init /\ [][Next]_vars

\* The event loops run, timers fire, and every request ends: a transfer has a
\* timeout of ten hours, an API call a shorter one.  The user may never answer.
Fairness ==
    /\ WF_vars(OnLinkGet(TRUE) \/ OnLinkGet(FALSE) \/ OnGetLinkFailed)
    /\ WF_vars(Retry(TRUE) \/ Retry(FALSE))
    /\ WF_vars(OnGetFileUploadedBytes \/ OnPostFileTaskFinished
                  \/ HandleDestroy \/ HandleDestroyRel \/ DropEvent)
    /\ WF_vars(WorkerStep)
    /\ WF_vars(AnswerUploadedBytes(TRUE) \/ AnswerUploadedBytes(FALSE))

FairSpec == Spec /\ Fairness

-----------------------------------------------------------------------------
(* Properties.                                                             *)

\* A success that is reported means that the server has committed the whole
\* file, with every chunk of it, whatever was retried, resumed or answered
\* late.  Two situations are set aside: the file changed during the upload,
\* and the upload of chunks was given up for a simple upload.
SuccessIsCommitted ==
    told = "success" /\ ~hist.fellBack /\ hist.edits = 0 => stored = "whole"

\* What the header promises of retries and of chunked uploads together: the
\* same without the exception for an upload that falls back to a simple one.
RetriedUploadIsWhole == told = "success" /\ hist.edits = 0 => stored = "whole"

\* The server is never sent a chunk that lies beyond what it has, which would
\* leave a hole in its temporary file: the offset is the one it reported, or
\* follows a chunk it has taken.  (A file that changed may commit early.)
NoGap ==
    post.st = "running" /\ ~post.taken /\ post.size > 0 /\ hist.edits = 0
        => post.start <= received

\* The user is asked about a failed file only when the task has come to rest:
\* nothing is in flight and no timer is set, so that a retry is the only upload.
AskedAtRest ==
    phase = "asking" => rel.st = "idle" /\ post.st \in {"over", "gone"}

\* After a cancel, the events already under way make the ReliablePostFileTask
\* send at most two more pieces before it is deleted.
CancelStopsSoon == hist.late <= 2

\* An upload ends or waits for the user, at first and after every answer of
\* the user, whatever fails on the way.
EveryUploadEnds ==
    phase \in {"linking", "serving", "relinking"} ~> phase \in {"asking", "finished", "gone"}
=============================================================================
