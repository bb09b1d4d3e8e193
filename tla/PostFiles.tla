------------------------------- MODULE PostFiles -------------------------------
(***************************************************************************)
(* The upload of several files, or of a folder with its empty subfolders:  *)
(* a FileUploadMultipleTask or FileUploadDirectoryTask, the PostFilesTask  *)
(* that makes a ReliablePostFileTask for one file after the other, and the *)
(* dialog that asks the user what to do about a file that failed.          *)
(*                                                                         *)
(* All of these live in the main thread.  The dialog's question runs an    *)
(* event loop within the handler that asked, so handlers nest; an object   *)
(* that is deleted later is deleted by the loop that called deleteLater,   *)
(* or by one further out.  The single upload is the one of FileUpload.     *)
(***************************************************************************)
EXTENDS Naturals, Sequences, FiniteSets

CONSTANTS
    MaxFiles,   \* bound: files of an upload
    MaxFolders, \* bound: empty subfolders of a folder
    MaxAnswers  \* bound: questions the user answers

ASSUME BoundsAssumption == {MaxFiles, MaxFolders, MaxAnswers} \subseteq Nat

VARIABLES
    n,          \* number of files
    readable,   \* per file: it can be opened
    phase,      \* what the FileUploadTask is doing
    canceled,   \* its canceled_, and that of the PostFilesTask once there is one
    fs,         \* the PostFilesTask
    cur,        \* current_num_, counted from 1
    passed,     \* transferred_bytes_, in files
    names,      \* successful_names_
    rels,       \* the ReliablePostFileTasks made so far; task_ is the last
    links,      \* link requests under way after a failure
    retry,      \* retry_
    dialogs,    \* open questions, the innermost last
    folders,    \* empty_subfolders_, how many are left
    mkdir,      \* a CreateDirectoryRequest is under way
    mainQ,      \* event queue
    stored,     \* files the server has
    skipped,    \* history: files the user was asked about and chose to skip
    told,       \* history: the finished() that the FileUploadTask emitted
    answers,    \* history: number of answers
    crashed     \* an object or an element that does not exist was used

posting == <<cur, passed, names, rels, dialogs>>
asking  == <<links, retry, skipped, answers>>
vars == <<n, readable, phase, canceled, fs, posting, asking, folders, mkdir, mainQ,
          stored, told, crashed>>

Files == 1..MaxFiles
Results == {"ok", "failed", "tooLarge"}
RelStates == {"opening", "posting", "over", "gone"}
\* rel 0: the question is not asked from within the start of an upload.
Dialogs == [about : Files, rel : Nat]
Events == [kind : {"posted"}, rel : Nat, result : Results]
            \cup [kind : {"destroyRel", "destroyTask", "destroyFs"}, rel : Nat, level : Nat]

TypeOK ==
    /\ n \in 0..MaxFiles
    /\ readable \in [Files -> BOOLEAN]
    /\ phase \in {"linking", "serving", "finished", "gone"}
    /\ canceled \in BOOLEAN
    /\ fs \in {"none", "alive", "gone"}
    /\ cur \in 0..n + 1
    /\ passed \in 0..n
    /\ names \in Seq(Files)
    /\ rels \in Seq([file : Files, st : RelStates])
    /\ links \in Nat /\ retry \in BOOLEAN
    /\ dialogs \in Seq(Dialogs)
    /\ folders \in 0..MaxFolders
    /\ mkdir \in BOOLEAN
    /\ mainQ \in Seq(Events)
    /\ stored \subseteq Files /\ skipped \subseteq Files
    /\ told \in Seq(BOOLEAN)
    /\ answers \in 0..MaxAnswers
    /\ crashed \in BOOLEAN

\* A folder without files has an empty folder, at least itself.
Init ==
    /\ n \in 0..MaxFiles /\ folders \in 0..MaxFolders
    /\ n + folders > 0
    /\ readable \in {r \in [Files -> BOOLEAN] : \A f \in Files : f > n => r[f]}
    /\ phase = "linking"
    /\ canceled = FALSE
    /\ fs = "none" /\ cur = 0 /\ passed = 0 /\ names = <<>> /\ rels = <<>>
    /\ links = 0 /\ retry = FALSE /\ dialogs = <<>>
    /\ mkdir = FALSE
    /\ mainQ = <<>>
    /\ stored = {} /\ skipped = {}
    /\ told = <<>>
    /\ answers = 0
    /\ crashed = FALSE

-----------------------------------------------------------------------------
(* What handlers do, one after the other, as a function of the state that  *)
(* they share: s is a record of the variables a handler may change.        *)

Here == [phase |-> phase, cur |-> cur, passed |-> passed, names |-> names, rels |-> rels,
         dialogs |-> dialogs, folders |-> folders, mkdir |-> mkdir, mainQ |-> mainQ,
         told |-> told, crashed |-> crashed]

Become(s) ==
    /\ phase' = s.phase /\ cur' = s.cur /\ passed' = s.passed /\ names' = s.names
    /\ rels' = s.rels /\ dialogs' = s.dialogs /\ folders' = s.folders /\ mkdir' = s.mkdir
    /\ mainQ' = s.mainQ /\ told' = s.told /\ crashed' = s.crashed

Crash(s) == [s EXCEPT !.crashed = TRUE]

DeleteLater(s, kind, rel) ==
    [s EXCEPT !.mainQ = Append(s.mainQ, [kind |-> kind, rel |-> rel, level |-> Len(s.dialogs)])]

\* FileNetworkTask::onFinished
Finish(s, success) ==
    DeleteLater([s EXCEPT !.phase = "finished", !.told = Append(s.told, success)],
                "destroyTask", 0)

\* Mutant: the upload does not end with the last folder.
NextEmptyFolderStops(s) ==
    IF s.folders = 0 THEN [s EXCEPT !.mkdir = FALSE]
    ELSE [s EXCEPT !.folders = s.folders - 1, !.mkdir = TRUE]

\* nextEmptyFolder, with the FileUploadDirectoryTask::onFinished that it calls
NextEmptyFolder(s) ==
    IF s.folders = 0 THEN Finish([s EXCEPT !.mkdir = FALSE], TRUE)
    ELSE [s EXCEPT !.folders = s.folders - 1, !.mkdir = TRUE]

\* Mutant: the empty folders are forgotten.
OnFinishedAtOnce(s, success) == Finish(s, success)

OnFinished(s, success) ==
    IF success /\ s.folders > 0 THEN NextEmptyFolder(s) ELSE Finish(s, success)

\* onFileServerTaskFinished
FileServerTaskFinished(s, success) ==
    IF canceled \/ s.phase = "gone" THEN s ELSE OnFinished(s, success)

\* onOneFileUploadFailed up to the question, asked from the start of rel or by
\* rel 0.  FileUploadTask::startFileServerTask connects oneFileFailed when the
\* first upload has started, so nobody hears of a first file that cannot be opened.
AskAbout(s, file, rel) ==
    IF canceled \/ s.phase = "gone" \/ fs = "none" THEN s
    ELSE [s EXCEPT !.dialogs = Append(s.dialogs, [about |-> file, rel |-> rel])]

\* startNext.  A file that cannot be opened is reported as failed from within
\* the start of its upload, which then goes on.
StartNext(s) ==
    LET next == s.cur + 1
        last == Len(s.rels)
        cut  == IF last = 0 THEN s ELSE DeleteLater(s, "destroyRel", last)
        made == [cut EXCEPT !.cur = next,
                            !.rels = Append(s.rels, [file |-> next,
                                         st |-> IF readable[next] THEN "posting" ELSE "opening"])]
    IN  CASE next = n + 1 -> FileServerTaskFinished([s EXCEPT !.cur = next], TRUE)
          [] next > n + 1 -> Crash(s)
          [] OTHER ->
               IF readable[next] THEN made
               ELSE LET asked == AskAbout(made, next, last + 1)
                    IN  IF asked = made THEN [made EXCEPT !.rels[last + 1].st = "posting"]
                        ELSE asked

\* Mutants: a file that failed is listed too; the question does not stop the rest.
PostedNamesAll(s, result) ==
    IF canceled \/ s.cur > n THEN s
    ELSE LET named == [s EXCEPT !.names = Append(s.names, s.cur)]
         IN  IF result = "ok" THEN StartNext([named EXCEPT !.passed = s.passed + 1])
             ELSE AskAbout(named, s.cur, 0)
PostedGoesOn(s, result) ==
    IF canceled \/ s.cur > n THEN s
    ELSE LET counted == [s EXCEPT !.passed = s.passed + 1]
         IN  StartNext(IF result = "ok" THEN counted ELSE AskAbout(counted, s.cur, 0))

\* onPostTaskFinished: the answer is taken for one about the current file.
Posted(s, result) ==
    IF canceled THEN s
    ELSE IF s.cur > n THEN Crash(s)
    ELSE CASE result = "ok"       -> StartNext([s EXCEPT !.names = Append(s.names, s.cur),
                                                         !.passed = s.passed + 1])
           [] result = "failed"   -> AskAbout(s, s.cur, 0)
           [] result = "tooLarge" -> FileServerTaskFinished(s, FALSE)

\* PostFilesTask::continueWithFailedFile
\* Mutant: a file to retry is counted as if it were skipped.
ContinueCountsAll(s) ==
    IF retry THEN StartNext([s EXCEPT !.cur = s.cur - 1, !.passed = s.passed + 1])
    ELSE StartNext([s EXCEPT !.passed = s.passed + 1])

ContinueWithFailedFile(s) ==
    IF retry THEN StartNext([s EXCEPT !.cur = s.cur - 1])
    ELSE IF s.cur > n THEN Crash(s)
    ELSE StartNext([s EXCEPT !.passed = s.passed + 1])

-----------------------------------------------------------------------------
(* Handlers of the main thread.                                            *)

unasked == <<n, readable, stored, skipped, answers>>

\* onLinkGet: startFileServerTask
OnLinkGet ==
    /\ phase = "linking" /\ ~canceled
    /\ fs' = "alive"
    /\ Become(StartNext([Here EXCEPT !.phase = "serving"]))
    /\ UNCHANGED <<unasked, canceled, links, retry>>

\* onLinkGetAgain
OnLinkGetAgain ==
    /\ links > 0 /\ phase # "gone"
    /\ links' = links - 1
    /\ Become(ContinueWithFailedFile(Here))
    /\ UNCHANGED <<unasked, canceled, fs, retry>>

OnGetLinkFailed ==
    /\ \/ phase = "linking" /\ ~canceled
       \/ links > 0 /\ phase # "gone"
    /\ links' = IF phase = "linking" THEN links ELSE links - 1
    /\ Become(OnFinished(Here, FALSE))
    /\ UNCHANGED <<unasked, canceled, fs, retry>>

\* FileNetworkTask::cancel with PostFilesTask::cancel.  s is the state before.
Cancelled(s) ==
    /\ canceled' = TRUE
    /\ Become(IF fs = "alive" /\ rels = <<>> THEN Crash(s) ELSE OnFinished(s, FALSE))

\* The progress dialog's button, which is out of reach under a question.
Cancel ==
    /\ phase \in {"linking", "serving"} /\ dialogs = <<>> /\ ~canceled
    /\ Cancelled(Here)
    /\ links' = IF links = 0 THEN 0 ELSE links - 1
    /\ UNCHANGED <<unasked, fs, retry>>

\* The innermost question is answered.  If it was asked from the start of an
\* upload, that goes on.
Resume(s) ==
    LET top == s.dialogs[Len(s.dialogs)]
        closed == [s EXCEPT !.dialogs = SubSeq(s.dialogs, 1, Len(s.dialogs) - 1)]
    IN  CASE top.rel = 0 -> closed
          [] top.rel # 0 /\ s.rels[top.rel].st = "gone" -> Crash(closed)
          [] OTHER -> [closed EXCEPT !.rels[top.rel].st = "posting"]

Asked == dialogs[Len(dialogs)].about

\* FileUploadTask::continueWithFailedFile
AnswerRetryOrSkip(again) ==
    /\ dialogs # <<>> /\ answers < MaxAnswers
    /\ answers' = answers + 1
    /\ retry' = again
    /\ links' = links + 1
    /\ skipped' = IF again THEN skipped ELSE skipped \cup {Asked}
    /\ Become(IF phase = "gone" THEN Crash(Here) ELSE Resume(Here))
    /\ UNCHANGED <<n, readable, stored, canceled, fs>>

AnswerAbort ==
    /\ dialogs # <<>>
    /\ IF phase = "gone" THEN Become(Crash(Here)) /\ UNCHANGED <<canceled, links>>
       ELSE IF phase = "finished" THEN Become(Resume(Here)) /\ UNCHANGED <<canceled, links>>
       ELSE Cancelled(Resume(Here)) /\ links' = (IF links = 0 THEN 0 ELSE links - 1)
    /\ UNCHANGED <<unasked, fs, retry>>

\* The answer to a CreateDirectoryRequest: nextEmptyFolder, onCreateDirFailed
OnCreateDir(success) ==
    /\ mkdir /\ phase # "gone"
    /\ Become(IF success THEN NextEmptyFolder(Here)
              ELSE OnFinished([Here EXCEPT !.mkdir = FALSE], FALSE))
    /\ UNCHANGED <<unasked, canceled, fs, links, retry>>

\* An event, or the first one that the present loop may handle.
Postponed(e) == e.kind # "posted" /\ e.level < Len(dialogs)
HandleEvent ==
    \E i \in DOMAIN mainQ :
        /\ ~Postponed(mainQ[i]) /\ \A j \in 1..i - 1 : Postponed(mainQ[j])
        /\ LET e == mainQ[i]
               s == [Here EXCEPT !.mainQ = SubSeq(mainQ, 1, i - 1) \o SubSeq(mainQ, i + 1, Len(mainQ))]
           IN  CASE e.kind = "posted" ->
                      /\ Become(IF rels[e.rel].st = "gone" \/ fs = "gone" THEN s
                                ELSE Posted(s, e.result))
                      /\ UNCHANGED fs
                 [] e.kind = "destroyRel" ->
                      /\ Become([s EXCEPT !.rels[e.rel].st = "gone"])
                      /\ UNCHANGED fs
                 [] e.kind = "destroyTask" ->
                      /\ Become(IF fs = "alive" /\ phase # "gone"
                                THEN DeleteLater([s EXCEPT !.phase = "gone", !.mkdir = FALSE], "destroyFs", 0)
                                ELSE [s EXCEPT !.phase = "gone", !.mkdir = FALSE])
                      /\ UNCHANGED fs
                 [] e.kind = "destroyFs" ->
                      /\ Become(IF rels = <<>> THEN s ELSE DeleteLater(s, "destroyRel", Len(rels)))
                      /\ fs' = "gone"
    /\ UNCHANGED <<unasked, canceled, links, retry>>

-----------------------------------------------------------------------------
(* A single upload ends.  The server has the file if it reports success,   *)
(* and may have it otherwise.                                              *)

RelFinishes(r, result) ==
    /\ rels[r].st = "posting"
    /\ result = "ok" => readable[rels[r].file]
    /\ rels' = [rels EXCEPT ![r].st = "over"]
    /\ mainQ' = Append(mainQ, [kind |-> "posted", rel |-> r, result |-> result])
    /\ IF result = "ok" THEN stored' = stored \cup {rels[r].file} ELSE UNCHANGED stored
    /\ UNCHANGED <<n, readable, phase, canceled, fs, cur, passed, names, dialogs, asking,
                   folders, mkdir, told, crashed>>

-----------------------------------------------------------------------------
Next ==
    \/ ~crashed /\ OnLinkGet
    \/ ~crashed /\ OnLinkGetAgain
    \/ ~crashed /\ OnGetLinkFailed
    \/ ~crashed /\ Cancel
    \/ ~crashed /\ \E again \in BOOLEAN : AnswerRetryOrSkip(again)
    \/ ~crashed /\ AnswerAbort
    \/ ~crashed /\ \E success \in BOOLEAN : OnCreateDir(success)
    \/ ~crashed /\ HandleEvent
    \/ ~crashed /\ \E r \in DOMAIN rels : \E result \in Results : RelFinishes(r, result)

Spec == Init /\ [][Next]_vars

\* The event loop runs, requests and uploads are answered, and so are questions:
\* the liveness property is about a user who does not leave one open.
Fairness ==
    /\ WF_vars(~crashed /\ OnLinkGet)
    /\ WF_vars(~crashed /\ (OnLinkGetAgain \/ OnGetLinkFailed))
    /\ WF_vars(~crashed /\ \E success \in BOOLEAN : OnCreateDir(success))
    /\ WF_vars(~crashed /\ HandleEvent)
    /\ \A r \in 1..MaxFiles + MaxAnswers + 1 :
           WF_vars(/\ ~crashed /\ r \in DOMAIN rels
                   /\ \E result \in Results : RelFinishes(r, result))
    /\ WF_vars(~crashed /\ (AnswerAbort \/ \E again \in BOOLEAN : AnswerRetryOrSkip(again)))

FairSpec == Spec /\ Fairness

-----------------------------------------------------------------------------
(* Properties.                                                             *)

AllReadable == \A f \in 1..n : readable[f]

\* An upload that reports success has left no file out: each one is on the server
\* or was skipped at the user's word, and no empty folder is left to create.
SuccessMeansAll ==
    told # <<>> /\ told[1] => 1..n \subseteq stored \cup skipped /\ folders = 0

\* So it is when every file can be opened, whatever fails later on.
ReadableMeansAll == AllReadable => SuccessMeansAll

\* successfulNames(), from which the file browser adds its rows, lists files that
\* the server has, each once and in order: a result is never taken for another's.
NamesAreUploaded ==
    AllReadable =>
        /\ \A i \in DOMAIN names : names[i] \in stored
        /\ \A i, j \in DOMAIN names : i < j => names[i] < names[j]

\* One thing at a time: an upload, its answer, a question, a new link or a folder.
\* With two of them startNext would run twice and replace a running upload.
OneThingAtATime ==
    AllReadable /\ ~canceled /\ phase = "serving" =>
        Cardinality({r \in DOMAIN rels : rels[r].st = "posting"})
          + Cardinality({i \in DOMAIN mainQ : mainQ[i].kind = "posted"})
          + Len(dialogs) + links + (IF mkdir THEN 1 ELSE 0) <= 1

\* Nothing that is gone, or was never there, is used; but for an upload that has
\* no file at all, when it is canceled.
NothingGoneIsUsed == AllReadable /\ n > 0 => ~crashed

\* PostFilesTask "to avoid segment fault" sets what it never uses to NULL: an
\* upload of empty folders does not crash.
EmptyFoldersAreSafe == n = 0 => ~crashed

\* If questions are answered, an upload comes to its end: no failure, skip, retry
\* or folder leaves it with nothing under way and its progress dialog open.
EveryUploadEnds == <>(phase \in {"finished", "gone"} \/ crashed)
=============================================================================
