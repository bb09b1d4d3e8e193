------------------------------ MODULE AutoUpdate ------------------------------
(***************************************************************************)
(* One file of the cloud file browser's cache: the user opens it, edits it *)
(* with another program, and the client uploads what was edited.  Four     *)
(* parts keep what they know of the file, and none of them is updated in   *)
(* the same step as another: the file on disk, the row of FileCache, the   *)
(* AutoUpdateManager with its QFileSystemWatcher, and the server.          *)
(*                                                                         *)
(* Every content is written once, at a time of its own: data are numbered, *)
(* and the number of a content is its file id as well.  The transfers are  *)
(* the ones of TransferManager and FileUpload, seen from outside.          *)
(***************************************************************************)
EXTENDS Naturals, Sequences, FiniteSets

CONSTANTS
    Uploads,    \* identities of upload tasks that exist at the same time
    MaxWrites   \* bound: contents written, by anyone

ASSUME MaxWritesAssumption == MaxWrites \in Nat \ {0}

VARIABLES
    clock,          \* number of the last write
    server,         \* what the server has under the path of the file
    kept,           \* all contents that the server got, conflict files included
    local,          \* the cached file
    entry,          \* its row in FileCacheV2
    watch,          \* its value in watch_infos_
    watching,       \* QFileSystemWatcher::files() has its path
    fsEvent,        \* a fileChanged signal is on its way
    deferred,       \* deleted_files_infos_, each with a timer of 5 seconds
    remoteChanged,  \* it is in remote_changed_files_
    upload,         \* per task: the FileUploadTask
    download,       \* its FileDownloadTask
    repoReqs,       \* GetRepoRequests under way
    dirent,         \* file id in the listing that the dialog shows
    opened          \* history: the last step opened the cached file

disk    == <<clock, local>>
manager == <<watch, watching, fsEvent, deferred, remoteChanged>>
remote  == <<server, kept>>
vars == <<disk, remote, entry, manager, upload, download, repoReqs, dirent, opened>>

Data  == 1..MaxWrites
Times == 0..MaxWrites

\* A file that does not exist has neither content nor time.  The other fields
\* are history: safe, nothing was under way when it was written; reported, the user
\* was told that an upload of the file failed.
NoFile == [data |-> 0, mtime |-> 0, safe |-> TRUE, reported |-> FALSE]
Exists == local.data # 0

\* here: the path is a key of watch_infos_; named: repo_id and path_in_repo
\* are those of the file.  They are empty in an info that operator[] inserted.
WatchInfos == [here : BOOLEAN, named : BOOLEAN, mtime : Times, uploading : BOOLEAN]
NoInfo == [here |-> FALSE, named |-> FALSE, mtime |-> 0, uploading |-> FALSE]

Entries == [id : Times, mtime : Times, commit : Data]
NoEntry == [id |-> 0, mtime |-> 0, commit |-> 0]
HasEntry == entry # NoEntry

\* A started task has not read the file yet, a sent one has, and what a taken
\* one has read is on the server.  Base 0 stands for no commit.
NoUpload == [st |-> "none", named |-> FALSE, base |-> 0, data |-> 0]
NoDownload == [st |-> "none", data |-> 0]

TypeOK ==
    /\ clock \in Data
    /\ server \in Data
    /\ kept \subseteq Data
    /\ local \in [data : Times, mtime : Times, safe : BOOLEAN, reported : BOOLEAN]
    /\ entry \in Entries \cup {NoEntry}
    /\ watch \in WatchInfos
    /\ watching \in BOOLEAN /\ (watching => Exists)
    /\ fsEvent \in BOOLEAN
    /\ deferred \in Seq(WatchInfos)
    /\ remoteChanged \in BOOLEAN
    /\ upload \in [Uploads -> [st : {"none", "started", "sent", "taken"}, named : BOOLEAN,
                               base : Times, data : Times]]
    /\ download \in [st : {"none", "running", "written"}, data : Times]
    /\ repoReqs \subseteq [from : {"download", "upload"}, id : Times]
    /\ dirent \in Data
    /\ opened \in BOOLEAN

Init ==
    /\ clock = 1
    /\ server = 1 /\ kept = {1} /\ dirent = 1
    /\ local = NoFile
    /\ entry = NoEntry
    /\ watch = NoInfo /\ watching = FALSE /\ fsEvent = FALSE
    /\ deferred = <<>>
    /\ remoteChanged = FALSE
    /\ upload = [u \in Uploads |-> NoUpload]
    /\ download = NoDownload
    /\ repoReqs = {}
    /\ opened = FALSE

-----------------------------------------------------------------------------
(* The file is written, or removed, by another program or by the user.     *)

\* The file was transferred, and what was transferred is not in FileCache yet.
Unrecorded == repoReqs # {} \/ \E u \in Uploads : upload[u].st \in {"sent", "taken"}

WriteLocal(data) ==
    /\ clock < MaxWrites
    /\ clock' = clock + 1
    /\ local' = [data |-> data, mtime |-> clock + 1,
                 safe |-> HasEntry /\ ~Unrecorded /\ download = NoDownload,
                 reported |-> FALSE]

\* The program writes into the file, which stays in the watcher.
Edit ==
    /\ Exists
    /\ WriteLocal(clock + 1)
    /\ fsEvent' = (fsEvent \/ watching)
    /\ UNCHANGED <<remote, entry, watch, watching, deferred, remoteChanged,
                   upload, download, repoReqs, dirent>>

\* The program moves a new file over the old one, which leaves the watcher.
Replace ==
    /\ Exists
    /\ WriteLocal(clock + 1)
    /\ fsEvent' = (fsEvent \/ watching)
    /\ watching' = FALSE
    /\ UNCHANGED <<remote, entry, watch, deferred, remoteChanged,
                   upload, download, repoReqs, dirent>>

\* The program removes the file, or the user does (onDeleteLocalVersion).
Remove ==
    /\ Exists
    /\ local' = NoFile
    /\ fsEvent' = (fsEvent \/ watching)
    /\ watching' = FALSE
    /\ UNCHANGED <<clock, remote, entry, watch, deferred, remoteChanged,
                   upload, download, repoReqs, dirent>>

\* The program that removed the file writes it again.
Recreate ==
    /\ ~Exists /\ HasEntry
    /\ WriteLocal(clock + 1)
    /\ UNCHANGED <<remote, entry, manager, upload, download, repoReqs, dirent>>

\* Another client changes the file on the server.
ServerChanges ==
    /\ clock < MaxWrites
    /\ clock' = clock + 1
    /\ server' = clock + 1
    /\ kept' = kept \cup {clock + 1}
    /\ UNCHANGED <<local, entry, manager, upload, download, repoReqs, dirent>>

-----------------------------------------------------------------------------
(* What the file browser shows.                                            *)

\* The row of FileCache says that the file has not changed since.
\* Mutant: nobody compares the times.
UnmodifiedAssumed == HasEntry
Unmodified == local.mtime = entry.mtime

\* The status of the file, given what the listing says of it.
StatusFor(id) ==
    IF ~(HasEntry /\ Exists)           THEN "NONE"
    ELSE IF watch.uploading            THEN "UPLOADING"
    ELSE IF id = entry.id /\ Unmodified THEN "SYNCED"
    ELSE "NOT_SYNCED"

FileStatus == StatusFor(dirent)

\* What getFileStatusForDirectory does on the side.
RemoteChangedAfter(id) ==
    CASE StatusFor(id) = "NONE"      -> remoteChanged
      [] StatusFor(id) = "UPLOADING" -> FALSE
      [] OTHER                       -> id # entry.id

\* setDirents with a new or a cached listing, and the timer of the table.
Refresh ==
    /\ dirent' \in {server, dirent}
    /\ remoteChanged' = RemoteChangedAfter(dirent')
    /\ UNCHANGED <<disk, remote, entry, watch, watching, fsEvent, deferred,
                   upload, download, repoReqs>>

\* getLocalCachedFile
CachedIsUsed == Exists /\ HasEntry /\ (entry.id = dirent \/ ~Unmodified)

\* watchCachedFile.  An info that names no file is replaced.
WatchCachedFile ==
    IF Exists /\ ~(watch.here /\ watch.named) /\ \A i \in DOMAIN deferred : ~deferred[i].named
      THEN /\ watching' = TRUE
           /\ watch' = [here |-> TRUE, named |-> TRUE, mtime |-> local.mtime, uploading |-> FALSE]
      ELSE UNCHANGED <<watch, watching>>

\* onFileClicked on a file with a usable copy ...
OpenCached ==
    /\ CachedIsUsed
    /\ WatchCachedFile
    /\ UNCHANGED <<disk, remote, entry, fsEvent, deferred, remoteChanged,
                   upload, download, repoReqs, dirent>>

\* ... and on one without, that is downloaded.
OpenRemote ==
    /\ ~CachedIsUsed
    /\ download = NoDownload
    /\ download' = [st |-> "running", data |-> server]
    /\ watch' = NoInfo /\ watching' = FALSE
    /\ UNCHANGED <<disk, remote, entry, fsEvent, deferred, remoteChanged,
                   upload, repoReqs, dirent>>

-----------------------------------------------------------------------------
(* A download, seen from the DataManager.                                  *)

\* The worker moves the temporary file to the place of the cached one.
DownloadWrites ==
    /\ download.st = "running"
    /\ clock < MaxWrites
    /\ clock' = clock + 1
    /\ local' = [data |-> download.data, mtime |-> clock + 1,
                 safe |-> ~Unrecorded, reported |-> FALSE]
    /\ download' = [download EXCEPT !.st = "written"]
    /\ fsEvent' = (fsEvent \/ watching)
    /\ watching' = FALSE
    /\ UNCHANGED <<remote, entry, watch, deferred, remoteChanged, upload, repoReqs, dirent>>

\* finished(false), or a task that the user cancels.
DownloadEnds ==
    /\ download # NoDownload
    /\ download' = NoDownload
    /\ UNCHANGED <<disk, remote, entry, manager, upload, repoReqs, dirent>>

\* DataManager::onFileDownloadFinished
DownloadSucceeds ==
    /\ download.st = "written"
    /\ download' = NoDownload
    /\ repoReqs' = repoReqs \cup {[from |-> "download", id |-> download.data]}
    /\ UNCHANGED <<disk, remote, entry, manager, upload, dirent>>

\* saveCachedFileId: the time is the one of the file as it is now.
SavedEntry(id) == [id |-> id, mtime |-> local.mtime, commit |-> server]

\* DataManager::onGetRepoSuccess
OnGetRepoSuccess ==
    \E req \in repoReqs :
        /\ req.from = "download"
        /\ repoReqs' = repoReqs \ {req}
        /\ entry' = SavedEntry(req.id)
        /\ WatchCachedFile
        /\ UNCHANGED <<disk, remote, fsEvent, deferred, remoteChanged,
                       upload, download, dirent>>

\* onGetRepoFailed, in the DataManager and in the AutoUpdateManager
OnGetRepoFailed ==
    \E req \in repoReqs :
        /\ repoReqs' = repoReqs \ {req}
        /\ UNCHANGED <<disk, remote, entry, manager, upload, download, dirent>>

-----------------------------------------------------------------------------
(* The AutoUpdateManager.                                                  *)

\* uploadFile, after which the info in watch_infos_ is the given one.  A file
\* that is gone makes a FileUploadDirectoryTask, which uploads no file.
UploadFile(info, base) ==
    \E u \in Uploads :
        /\ upload[u] = NoUpload
        /\ upload' = [upload EXCEPT ![u] =
               [st |-> IF Exists THEN "started" ELSE "sent",
                named |-> info.named, base |-> IF info.named THEN base ELSE 0, data |-> 0]]
        /\ watch' = [info EXCEPT !.uploading = TRUE]

\* onFileChanged, called for a path that is watched if `inWatcher' holds and
\* has the given info.
\* Mutant: times are compared less exactly than files are written.
IsNewCoarse(info) == info.here /\ ~remoteChanged /\ local.mtime \div 2 # info.mtime \div 2
IsNew(info) == info.here /\ ~remoteChanged /\ local.mtime # info.mtime

OnFileChanged(info, queue, inWatcher) ==
    \/ /\ ~IsNew(info)
       /\ watch' = info /\ deferred' = queue /\ watching' = inWatcher
       /\ UNCHANGED upload
    \/ /\ IsNew(info) /\ ~Exists
       /\ watch' = NoInfo /\ watching' = FALSE
       /\ deferred' = Append(queue, info)
       /\ UNCHANGED upload
    \/ /\ IsNew(info) /\ Exists
       /\ watching' = FALSE
       /\ deferred' = queue
       /\ UploadFile(info, entry.commit)

FileChanged ==
    /\ fsEvent
    /\ fsEvent' = FALSE
    /\ OnFileChanged(watch, deferred, watching)
    /\ UNCHANGED <<disk, remote, entry, remoteChanged, download, repoReqs, dirent>>

\* The path of an info that names no file is the one of the whole cache.
CheckFileRecreated ==
    /\ deferred # <<>>
    /\ LET info == Head(deferred)
       IN IF Exists /\ info.named
            THEN OnFileChanged(info, Tail(deferred), TRUE)
            ELSE deferred' = Tail(deferred) /\ UNCHANGED <<watch, watching, upload>>
    /\ UNCHANGED <<disk, remote, entry, fsEvent, remoteChanged, download, repoReqs, dirent>>

\* The info that operator[] finds or inserts; nothing sets its mtime.
InfoOrNew ==
    IF watch.here THEN {watch}
    ELSE {[here |-> TRUE, named |-> FALSE, mtime |-> m, uploading |-> FALSE] : m \in {0, local.mtime}}

\* onGetDirentReupload: uploadFile without a commit.  The menu is offered for a
\* file that is not synced.
Reupload ==
    /\ FileStatus = "NOT_SYNCED"
    /\ \E info \in InfoOrNew : UploadFile(info, 0)
    /\ UNCHANGED <<disk, remote, entry, watching, fsEvent, deferred, remoteChanged,
                   download, repoReqs, dirent>>

-----------------------------------------------------------------------------
(* An upload, seen from the AutoUpdateManager.                             *)

UploadReads(u) ==
    /\ upload[u].st = "started"
    /\ Exists /\ upload[u].named
    /\ upload' = [upload EXCEPT ![u].st = "sent", ![u].data = local.data]
    /\ UNCHANGED <<disk, remote, entry, manager, download, repoReqs, dirent>>

\* The server keeps what it has if that is newer than the commit the upload is
\* based on, and stores the upload as a conflict file.
ServerTakes(u) ==
    /\ upload[u].st = "sent" /\ upload[u].named
    /\ upload' = [upload EXCEPT ![u].st = "taken"]
    /\ IF upload[u].data = 0 THEN UNCHANGED remote
       ELSE /\ kept' = kept \cup {upload[u].data}
            /\ server' = IF upload[u].base \in {0, server} THEN upload[u].data ELSE server
    /\ UNCHANGED <<disk, entry, manager, download, repoReqs, dirent>>

\* addPath, which fails for a path without a file.
\* Mutant: the manager takes it for watched all the same.
AddPathBlindly == watching' = TRUE
AddPath == watching' = (watching \/ Exists)

\* onUpdateTaskFinished
OnUpdateTaskFinished(u, success) ==
    /\ upload[u].st # "none"
    /\ success => upload[u].st = "taken"
    /\ upload' = [upload EXCEPT ![u] = NoUpload]
    /\ \/ /\ ~(Exists /\ watch.here)
          /\ UNCHANGED <<watch, watching, repoReqs>>
       \/ /\ Exists /\ watch.here
          /\ watch' = [watch EXCEPT !.uploading = FALSE]
          /\ IF success
               THEN /\ repoReqs' = repoReqs \cup {[from |-> "upload", id |-> upload[u].data]}
                    /\ UNCHANGED watching
               ELSE AddPath /\ UNCHANGED repoReqs
    /\ local' = [local EXCEPT !.reported =
                     local.reported \/ (Exists /\ watch.here /\ ~success)]
    /\ UNCHANGED <<clock, remote, entry, fsEvent, deferred, remoteChanged, download, dirent>>

\* AutoUpdateManager::onGetRepoSuccess
OnGetRepoSuccessAfterUpload ==
    \E req \in repoReqs :
        /\ req.from = "upload"
        /\ repoReqs' = repoReqs \ {req}
        /\ \E info \in InfoOrNew : watch' = [info EXCEPT !.mtime = local.mtime]
        /\ entry' = SavedEntry(req.id)
        /\ AddPath
        /\ UNCHANGED <<disk, remote, fsEvent, deferred, remoteChanged,
                       upload, download, dirent>>

-----------------------------------------------------------------------------
(* Leaving an account, or the client.                                      *)

\* cleanCachedFile and removeCloudFileBrowserCache.
\* Mutant: the file is removed because there is a row for it.
CleansAll == Exists /\ HasEntry
CleansFile == HasEntry /\ Unmodified
CleanCachedFile ==
    /\ download' = NoDownload
    /\ watch' = NoInfo
    /\ IF CleansFile THEN local' = NoFile /\ entry' = NoEntry
       ELSE UNCHANGED <<local, entry>>
    /\ UNCHANGED clock

\* toggleAccount.  The uploads go on.
Logout ==
    /\ CleanCachedFile
    /\ watching' = (watching /\ local'.data # 0)
    /\ fsEvent' = (fsEvent \/ watching # watching')
    /\ UNCHANGED <<remote, deferred, remoteChanged, upload, repoReqs, dirent>>

\* The client ends, orderly (systemShutDown) or not, and is started again.
Restart ==
    /\ CleanCachedFile
    /\ watching' = FALSE /\ fsEvent' = FALSE
    /\ deferred' = <<>>
    /\ remoteChanged' = FALSE
    /\ upload' = [u \in Uploads |-> NoUpload]
    /\ repoReqs' = {}
    /\ UNCHANGED <<remote, dirent>>

-----------------------------------------------------------------------------

Environment == Edit \/ Replace \/ Remove \/ Recreate \/ ServerChanges

Next ==
    \/ Environment /\ opened' = FALSE
    \/ Refresh /\ opened' = FALSE
    \/ OpenCached /\ opened' = TRUE
    \/ OpenRemote /\ opened' = FALSE
    \/ DownloadWrites /\ opened' = FALSE
    \/ DownloadEnds /\ opened' = FALSE
    \/ DownloadSucceeds /\ opened' = FALSE
    \/ OnGetRepoSuccess /\ opened' = FALSE
    \/ OnGetRepoFailed /\ opened' = FALSE
    \/ FileChanged /\ opened' = FALSE
    \/ CheckFileRecreated /\ opened' = FALSE
    \/ Reupload /\ opened' = FALSE
    \/ (\E u \in Uploads : UploadReads(u)) /\ opened' = FALSE
    \/ (\E u \in Uploads : ServerTakes(u)) /\ opened' = FALSE
    \/ (\E u \in Uploads : \E success \in BOOLEAN : OnUpdateTaskFinished(u, success))
       /\ opened' = FALSE
    \/ OnGetRepoSuccessAfterUpload /\ opened' = FALSE
    \/ Logout /\ opened' = FALSE
    \/ Restart /\ opened' = FALSE

Spec == Init /\ [][Next]_vars

\* The event loop delivers what it holds, requests and uploads end, timers fire.
Fairness ==
    /\ WF_vars(FileChanged /\ opened' = FALSE)
    /\ WF_vars(CheckFileRecreated /\ opened' = FALSE)
    /\ WF_vars((OnGetRepoSuccess \/ OnGetRepoSuccessAfterUpload \/ OnGetRepoFailed)
               /\ opened' = FALSE)
    /\ \A u \in Uploads :
           WF_vars((\E success \in BOOLEAN : OnUpdateTaskFinished(u, success))
                   /\ opened' = FALSE)
    /\ WF_vars((DownloadEnds \/ DownloadSucceeds) /\ opened' = FALSE)

FairSpec == Spec /\ Fairness

-----------------------------------------------------------------------------
(* Properties.                                                             *)

\* The client replaces or removes the cached file by itself only if the server
\* has its content, unless that was written while a transfer or a GetRepo
\* request was under way or FileCache had no row.
NoEditLost ==
    [][(DownloadWrites \/ Logout \/ Restart) /\ local' # local
           => local.data \in kept \cup {0} \/ ~local.safe]_vars

\* A file shown as synced is the one of the listing, with the same exception.
SyncedIsTrue == FileStatus = "SYNCED" /\ local.safe => local.data = dirent

\* An edit that is signalled to the manager gets to the server, or the user is told that it
\* did not, unless the file changes again, the server has another version, or
\* the manager is told to forget the file.
EditIsAnswered ==
    \A m \in Data :
        (fsEvent /\ local.mtime = m /\ local.safe /\ watch.named /\ watch.mtime # m)
            ~> (\/ local.mtime # m
                \/ local.data \in kept
                \/ local.reported
                \/ remoteChanged
                \/ ~watch.here)

\* "Local cache is consistent with the version on the server": without the
\* exception.  The time in the row is read after GetRepo was answered, and by
\* then the file may be another one than was transferred.
SyncedIsConsistent == FileStatus = "SYNCED" => local.data = dirent

\* "The file is being auto-uploaded", or the manager will still hear of it.
UploadingIsUploaded ==
    FileStatus = "UPLOADING" => \/ \E u \in Uploads : upload[u].st # "none"
                                \/ fsEvent \/ deferred # <<>>

\* "double-checked the watch, since it might fails sometime": a cached file that
\* has just been opened is watched, unless the manager is still busy with it.
OpenedIsWatched ==
    opened => \/ watching \/ fsEvent \/ deferred # <<>> \/ repoReqs # {}
              \/ \E u \in Uploads : upload[u].st # "none"

\* "If the file is also updated locally, open it directly": no download is
\* started for a file whose content only exists here.
ChangedFileIsOpened == [][OpenRemote => local.data \in kept \cup {0}]_vars

\* "force replace existing files on server": an upload knows its repo and path.
UploadNamesItsFile == \A u \in Uploads : upload[u].st # "none" => upload[u].named
=============================================================================
