-------------------------- MODULE AutoUpdateProofs --------------------------
(***************************************************************************)
(* The safety properties of AutoUpdate hold for any number of uploads and  *)
(* of contents written.                                                    *)
(***************************************************************************)
EXTENDS AutoUpdate, TLAPS

\* The times recorded for the file are not in the future.
ClockInv == local.mtime <= clock /\ entry.mtime <= clock

\* What was transferred, or is being downloaded, is on the server.
Kept == kept \cup {0}

KeptInv ==
    /\ server \in kept
    /\ entry.id \in Kept
    /\ download.data \in Kept
    /\ \A req \in repoReqs : req.id \in Kept
    /\ \A u \in Uploads : upload[u].st = "taken" => upload[u].data \in Kept

\* Every transfer that is not in FileCache yet is one of the content of the file,
\* if nothing was under way when that was written.
TransfersInv ==
    /\ \A u \in Uploads : upload[u].st \in {"sent", "taken"} => upload[u].data = local.data
    /\ \A req \in repoReqs : req.id = local.data
    /\ download.st = "written" => download.data = local.data

\* Such a content has the id of the row if it has its time; without a row it was
\* downloaded, and what a running download replaces is on the server.
ContentInv ==
    /\ HasEntry /\ Unmodified => local.data = entry.id
    /\ ~HasEntry \/ download.st = "running" => local.data \in kept

SafeInv == Exists /\ local.safe => TransfersInv /\ ContentInv

IInv == TypeOK /\ ClockInv /\ KeptInv /\ SafeInv

-----------------------------------------------------------------------------
(* The types.                                                              *)

LocalFiles == [data : Times, mtime : Times, safe : BOOLEAN, reported : BOOLEAN]
UploadTasks == [st : {"none", "started", "sent", "taken"}, named : BOOLEAN,
                base : Times, data : Times]
Downloads == [st : {"none", "running", "written"}, data : Times]
Requests == [from : {"download", "upload"}, id : Times]

LEMMA ConstantTypes ==
    /\ Data \subseteq Times /\ 0 \in Times /\ 1 \in Data /\ Times \subseteq Nat
    /\ NoFile \in LocalFiles /\ NoInfo \in WatchInfos
    /\ NoUpload \in UploadTasks /\ NoDownload \in Downloads
  BY MaxWritesAssumption
  DEF Data, Times, NoFile, LocalFiles, NoInfo, WatchInfos, NoUpload, UploadTasks,
      NoDownload, Downloads

LEMMA WriteLocalTypes ==
    ASSUME TypeOK, NEW d \in Times, WriteLocal(d)
    PROVE  /\ clock' \in Data /\ clock' = clock + 1
           /\ local' \in LocalFiles
           /\ local'.data = d /\ local'.mtime = clock + 1
<1>1. clock' \in Data /\ clock' = clock + 1 /\ clock + 1 \in Times
  BY MaxWritesAssumption DEF TypeOK, WriteLocal, Data, Times
<1>2. PICK s \in BOOLEAN : local' = [data |-> d, mtime |-> clock + 1, safe |-> s, reported |-> FALSE]
  BY DEF WriteLocal
<1> QED
  BY <1>1, <1>2 DEF LocalFiles

LEMMA WatchCachedFileTypes ==
    ASSUME TypeOK, WatchCachedFile
    PROVE  /\ watch' \in WatchInfos
           /\ watching' \in BOOLEAN /\ (watching' => Exists)
<1>1. CASE UNCHANGED <<watch, watching>>
  BY <1>1 DEF TypeOK
<1>2. CASE /\ Exists /\ watching' = TRUE
           /\ watch' = [here |-> TRUE, named |-> TRUE, mtime |-> local.mtime, uploading |-> FALSE]
  BY <1>2 DEF TypeOK, WatchInfos
<1> QED
  BY <1>1, <1>2 DEF WatchCachedFile

LEMMA SavedEntryType ==
    ASSUME TypeOK, NEW id \in Times
    PROVE  SavedEntry(id) \in Entries
  BY DEF TypeOK, SavedEntry, Entries

LEMMA EntryFields ==
    ASSUME TypeOK
    PROVE  entry.id \in Times /\ entry.mtime \in Times /\ entry.commit \in Times
<1>1. entry \in Entries \cup {NoEntry} /\ Data \subseteq Times /\ 0 \in Times
  BY ConstantTypes DEF TypeOK
<1> QED
  BY <1>1 DEF Entries, NoEntry

\* An upload that starts has transferred nothing.
StartsOnly ==
    \A u \in Uploads :
        \/ upload'[u] = upload[u]
        \/ /\ upload'[u].data = 0
           /\ upload'[u].st = IF Exists THEN "started" ELSE "sent"

LEMMA UploadFileTypes ==
    ASSUME TypeOK, NEW info \in WatchInfos, NEW base \in Times, UploadFile(info, base)
    PROVE  /\ upload' \in [Uploads -> UploadTasks]
           /\ watch' \in WatchInfos
           /\ StartsOnly
<1>1. PICK u \in Uploads :
          /\ upload' = [upload EXCEPT ![u] =
                 [st |-> IF Exists THEN "started" ELSE "sent",
                  named |-> info.named, base |-> IF info.named THEN base ELSE 0, data |-> 0]]
          /\ watch' = [info EXCEPT !.uploading = TRUE]
  BY DEF UploadFile
<1>2. PICK task : task = [st |-> IF Exists THEN "started" ELSE "sent",
                  named |-> info.named, base |-> IF info.named THEN base ELSE 0, data |-> 0]
  OBVIOUS
<1>3. task \in UploadTasks /\ task.data = 0
      /\ task.st = IF Exists THEN "started" ELSE "sent"
  BY <1>2, ConstantTypes DEF WatchInfos, UploadTasks
<1>4. upload' = [upload EXCEPT ![u] = task] /\ upload \in [Uploads -> UploadTasks]
  BY <1>1, <1>2 DEF TypeOK, UploadTasks
<1>5. StartsOnly
  BY <1>3, <1>4 DEF StartsOnly
<1>6. watch' \in WatchInfos
  BY <1>1 DEF WatchInfos
<1>7. upload' \in [Uploads -> UploadTasks]
  BY <1>3, <1>4
<1> QED
  BY <1>5, <1>6, <1>7

LEMMA OnFileChangedTypes ==
    ASSUME TypeOK, NEW info \in WatchInfos, NEW queue \in Seq(WatchInfos),
           NEW in \in BOOLEAN, in => Exists, OnFileChanged(info, queue, in)
    PROVE  /\ upload' \in [Uploads -> UploadTasks]
           /\ watch' \in WatchInfos
           /\ deferred' \in Seq(WatchInfos)
           /\ watching' \in BOOLEAN /\ (watching' => Exists)
           /\ StartsOnly
<1>1. CASE /\ ~IsNew(info)
           /\ watch' = info /\ deferred' = queue /\ watching' = in
           /\ UNCHANGED upload
  BY <1>1 DEF TypeOK, UploadTasks, StartsOnly
<1>2. CASE /\ IsNew(info) /\ ~Exists
           /\ watch' = NoInfo /\ watching' = FALSE
           /\ deferred' = Append(queue, info)
           /\ UNCHANGED upload
  <2>1. upload \in [Uploads -> UploadTasks]
    BY DEF TypeOK, UploadTasks
  <2>2. Append(queue, info) \in Seq(WatchInfos)
    OBVIOUS
  <2> QED
    BY <1>2, <2>1, <2>2, ConstantTypes DEF StartsOnly
<1>3. CASE /\ IsNew(info) /\ Exists
           /\ watching' = FALSE
           /\ deferred' = queue
           /\ UploadFile(info, entry.commit)
  <2>1. PICK base \in Times : base = entry.commit
    BY EntryFields
  <2>2. UploadFile(info, base)
    BY <1>3, <2>1
  <2> QED
    BY <1>3, <2>2, UploadFileTypes
<1> QED
  BY <1>1, <1>2, <1>3 DEF OnFileChanged

\* TypeOK in the words of this section.
Types ==
    /\ clock \in Data /\ server \in Data /\ kept \subseteq Data
    /\ local \in LocalFiles
    /\ entry \in Entries \cup {NoEntry}
    /\ watch \in WatchInfos
    /\ watching \in BOOLEAN /\ (watching => Exists)
    /\ fsEvent \in BOOLEAN
    /\ deferred \in Seq(WatchInfos)
    /\ remoteChanged \in BOOLEAN
    /\ upload \in [Uploads -> UploadTasks]
    /\ download \in Downloads
    /\ repoReqs \subseteq Requests
    /\ dirent \in Data
    /\ opened \in BOOLEAN

LEMMA TypesAreTypeOK == (TypeOK <=> Types) /\ (TypeOK' <=> Types')
  BY DEF TypeOK, Types, LocalFiles, UploadTasks, Downloads, Requests

-----------------------------------------------------------------------------
(* Every step preserves the types.                                         *)

LEMMA EnvironmentTypes ==
    ASSUME TypeOK, Environment, opened' = FALSE
    PROVE  TypeOK'
<1> USE TypesAreTypeOK
<1>1. CASE Edit
  <2>1. PICK d : d = clock + 1
    OBVIOUS
  <2>2. d \in Times /\ WriteLocal(d) /\ d # 0
    BY <1>1, <2>1, MaxWritesAssumption DEF Edit, WriteLocal, TypeOK, Data, Times
  <2> QED
    BY <1>1, <2>2, WriteLocalTypes DEF Edit, Types, remote, Exists
<1>2. CASE Replace
  <2>1. PICK d : d = clock + 1
    OBVIOUS
  <2>2. d \in Times /\ WriteLocal(d) /\ d # 0
    BY <1>2, <2>1, MaxWritesAssumption DEF Replace, WriteLocal, TypeOK, Data, Times
  <2> QED
    BY <1>2, <2>2, WriteLocalTypes DEF Replace, Types, remote, Exists
<1>3. CASE Remove
  BY <1>3, ConstantTypes DEF Remove, Types, remote, Exists
<1>4. CASE Recreate
  <2>1. PICK d : d = clock + 1
    OBVIOUS
  <2>2. d \in Times /\ WriteLocal(d) /\ d # 0
    BY <1>4, <2>1, MaxWritesAssumption DEF Recreate, WriteLocal, TypeOK, Data, Times
  <2> QED
    BY <1>4, <2>2, WriteLocalTypes DEF Recreate, Types, remote, Exists, manager
<1>5. CASE ServerChanges
  <2>1. clock + 1 \in Data
    BY <1>5, MaxWritesAssumption DEF ServerChanges, TypeOK, Data
  <2> QED
    BY <1>5, <2>1 DEF ServerChanges, Types, manager, Exists
<1> QED
  BY <1>1, <1>2, <1>3, <1>4, <1>5 DEF Environment

LEMMA BrowserTypes ==
    ASSUME TypeOK, Refresh \/ OpenCached \/ OpenRemote, opened' \in BOOLEAN
    PROVE  TypeOK'
<1> USE TypesAreTypeOK
<1>1. CASE Refresh
  <2>1. RemoteChangedAfter(dirent') \in BOOLEAN
    BY DEF RemoteChangedAfter, TypeOK
  <2> QED
    BY <1>1, <2>1 DEF Refresh, Types, disk, remote, Exists
<1>2. CASE OpenCached
  BY <1>2, WatchCachedFileTypes DEF OpenCached, Types, disk, remote, Exists
<1>3. CASE OpenRemote
  <2>1. download' \in Downloads
    BY <1>3, ConstantTypes DEF OpenRemote, Downloads, Types
  <2> QED
    BY <1>3, <2>1, ConstantTypes DEF OpenRemote, Types, disk, remote, Exists
<1> QED
  BY <1>1, <1>2, <1>3

LEMMA DownloadTypes ==
    ASSUME TypeOK, opened' = FALSE,
           \/ DownloadWrites \/ DownloadEnds \/ DownloadSucceeds
           \/ OnGetRepoSuccess \/ OnGetRepoFailed
    PROVE  TypeOK'
<1> USE TypesAreTypeOK
<1>1. download.data \in Times /\ clock \in Nat
  BY DEF Types, Downloads, Data
<1>2. CASE DownloadWrites
  <2>1. PICK s \in BOOLEAN : local' = [data |-> download.data, mtime |-> clock + 1,
                                      safe |-> s, reported |-> FALSE]
    BY <1>2 DEF DownloadWrites
  <2>2. clock' \in Data /\ clock + 1 \in Times /\ clock' = clock + 1
    BY <1>2, MaxWritesAssumption DEF DownloadWrites, Types, Data, Times
  <2>3. local' \in LocalFiles
    BY <1>1, <2>1, <2>2 DEF LocalFiles
  <2>4. download' \in Downloads
    BY <1>2 DEF DownloadWrites, Types, Downloads
  <2> QED
    BY <1>2, <2>2, <2>3, <2>4 DEF DownloadWrites, Types, remote, Exists
<1>3. CASE DownloadEnds
  BY <1>3, ConstantTypes DEF DownloadEnds, Types, disk, remote, manager, Exists
<1>4. CASE DownloadSucceeds
  <2>1. [from |-> "download", id |-> download.data] \in Requests
    BY <1>1 DEF Requests
  <2> QED
    BY <1>4, <2>1, ConstantTypes DEF DownloadSucceeds, Types, disk, remote, manager, Exists
<1>5. CASE OnGetRepoSuccess
  <2>1. PICK req \in repoReqs : /\ repoReqs' = repoReqs \ {req}
                               /\ entry' = SavedEntry(req.id)
    BY <1>5 DEF OnGetRepoSuccess
  <2>2. PICK id \in Times : entry' = SavedEntry(id)
    BY <2>1 DEF Types, Requests
  <2>3. entry' \in Entries
    BY <2>2, SavedEntryType
  <2> QED
    BY <1>5, <2>1, <2>3, WatchCachedFileTypes DEF OnGetRepoSuccess, Types, disk, remote, Exists
<1>6. CASE OnGetRepoFailed
  <2>1. /\ repoReqs' \subseteq repoReqs
        /\ UNCHANGED <<disk, remote, entry, manager, upload, download, dirent>>
    BY <1>6 DEF OnGetRepoFailed
  <2> QED
    BY <2>1 DEF Types, disk, remote, manager, Exists
<1> QED
  BY <1>2, <1>3, <1>4, <1>5, <1>6

LEMMA InfoOrNewTypes ==
    ASSUME TypeOK
    PROVE  InfoOrNew \subseteq WatchInfos
<1>1. watch \in WatchInfos /\ {0, local.mtime} \subseteq Times
  BY TypesAreTypeOK, ConstantTypes DEF Types, LocalFiles
<1>2. \A m \in Times : [here |-> TRUE, named |-> FALSE, mtime |-> m, uploading |-> FALSE] \in WatchInfos
  BY DEF WatchInfos
<1> QED
  BY <1>1, <1>2 DEF InfoOrNew

LEMMA ManagerTypes ==
    ASSUME TypeOK, opened' = FALSE, FileChanged \/ CheckFileRecreated \/ Reupload
    PROVE  TypeOK'
<1> USE TypesAreTypeOK
<1>1. CASE FileChanged
  <2>1. PICK info \in WatchInfos, queue \in Seq(WatchInfos), in \in BOOLEAN :
            info = watch /\ queue = deferred /\ in = watching
    BY DEF Types
  <2>2. OnFileChanged(info, queue, in) /\ (in => Exists)
    BY <1>1, <2>1 DEF FileChanged, Types
  <2> QED
    BY <1>1, <2>2, OnFileChangedTypes DEF FileChanged, Types, disk, remote, Exists
<1>2. CASE CheckFileRecreated
  <2>1. PICK info \in WatchInfos, queue \in Seq(WatchInfos) :
            info = Head(deferred) /\ queue = Tail(deferred)
    <3>1. deferred \in Seq(WatchInfos) /\ deferred # <<>>
      BY <1>2 DEF CheckFileRecreated, Types
    <3>2. Head(deferred) \in WatchInfos /\ Tail(deferred) \in Seq(WatchInfos)
      BY <3>1
    <3> QED
      BY <3>2
  <2>2. CASE Exists /\ OnFileChanged(info, queue, TRUE)
    BY <1>2, <2>2, OnFileChangedTypes DEF CheckFileRecreated, Types, disk, remote, Exists
  <2>3. CASE deferred' = queue /\ UNCHANGED <<watch, watching, upload>>
    BY <1>2, <2>3 DEF CheckFileRecreated, Types, disk, remote, Exists
  <2> QED
    BY <1>2, <2>1, <2>2, <2>3 DEF CheckFileRecreated
<1>3. CASE Reupload
  <2>1. PICK info \in WatchInfos : UploadFile(info, 0)
    BY <1>3, InfoOrNewTypes DEF Reupload
  <2> QED
    BY <1>3, <2>1, UploadFileTypes, ConstantTypes DEF Reupload, Types, disk, remote, Exists
<1> QED
  BY <1>1, <1>2, <1>3

LEMMA AddPathTypes ==
    ASSUME TypeOK, AddPath
    PROVE  watching' \in BOOLEAN /\ (watching' => Exists)
  BY DEF TypeOK, AddPath

LEMMA UploadTypes ==
    ASSUME TypeOK, opened' = FALSE, NEW u \in Uploads,
           \/ UploadReads(u) \/ ServerTakes(u)
           \/ \E success \in BOOLEAN : OnUpdateTaskFinished(u, success)
    PROVE  TypeOK'
<1> USE TypesAreTypeOK
<1>1. CASE UploadReads(u)
  <2>1. upload' \in [Uploads -> UploadTasks]
    <3>1. PICK task : task = [upload[u] EXCEPT !.st = "sent", !.data = local.data]
      OBVIOUS
    <3>2. upload' = [upload EXCEPT ![u] = task]
      BY <1>1, <3>1 DEF UploadReads
    <3>3. upload[u] \in UploadTasks /\ upload \in [Uploads -> UploadTasks]
      BY DEF Types
    <3>4. local.data \in Times
      BY DEF Types, LocalFiles
    <3>5. task \in UploadTasks
      BY <3>1, <3>3, <3>4 DEF UploadTasks
    <3> QED
      BY <3>2, <3>3, <3>5
  <2> QED
    BY <1>1, <2>1 DEF UploadReads, Types, disk, remote, manager, Exists
<1>2. CASE ServerTakes(u)
  <2>1. upload' \in [Uploads -> UploadTasks]
    BY <1>2 DEF ServerTakes, Types, UploadTasks
  <2>2. upload[u].data \in Times
    BY DEF Types, UploadTasks
  <2>3. kept' \subseteq Data /\ server' \in Data
    BY <1>2, <2>2, MaxWritesAssumption DEF ServerTakes, Types, Times, Data, remote
  <2> QED
    BY <1>2, <2>1, <2>3 DEF ServerTakes, Types, disk, manager, Exists
<1>3. CASE \E success \in BOOLEAN : OnUpdateTaskFinished(u, success)
  <2>1. PICK success \in BOOLEAN : OnUpdateTaskFinished(u, success)
    BY <1>3
  <2>2. upload' \in [Uploads -> UploadTasks]
    BY <2>1, ConstantTypes DEF OnUpdateTaskFinished, Types
  <2>3. PICK r \in BOOLEAN : local' = [local EXCEPT !.reported = r]
    <3>1. local.reported \in BOOLEAN
      BY DEF Types, LocalFiles
    <3> QED
      BY <2>1, <3>1 DEF OnUpdateTaskFinished
  <2>4. local' \in LocalFiles /\ local'.data = local.data
    BY <2>3 DEF Types, LocalFiles
  <2>5. watch' \in WatchInfos
    BY <2>1 DEF OnUpdateTaskFinished, Types, WatchInfos
  <2>6. upload[u].data \in Times
    BY DEF Types, UploadTasks
  <2>7. [from |-> "upload", id |-> upload[u].data] \in Requests
    BY <2>6 DEF Requests
  <2>8. repoReqs' \subseteq Requests
    BY <2>1, <2>7 DEF OnUpdateTaskFinished, Types
  <2>9. watching' \in BOOLEAN /\ (watching' => Exists)
    BY <2>1, AddPathTypes DEF OnUpdateTaskFinished, Types
  <2> QED
    BY <2>1, <2>2, <2>4, <2>5, <2>8, <2>9 DEF OnUpdateTaskFinished, Types, remote, Exists
<1> QED
  BY <1>1, <1>2, <1>3

LEMMA LeavingTypes ==
    ASSUME TypeOK, opened' = FALSE, OnGetRepoSuccessAfterUpload \/ Logout \/ Restart
    PROVE  TypeOK'
<1> USE TypesAreTypeOK
<1>1. CASE OnGetRepoSuccessAfterUpload
  <2>1. PICK req \in repoReqs : /\ repoReqs' = repoReqs \ {req}
                               /\ \E info \in InfoOrNew : watch' = [info EXCEPT !.mtime = local.mtime]
                               /\ entry' = SavedEntry(req.id)
    BY <1>1 DEF OnGetRepoSuccessAfterUpload
  <2>2. PICK id \in Times : entry' = SavedEntry(id)
    BY <2>1 DEF Types, Requests
  <2>3. entry' \in Entries
    BY <2>2, SavedEntryType
  <2>4. PICK info \in WatchInfos : watch' = [info EXCEPT !.mtime = local.mtime]
    BY <2>1, InfoOrNewTypes
  <2>5. watch' \in WatchInfos
    BY <2>4 DEF Types, WatchInfos, LocalFiles
  <2>6. watching' \in BOOLEAN /\ (watching' => Exists)
    BY <1>1, AddPathTypes DEF OnGetRepoSuccessAfterUpload
  <2> QED
    BY <1>1, <2>1, <2>3, <2>5, <2>6 DEF OnGetRepoSuccessAfterUpload, Types, disk, remote, Exists
<1>2. ASSUME CleanCachedFile
      PROVE  /\ local' \in LocalFiles /\ entry' \in Entries \cup {NoEntry}
             /\ clock' = clock /\ download' \in Downloads /\ watch' \in WatchInfos
  BY <1>2, ConstantTypes DEF CleanCachedFile, Types
<1>3. CASE Logout
  <2>1. watching' \in BOOLEAN /\ (watching' => local'.data # 0)
    BY <1>3 DEF Logout, Types
  <2>2. fsEvent' \in BOOLEAN
    BY <1>3 DEF Logout, Types
  <2> QED
    BY <1>2, <1>3, <2>1, <2>2 DEF Logout, Types, remote, Exists
<1>4. CASE Restart
  <2>1. upload' \in [Uploads -> UploadTasks]
    BY <1>4, ConstantTypes DEF Restart
  <2>2. <<>> \in Seq(WatchInfos)
    OBVIOUS
  <2>3. local' \in LocalFiles /\ entry' \in Entries \cup {NoEntry}
        /\ clock' = clock /\ download' \in Downloads /\ watch' \in WatchInfos
    BY <1>2, <1>4 DEF Restart
  <2> QED
    BY <1>4, <2>1, <2>2, <2>3 DEF Restart, Types, remote
<1> QED
  BY <1>1, <1>3, <1>4

-----------------------------------------------------------------------------
(* Every step preserves the rest of the invariant.                         *)

Rest == ClockInv /\ KeptInv /\ SafeInv

\* A content that is new cannot be taken for the one of the row.
LEMMA WriteLocalRest ==
    ASSUME IInv, NEW d \in Times, WriteLocal(d),
           UNCHANGED <<remote, entry, upload, download, repoReqs>>
    PROVE  Rest'
<1>1. clock \in Nat /\ entry.mtime \in Nat
  BY EntryFields DEF IInv, TypeOK, Data, Times
<1>2. PICK s \in BOOLEAN : /\ s <=> HasEntry /\ ~Unrecorded /\ download = NoDownload
                          /\ local' = [data |-> d, mtime |-> clock + 1, safe |-> s, reported |-> FALSE]
  BY DEF WriteLocal
<1>3. clock' = clock + 1 /\ local'.mtime = clock + 1
  BY <1>2 DEF WriteLocal
<1>4. ClockInv'
  BY <1>1, <1>3 DEF IInv, ClockInv
<1>5. KeptInv'
  BY DEF IInv, KeptInv, Kept, remote
<1>6. ASSUME local'.safe PROVE TransfersInv' /\ ContentInv'
  <2>1. HasEntry /\ ~Unrecorded /\ download = NoDownload
    BY <1>2, <1>6
  <2>2. TransfersInv'
    BY <2>1 DEF Unrecorded, TransfersInv, NoDownload
  <2>3. ~Unmodified'
    BY <1>1, <1>3 DEF IInv, ClockInv, Unmodified
  <2>4. HasEntry' /\ download'.st # "running"
    BY <2>1 DEF HasEntry, NoDownload
  <2> QED
    BY <2>2, <2>3, <2>4 DEF ContentInv
<1> QED
  BY <1>4, <1>5, <1>6 DEF Rest, SafeInv

LEMMA EnvironmentRest ==
    ASSUME IInv, Environment
    PROVE  Rest'
<1>1. PICK d : d = clock + 1
  OBVIOUS
<1>2. clock < MaxWrites => d \in Times
  BY <1>1, MaxWritesAssumption DEF IInv, TypeOK, Data, Times
<1>3. CASE Edit
  BY <1>1, <1>2, <1>3, WriteLocalRest DEF Edit, WriteLocal
<1>4. CASE Replace
  BY <1>1, <1>2, <1>4, WriteLocalRest DEF Replace, WriteLocal
<1>5. CASE Recreate
  BY <1>1, <1>2, <1>5, WriteLocalRest DEF Recreate, WriteLocal
<1>6. CASE Remove
  <2>1. ~Exists' /\ local'.mtime = 0 /\ clock' = clock
    BY <1>6 DEF Remove, NoFile, Exists
  <2>2. clock \in Nat
    BY DEF IInv, TypeOK, Data
  <2> QED
    BY <1>6, <2>1, <2>2 DEF Remove, Rest, IInv, ClockInv, KeptInv, SafeInv, Kept, remote
<1>7. CASE ServerChanges
  <2>1. kept \subseteq kept' /\ server' \in kept' /\ Kept \subseteq Kept'
    BY <1>7 DEF ServerChanges, Kept
  <2>2. ClockInv'
    BY <1>7, EntryFields, TypesAreTypeOK
    DEF ServerChanges, IInv, ClockInv, Types, LocalFiles, Times, Data
  <2>3. KeptInv'
    BY <1>7, <2>1 DEF ServerChanges, IInv, KeptInv
  <2>4. SafeInv'
    BY <1>7, <2>1
    DEF ServerChanges, IInv, SafeInv, Exists, TransfersInv, ContentInv, HasEntry, Unmodified
  <2> QED
    BY <2>2, <2>3, <2>4 DEF Rest
<1> QED
  BY <1>3, <1>4, <1>5, <1>6, <1>7 DEF Environment

\* A file that is downloaded has no row, or the row says what it is.
LEMMA BrowserRest ==
    ASSUME IInv, Refresh \/ OpenCached \/ OpenRemote
    PROVE  Rest'
<1>1. CASE Refresh \/ OpenCached
  <2>1. UNCHANGED <<disk, remote, entry, upload, download, repoReqs>>
    BY <1>1 DEF Refresh, OpenCached
  <2> QED
    BY <2>1
    DEF disk, remote, IInv, Rest, ClockInv, KeptInv, Kept, SafeInv, Exists, TransfersInv,
        ContentInv, HasEntry, Unmodified
<1>2. CASE OpenRemote
  <2>1. /\ UNCHANGED <<disk, remote, entry, upload, repoReqs>>
        /\ download' = [st |-> "running", data |-> server]
        /\ ~CachedIsUsed
    BY <1>2 DEF OpenRemote
  <2>2. ClockInv' /\ KeptInv'
    BY <2>1 DEF disk, remote, IInv, ClockInv, KeptInv, Kept
  <2>3. ASSUME Exists, local.safe PROVE TransfersInv' /\ ContentInv'
    <3>1. TransfersInv'
      BY <2>1, <2>3 DEF disk, IInv, SafeInv, TransfersInv
    <3>2. local.data \in kept
      <4>1. CASE ~HasEntry
        BY <2>3, <4>1 DEF IInv, SafeInv, ContentInv
      <4>2. CASE HasEntry
        <5>1. Unmodified
          BY <2>1, <2>3, <4>2 DEF CachedIsUsed
        <5>2. local.data = entry.id /\ local.data # 0
          BY <2>3, <4>2, <5>1 DEF IInv, SafeInv, ContentInv, Exists
        <5> QED
          BY <5>2 DEF IInv, KeptInv, Kept
      <4> QED
        BY <4>1, <4>2
    <3>3. ContentInv'
      BY <2>1, <2>3, <3>2 DEF disk, remote, IInv, SafeInv, ContentInv, HasEntry, Unmodified
    <3> QED
      BY <3>1, <3>3
  <2>4. SafeInv'
    BY <2>1, <2>3 DEF disk, SafeInv, Exists
  <2> QED
    BY <2>2, <2>4 DEF Rest
<1> QED
  BY <1>1, <1>2

LEMMA DownloadRest ==
    ASSUME IInv, DownloadWrites \/ DownloadEnds \/ DownloadSucceeds
    PROVE  Rest'
<1>1. CASE DownloadWrites
  <2>1. PICK s \in BOOLEAN : /\ s <=> ~Unrecorded
                            /\ local' = [data |-> download.data, mtime |-> clock + 1,
                                        safe |-> s, reported |-> FALSE]
    BY <1>1 DEF DownloadWrites
  <2>2. /\ clock' = clock + 1 /\ clock \in Nat /\ entry.mtime \in Nat
        /\ UNCHANGED <<remote, entry, upload, repoReqs>>
    BY <1>1, EntryFields DEF DownloadWrites, IInv, TypeOK, Data, Times
  <2>3. download'.st = "written" /\ download'.data = download.data
    BY <1>1, TypesAreTypeOK DEF DownloadWrites, IInv, Types, Downloads
  <2>4. ClockInv' /\ ~Unmodified'
    BY <2>1, <2>2 DEF IInv, ClockInv, Unmodified
  <2>5. KeptInv'
    BY <2>2, <2>3 DEF remote, IInv, KeptInv, Kept
  <2>6. ASSUME Exists', local'.safe PROVE TransfersInv' /\ ContentInv'
    <3>1. ~Unrecorded /\ local'.data = download.data
      BY <2>1, <2>6
    <3>2. TransfersInv'
      BY <2>2, <2>3, <3>1 DEF Unrecorded, TransfersInv
    <3>3. local'.data \in kept'
      BY <2>2, <2>6, <3>1 DEF remote, IInv, KeptInv, Kept, Exists
    <3> QED
      BY <2>4, <3>2, <3>3 DEF ContentInv
  <2> QED
    BY <2>4, <2>5, <2>6 DEF Rest, SafeInv
<1>2. CASE DownloadEnds
  BY <1>2
  DEF DownloadEnds, NoDownload, disk, remote, IInv, Rest, ClockInv, KeptInv, Kept, SafeInv,
      Exists, TransfersInv, ContentInv, HasEntry, Unmodified
<1>3. CASE DownloadSucceeds
  <2>1. /\ UNCHANGED <<disk, remote, entry, upload>>
        /\ download.st = "written" /\ download' = NoDownload
        /\ \A req \in repoReqs' : req \in repoReqs \/ req.id = download.data
    BY <1>3 DEF DownloadSucceeds
  <2>2. ClockInv' /\ KeptInv'
    BY <2>1 DEF NoDownload, disk, remote, IInv, ClockInv, KeptInv, Kept
  <2>3. SafeInv'
    BY <2>1
    DEF NoDownload, disk, remote, IInv, SafeInv, Exists, TransfersInv, ContentInv, HasEntry, Unmodified
  <2> QED
    BY <2>2, <2>3 DEF Rest
<1> QED
  BY <1>1, <1>2, <1>3

\* The row says what was transferred, and the time of the file; if that has not
\* been written since, it is the file that was transferred.
LEMMA SavedRest ==
    ASSUME IInv, NEW req \in repoReqs, repoReqs' = repoReqs \ {req},
           entry' = SavedEntry(req.id), UNCHANGED <<disk, remote, upload, download>>
    PROVE  Rest'
<1>1. entry'.id = req.id /\ entry'.mtime = local.mtime /\ HasEntry'
  <2>1. server \in Data
    BY DEF IInv, TypeOK
  <2> QED
    BY <2>1 DEF SavedEntry, HasEntry, NoEntry, Data
<1>2. ClockInv' /\ KeptInv'
  BY <1>1 DEF disk, remote, IInv, ClockInv, KeptInv, Kept
<1>3. ASSUME Exists, local.safe PROVE TransfersInv' /\ ContentInv'
  <2>1. TransfersInv /\ ContentInv
    BY <1>3 DEF IInv, SafeInv
  <2>2. TransfersInv'
    BY <2>1 DEF disk, TransfersInv
  <2>3. ContentInv'
    BY <1>1, <2>1 DEF disk, remote, TransfersInv, ContentInv
  <2> QED
    BY <2>2, <2>3
<1>4. SafeInv'
  BY <1>3 DEF disk, SafeInv, Exists
<1> QED
  BY <1>2, <1>4 DEF Rest

LEMMA AnswerRest ==
    ASSUME IInv, OnGetRepoSuccess \/ OnGetRepoFailed \/ OnGetRepoSuccessAfterUpload
    PROVE  Rest'
<1>1. CASE OnGetRepoSuccess
  <2>1. PICK req \in repoReqs :
            /\ repoReqs' = repoReqs \ {req} /\ entry' = SavedEntry(req.id)
            /\ UNCHANGED <<disk, remote, upload, download>>
    BY <1>1 DEF OnGetRepoSuccess
  <2> QED
    BY <2>1, SavedRest
<1>2. CASE OnGetRepoSuccessAfterUpload
  <2>1. PICK req \in repoReqs :
            /\ repoReqs' = repoReqs \ {req} /\ entry' = SavedEntry(req.id)
            /\ UNCHANGED <<disk, remote, upload, download>>
    BY <1>2 DEF OnGetRepoSuccessAfterUpload
  <2> QED
    BY <2>1, SavedRest
<1>3. CASE OnGetRepoFailed
  <2>1. repoReqs' \subseteq repoReqs /\ UNCHANGED <<disk, remote, entry, upload, download>>
    BY <1>3 DEF OnGetRepoFailed
  <2> QED
    BY <2>1
    DEF disk, remote, IInv, Rest, ClockInv, KeptInv, Kept, SafeInv, Exists, TransfersInv,
        ContentInv, HasEntry, Unmodified
<1> QED
  BY <1>1, <1>2, <1>3

LEMMA StartedRest ==
    ASSUME IInv, UNCHANGED <<disk, remote, entry, download, repoReqs>>,
           StartsOnly
    PROVE  Rest'
<1>1. ClockInv' /\ KeptInv'
  BY DEF StartsOnly, disk, remote, IInv, ClockInv, KeptInv, Kept
<1>2. SafeInv'
  BY DEF StartsOnly, disk, remote, IInv, SafeInv, Exists, TransfersInv, ContentInv, HasEntry, Unmodified
<1> QED
  BY <1>1, <1>2 DEF Rest

LEMMA ManagerRest ==
    ASSUME IInv, FileChanged \/ CheckFileRecreated \/ Reupload
    PROVE  Rest'
<1>1. TypeOK /\ Types
  BY TypesAreTypeOK DEF IInv
<1>2. CASE FileChanged
  <2>1. PICK info \in WatchInfos, queue \in Seq(WatchInfos), in \in BOOLEAN :
            info = watch /\ queue = deferred /\ in = watching
    BY <1>1 DEF Types
  <2>2. OnFileChanged(info, queue, in) /\ (in => Exists)
    BY <1>1, <1>2, <2>1 DEF FileChanged, Types
  <2>3. StartsOnly
    BY <1>1, <2>2, OnFileChangedTypes
  <2> QED
    BY <1>2, <2>3, StartedRest DEF FileChanged
<1>3. CASE CheckFileRecreated
  <2>1. PICK info, queue : info = Head(deferred) /\ queue = Tail(deferred)
    OBVIOUS
  <2>2. info \in WatchInfos /\ queue \in Seq(WatchInfos)
    <3>1. deferred \in Seq(WatchInfos) /\ deferred # <<>>
      BY <1>1, <1>3 DEF CheckFileRecreated, Types
    <3> QED
      BY <2>1, <3>1
  <2>3. CASE Exists /\ OnFileChanged(info, queue, TRUE)
    <3>1. StartsOnly
      BY <1>1, <2>2, <2>3, OnFileChangedTypes
    <3> QED
      BY <1>3, <3>1, StartedRest DEF CheckFileRecreated
  <2>4. CASE UNCHANGED upload
    BY <1>3, <2>4, StartedRest DEF CheckFileRecreated, StartsOnly
  <2> QED
    BY <1>3, <2>1, <2>3, <2>4 DEF CheckFileRecreated
<1>4. CASE Reupload
  <2>1. PICK info \in WatchInfos : UploadFile(info, 0)
    BY <1>1, <1>4, InfoOrNewTypes DEF Reupload
  <2> QED
    BY <1>1, <1>4, <2>1, UploadFileTypes, ConstantTypes, StartedRest DEF Reupload
<1> QED
  BY <1>2, <1>3, <1>4

LEMMA UploadRest ==
    ASSUME IInv, NEW u \in Uploads,
           \/ UploadReads(u) \/ ServerTakes(u)
           \/ \E success \in BOOLEAN : OnUpdateTaskFinished(u, success)
    PROVE  Rest'
<1>1. upload \in [Uploads -> UploadTasks]
  BY TypesAreTypeOK DEF IInv, Types
<1>2. CASE UploadReads(u)
  <2>1. /\ UNCHANGED <<disk, remote, entry, download, repoReqs>>
        /\ \A v \in Uploads :
               upload'[v] = IF v = u THEN [upload[u] EXCEPT !.st = "sent", !.data = local.data] ELSE upload[v]
    BY <1>1, <1>2 DEF UploadReads
  <2>2. upload'[u].st = "sent" /\ upload'[u].data = local.data
    BY <1>1, <2>1 DEF UploadTasks
  <2>3. ClockInv' /\ KeptInv'
    BY <2>1, <2>2 DEF disk, remote, IInv, ClockInv, KeptInv, Kept
  <2>4. SafeInv'
    BY <2>1, <2>2
    DEF disk, remote, IInv, SafeInv, Exists, TransfersInv, ContentInv, HasEntry, Unmodified
  <2> QED
    BY <2>3, <2>4 DEF Rest
<1>3. CASE ServerTakes(u)
  <2>1. /\ UNCHANGED <<disk, entry, download, repoReqs>>
        /\ upload[u].st = "sent"
        /\ \A v \in Uploads :
               upload'[v] = IF v = u THEN [upload[u] EXCEPT !.st = "taken"] ELSE upload[v]
    BY <1>1, <1>3 DEF ServerTakes
  <2>2. upload'[u].st = "taken" /\ upload'[u].data = upload[u].data
    BY <1>1, <2>1 DEF UploadTasks
  <2>3. /\ kept \subseteq kept' /\ Kept \subseteq Kept'
        /\ server' \in kept' /\ upload[u].data \in Kept'
    BY <1>3 DEF ServerTakes, IInv, KeptInv, Kept, remote
  <2>4. ClockInv'
    BY <2>1 DEF disk, IInv, ClockInv
  <2>5. KeptInv'
    BY <2>1, <2>2, <2>3 DEF IInv, KeptInv
  <2>6. SafeInv'
    BY <2>1, <2>2, <2>3
    DEF disk, IInv, SafeInv, Exists, TransfersInv, ContentInv, HasEntry, Unmodified
  <2> QED
    BY <2>4, <2>5, <2>6 DEF Rest
<1>4. CASE \E success \in BOOLEAN : OnUpdateTaskFinished(u, success)
  <2>1. PICK success \in BOOLEAN : OnUpdateTaskFinished(u, success)
    BY <1>4
  <2>2. PICK r : local' = [local EXCEPT !.reported = r]
    BY <2>1 DEF OnUpdateTaskFinished
  <2>3. local'.data = local.data /\ local'.mtime = local.mtime /\ local'.safe = local.safe
    BY <2>2, TypesAreTypeOK DEF IInv, Types, LocalFiles
  <2>4. /\ UNCHANGED <<clock, remote, entry, download>>
        /\ \A v \in Uploads : upload'[v] = IF v = u THEN NoUpload ELSE upload[v]
    BY <1>1, <2>1 DEF OnUpdateTaskFinished
  <2>5. \A req \in repoReqs' :
            \/ req \in repoReqs
            \/ req.id = upload[u].data /\ upload[u].st = "taken"
    <3>1. CASE repoReqs' = repoReqs
      BY <3>1
    <3>2. CASE success /\ repoReqs' = repoReqs \cup {[from |-> "upload", id |-> upload[u].data]}
      BY <2>1, <3>2 DEF OnUpdateTaskFinished
    <3> QED
      BY <2>1, <3>1, <3>2 DEF OnUpdateTaskFinished
  <2>6. ClockInv' /\ KeptInv'
    BY <2>3, <2>4, <2>5 DEF NoUpload, remote, IInv, ClockInv, KeptInv, Kept
  <2>7. SafeInv'
    BY <2>3, <2>4, <2>5
    DEF NoUpload, remote, IInv, SafeInv, Exists, TransfersInv, ContentInv, HasEntry, Unmodified
  <2> QED
    BY <2>6, <2>7 DEF Rest
<1> QED
  BY <1>2, <1>3, <1>4

LEMMA LeavingRest ==
    ASSUME IInv, Logout \/ Restart
    PROVE  Rest'
<1>1. /\ UNCHANGED <<clock, remote>> /\ download' = NoDownload
      /\ \/ local' = NoFile /\ entry' = NoEntry
         \/ UNCHANGED <<local, entry>>
  BY DEF Logout, Restart, CleanCachedFile
<1>2. /\ repoReqs' \subseteq repoReqs
      /\ \A u \in Uploads : upload'[u] = upload[u] \/ upload'[u] = NoUpload
  BY DEF Logout, Restart
<1>3. clock \in Nat
  BY DEF IInv, TypeOK, Data
<1>4. ClockInv'
  BY <1>1, <1>3 DEF NoFile, NoEntry, IInv, ClockInv
<1>5. KeptInv'
  BY <1>1, <1>2 DEF NoEntry, NoDownload, NoUpload, remote, IInv, KeptInv, Kept
<1>6. CASE local' = NoFile
  BY <1>4, <1>5, <1>6 DEF Rest, SafeInv, NoFile, Exists
<1>7. CASE UNCHANGED <<local, entry>>
  <2>1. SafeInv'
    BY <1>1, <1>2, <1>7
    DEF NoDownload, NoUpload, remote, IInv, SafeInv, Exists, TransfersInv, ContentInv, HasEntry,
        Unmodified
  <2> QED
    BY <1>4, <1>5, <2>1 DEF Rest
<1> QED
  BY <1>1, <1>6, <1>7

-----------------------------------------------------------------------------
(* The theorems.                                                           *)

LEMMA InitIInv == Init => IInv
<1> SUFFICES ASSUME Init PROVE IInv
  OBVIOUS
<1>1. <<>> \in Seq(WatchInfos) /\ 1 \in Data
  BY ConstantTypes
<1>2. TypeOK
  BY <1>1, ConstantTypes, TypesAreTypeOK DEF Init, Types, Exists, NoFile
<1>3. ClockInv /\ KeptInv /\ SafeInv
  BY DEF Init, ClockInv, KeptInv, Kept, SafeInv, Exists, NoFile, NoEntry, NoDownload, NoUpload
<1> QED
  BY <1>2, <1>3 DEF IInv

LEMMA NextIInv == IInv /\ [Next]_vars => IInv'
<1> SUFFICES ASSUME IInv, [Next]_vars PROVE IInv'
  OBVIOUS
<1> USE DEF IInv, Rest
<1>1. CASE Environment /\ opened' = FALSE
  BY <1>1, EnvironmentTypes, EnvironmentRest
<1>2. CASE (Refresh \/ OpenCached \/ OpenRemote) /\ opened' \in BOOLEAN
  BY <1>2, BrowserTypes, BrowserRest
<1>3. CASE (DownloadWrites \/ DownloadEnds \/ DownloadSucceeds) /\ opened' = FALSE
  BY <1>3, DownloadTypes, DownloadRest
<1>4. CASE (OnGetRepoSuccess \/ OnGetRepoFailed) /\ opened' = FALSE
  BY <1>4, DownloadTypes, AnswerRest
<1>5. CASE (FileChanged \/ CheckFileRecreated \/ Reupload) /\ opened' = FALSE
  BY <1>5, ManagerTypes, ManagerRest
<1>6. CASE (\E u \in Uploads : \/ UploadReads(u) \/ ServerTakes(u)
                              \/ \E success \in BOOLEAN : OnUpdateTaskFinished(u, success))
           /\ opened' = FALSE
  BY <1>6, UploadTypes, UploadRest
<1>7. CASE OnGetRepoSuccessAfterUpload /\ opened' = FALSE
  BY <1>7, LeavingTypes, AnswerRest
<1>8. CASE (Logout \/ Restart) /\ opened' = FALSE
  BY <1>8, LeavingTypes, LeavingRest
<1>9. CASE UNCHANGED vars
  <2>1. TypeOK'
    BY <1>9, TypesAreTypeOK DEF vars, disk, remote, manager, Types, Exists
  <2>2. ClockInv' /\ KeptInv' /\ SafeInv'
    BY <1>9
    DEF vars, disk, remote, ClockInv, KeptInv, Kept, SafeInv, Exists, TransfersInv, ContentInv,
        HasEntry, Unmodified
  <2> QED
    BY <2>1, <2>2
<1> QED
  BY <1>1, <1>2, <1>3, <1>4, <1>5, <1>6, <1>7, <1>8, <1>9 DEF Next

THEOREM Invariance == Spec => []IInv
  BY InitIInv, NextIInv, PTL DEF Spec

\* Every variable keeps its type; a path that QFileSystemWatcher has is the one of
\* a file that exists (AutoUpdateManager::addPath, auto-update-mgr.cpp).
THEOREM TypeCorrect == Spec => []TypeOK
  BY Invariance, PTL DEF IInv

\* A file that is shown as synced is the one of the listing, unless it was written
\* during a transfer or without a row in FileCache: whatever transfers, events
\* and requests come in between, a row gets the id of the content it gets the time of.
THEOREM StatusIsTrue == Spec => []SyncedIsTrue
<1>1. FileStatus = "SYNCED" => HasEntry /\ Exists /\ dirent = entry.id /\ Unmodified
  BY DEF FileStatus, StatusFor
<1>2. IInv => SyncedIsTrue
  BY <1>1 DEF IInv, SafeInv, ContentInv, SyncedIsTrue
<1> QED
  BY <1>2, Invariance, PTL

\* The client removes or replaces by itself no file whose content is only here,
\* with the same exception: what it removes has the time of its row and so the id
\* of something that was transferred, and what it replaces was not changed when
\* the download began, nor since.
THEOREM EditsAreKept == Spec => NoEditLost
<1>1. ASSUME IInv, DownloadWrites \/ Logout \/ Restart, local' # local, local.safe
      PROVE  local.data \in kept \cup {0}
  <2>1. CASE ~Exists
    BY <2>1 DEF Exists
  <2>2. CASE Exists /\ DownloadWrites
    BY <1>1, <2>2 DEF DownloadWrites, IInv, SafeInv, ContentInv
  <2>3. CASE Exists /\ (Logout \/ Restart)
    <3>1. HasEntry /\ Unmodified
      BY <1>1, <2>3 DEF Logout, Restart, CleanCachedFile, CleansFile
    <3> QED
      BY <1>1, <2>3, <3>1 DEF IInv, SafeInv, ContentInv, KeptInv, Kept
  <2> QED
    BY <1>1, <2>1, <2>2, <2>3
<1>2. IInv /\ [Next]_vars =>
        [(DownloadWrites \/ Logout \/ Restart) /\ local' # local
             => local.data \in kept \cup {0} \/ ~local.safe]_vars
  BY <1>1
<1> QED
  BY <1>2, Invariance, PTL DEF Spec, NoEditLost
=============================================================================
