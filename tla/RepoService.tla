------------------------------ MODULE RepoService ------------------------------
(***************************************************************************)
(* The list of libraries, RepoService: a request for the list of the       *)
(* current account, one more for each synced folder, which the list leaves *)
(* out, and what follows from the answers: libraries without permission    *)
(* are unsynced, a refused token ends the login, a device marked at the    *)
(* server is wiped. Meanwhile the user changes accounts and syncs.         *)
(***************************************************************************)
EXTENDS Naturals, Sequences, FiniteSets, SequencesExt

CONSTANTS
    Accounts,     \* accounts of the client, each on a server of its own
    NoAccount,
    Libraries,    \* libraries and folders
    Subfolders,   \* the folders among them, which are synced as libraries
    Owner,        \* their accounts
    OtherWindows, \* may folders be synced in windows of accounts that are not current?
    RpcFails,     \* may the daemon leave calls of refresh() unanswered?
    MaxCloning,   \* bound: libraries that are being downloaded
    Deniable,     \* bound: libraries whose permission may end
    Markable      \* bound: accounts whose device may be marked

ASSUME LibrariesAssumption ==
    /\ NoAccount \notin Accounts
    /\ IsFiniteSet(Libraries)
    /\ Subfolders \subseteq Libraries
    /\ Owner \in [Libraries -> Accounts]
    /\ OtherWindows \in BOOLEAN /\ RpcFails \in BOOLEAN
    /\ MaxCloning \in Nat /\ Deniable \subseteq Libraries /\ Markable \subseteq Accounts

VARIABLES
    current,   \* currentAccount(), that is accounts_.front()
    login,     \* has an account a token?
    local,     \* the daemon: libraries that are synced,
    cloning,   \* and those that are being downloaded to be synced
    permitted, \* the server: libraries their accounts may access,
    marked,    \* and accounts whose device is to be wiped
    table,     \* the table SyncedSubfolder, with the account of each row
    inRefresh, \* in_refresh_
    listReq,   \* list_repo_req_
    stale,     \* an aborted one whose answer was in the event queue already
    chain,     \* get_repo_reqs_, with those that have been sent
    locals,    \* local_repos_
    subs,      \* synced_subfolders_
    repos,     \* server_repos_: whose list it is, and the folders added to it
    shown,     \* account whose list the window shows
    wipe,      \* wipe_in_progress_, and how far it has come
    quiet      \* history: local_repos_ and synced_subfolders_ are as refresh() left them

world == <<permitted, marked>>
daemon == <<local, cloning>>
requests == <<inRefresh, listReq, stale, chain>>
lists == <<locals, subs, repos>>
refreshing == <<table, requests, lists, shown, quiet>>
vars == <<current, login, daemon, world, refreshing, wipe>>

OwnedBy(a) == {l \in Libraries : Owner[l] = a}

\* An answer is the list, or a failure; "none" while there is no answer.
Answers == [kind : {"none", "list", "401", "wiped", "failed"}, list : SUBSET Libraries]
Answer(kind, list) == [kind |-> kind, list |-> list]
NoRequest == [account |-> NoAccount, answer |-> Answer("none", {})]
NewRequest(a) == [account |-> a, answer |-> Answer("none", {})]

\* Types, and two shapes: a folder is in the table once, and in_refresh_ is set
\* only while a request is under way, else no timer would ever refresh again.
TypeOK ==
    /\ current \in Accounts
    /\ login \in [Accounts -> BOOLEAN]
    /\ local \subseteq Libraries /\ cloning \subseteq Libraries
    /\ permitted \subseteq Libraries /\ marked \subseteq Accounts
    /\ table \subseteq Subfolders \X Accounts
    /\ \A r, s \in table : r[1] = s[1] => r = s
    /\ inRefresh \in BOOLEAN
    /\ inRefresh => listReq # NoRequest
    /\ {listReq, stale} \subseteq [account : Accounts \cup {NoAccount}, answer : Answers]
    /\ chain \in Seq([library : Subfolders, sent : BOOLEAN])
    /\ locals \subseteq Libraries /\ subs \subseteq Subfolders
    /\ repos \in [of : Accounts \cup {NoAccount}, folders : SUBSET Subfolders]
    /\ shown \in Accounts \cup {NoAccount}
    /\ wipe \in {"no", "wiping", "reporting"}
    /\ quiet \in BOOLEAN

Init ==
    /\ current \in Accounts /\ login = [a \in Accounts |-> FALSE]
    /\ local = {} /\ cloning = {}
    /\ permitted = Libraries /\ marked = {}
    /\ table = {}
    /\ inRefresh = FALSE /\ listReq = NoRequest /\ stale = NoRequest /\ chain = <<>>
    /\ locals = {} /\ subs = {} /\ repos = [of |-> NoAccount, folders |-> {}]
    /\ shown = NoAccount
    /\ wipe = "no"
    /\ quiet = FALSE

-----------------------------------------------------------------------------
(* refresh().                                                              *)

Answered == listReq.answer.kind # "none"

\* Does a call of the daemon succeed?
RpcOutcomes == IF RpcFails THEN BOOLEAN ELSE {TRUE}

\* Mutant: the clone tasks are not asked for.
GoneExceptLocal(rows, tasks, locals_) == rows \ locals_

\* Folders that are neither local nor on the way to it
Gone(rows, tasks, locals_) == rows \ (tasks \cup locals_)

\* Rows of the current account are read, and rows of folders that are gone are
\* removed; the loop that removes them skips the row after a removed one.
\* removeSyncedSubfolder shows the list again if the folder was in it.
RefreshFrom(a, rows, table_, local_, cloning_, shown_) ==
    \E listed, asked \in RpcOutcomes :
    LET newLocals == IF listed THEN local_ ELSE locals
        tasks == IF asked THEN cloning_ ELSE {}
        gone == Gone(rows, tasks, newLocals)
    IN \E removed \in SUBSET gone :
        /\ removed = {} => gone = {}
        /\ table' = {r \in table_ : r[1] \notin removed}
        /\ subs' = rows \ removed
        /\ repos' = [repos EXCEPT !.folders = @ \ removed]
        /\ shown' = IF removed \cap repos.folders # {} THEN repos.of ELSE shown_
        /\ locals' = newLocals
        /\ inRefresh' = TRUE
        /\ chain' = <<>>
        /\ listReq' = NewRequest(a)
        /\ stale' = IF Answered THEN listReq ELSE stale
        /\ quiet' = (listed /\ asked)

RowsOf(a, table_) == {r[1] : r \in {s \in table_ : s[2] = a}}

Refresh == RefreshFrom(current, RowsOf(current, table), table, local, cloning, shown)

\* accountsChanged() with account a current: ReposTab::refresh, refresh(true)
AccountsChanged(a, valid, table_, local_, cloning_) ==
    IF valid
    THEN RefreshFrom(a, RowsOf(a, table_), table_, local_, cloning_, NoAccount)
    ELSE table' = table_ /\ shown' = NoAccount /\ UNCHANGED <<requests, lists, quiet>>

\* refresh_timer_, and the single shot after a failure
RefreshTimer ==
    /\ ~inRefresh /\ login[current]
    /\ Refresh
    /\ UNCHANGED <<current, login, daemon, world, wipe>>

\* The button of the window, and the end of a share: refresh(true)
Reload ==
    /\ login[current]
    /\ Refresh
    /\ UNCHANGED <<current, login, daemon, world, wipe>>

-----------------------------------------------------------------------------
(* The user changes accounts.                                              *)

\* The account is chosen, or logged in
UseAccount(a) ==
    /\ current' = a
    /\ login' = [login EXCEPT ![a] = TRUE]
    /\ AccountsChanged(a, TRUE, table, local, cloning)
    /\ UNCHANGED <<daemon, world, wipe>>

Logout(a) ==
    /\ login[a]
    /\ login' = [login EXCEPT ![a] = FALSE]
    /\ AccountsChanged(current, login'[current], table, local, cloning)
    /\ UNCHANGED <<current, daemon, world, wipe>>

\* deleteAccount: the libraries are unsynced, the rows go with the account. The
\* next account becomes the current one, perhaps without a token until the user
\* has entered the password.
DeleteAccount(a) ==
    \E next \in IF a = current THEN Accounts \ {a} ELSE {current}, keeps \in BOOLEAN :
        LET valid == login[next] /\ (a = current => keeps)
        IN /\ current' = next
           /\ login' = [login EXCEPT ![a] = FALSE, ![next] = valid]
           /\ local' = local \ OwnedBy(a)
           /\ cloning' = cloning \ OwnedBy(a)
           /\ AccountsChanged(next, valid, {r \in table : r[2] # a}, local', cloning')
           /\ UNCHANGED <<world, wipe>>

-----------------------------------------------------------------------------
(* The user and the daemon sync libraries.                                 *)

StartClone(l) ==
    /\ Cardinality(cloning) < MaxCloning
    /\ cloning' = cloning \cup {l}

\* A library of the list, in the download dialog
SyncLibrary ==
    \E l \in (OwnedBy(current) \cap permitted) \ (Subfolders \cup local \cup cloning) :
        /\ login[current]
        /\ StartClone(l)
        /\ UNCHANGED <<current, login, local, world, refreshing, wipe>>

\* onCreateSubrepoSuccess of a window of the cloud file browser, with the dialog
\* accepted, and saveSyncedSubfolder, which takes the account in front
SyncFolder ==
    \E l \in Subfolders \ cloning :
        /\ login[Owner[l]] /\ login[current]
        /\ OtherWindows \/ Owner[l] = current
        /\ IF l \in local THEN UNCHANGED cloning ELSE StartClone(l)
        /\ permitted' = permitted \cup {l}
        /\ table' = {r \in table : r[1] # l} \cup {<<l, current>>}
        /\ repos' = [repos EXCEPT !.folders = @ \cup {l}]
        /\ shown' = repos.of
        /\ UNCHANGED <<current, login, local, marked, requests, locals, subs, wipe, quiet>>

CloneEnds ==
    \E l \in cloning, success \in BOOLEAN :
        /\ cloning' = cloning \ {l}
        /\ local' = IF success THEN local \cup {l} ELSE local
        /\ UNCHANGED <<current, login, world, refreshing, wipe>>

\* unsyncRepoImpl: the row of a folder goes if the list has the folder
UserUnsyncs ==
    \E l \in local :
        /\ local' = local \ {l}
        /\ IF l \in repos.folders
           THEN /\ table' = {r \in table : r[1] # l}
                /\ subs' = subs \ {l}
                /\ repos' = [repos EXCEPT !.folders = @ \ {l}]
                /\ shown' = repos.of
                /\ quiet' = FALSE
           ELSE UNCHANGED <<table, subs, repos, shown, quiet>>
        /\ UNCHANGED <<current, login, cloning, world, requests, locals, wipe>>

\* isPathConflictWithExistingRepo of the download dialog: refreshLocalRepoList
ChooseFolder ==
    /\ login[current]
    /\ locals' = local
    /\ quiet' = FALSE
    /\ UNCHANGED <<current, login, daemon, world, table, requests, subs, repos, shown, wipe>>

-----------------------------------------------------------------------------
(* The server.                                                             *)

Grant ==
    \E l \in Libraries \ permitted :
        /\ permitted' = permitted \cup {l}
        /\ UNCHANGED <<current, login, daemon, marked, refreshing, wipe>>

Deny ==
    \E l \in Deniable \cap permitted :
        /\ permitted' = permitted \ {l}
        /\ UNCHANGED <<current, login, daemon, marked, refreshing, wipe>>

Mark ==
    \E a \in Markable \ marked :
        /\ marked' = marked \cup {a}
        /\ UNCHANGED <<current, login, daemon, permitted, refreshing, wipe>>

\* An answer comes to the event queue. A failure is for no account in particular.
\* Bound: one stale answer at most.
ListAnswered(answer) ==
    /\ listReq # NoRequest /\ ~Answered /\ stale = NoRequest
    /\ listReq' = [account |-> IF answer.kind = "list" THEN listReq.account ELSE NoAccount,
                   answer |-> answer]
    /\ UNCHANGED <<current, login, daemon, world, table, inRefresh, stale, chain, lists, shown, wipe, quiet>>

ServerAnswers ==
    ListAnswered(IF listReq.account \in marked THEN Answer("wiped", {})
                 ELSE Answer("list", (OwnedBy(listReq.account) \cap permitted) \ Subfolders))

\* The token is refused, or the network or the server fails.
RequestFails == \E kind \in {"401", "failed"} : ListAnswered(Answer(kind, {}))

-----------------------------------------------------------------------------
(* Answers.                                                                *)

\* Mutant: the requests are queued, and none is sent.
GetRequestsUnsent(folders) ==
    chain \o [i \in 1..Cardinality(folders) |-> [library |-> SetToSeq(folders)[i], sent |-> FALSE]]

\* startGetRequestFor each folder, and the first is sent if none was waiting
GetRequests(folders) ==
    LET new == [i \in 1..Cardinality(folders) |-> [library |-> SetToSeq(folders)[i], sent |-> FALSE]]
    IN IF chain = <<>> /\ new # <<>> THEN [new EXCEPT ![1].sent = TRUE] ELSE chain \o new

\* Libraries that are unsynced for want of permission
Unsyncs(list) ==
    IF login[current] THEN {l \in locals : Owner[l] = current /\ l \notin list \cup subs} ELSE {}

OnRefreshSuccess(a, list) ==
    /\ repos' = [of |-> a, folders |-> {}]
    /\ chain' = GetRequests(subs \ list)
    /\ local' = local \ Unsyncs(list)
    /\ shown' = IF login[current] /\ chain' = <<>> THEN a ELSE shown
    /\ UNCHANGED <<login, locals, wipe>>

\* clearAccountToken emits accountsChanged(): the window shows no list.
InvalidateCurrentLogin ==
    /\ login' = [login EXCEPT ![current] = FALSE]
    /\ shown' = IF login[current] THEN NoAccount ELSE shown

\* wipeLocalFiles: all libraries on the server of the current account
WipeLocalFiles ==
    /\ wipe' = "wiping"
    /\ locals' = local
    /\ local' = local \ OwnedBy(current)

\* The header is looked for in the answer of the latest request.
OnRefreshFailed(kind) ==
    /\ IF listReq.answer.kind = "wiped"
       THEN /\ IF wipe = "no" THEN WipeLocalFiles ELSE UNCHANGED <<wipe, locals, local>>
            /\ UNCHANGED <<login, shown>>
       ELSE /\ IF kind = "401" THEN InvalidateCurrentLogin ELSE UNCHANGED <<login, shown>>
            /\ UNCHANGED <<wipe, locals, local>>
    /\ UNCHANGED <<repos, chain>>

\* Mutant: a failure leaves in_refresh_ as it is.
InRefreshAfterList(kind) == inRefresh /\ kind # "list"

InRefreshAfter(kind) == FALSE

OnRefreshed(req) ==
    /\ inRefresh' = InRefreshAfter(req.answer.kind)
    /\ IF req.answer.kind = "list"
       THEN OnRefreshSuccess(req.account, req.answer.list)
       ELSE OnRefreshFailed(req.answer.kind)
    /\ UNCHANGED <<current, cloning, world, table, subs, quiet>>

ListDelivered ==
    /\ Answered
    /\ OnRefreshed(listReq)
    /\ listReq' = NoRequest
    /\ UNCHANGED stale

StaleDelivered ==
    /\ stale # NoRequest
    /\ OnRefreshed(stale)
    /\ stale' = NoRequest
    /\ UNCHANGED listReq

\* The request is removed and the next one sent
AfterGetRequest ==
    IF Len(chain) > 1 THEN [Tail(chain) EXCEPT ![1].sent = TRUE] ELSE <<>>

\* onGetRequestSuccess, onGetRequestFailed
GetRequestAnswered ==
    \E success \in BOOLEAN :
        LET l == Head(chain).library
        IN /\ chain # <<>> /\ Head(chain).sent
           /\ success => l \in permitted
           /\ repos' = IF success /\ l \in subs THEN [repos EXCEPT !.folders = @ \cup {l}] ELSE repos
           /\ chain' = AfterGetRequest
           /\ shown' = IF chain' = <<>> THEN repos.of ELSE shown
           /\ UNCHANGED <<current, login, daemon, world, table, inRefresh, listReq, stale, locals, subs, wipe, quiet>>

\* WipeFilesThread ends, and the report is answered somehow
WiperDone ==
    /\ wipe = "wiping"
    /\ wipe' = "reporting"
    /\ UNCHANGED <<current, login, daemon, world, refreshing>>

WipeReported ==
    /\ wipe = "reporting"
    /\ wipe' = "no"
    /\ InvalidateCurrentLogin
    /\ UNCHANGED <<current, daemon, world, table, requests, lists, quiet>>

-----------------------------------------------------------------------------

Next ==
    \/ RefreshTimer \/ Reload
    \/ \E a \in Accounts : UseAccount(a) \/ Logout(a) \/ DeleteAccount(a)
    \/ SyncLibrary \/ SyncFolder \/ CloneEnds \/ UserUnsyncs \/ ChooseFolder
    \/ Grant \/ Deny \/ Mark
    \/ ServerAnswers \/ RequestFails \/ ListDelivered \/ StaleDelivered
    \/ GetRequestAnswered \/ WiperDone \/ WipeReported

Spec == Init /\ [][Next]_vars

\* Timers and answers in the event queue get their turn, and the server does not
\* fail for ever.
Fairness ==
    /\ WF_vars(RefreshTimer) /\ WF_vars(ListDelivered) /\ WF_vars(StaleDelivered)
    /\ WF_vars(GetRequestAnswered) /\ SF_vars(ServerAnswers)

FairSpec == Spec /\ Fairness

-----------------------------------------------------------------------------
(* Properties.                                                             *)

\* A list unsyncs only libraries of its account that it does not have, and never
\* a folder, of which it says nothing ("you don't have permission to access it",
\* repo-service.cpp:316), if local_repos_ and synced_subfolders_ are as they were
\* when it was asked for: the download dialog and an unsync change one alone.
UnsyncedIsForbidden ==
    [][ListDelivered /\ listReq.answer.kind = "list" /\ quiet =>
         local \ local' \subseteq OwnedBy(listReq.account) \ (listReq.answer.list \cup Subfolders)]_vars

\* A refresh sets in_refresh_ and drops the requests that wait.
RefreshBegins ==
    /\ inRefresh' /\ chain' = <<>>
    /\ \/ RefreshTimer \/ Reload
       \/ \E a \in Accounts : UseAccount(a) \/ Logout(a) \/ DeleteAccount(a)

UnderWay == inRefresh \/ \E i \in DOMAIN chain : chain[i].sent

\* From some time on, refreshes begin only when no request is under way: the user
\* does not reload meanwhile, and the server needs less than the timer.
Patient == <>[][UnderWay => ~RefreshBegins]_vars

\* The list of an account that stays current and logged in, and whose device is
\* not marked, is shown after any failures and changes of accounts, whatever
\* folders were asked for then (refresh, onRefreshFailed, onGetRequestFailed).
ListIsShown ==
    \A a \in Accounts \ Markable :
        Patient /\ <>[](current = a /\ login[a]) => []<>(shown = a)

\* "current device is marked to be remote wiped" (repo-service.cpp:331): the
\* libraries whose files are removed are of an account that is marked.
WipedIsMarked ==
    [][wipe = "no" /\ wipe' = "wiping" => \A l \in local \ local' : Owner[l] \in marked]_vars
=============================================================================
