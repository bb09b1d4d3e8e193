---------------------------- MODULE AccountManager ----------------------------
(***************************************************************************)
(* The accounts of the client: AccountManager with its list in memory and  *)
(* its table on disk, the sync tokens that seaf-daemon keeps for the       *)
(* libraries of an account, the dialogs that log in, and the periodic      *)
(* listing of libraries (RepoService), whose answer 401 ends a login.      *)
(*                                                                         *)
(* A dialog runs an event loop of its own inside the function that opened  *)
(* it. "dialogs" is the stack of these functions: the user reaches only    *)
(* the uppermost, but timers and answers of the network reach all of them. *)
(***************************************************************************)
EXTENDS Naturals, Sequences, FiniteSets, SequencesExt

CONSTANTS
    Ids,        \* accounts, each a pair of server address and user name
    NoId,       \* no account
    MaxRetries, \* retries of a request for sync tokens
    MaxDialogs, \* bound: dialogs open at the same time
    EditToExisting \* may the user give an account the address of another one?

ASSUME AccountsAssumption ==
    NoId \notin Ids /\ MaxRetries \in Nat /\ MaxDialogs \in Nat /\ EditToExisting \in BOOLEAN

VARIABLES
    phase,     \* is the client running?
    accounts,  \* accounts_, the current account first
    rows,      \* the table Accounts, by descending lastVisited
    synced,    \* accounts that have libraries in the daemon
    keyed,     \* those whose libraries have sync tokens there
    dialogs,   \* functions that wait for a dialog, the innermost first
    tokenReqs, \* GetRepoTokensRequests under way
    inRefresh, \* in_refresh_ of the RepoService
    listReq,   \* list_repo_req_ of the RepoService
    stale,     \* the answer to an aborted one that was in the event queue already
    hist       \* history: accounts with a token in this session, was the exit a proper one?

refreshing == <<inRefresh, listReq, stale>>
daemon == <<synced, keyed>>
vars == <<phase, accounts, rows, daemon, dialogs, tokenReqs, refreshing, hist>>

\* No token, one the server accepts, one it has revoked.
Tokens == {"none", "good", "bad"}
Accounts == [id : Ids, token : Tokens, auto : BOOLEAN]
IsValid(a) == a.token # "none"

LoginDialogs ==
    {d \in [kind : {"login"}, id : Ids \cup {NoId}, relogin : BOOLEAN, removing : BOOLEAN, accepted : BOOLEAN] :
        d.relogin => d.id \in Ids}
ExpiredBoxes == [kind : {"expired"}, id : Ids, intact : BOOLEAN]
TokenBoxes == [kind : {"failed"}, id : Ids, left : 0..MaxRetries]
SettingsDialogs == [kind : {"settings"}, account : Accounts]

\* A request with its account and token, or its answer, which is for no one.
Answers == {"none", "other", "401"}
ListRequests == [id : Ids \cup {NoId}, token : Tokens, answer : Answers]
Answer(answer) == [id |-> NoId, token |-> "none", answer |-> answer]
NoRequest == Answer("none")
TokenRequests == [id : Ids, left : 0..MaxRetries]

\* Types, and two shapes that hold throughout: an account is in the table once,
\* and only libraries that are synced have sync tokens (account-mgr.cpp:139-141).
TypeOK ==
    /\ phase \in {"off", "running"}
    /\ accounts \in Seq(Accounts)
    /\ rows \in Seq(Accounts)
    /\ \A i, j \in DOMAIN rows : rows[i].id = rows[j].id => i = j
    /\ synced \subseteq Ids
    /\ keyed \subseteq synced
    /\ dialogs \in Seq(LoginDialogs \cup ExpiredBoxes \cup TokenBoxes \cup SettingsDialogs)
    /\ tokenReqs \subseteq TokenRequests
    /\ inRefresh \in BOOLEAN
    /\ listReq \in ListRequests
    /\ stale \in Answers
    /\ hist \in [used : SUBSET Ids, clean : BOOLEAN]

Init ==
    /\ phase = "off"
    /\ accounts = <<>> /\ rows = <<>>
    /\ synced = {} /\ keyed = {}
    /\ dialogs = <<>>
    /\ tokenReqs = {}
    /\ inRefresh = FALSE /\ listReq = NoRequest /\ stale = "none"
    /\ hist = [used |-> {}, clean |-> TRUE]

-----------------------------------------------------------------------------
(* Lists of accounts.                                                      *)

\* The elements at the positions in I, in their order
At(s, I) == [k \in 1..Cardinality(I) |-> s[CHOOSE i \in I : Cardinality({j \in I : j <= i}) = k]]

Has(s, id) == \E i \in DOMAIN s : s[i].id = id
Without(s, id) == At(s, {i \in DOMAIN s : s[i].id # id})
Place(s, id) == SelectInSeq(s, LAMBDA a : a.id = id)
WithoutFirst(s, id) == IF Has(s, id) THEN RemoveAt(s, Place(s, id)) ELSE s
CurrentIn(s) == IF s = <<>> THEN [id |-> NoId, token |-> "none", auto |-> TRUE] ELSE Head(s)
currentAccount == CurrentIn(accounts)

\* The token of the first account with this id is taken away.
Forget(s, id) == IF Has(s, id) THEN [s EXCEPT ![Place(s, id)].token = "none"] ELSE s

\* loadAccounts: by lastVisited, those that are logged in first
loadAccounts ==
    At(rows, {i \in DOMAIN rows : IsValid(rows[i])}) \o At(rows, {i \in DOMAIN rows : ~IsValid(rows[i])})

-----------------------------------------------------------------------------
(* The listing of libraries, RepoService, as far as accounts go.           *)

Answered == listReq.answer # "none"

\* RepoService::refresh with account a current. A request that is replaced is
\* deleted later: an answer that is queued by then is delivered all the same.
Refresh(a) ==
    IF IsValid(a)
    THEN /\ inRefresh' = TRUE
         /\ listReq' = [id |-> a.id, token |-> a.token, answer |-> "none"]
         /\ stale' = IF Answered THEN listReq.answer ELSE stale
    ELSE /\ inRefresh' = FALSE
         /\ UNCHANGED <<listReq, stale>>

\* What accountsChanged() leads to: ReposTab::refresh, refresh(true).
AccountsChanged(a) == IF IsValid(a) THEN Refresh(a) ELSE UNCHANGED refreshing

-----------------------------------------------------------------------------
(* Operations of the AccountManager. Each says what it makes of accounts_, *)
(* the table and the rest; dialogs are the caller's.                       *)

\* What the reference to accounts_.front() in a waiting invalidateCurrentLogin
\* refers to after setCurrentAccount: the account that is in front now, or, if
\* accounts_ had to grow, no one knows.
Moved(d, id, existed) ==
    IF d.kind # "expired" THEN d
    ELSE IF existed THEN [d EXCEPT !.id = id] ELSE [d EXCEPT !.intact = FALSE]

\* The row is updated if the account was in the list, else it is inserted,
\* which fails if there is one.
SaveRow(a, existed) ==
    IF existed = Has(rows, a.id) THEN <<a>> \o Without(rows, a.id) ELSE rows

SetCurrentAccount(list, a) ==
    /\ accounts' = <<a>> \o WithoutFirst(list, a.id)
    /\ rows' = SaveRow(a, Has(list, a.id))
    /\ AccountsChanged(a)

\* Mutant: the token stays in the table.
ClearAccountTokenInMemory(id) ==
    /\ accounts' = Forget(accounts, id)
    /\ UNCHANGED rows

ClearAccountToken(id) ==
    /\ accounts' = Forget(accounts, id)
    /\ rows' = Forget(rows, id)

clearSyncToken(id) == keyed \ {id}

LogoutDevice(id) ==
    /\ keyed' = clearSyncToken(id)
    /\ ClearAccountToken(id)
    /\ AccountsChanged(CurrentIn(Forget(accounts, id)))

NonautoIds(s) == {s[i].id : i \in {j \in DOMAIN s : ~s[j].auto}}

\* Mutant: only the current account is logged out.
LogoutCurrentNonautoLogin ==
    LET a == currentAccount
    IN IF accounts = <<>> \/ a.auto THEN UNCHANGED <<keyed, rows>>
       ELSE keyed' = clearSyncToken(a.id) /\ rows' = Forget(rows, a.id)

\* accounts_ itself is gone with the client.
LogoutDeviceNonautoLogin ==
    /\ keyed' = keyed \ NonautoIds(accounts)
    /\ rows' = [i \in DOMAIN rows |->
                  IF rows[i].id \in NonautoIds(accounts) THEN [rows[i] EXCEPT !.token = "none"] ELSE rows[i]]

\* Mutant: tokens of the last session are left to the daemon.
RemoveNoSyncTokens(s) == keyed

RemoveNonautoLoginSyncTokens(s) == keyed \ NonautoIds(s)

LoginDialog(id, relogin, removing) ==
    [kind |-> "login", id |-> id, relogin |-> relogin, removing |-> removing, accepted |-> FALSE]
Open(d) == dialogs' = <<d>> \o dialogs
ThereIsRoom == Len(dialogs) < MaxDialogs

-----------------------------------------------------------------------------
(* What the user does in the main window.                                  *)

\* An accepted dialog closes before anything else happens.
Returning ==
    /\ dialogs # <<>>
    /\ Head(dialogs).kind = "login" /\ Head(dialogs).accepted
Running == phase = "running" /\ ~Returning
Idle == Running /\ dialogs = <<>>

\* AccountView::onAccountItemClicked
SwitchAccount ==
    \E i \in DOMAIN accounts :
        /\ Idle
        /\ IF IsValid(accounts[i])
           THEN SetCurrentAccount(accounts, accounts[i]) /\ UNCHANGED dialogs
           ELSE /\ Open(LoginDialog(accounts[i].id, TRUE, FALSE))
                /\ UNCHANGED <<accounts, rows, refreshing>>
        /\ UNCHANGED <<phase, daemon, tokenReqs, hist>>

\* AccountView::toggleAccount
ToggleAccount ==
    \E i \in DOMAIN accounts :
        /\ Idle
        /\ IF IsValid(accounts[i])
           THEN LogoutDevice(accounts[i].id) /\ UNCHANGED dialogs
           ELSE /\ Open(LoginDialog(accounts[i].id, TRUE, FALSE))
                /\ UNCHANGED <<accounts, rows, keyed, refreshing>>
        /\ UNCHANGED <<phase, synced, tokenReqs, hist>>

\* removeAccount, which makes the next account the current one;
\* validateAndUseAccount asks for the password if it must.
RemoveAccount(id) ==
    LET rest == Without(accounts, id)
        next == Head(rest)
        table == Without(rows, id)
    IN IF id # currentAccount.id
       THEN /\ accounts' = rest /\ rows' = table
            /\ AccountsChanged(currentAccount) /\ UNCHANGED dialogs
       ELSE IF rest = <<>>
       THEN /\ accounts' = rest /\ rows' = table
            /\ Open(LoginDialog(NoId, FALSE, TRUE)) /\ UNCHANGED refreshing
       ELSE IF next.auto /\ IsValid(next)
       THEN /\ accounts' = rest
            /\ rows' = <<next>> \o Without(table, next.id)
            /\ AccountsChanged(next) /\ UNCHANGED dialogs
       ELSE /\ accounts' = IF next.auto THEN rest ELSE Forget(rest, next.id)
            /\ rows' = IF next.auto THEN table ELSE Forget(table, next.id)
            /\ Open(LoginDialog(next.id, TRUE, TRUE))
            /\ UNCHANGED refreshing

\* AccountView::deleteAccount
DeleteAccount ==
    \E i \in DOMAIN accounts :
        /\ Idle
        /\ synced' = synced \ {accounts[i].id}
        /\ keyed' = keyed \ {accounts[i].id}
        /\ RemoveAccount(accounts[i].id)
        /\ UNCHANGED <<phase, tokenReqs, hist>>

\* AccountView::showAddAccountDialog
AddAccount ==
    /\ Idle
    /\ Open(LoginDialog(NoId, FALSE, FALSE))
    /\ UNCHANGED <<phase, accounts, rows, daemon, tokenReqs, refreshing, hist>>

\* AccountView::editAccountSettings: the dialog has a copy of the account.
OpenSettings ==
    \E i \in DOMAIN accounts :
        /\ Idle
        /\ Open([kind |-> "settings", account |-> accounts[i]])
        /\ UNCHANGED <<phase, accounts, rows, daemon, tokenReqs, refreshing, hist>>

\* A library of the current account is downloaded to be synced.
SyncLibrary ==
    /\ Idle
    /\ currentAccount.token = "good"
    /\ synced' = synced \cup {currentAccount.id}
    /\ keyed' = keyed \cup {currentAccount.id}
    /\ UNCHANGED <<phase, accounts, rows, dialogs, tokenReqs, refreshing, hist>>

-----------------------------------------------------------------------------
(* Dialogs, and functions that go on after them.                           *)

top == Head(dialogs)
Close == dialogs' = Tail(dialogs)
TopIs(kind) == Running /\ dialogs # <<>> /\ top.kind = kind

\* LoginDialog::doLogin has been called, or is called when the user gets to it.
OpenLogins == {k \in DOMAIN dialogs : dialogs[k].kind = "login" /\ ~dialogs[k].accepted}

\* onFetchAccountInfoSuccess, also of a dialog under other ones
LoginSucceeds ==
    \E k \in OpenLogins, auto \in BOOLEAN :
    \E id \in IF dialogs[k].relogin THEN {dialogs[k].id} ELSE Ids :
        LET existed == Has(accounts, id)
        IN /\ Running
           /\ SetCurrentAccount(accounts, [id |-> id, token |-> "good", auto |-> auto])
           /\ dialogs' = [i \in DOMAIN dialogs |->
                 IF i = k THEN [dialogs[i] EXCEPT !.accepted = TRUE]
                 ELSE Moved(dialogs[i], id, existed)]
           /\ hist' = [hist EXCEPT !.used = hist.used \cup {id}]
           /\ UNCHANGED <<phase, daemon, tokenReqs>>

\* The end of removeAccount, if the dialog was opened by it
RemovalEnds(d) ==
    IF d.removing THEN AccountsChanged(currentAccount) ELSE UNCHANGED refreshing

\* getSyncedReposToken and collectSyncedReposWithoutToken
GetSyncedReposToken(a) ==
    IF a.id \in synced \ keyed
    THEN tokenReqs \cup {[id |-> a.id, left |-> MaxRetries]}
    ELSE tokenReqs

\* reloginAccount goes on, with the account that is current by then
LoginReturns ==
    /\ phase = "running" /\ Returning
    /\ tokenReqs' = IF top.relogin THEN GetSyncedReposToken(currentAccount) ELSE tokenReqs
    /\ RemovalEnds(top)
    /\ Close
    /\ UNCHANGED <<phase, accounts, rows, daemon, hist>>

CancelLogin ==
    /\ TopIs("login")
    /\ RemovalEnds(top)
    /\ Close
    /\ UNCHANGED <<phase, accounts, rows, daemon, tokenReqs, hist>>

\* invalidateCurrentLogin goes on: accountRequireRelogin(account)
CloseExpired ==
    /\ TopIs("expired")
    /\ \E id \in IF top.intact THEN {top.id} ELSE Ids :
          dialogs' = <<LoginDialog(id, TRUE, FALSE)>> \o Tail(dialogs)
    /\ UNCHANGED <<phase, accounts, rows, daemon, tokenReqs, refreshing, hist>>

\* AccountSettingsDialog::onSubmitBtnClicked with a new address, replaceAccount:
\* the whole copy is written back. The table refuses an address it has already.
Renamed(S, old, new) == (S \ {old}) \cup IF old \in S THEN {new} ELSE {}

Replace(list, old, a) ==
    IF Has(list, old) THEN [list EXCEPT ![Place(list, old)] = a] ELSE list

ReplaceRow(old, a) ==
    IF Has(rows, old) /\ ~Has(rows, a.id) THEN <<a>> \o Without(rows, old) ELSE rows

SubmitSettings ==
    \E new \in Ids :
        LET old == top.account.id
            a == [top.account EXCEPT !.id = new]
            list == Replace(accounts, old, a)
        IN /\ TopIs("settings")
           /\ new # old
           /\ EditToExisting \/ ~Has(accounts, new)
           /\ accounts' = list
           /\ rows' = ReplaceRow(old, a)
           /\ AccountsChanged(CurrentIn(list))
           /\ synced' = Renamed(synced, old, new)
           /\ keyed' = Renamed(keyed, old, new)
           /\ tokenReqs' = {IF r.id = old THEN [r EXCEPT !.id = new] ELSE r : r \in tokenReqs}
           /\ hist' = [hist EXCEPT !.used = Renamed(hist.used, old, new)]
           /\ Close
           /\ UNCHANGED phase

CancelSettings ==
    /\ TopIs("settings")
    /\ Close
    /\ UNCHANGED <<phase, accounts, rows, daemon, tokenReqs, refreshing, hist>>

-----------------------------------------------------------------------------
(* Answers of the network and timers.                                      *)

\* refresh_timer_, and the single shot after a failure
RefreshTimer ==
    /\ Running
    /\ ~inRefresh /\ IsValid(currentAccount)
    /\ Refresh(currentAccount)
    /\ UNCHANGED <<phase, accounts, rows, daemon, dialogs, tokenReqs, hist>>

\* The answer reaches the client's event queue. Bound: one stale answer at most.
ListAnswered(answer) ==
    /\ phase = "running"
    /\ listReq # NoRequest /\ ~Answered /\ stale = "none"
    /\ listReq' = Answer(answer)
    /\ UNCHANGED <<phase, accounts, rows, daemon, dialogs, tokenReqs, inRefresh, stale, hist>>

\* The list, or 401; but any request can fail otherwise.
ServerAnswers == ListAnswered(IF listReq.token = "bad" THEN "401" ELSE "other")
NetworkFails == ListAnswered("other")

InvalidateCurrentLogin ==
    IF ~IsValid(currentAccount)
    THEN UNCHANGED <<accounts, rows, keyed, dialogs>>
    ELSE /\ ThereIsRoom
         /\ keyed' = clearSyncToken(currentAccount.id)
         /\ ClearAccountToken(currentAccount.id)
         /\ Open([kind |-> "expired", id |-> currentAccount.id, intact |-> TRUE])

\* onRefreshSuccess, onRefreshFailed, whichever request the answer is for
OnRefreshed(answer) ==
    /\ inRefresh' = FALSE
    /\ IF answer = "401" THEN InvalidateCurrentLogin ELSE UNCHANGED <<accounts, rows, keyed, dialogs>>
    /\ UNCHANGED <<phase, synced, tokenReqs, hist>>

ListDelivered ==
    /\ Running
    /\ Answered
    /\ listReq' = NoRequest
    /\ OnRefreshed(listReq.answer)
    /\ UNCHANGED stale

StaleDelivered ==
    /\ Running
    /\ stale # "none"
    /\ stale' = "none"
    /\ OnRefreshed(stale)
    /\ UNCHANGED listReq

\* onGetRepoTokensSuccess
TokensAnswered ==
    \E r \in tokenReqs :
        /\ Running
        /\ tokenReqs' = tokenReqs \ {r}
        /\ keyed' = keyed \cup ({r.id} \cap synced)
        /\ UNCHANGED <<phase, accounts, rows, synced, dialogs, refreshing, hist>>

\* onGetRepoTokensFailed up to its box, and after it
TokensFailed ==
    \E r \in tokenReqs :
        /\ Running /\ ThereIsRoom
        /\ tokenReqs' = tokenReqs \ {r}
        /\ Open([kind |-> "failed", id |-> r.id, left |-> r.left])
        /\ UNCHANGED <<phase, accounts, rows, daemon, refreshing, hist>>

\* Mutant: the last retry is not counted.
MayRetryOnceMore(left) == left >= 0

MayRetry(left) == left > 0

CloseFailed ==
    /\ TopIs("failed")
    /\ tokenReqs' = IF MayRetry(top.left)
                    THEN tokenReqs \cup {[id |-> top.id, left |-> top.left - 1]}
                    ELSE tokenReqs
    /\ Close
    /\ UNCHANGED <<phase, accounts, rows, daemon, refreshing, hist>>

Spoilt(x, id) == IF x.id = id /\ x.token = "good" THEN [x EXCEPT !.token = "bad"] ELSE x

\* The server no longer accepts the tokens it gave for an account.
Revoke ==
    \E id \in Ids :
        /\ phase = "running"
        /\ accounts' = [i \in DOMAIN accounts |-> Spoilt(accounts[i], id)]
        /\ rows' = [i \in DOMAIN rows |-> Spoilt(rows[i], id)]
        /\ dialogs' = [i \in DOMAIN dialogs |->
              IF dialogs[i].kind = "settings" THEN [dialogs[i] EXCEPT !.account = Spoilt(@, id)]
              ELSE dialogs[i]]
        /\ listReq' = Spoilt(listReq, id)
        /\ UNCHANGED <<phase, daemon, tokenReqs, inRefresh, stale, hist>>

-----------------------------------------------------------------------------
(* Start and end of the client.                                            *)

\* AccountManager::start, the first refresh of the ReposTab, and the last part
\* of SeafileApplet::onDaemonStarted.
Start ==
    LET a == CurrentIn(loadAccounts)
    IN /\ phase = "off"
       /\ phase' = "running"
       /\ keyed' = RemoveNonautoLoginSyncTokens(rows)
       /\ IF a.id # NoId /\ a.auto /\ IsValid(a)
          THEN SetCurrentAccount(loadAccounts, a) /\ dialogs' = <<>>
          ELSE /\ accounts' = IF a.auto THEN loadAccounts ELSE Forget(loadAccounts, a.id)
               /\ rows' = IF a.auto THEN rows ELSE Forget(rows, a.id)
               /\ dialogs' = <<LoginDialog(a.id, a.id # NoId, FALSE)>>
               /\ AccountsChanged(a)
       /\ hist' = [used |-> {id \in Ids : \E i \in DOMAIN accounts' : accounts'[i].id = id /\ IsValid(accounts'[i])},
                  clean |-> FALSE]
       /\ UNCHANGED <<synced, tokenReqs>>

Gone ==
    /\ phase' = "off"
    /\ accounts' = <<>> /\ dialogs' = <<>> /\ tokenReqs' = {}
    /\ inRefresh' = FALSE /\ listReq' = NoRequest /\ stale' = "none"

\* The event loops of all dialogs end; then aboutToQuit().
Quit ==
    /\ phase = "running"
    /\ Gone
    /\ LogoutDeviceNonautoLogin
    /\ hist' = [used |-> {}, clean |-> TRUE]
    /\ UNCHANGED synced

Crash ==
    /\ phase = "running"
    /\ Gone
    /\ hist' = [used |-> {}, clean |-> FALSE]
    /\ UNCHANGED <<rows, daemon>>

Next ==
    \/ SwitchAccount \/ ToggleAccount \/ DeleteAccount \/ AddAccount \/ OpenSettings \/ SyncLibrary
    \/ LoginSucceeds \/ LoginReturns \/ CancelLogin
    \/ CloseExpired \/ SubmitSettings \/ CancelSettings
    \/ RefreshTimer \/ ServerAnswers \/ NetworkFails \/ ListDelivered \/ StaleDelivered
    \/ TokensAnswered \/ TokensFailed \/ CloseFailed \/ Revoke
    \/ Start \/ Quit \/ Crash

Spec == Init /\ [][Next]_vars

-----------------------------------------------------------------------------
(* Properties.                                                             *)

\* After each operation the table on disk says what the list in memory says,
\* so that a client that is killed finds its accounts again
\* (setCurrentAccount, replaceAccount, clearAccountToken, removeAccount).
MemoryMatchesDb ==
    phase = "running" =>
        /\ Len(accounts) = Len(rows)
        /\ Range(accounts) = Range(rows)

\* Libraries of an account without automatic login are synced only if the client
\* has had a token of that account since it was started, from the user or, after
\* a crash, from the table, whatever answers come late
\* (removeNonautoLoginSyncTokens, account-mgr.cpp:617).
SyncNeedsLogin ==
    phase = "running" =>
        \A i \in DOMAIN accounts :
            ~accounts[i].auto /\ accounts[i].id \in keyed => accounts[i].id \in hist.used

\* A client that has quit leaves no token of an account without automatic login,
\* neither its own nor the daemon's, whichever dialogs were open
\* (logoutDeviceNonautoLogin, account-mgr.cpp:370).
QuitForgets ==
    phase = "off" /\ hist.clean =>
        \A i \in DOMAIN rows : rows[i].auto \/ (~IsValid(rows[i]) /\ rows[i].id \notin keyed)

\* "Accepted means the relogin has succeeded, which means the current account is
\* the newly relogged in account" (account-mgr.cpp:717): so the account whose
\* libraries are given new tokens is the one the dialog was opened for.
ReloginMakesCurrent ==
    [][LoginReturns /\ top.relogin => currentAccount.id = top.id]_vars
=============================================================================
