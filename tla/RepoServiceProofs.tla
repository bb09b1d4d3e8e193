--------------------------- MODULE RepoServiceProofs ---------------------------
(***************************************************************************)
(* What the list of libraries does to the synced ones, for any accounts    *)
(* and libraries: the types, and that a list unsyncs only what it says.    *)
(*                                                                         *)
(* The second is about three things that are read at different times: the  *)
(* account that is current when the answer comes, the one that was current *)
(* when it was asked for, and the lists of local libraries and of synced   *)
(* folders as the request found them.                                      *)
(***************************************************************************)
EXTENDS RepoService, FiniteSetTheorems, SequenceTheorems, TLAPS

\* A request, its answer, or none of them.
ShapeInv ==
    \/ listReq = NoRequest
    \/ listReq.account \in Accounts /\ listReq.answer.kind \in {"none", "list"}
    \/ listReq.account = NoAccount /\ listReq.answer.kind \in {"401", "wiped", "failed"}

\* The latest request is for the account that is current, unless that one has no
\* token.
ReqInv == login[current] => listReq.account \in {current, NoAccount}

\* A folder that is synced, or on the way to it, has its row, and is not both.
RowsInv ==
    /\ \A l \in Subfolders \cap (local \cup cloning) : <<l, Owner[l]>> \in table
    /\ local \cap cloning = {}

\* The lists that were read for a request know the same folders.
CacheInv ==
    quiet /\ login[current] /\ listReq.account = current
        => \A l \in locals \cap Subfolders : Owner[l] = current => l \in subs

IInv == TypeOK /\ ShapeInv /\ ReqInv /\ RowsInv /\ CacheInv

Requests == [account : Accounts \cup {NoAccount}, answer : Answers]

-----------------------------------------------------------------------------
(* Types.                                                                  *)

LEMMA RequestTypes ==
    /\ NoRequest \in Requests /\ NoRequest.account = NoAccount /\ NoRequest.answer.kind = "none"
    /\ \A a \in Accounts : /\ NewRequest(a) \in Requests /\ NewRequest(a) # NoRequest
                           /\ NewRequest(a).account = a /\ NewRequest(a).answer.kind = "none"
  BY LibrariesAssumption DEF NoRequest, NewRequest, Answer, Requests, Answers

\* The lists a refresh for account a makes when the daemon answers it.
Reads(a, tbl, loc, clo) ==
    /\ locals' = loc
    /\ \A l \in loc \cup clo : <<l, a>> \in tbl => l \in subs'
    /\ \A r \in tbl : r[1] \in loc \cup clo => r \in table'

\* What is so after a refresh.
LEMMA RefreshFacts ==
    ASSUME TypeOK, NEW a \in Accounts, NEW tbl, tbl \subseteq table,
           NEW loc \in SUBSET Libraries, NEW clo, NEW win \in Accounts \cup {NoAccount},
           RefreshFrom(a, RowsOf(a, tbl), tbl, loc, clo, win)
    PROVE  /\ table' \subseteq tbl /\ subs' \subseteq Subfolders /\ locals' \subseteq Libraries
           /\ repos' \in [of : Accounts \cup {NoAccount}, folders : SUBSET Subfolders]
           /\ shown' \in Accounts \cup {NoAccount}
           /\ inRefresh' = TRUE /\ chain' = <<>> /\ listReq' = NewRequest(a)
           /\ stale' \in Requests /\ quiet' \in BOOLEAN
           /\ ~RpcFails => Reads(a, tbl, loc, clo)
<1>1. table \subseteq Subfolders \X Accounts /\ stale \in Requests /\ listReq \in Requests
  BY DEF TypeOK, Requests
<1>2. PICK rows : rows = RowsOf(a, tbl)
  OBVIOUS
<1>3. rows \subseteq Subfolders /\ \A l : <<l, a>> \in tbl => l \in rows
  <2>1. \A r \in tbl : r[1] \in Subfolders
    BY <1>1
  <2>2. ASSUME NEW l, <<l, a>> \in tbl PROVE l \in rows
    <3>1. <<l, a>> \in {s \in tbl : s[2] = a}
      BY <2>2
    <3> QED
      BY <1>2, <3>1 DEF RowsOf
  <2> QED
    BY <1>2, <2>1, <2>2 DEF RowsOf
<1>4. PICK listed \in RpcOutcomes, asked \in RpcOutcomes :
      LET newLocals == IF listed THEN loc ELSE locals
          tasks == IF asked THEN clo ELSE {}
          gone == Gone(RowsOf(a, tbl), tasks, newLocals)
      IN \E removed \in SUBSET gone :
          /\ removed = {} => gone = {}
          /\ table' = {r \in tbl : r[1] \notin removed}
          /\ subs' = RowsOf(a, tbl) \ removed
          /\ repos' = [repos EXCEPT !.folders = @ \ removed]
          /\ shown' = IF removed \cap repos.folders # {} THEN repos.of ELSE win
          /\ locals' = newLocals
          /\ inRefresh' = TRUE
          /\ chain' = <<>>
          /\ listReq' = NewRequest(a)
          /\ stale' = IF Answered THEN listReq ELSE stale
          /\ quiet' = (listed /\ asked)
  BY DEF RefreshFrom
<1> DEFINE newLocals == IF listed THEN loc ELSE locals
           tasks == IF asked THEN clo ELSE {}
           gone == Gone(rows, tasks, newLocals)
<1>5. PICK removed \in SUBSET gone :
          /\ table' = {r \in tbl : r[1] \notin removed}
          /\ subs' = rows \ removed
          /\ repos' = [repos EXCEPT !.folders = @ \ removed]
          /\ shown' = IF removed \cap repos.folders # {} THEN repos.of ELSE win
          /\ locals' = newLocals
          /\ inRefresh' = TRUE
          /\ chain' = <<>>
          /\ listReq' = NewRequest(a)
          /\ stale' = IF Answered THEN listReq ELSE stale
          /\ quiet' = (listed /\ asked)
  BY <1>2, <1>4
<1>6. removed \cap (tasks \cup newLocals) = {}
  BY <1>5 DEF Gone
<1>7. ~RpcFails => tasks = clo /\ newLocals = loc
  BY DEF RpcOutcomes
<1> HIDE DEF newLocals, tasks, gone
<1>8. newLocals \subseteq Libraries
  BY DEF newLocals, TypeOK
<1>9. quiet' \in BOOLEAN
  BY <1>5
<1>10. repos' \in [of : Accounts \cup {NoAccount}, folders : SUBSET Subfolders]
       /\ shown' \in Accounts \cup {NoAccount}
  BY <1>5 DEF TypeOK
<1>11. stale' \in Requests
  BY <1>1, <1>5
<1>12. ASSUME ~RpcFails PROVE Reads(a, tbl, loc, clo)
  <2>1. tasks = clo /\ newLocals = loc
    BY <1>7, <1>12
  <2>2. removed \cap (loc \cup clo) = {} /\ locals' = loc
    BY <1>5, <1>6, <2>1
  <2> QED
    BY <1>3, <1>5, <2>2 DEF Reads
<1>13. table' \subseteq tbl /\ subs' \subseteq Subfolders /\ locals' \subseteq Libraries
       /\ inRefresh' = TRUE /\ chain' = <<>> /\ listReq' = NewRequest(a)
  BY <1>3, <1>5, <1>8
<1> QED
  BY <1>9, <1>10, <1>11, <1>12, <1>13

\* The parts of the type invariant.
WorldTypes ==
    /\ current \in Accounts
    /\ login \in [Accounts -> BOOLEAN]
    /\ local \subseteq Libraries /\ cloning \subseteq Libraries
    /\ permitted \subseteq Libraries /\ marked \subseteq Accounts
    /\ wipe \in {"no", "wiping", "reporting"}

TableTypes ==
    /\ table \subseteq Subfolders \X Accounts
    /\ \A r, s \in table : r[1] = s[1] => r = s

RequestsTypes ==
    /\ inRefresh \in BOOLEAN
    /\ inRefresh => listReq # NoRequest
    /\ listReq \in Requests /\ stale \in Requests
    /\ chain \in Seq([library : Subfolders, sent : BOOLEAN])

ListTypes ==
    /\ locals \subseteq Libraries /\ subs \subseteq Subfolders
    /\ repos \in [of : Accounts \cup {NoAccount}, folders : SUBSET Subfolders]
    /\ shown \in Accounts \cup {NoAccount}
    /\ quiet \in BOOLEAN

LEMMA TypeParts ==
    /\ TypeOK <=> WorldTypes /\ TableTypes /\ RequestsTypes /\ ListTypes
    /\ TypeOK' <=> WorldTypes' /\ TableTypes' /\ RequestsTypes' /\ ListTypes'
  BY DEF TypeOK, WorldTypes, TableTypes, RequestsTypes, ListTypes, Requests

LEMMA RefreshKeepsTypes ==
    ASSUME TypeOK, NEW a \in Accounts, NEW tbl, tbl \subseteq table,
           NEW loc \in SUBSET Libraries, NEW clo, NEW win \in Accounts \cup {NoAccount},
           RefreshFrom(a, RowsOf(a, tbl), tbl, loc, clo, win), WorldTypes'
    PROVE  TypeOK'
<1>1. /\ table' \subseteq tbl /\ subs' \subseteq Subfolders /\ locals' \subseteq Libraries
      /\ repos' \in [of : Accounts \cup {NoAccount}, folders : SUBSET Subfolders]
      /\ shown' \in Accounts \cup {NoAccount}
      /\ inRefresh' = TRUE /\ chain' = <<>> /\ listReq' = NewRequest(a)
      /\ stale' \in Requests /\ quiet' \in BOOLEAN
  BY RefreshFacts
<1>2. TableTypes'
  BY <1>1, TypeParts DEF TableTypes
<1>3. RequestsTypes'
  BY <1>1, RequestTypes, EmptySeq DEF RequestsTypes
<1>4. ListTypes'
  BY <1>1 DEF ListTypes
<1> QED
  BY <1>2, <1>3, <1>4, TypeParts

LEMMA ChangeKeepsTypes ==
    ASSUME TypeOK, NEW a \in Accounts, NEW valid \in BOOLEAN, NEW tbl, tbl \subseteq table,
           NEW loc \in SUBSET Libraries, NEW clo,
           AccountsChanged(a, valid, tbl, loc, clo), WorldTypes'
    PROVE  TypeOK'
<1>1. CASE valid
  BY <1>1, RefreshKeepsTypes DEF AccountsChanged
<1>2. CASE ~valid
  <2>1. table' = tbl /\ shown' = NoAccount /\ UNCHANGED <<requests, lists, quiet>>
    BY <1>2 DEF AccountsChanged
  <2>2. TableTypes'
    BY <2>1, TypeParts DEF TableTypes
  <2>3. RequestsTypes' /\ ListTypes'
    BY <2>1, TypeParts DEF RequestsTypes, ListTypes, requests, lists, NoRequest, Answer
  <2> QED
    BY <2>2, <2>3, TypeParts
<1> QED
  BY <1>1, <1>2

\* A sequence of the folders of a set.
LEMMA FoldersInOrder ==
    ASSUME NEW folders \in SUBSET Subfolders
    PROVE  [i \in 1..Cardinality(folders) |-> [library |-> SetToSeq(folders)[i], sent |-> FALSE]]
               \in Seq([library : Subfolders, sent : BOOLEAN])
<1>1. IsFiniteSet(folders)
  BY LibrariesAssumption, FS_Subset
<1>2. Cardinality(folders) \in Nat /\ ExistsBijection(1..Cardinality(folders), folders)
  BY <1>1, FS_CardinalityType
<1>3. PICK f \in [1..Cardinality(folders) -> folders] : IsInjective(f)
  BY <1>2 DEF ExistsBijection, Bijection, Injection, Surjection, IsInjective
<1>4. SetToSeq(folders) \in [1..Cardinality(folders) -> folders]
  BY <1>3 DEF SetToSeq
<1>5. PICK g : g = SetToSeq(folders)
  OBVIOUS
<1>6. PICK k : k = Cardinality(folders)
  OBVIOUS
<1>7. g \in [1..k -> Subfolders] /\ k \in Nat
  BY <1>2, <1>4, <1>5, <1>6
<1>8. PICK q : q = [i \in 1..k |-> [library |-> g[i], sent |-> FALSE]]
  OBVIOUS
<1>9. q \in [1..k -> [library : Subfolders, sent : BOOLEAN]]
  BY <1>7, <1>8
<1>10. q \in Seq([library : Subfolders, sent : BOOLEAN])
  <2>1. PICK S : S = [library : Subfolders, sent : BOOLEAN]
    OBVIOUS
  <2>2. Seq(S) = UNION {[1..m -> S] : m \in Nat}
    BY SeqDef
  <2>3. q \in [1..k -> S] /\ k \in Nat
    BY <1>7, <1>9, <2>1
  <2>4. q \in Seq(S)
    BY <2>2, <2>3, Zenon
  <2> QED
    BY <2>1, <2>4
<1> QED
  BY <1>5, <1>6, <1>8, <1>10

LEMMA ChainTypes ==
    ASSUME NEW S, S = [library : Subfolders, sent : BOOLEAN], NEW q \in Seq(S), q # <<>>
    PROVE  [q EXCEPT ![1].sent = TRUE] \in Seq(S)
<1>1. 1 \in 1..Len(q) /\ q[1] \in S
  <2>1. Len(q) \in Nat /\ Len(q) # 0
    BY EmptySeq, LenProperties
  <2>2. 1 \in 1..Len(q)
    BY <2>1
  <2> QED
    BY <2>2, ElementOfSeq
<1>2. PICK e : e = [q[1] EXCEPT !.sent = TRUE]
  OBVIOUS
<1>3. e \in S
  BY <1>1, <1>2
<1>4. [q EXCEPT ![1] = e] \in Seq(S)
  BY <1>1, <1>3, ExceptSeq
<1> QED
  BY <1>2, <1>4

\* The answer to a request for the list, its failures included.
LEMMA RefreshedKeepsTypes ==
    ASSUME TypeOK, NEW req \in Requests, OnRefreshed(req)
    PROVE  /\ WorldTypes' /\ TableTypes' /\ ListTypes'
           /\ inRefresh' = FALSE
           /\ chain' \in Seq([library : Subfolders, sent : BOOLEAN])
<1>1. /\ inRefresh' = FALSE /\ UNCHANGED <<current, cloning, permitted, marked, table, subs, quiet>>
  BY DEF OnRefreshed, InRefreshAfter, world
<1>2. WorldTypes /\ TableTypes /\ RequestsTypes /\ ListTypes
  BY TypeParts
<1>3. req.account \in Accounts \cup {NoAccount}
  BY DEF Requests
<1>4. CASE req.answer.kind = "list"
  <2>1. /\ repos' = [of |-> req.account, folders |-> {}]
        /\ chain' = GetRequests(subs \ req.answer.list)
        /\ local' = local \ Unsyncs(req.answer.list)
        /\ shown' = (IF login[current] /\ chain' = <<>> THEN req.account ELSE shown)
        /\ UNCHANGED <<login, locals, wipe>>
    BY <1>4 DEF OnRefreshed, OnRefreshSuccess
  <2>2. chain' \in Seq([library : Subfolders, sent : BOOLEAN])
    <3>1. PICK folders \in SUBSET Subfolders : folders = subs \ req.answer.list
      BY <1>2 DEF ListTypes
    <3>2. PICK new : new = [i \in 1..Cardinality(folders) |->
                               [library |-> SetToSeq(folders)[i], sent |-> FALSE]]
      OBVIOUS
    <3>3. new \in Seq([library : Subfolders, sent : BOOLEAN])
      BY <3>2, FoldersInOrder
    <3>4. chain' = IF chain = <<>> /\ new # <<>> THEN [new EXCEPT ![1].sent = TRUE]
                   ELSE chain \o new
      BY <2>1, <3>1, <3>2 DEF GetRequests
    <3>5. new # <<>> => [new EXCEPT ![1].sent = TRUE] \in Seq([library : Subfolders, sent : BOOLEAN])
      BY <3>3, ChainTypes
    <3>6. chain \o new \in Seq([library : Subfolders, sent : BOOLEAN])
      BY <1>2, <3>3, ConcatProperties DEF RequestsTypes
    <3> QED
      BY <3>4, <3>5, <3>6
  <2> QED
    BY <1>1, <1>2, <1>3, <2>1, <2>2 DEF WorldTypes, TableTypes, ListTypes
<1>5. CASE req.answer.kind # "list"
  <2>1. OnRefreshFailed(req.answer.kind)
    BY <1>5 DEF OnRefreshed
  <2>2. /\ UNCHANGED <<repos, chain>>
        /\ login' \in [Accounts -> BOOLEAN]
        /\ shown' \in Accounts \cup {NoAccount}
        /\ wipe' \in {"no", "wiping", "reporting"}
        /\ local' \subseteq Libraries /\ locals' \subseteq Libraries
    <3>1. login' = login \/ login' = [login EXCEPT ![current] = FALSE]
      BY <2>1 DEF OnRefreshFailed, InvalidateCurrentLogin
    <3>2. shown' = shown \/ shown' = NoAccount
      BY <2>1 DEF OnRefreshFailed, InvalidateCurrentLogin
    <3>3. wipe' = wipe \/ wipe' = "wiping"
      BY <2>1 DEF OnRefreshFailed, WipeLocalFiles
    <3>4. (local' = local \/ local' = local \ OwnedBy(current)) /\ (locals' = locals \/ locals' = local)
      BY <2>1 DEF OnRefreshFailed, WipeLocalFiles
    <3> QED
      BY <1>2, <2>1, <3>1, <3>2, <3>3, <3>4 DEF WorldTypes, ListTypes, OnRefreshFailed
  <2> QED
    BY <1>1, <1>2, <2>2 DEF WorldTypes, TableTypes, ListTypes, RequestsTypes
<1> QED
  BY <1>1, <1>4, <1>5

LEMMA AnswerKeepsTypes ==
    ASSUME TypeOK, NEW answer \in Answers, answer.kind # "none", ListAnswered(answer)
    PROVE  TypeOK'
<1>1. /\ listReq' = [account |-> IF answer.kind = "list" THEN listReq.account ELSE NoAccount,
                     answer |-> answer]
      /\ UNCHANGED <<current, login, daemon, world, table, inRefresh, stale, chain, lists,
                     shown, wipe, quiet>>
  BY DEF ListAnswered
<1>2. listReq' \in Requests /\ listReq' # NoRequest
  BY <1>1 DEF TypeOK, Requests, NoRequest, Answer
<1>3. WorldTypes' /\ TableTypes' /\ ListTypes'
  BY <1>1, TypeParts DEF WorldTypes, TableTypes, ListTypes, daemon, world, lists
<1>4. RequestsTypes'
  BY <1>1, <1>2, TypeParts DEF RequestsTypes
<1> QED
  BY <1>3, <1>4, TypeParts

LEMMA AnswerTypes ==
    ASSUME TypeOK, ServerAnswers \/ RequestFails
    PROVE  \E answer \in Answers : answer.kind # "none" /\ ListAnswered(answer)
<1>1. CASE ServerAnswers
  <2>1. PICK answer : /\ ListAnswered(answer)
                      /\ \/ answer = Answer("wiped", {})
                         \/ answer = Answer("list", (OwnedBy(listReq.account) \cap permitted) \ Subfolders)
    BY <1>1 DEF ServerAnswers
  <2>2. OwnedBy(listReq.account) \subseteq Libraries
    BY DEF OwnedBy
  <2>3. answer \in Answers /\ answer.kind # "none"
    BY <2>1, <2>2 DEF Answers, Answer
  <2> QED
    BY <2>1, <2>3
<1>2. CASE RequestFails
  <2>1. PICK kind \in {"401", "failed"} : ListAnswered(Answer(kind, {}))
    BY <1>2 DEF RequestFails
  <2>2. Answer(kind, {}) \in Answers /\ Answer(kind, {}).kind # "none"
    BY DEF Answers, Answer
  <2> QED
    BY <2>1, <2>2
<1> QED
  BY <1>1, <1>2

\* The requests for folders that follow a list.
LEMMA GetKeepsTypes ==
    ASSUME TypeOK, GetRequestAnswered
    PROVE  TypeOK'
<1>1. /\ chain # <<>> /\ chain' = AfterGetRequest
      /\ UNCHANGED <<current, login, daemon, world, table, inRefresh, listReq, stale, locals,
                     subs, wipe, quiet>>
  BY DEF GetRequestAnswered
<1>2. PICK S : S = [library : Subfolders, sent : BOOLEAN]
  OBVIOUS
<1>3. chain \in Seq(S)
  BY <1>2 DEF TypeOK
<1>4. chain' \in Seq(S)
  <2>1. CASE Len(chain) > 1
    <3>1. PICK q : q = Tail(chain)
      OBVIOUS
    <3>2. q \in Seq(S) /\ Len(q) = Len(chain) - 1
      BY <1>1, <1>3, <3>1, HeadTailProperties
    <3>3. q # <<>>
      BY <1>3, <2>1, <3>2, EmptySeq, LenProperties
    <3> QED
      BY <1>1, <1>2, <2>1, <3>1, <3>2, <3>3, ChainTypes DEF AfterGetRequest
  <2>2. CASE ~(Len(chain) > 1)
    BY <1>1, <2>2, EmptySeq DEF AfterGetRequest
  <2> QED
    BY <2>1, <2>2
<1>5. /\ repos' \in [of : Accounts \cup {NoAccount}, folders : SUBSET Subfolders]
      /\ shown' \in Accounts \cup {NoAccount}
  <2>1. Head(chain).library \in Subfolders
    <3>1. Head(chain) \in S
      BY <1>1, <1>3, HeadTailProperties
    <3> QED
      BY <1>2, <3>1
  <2>2. repos' = repos \/ repos' = [repos EXCEPT !.folders = @ \cup {Head(chain).library}]
    BY DEF GetRequestAnswered
  <2>3. shown' = repos.of \/ shown' = shown
    BY DEF GetRequestAnswered
  <2> QED
    BY <2>1, <2>2, <2>3 DEF TypeOK
<1>6. WorldTypes' /\ TableTypes' /\ ListTypes'
  BY <1>1, <1>5, TypeParts DEF WorldTypes, TableTypes, ListTypes, daemon, world
<1>7. RequestsTypes'
  BY <1>1, <1>2, <1>4, TypeParts DEF RequestsTypes
<1> QED
  BY <1>6, <1>7, TypeParts

LEMMA TypeOfInit == ASSUME Init PROVE TypeOK
<1>1. WorldTypes /\ TableTypes /\ ListTypes
  BY DEF Init, WorldTypes, TableTypes, ListTypes
<1>2. RequestsTypes
  BY RequestTypes, EmptySeq DEF Init, RequestsTypes
<1> QED
  BY <1>1, <1>2, TypeParts

LEMMA TypeOfStep == ASSUME TypeOK, [Next]_vars PROVE TypeOK'
<1>0. WorldTypes /\ TableTypes /\ RequestsTypes /\ ListTypes
  BY TypeParts
<1>1. CASE RefreshTimer \/ Reload
  <2>1. Refresh /\ UNCHANGED <<current, login, daemon, world, wipe>>
    BY <1>1 DEF RefreshTimer, Reload
  <2>2. PICK a \in Accounts, tbl \in SUBSET table, loc \in SUBSET Libraries,
             clo \in SUBSET Libraries, win \in Accounts \cup {NoAccount} :
            a = current /\ tbl = table /\ loc = local /\ clo = cloning /\ win = shown
    BY <1>0 DEF WorldTypes, ListTypes
  <2>3. RefreshFrom(a, RowsOf(a, tbl), tbl, loc, clo, win)
    BY <2>1, <2>2 DEF Refresh
  <2>4. WorldTypes'
    BY <1>0, <2>1 DEF WorldTypes, daemon, world
  <2> QED
    BY <2>2, <2>3, <2>4, RefreshKeepsTypes
<1>2. ASSUME NEW b \in Accounts, UseAccount(b) PROVE TypeOK'
  <2>1. PICK tbl \in SUBSET table, loc \in SUBSET Libraries, clo \in SUBSET Libraries :
            tbl = table /\ loc = local /\ clo = cloning
    BY <1>0 DEF WorldTypes
  <2>2. AccountsChanged(b, TRUE, tbl, loc, clo)
    BY <1>2, <2>1 DEF UseAccount
  <2>3. WorldTypes'
    BY <1>0, <1>2 DEF UseAccount, WorldTypes, daemon, world
  <2> QED
    BY <2>1, <2>2, <2>3, ChangeKeepsTypes
<1>3. ASSUME NEW b \in Accounts, Logout(b) PROVE TypeOK'
  <2>1. WorldTypes'
    BY <1>0, <1>3 DEF Logout, WorldTypes, daemon, world
  <2>2. PICK a \in Accounts, valid \in BOOLEAN, tbl \in SUBSET table,
             loc \in SUBSET Libraries, clo \in SUBSET Libraries :
            a = current /\ valid = login'[current] /\ tbl = table /\ loc = local /\ clo = cloning
    BY <1>0, <2>1 DEF WorldTypes
  <2>3. AccountsChanged(a, valid, tbl, loc, clo)
    BY <1>3, <2>2 DEF Logout
  <2> QED
    BY <2>1, <2>2, <2>3, ChangeKeepsTypes
<1>4. ASSUME NEW b \in Accounts, DeleteAccount(b) PROVE TypeOK'
  <2>1. PICK next \in Accounts, valid \in BOOLEAN :
            /\ current' = next
            /\ login' = [login EXCEPT ![b] = FALSE, ![next] = valid]
            /\ local' = local \ OwnedBy(b)
            /\ cloning' = cloning \ OwnedBy(b)
            /\ AccountsChanged(next, valid, {r \in table : r[2] # b}, local', cloning')
            /\ UNCHANGED <<world, wipe>>
    BY <1>0, <1>4 DEF DeleteAccount, WorldTypes
  <2>2. WorldTypes'
    BY <1>0, <2>1 DEF WorldTypes, world
  <2>3. PICK tbl \in SUBSET table, loc \in SUBSET Libraries, clo \in SUBSET Libraries :
            tbl = {r \in table : r[2] # b} /\ loc = local' /\ clo = cloning'
    BY <2>2 DEF WorldTypes
  <2>4. AccountsChanged(next, valid, tbl, loc, clo) /\ tbl \subseteq table
    BY <2>1, <2>3
  <2> QED
    BY <2>2, <2>3, <2>4, ChangeKeepsTypes
<1>5. CASE SyncLibrary \/ CloneEnds \/ Grant \/ Deny \/ Mark \/ WiperDone
  <2>1. UNCHANGED refreshing
    BY <1>5 DEF SyncLibrary, CloneEnds, Grant, Deny, Mark, WiperDone
  <2>2. WorldTypes'
    <3>1. SyncLibrary => WorldTypes'
      BY <1>0 DEF SyncLibrary, WorldTypes, StartClone, world, OwnedBy
    <3>2. CloneEnds => WorldTypes'
      BY <1>0 DEF CloneEnds, WorldTypes, world
    <3>3. Grant => WorldTypes'
      BY <1>0 DEF Grant, WorldTypes, daemon
    <3>4. Deny => WorldTypes'
      BY <1>0 DEF Deny, WorldTypes, daemon
    <3>5. Mark => WorldTypes'
      BY <1>0, LibrariesAssumption DEF Mark, WorldTypes, daemon
    <3>6. WiperDone => WorldTypes'
      BY <1>0 DEF WiperDone, WorldTypes, daemon, world
    <3> QED
      BY <1>5, <3>1, <3>2, <3>3, <3>4, <3>5, <3>6
  <2>3. TableTypes' /\ RequestsTypes' /\ ListTypes'
    BY <1>0, <2>1 DEF TableTypes, RequestsTypes, ListTypes, refreshing, requests, lists,
       NoRequest, Answer
  <2> QED
    BY <2>2, <2>3, TypeParts
<1>6. CASE SyncFolder
  <2>1. PICK l \in Subfolders \ cloning :
            /\ IF l \in local THEN UNCHANGED cloning ELSE StartClone(l)
            /\ permitted' = permitted \cup {l}
            /\ table' = {r \in table : r[1] # l} \cup {<<l, current>>}
            /\ repos' = [repos EXCEPT !.folders = @ \cup {l}]
            /\ shown' = repos.of
            /\ UNCHANGED <<current, login, local, marked, requests, locals, subs, wipe, quiet>>
    BY <1>6 DEF SyncFolder
  <2>2. l \in Libraries
    BY LibrariesAssumption
  <2>3. WorldTypes'
    BY <1>0, <2>1, <2>2 DEF WorldTypes, StartClone
  <2>4. TableTypes'
    BY <1>0, <2>1 DEF TableTypes, WorldTypes
  <2>5. RequestsTypes' /\ ListTypes'
    BY <1>0, <2>1 DEF RequestsTypes, ListTypes, requests, NoRequest, Answer
  <2> QED
    BY <2>3, <2>4, <2>5, TypeParts
<1>7. CASE UserUnsyncs
  <2>1. PICK l \in local :
            /\ local' = local \ {l}
            /\ IF l \in repos.folders
               THEN /\ table' = {r \in table : r[1] # l}
                    /\ subs' = subs \ {l}
                    /\ repos' = [repos EXCEPT !.folders = @ \ {l}]
                    /\ shown' = repos.of
                    /\ quiet' = FALSE
               ELSE UNCHANGED <<table, subs, repos, shown, quiet>>
            /\ UNCHANGED <<current, login, cloning, world, requests, locals, wipe>>
    BY <1>7 DEF UserUnsyncs
  <2>2. WorldTypes' /\ RequestsTypes'
    BY <1>0, <2>1 DEF WorldTypes, RequestsTypes, world, requests, NoRequest, Answer
  <2>3. CASE l \in repos.folders
    <3>1. TableTypes' /\ ListTypes'
      <4>1. TableTypes'
        BY <1>0, <2>1, <2>3 DEF TableTypes
      <4>2. repos' = [repos EXCEPT !.folders = @ \ {l}]
        BY <2>1, <2>3
      <4>3. repos' \in [of : Accounts \cup {NoAccount}, folders : SUBSET Subfolders]
        BY <1>0, <4>2 DEF ListTypes
      <4>4. quiet' \in BOOLEAN /\ shown' = repos.of /\ subs' = subs \ {l} /\ locals' = locals
        BY <2>1, <2>3
      <4>5. ListTypes'
        BY <1>0, <4>3, <4>4 DEF ListTypes
      <4> QED
        BY <4>1, <4>5
    <3> QED
      BY <2>2, <3>1, TypeParts
  <2>4. CASE l \notin repos.folders
    <3>1. TableTypes' /\ ListTypes'
      BY <1>0, <2>1, <2>4 DEF TableTypes, ListTypes
    <3> QED
      BY <2>2, <3>1, TypeParts
  <2> QED
    BY <2>3, <2>4
<1>8. CASE ChooseFolder
  <2>1. /\ locals' = local /\ quiet' = FALSE
        /\ UNCHANGED <<current, login, daemon, world, table, requests, subs, repos, shown, wipe>>
    BY <1>8 DEF ChooseFolder
  <2>2. WorldTypes' /\ TableTypes' /\ RequestsTypes' /\ ListTypes'
    BY <1>0, <2>1 DEF WorldTypes, TableTypes, RequestsTypes, ListTypes, daemon, world, requests,
       NoRequest, Answer
  <2> QED
    BY <2>2, TypeParts
<1>9. CASE ServerAnswers \/ RequestFails
  BY <1>9, AnswerTypes, AnswerKeepsTypes
<1>10. CASE ListDelivered
  <2>1. OnRefreshed(listReq) /\ listReq' = NoRequest /\ UNCHANGED stale
    BY <1>10 DEF ListDelivered
  <2>2. PICK req \in Requests : req = listReq
    BY <1>0 DEF RequestsTypes
  <2>3. OnRefreshed(req)
    BY <2>1, <2>2
  <2>4. /\ WorldTypes' /\ TableTypes' /\ ListTypes' /\ inRefresh' = FALSE
        /\ chain' \in Seq([library : Subfolders, sent : BOOLEAN])
    BY <2>3, RefreshedKeepsTypes
  <2>5. RequestsTypes'
    BY <1>0, <2>1, <2>4, RequestTypes DEF RequestsTypes
  <2> QED
    BY <2>4, <2>5, TypeParts
<1>11. CASE StaleDelivered
  <2>1. OnRefreshed(stale) /\ stale' = NoRequest /\ UNCHANGED listReq
    BY <1>11 DEF StaleDelivered
  <2>2. PICK req \in Requests : req = stale
    BY <1>0 DEF RequestsTypes
  <2>3. OnRefreshed(req)
    BY <2>1, <2>2
  <2>4. /\ WorldTypes' /\ TableTypes' /\ ListTypes' /\ inRefresh' = FALSE
        /\ chain' \in Seq([library : Subfolders, sent : BOOLEAN])
    BY <2>3, RefreshedKeepsTypes
  <2>5. RequestsTypes'
    BY <1>0, <2>1, <2>4, RequestTypes DEF RequestsTypes
  <2> QED
    BY <2>4, <2>5, TypeParts
<1>12. CASE GetRequestAnswered
  BY <1>12, GetKeepsTypes
<1>13. CASE WipeReported
  <2>1. /\ wipe' = "no" /\ UNCHANGED <<current, daemon, world, table, requests, lists, quiet>>
        /\ login' = [login EXCEPT ![current] = FALSE]
        /\ shown' = shown \/ shown' = NoAccount
    BY <1>13 DEF WipeReported, InvalidateCurrentLogin
  <2>2. WorldTypes' /\ TableTypes' /\ RequestsTypes' /\ ListTypes'
    BY <1>0, <2>1 DEF WorldTypes, TableTypes, RequestsTypes, ListTypes, daemon, world, requests,
       lists, NoRequest, Answer
  <2> QED
    BY <2>2, TypeParts
<1>14. CASE UNCHANGED vars
  BY <1>0, <1>14, TypeParts DEF vars, WorldTypes, TableTypes, RequestsTypes, ListTypes, daemon,
     world, refreshing, requests, lists, NoRequest, Answer
<1> QED
  BY <1>1, <1>2, <1>3, <1>4, <1>5, <1>6, <1>7, <1>8, <1>9, <1>10, <1>11, <1>12, <1>13, <1>14
     DEF Next

\* The types hold, and in_refresh_ is set only while a request is under way, or
\* no timer would ever refresh the list again.
THEOREM TypeCorrect == Spec => []TypeOK
  BY TypeOfInit, TypeOfStep, PTL DEF Spec

-----------------------------------------------------------------------------
(* The invariant. It is so while folders are synced in windows of the      *)
(* current account, and the daemon answers refresh().                      *)

SafeInv == ShapeInv /\ ReqInv /\ RowsInv /\ CacheInv

LEMMA RefreshKeeps ==
    ASSUME TypeOK, ~RpcFails, NEW a \in Accounts, NEW tbl, tbl \subseteq table,
           NEW loc \in SUBSET Libraries, NEW clo \in SUBSET Libraries,
           NEW win \in Accounts \cup {NoAccount},
           RefreshFrom(a, RowsOf(a, tbl), tbl, loc, clo, win),
           current' = a, local' = loc, cloning' = clo, loc \cap clo = {},
           \A l \in Subfolders \cap (loc \cup clo) : <<l, Owner[l]>> \in tbl
    PROVE  SafeInv'
<1>1. /\ listReq' = NewRequest(a) /\ locals' = loc
      /\ \A l \in loc \cup clo : <<l, a>> \in tbl => l \in subs'
      /\ \A r \in tbl : r[1] \in loc \cup clo => r \in table'
  <2>1. listReq' = NewRequest(a) /\ (~RpcFails => Reads(a, tbl, loc, clo))
    BY RefreshFacts
  <2> QED
    BY <2>1 DEF Reads
<1>2. /\ NewRequest(a).account = a /\ NewRequest(a).answer.kind = "none"
  BY RequestTypes
<1>3. ShapeInv' /\ ReqInv'
  BY <1>1, <1>2 DEF ShapeInv, ReqInv
<1>4. RowsInv'
  <2>1. ASSUME NEW l \in Subfolders \cap (loc \cup clo) PROVE <<l, Owner[l]>> \in table'
    <3>1. PICK r : r = <<l, Owner[l]>>
      OBVIOUS
    <3>2. r \in tbl /\ r[1] = l
      BY <3>1
    <3> QED
      BY <1>1, <3>1, <3>2
  <2> QED
    BY <2>1 DEF RowsInv
<1>5. CacheInv'
  <2>1. ASSUME NEW l \in locals' \cap Subfolders, Owner[l] = a PROVE l \in subs'
    <3>1. l \in loc /\ <<l, a>> \in tbl
      BY <1>1, <2>1
    <3> QED
      BY <1>1, <3>1
  <2> QED
    BY <2>1 DEF CacheInv
<1> QED
  BY <1>3, <1>4, <1>5 DEF SafeInv

LEMMA ChangeKeeps ==
    ASSUME TypeOK, SafeInv, ~RpcFails, NEW a \in Accounts, NEW valid \in BOOLEAN,
           NEW tbl, tbl \subseteq table,
           NEW loc \in SUBSET Libraries, NEW clo \in SUBSET Libraries,
           AccountsChanged(a, valid, tbl, loc, clo),
           current' = a, ~valid => ~login'[a],
           local' = loc, cloning' = clo, loc \cap clo = {},
           \A l \in Subfolders \cap (loc \cup clo) : <<l, Owner[l]>> \in tbl
    PROVE  SafeInv'
<1>1. CASE valid
  BY <1>1, RefreshKeeps DEF AccountsChanged
<1>2. CASE ~valid
  <2>1. table' = tbl /\ listReq' = listReq /\ ~login'[current']
    BY <1>2 DEF AccountsChanged, requests
  <2>2. ShapeInv' /\ ReqInv' /\ CacheInv'
    BY <2>1 DEF SafeInv, ShapeInv, ReqInv, CacheInv, NoRequest, Answer
  <2>3. RowsInv'
    BY <2>1 DEF RowsInv
  <2> QED
    BY <2>2, <2>3 DEF SafeInv
<1> QED
  BY <1>1, <1>2

\* An answer leaves folders and rows alone, or unsyncs libraries, or ends the
\* login of the current account. The local libraries are listed again only by a
\* wipe, whose answer is for no account.
LEMMA RefreshedFacts ==
    ASSUME TypeOK, NEW req \in Requests, OnRefreshed(req)
    PROVE  /\ UNCHANGED <<current, cloning, table, subs, quiet>>
           /\ local' \subseteq local
           /\ login' = login \/ login' = [login EXCEPT ![current] = FALSE]
           /\ locals' = locals \/ listReq.answer.kind = "wiped"
<1>1. UNCHANGED <<current, cloning, table, subs, quiet>>
  BY DEF OnRefreshed
<1>2. CASE req.answer.kind = "list"
  BY <1>1, <1>2 DEF OnRefreshed, OnRefreshSuccess
<1>3. CASE req.answer.kind # "list"
  <2>1. OnRefreshFailed(req.answer.kind)
    BY <1>3 DEF OnRefreshed
  <2>2. login' = login \/ login' = [login EXCEPT ![current] = FALSE]
    BY <2>1 DEF OnRefreshFailed, InvalidateCurrentLogin
  <2>3. local' \subseteq local /\ (locals' = locals \/ listReq.answer.kind = "wiped")
    BY <2>1 DEF OnRefreshFailed, WipeLocalFiles
  <2> QED
    BY <1>1, <2>2, <2>3
<1> QED
  BY <1>2, <1>3

LEMMA AnswerKeeps ==
    ASSUME TypeOK, SafeInv, NEW answer \in Answers, answer.kind # "none", ListAnswered(answer)
    PROVE  SafeInv'
<1>1. /\ listReq # NoRequest /\ listReq.answer.kind = "none"
      /\ listReq' = [account |-> IF answer.kind = "list" THEN listReq.account ELSE NoAccount,
                     answer |-> answer]
      /\ UNCHANGED <<current, login, local, cloning, table, locals, subs, quiet>>
  BY DEF ListAnswered, Answered, daemon, lists
<1>2. /\ listReq'.answer.kind = answer.kind
      /\ answer.kind = "list" => listReq'.account = listReq.account
      /\ answer.kind # "list" => listReq'.account = NoAccount
  BY <1>1
<1>3. listReq.account \in Accounts
  BY <1>1 DEF SafeInv, ShapeInv
<1>4. answer.kind \in {"list", "401", "wiped", "failed"}
  BY DEF Answers
<1>5. ShapeInv'
  BY <1>2, <1>3, <1>4 DEF ShapeInv
<1>6. ReqInv'
  BY <1>1, <1>2 DEF SafeInv, ReqInv
<1>7. CacheInv'
  BY <1>1, <1>2, LibrariesAssumption DEF SafeInv, CacheInv, TypeOK
<1>8. RowsInv'
  BY <1>1 DEF SafeInv, RowsInv
<1> QED
  BY <1>5, <1>6, <1>7, <1>8 DEF SafeInv

\* A step that leaves the request, its lists and the account alone, and at most
\* ends the login of that account.
LEMMA QuietStepKeeps ==
    ASSUME TypeOK, SafeInv, UNCHANGED <<current, listReq>>,
           login' = login \/ login' = [login EXCEPT ![current] = FALSE],
           (UNCHANGED <<locals, subs, quiet>>) \/ quiet' = FALSE \/ listReq.account = NoAccount,
           RowsInv'
    PROVE  SafeInv'
<1>1. login'[current] => login[current]
  BY DEF TypeOK
<1>2. ShapeInv' /\ ReqInv'
  BY <1>1 DEF SafeInv, ShapeInv, ReqInv, NoRequest, Answer
<1>3. CASE UNCHANGED <<locals, subs, quiet>>
  <2>1. CacheInv'
    BY <1>1, <1>3 DEF SafeInv, CacheInv
  <2> QED
    BY <1>2, <2>1 DEF SafeInv
<1>4. CASE quiet' = FALSE
  BY <1>2, <1>4 DEF SafeInv, CacheInv
<1>5. CASE listReq.account = NoAccount
  BY <1>2, <1>5, LibrariesAssumption DEF SafeInv, CacheInv, TypeOK
<1> QED
  BY <1>3, <1>4, <1>5

LEMMA RefreshedKeeps ==
    ASSUME TypeOK, SafeInv, NEW req \in Requests, OnRefreshed(req),
           listReq' = listReq \/ listReq' = NoRequest
    PROVE  SafeInv'
<1>1. /\ UNCHANGED <<current, cloning, table, subs, quiet>>
      /\ local' \subseteq local
      /\ login' = login \/ login' = [login EXCEPT ![current] = FALSE]
      /\ locals' = locals \/ listReq.answer.kind = "wiped"
  BY RefreshedFacts
<1>2. RowsInv'
  BY <1>1 DEF SafeInv, RowsInv
<1>3. listReq.answer.kind = "wiped" => listReq.account = NoAccount
  BY RequestTypes DEF SafeInv, ShapeInv
<1>4. CASE listReq' = listReq
  BY <1>1, <1>2, <1>3, <1>4, QuietStepKeeps
<1>5. CASE listReq' = NoRequest
  <2>1. listReq'.account = NoAccount /\ current' \in Accounts
    BY <1>1, <1>5, RequestTypes DEF TypeOK
  <2>2. ShapeInv'
    BY <1>5 DEF ShapeInv, NoRequest, Answer
  <2>3. ReqInv' /\ CacheInv'
    BY <2>1, LibrariesAssumption DEF ReqInv, CacheInv
  <2> QED
    BY <1>2, <2>2, <2>3 DEF SafeInv
<1> QED
  BY <1>4, <1>5

THEOREM ListsInvariant == ASSUME ~OtherWindows, ~RpcFails PROVE Spec => []IInv
<1>1. Init => IInv
  <2> SUFFICES ASSUME Init PROVE SafeInv
    BY TypeOfInit DEF IInv, SafeInv
  <2>1. ShapeInv /\ RowsInv
    BY DEF Init, ShapeInv, RowsInv
  <2>2. ReqInv /\ CacheInv
    BY RequestTypes DEF Init, ReqInv, CacheInv
  <2> QED
    BY <2>1, <2>2 DEF SafeInv
<1>2. IInv /\ [Next]_vars => IInv'
  <2> SUFFICES ASSUME TypeOK, SafeInv, [Next]_vars PROVE SafeInv'
    BY TypeOfStep DEF IInv, SafeInv
  <2>0. /\ WorldTypes /\ TableTypes /\ RequestsTypes /\ ListTypes
        /\ ShapeInv /\ ReqInv /\ RowsInv /\ CacheInv
    BY TypeParts DEF SafeInv
  <2>1. CASE RefreshTimer \/ Reload
    <3>1. Refresh /\ UNCHANGED <<current, login, daemon, world, wipe>>
      BY <2>1 DEF RefreshTimer, Reload
    <3>2. PICK a \in Accounts, tbl \in SUBSET table, loc \in SUBSET Libraries,
               clo \in SUBSET Libraries, win \in Accounts \cup {NoAccount} :
              a = current /\ tbl = table /\ loc = local /\ clo = cloning /\ win = shown
      BY <2>0 DEF WorldTypes, ListTypes
    <3>3. RefreshFrom(a, RowsOf(a, tbl), tbl, loc, clo, win)
      BY <3>1, <3>2 DEF Refresh
    <3>4. current' = a /\ local' = loc /\ cloning' = clo
      BY <3>1, <3>2 DEF daemon
    <3>5. loc \cap clo = {} /\ \A l \in Subfolders \cap (loc \cup clo) : <<l, Owner[l]>> \in tbl
      BY <2>0, <3>2 DEF RowsInv
    <3> QED
      BY <3>2, <3>3, <3>4, <3>5, RefreshKeeps
  <2>2. ASSUME NEW b \in Accounts, UseAccount(b) PROVE SafeInv'
    <3>1. PICK tbl \in SUBSET table, loc \in SUBSET Libraries, clo \in SUBSET Libraries :
              tbl = table /\ loc = local /\ clo = cloning
      BY <2>0 DEF WorldTypes
    <3>2. AccountsChanged(b, TRUE, tbl, loc, clo)
      BY <2>2, <3>1 DEF UseAccount
    <3>3. current' = b /\ local' = loc /\ cloning' = clo
      BY <2>2, <3>1 DEF UseAccount, daemon
    <3>4. loc \cap clo = {} /\ \A l \in Subfolders \cap (loc \cup clo) : <<l, Owner[l]>> \in tbl
      BY <2>0, <3>1 DEF RowsInv
    <3> QED
      BY <3>1, <3>2, <3>3, <3>4, ChangeKeeps
  <2>3. ASSUME NEW b \in Accounts, Logout(b) PROVE SafeInv'
    <3>1. login' \in [Accounts -> BOOLEAN] /\ UNCHANGED <<current, local, cloning>>
      BY <2>0, <2>3 DEF Logout, WorldTypes, daemon
    <3>2. PICK a \in Accounts, valid \in BOOLEAN, tbl \in SUBSET table,
               loc \in SUBSET Libraries, clo \in SUBSET Libraries :
              a = current /\ valid = login'[current] /\ tbl = table /\ loc = local /\ clo = cloning
      BY <2>0, <3>1 DEF WorldTypes
    <3>3. AccountsChanged(a, valid, tbl, loc, clo)
      BY <2>3, <3>2 DEF Logout
    <3>4. current' = a /\ local' = loc /\ cloning' = clo /\ (~valid => ~login'[a])
      BY <3>1, <3>2
    <3>5. loc \cap clo = {} /\ \A l \in Subfolders \cap (loc \cup clo) : <<l, Owner[l]>> \in tbl
      BY <2>0, <3>2 DEF RowsInv
    <3> QED
      BY <3>2, <3>3, <3>4, <3>5, ChangeKeeps
  <2>4. ASSUME NEW b \in Accounts, DeleteAccount(b) PROVE SafeInv'
    <3>1. PICK next \in Accounts, valid \in BOOLEAN :
              /\ current' = next
              /\ login' = [login EXCEPT ![b] = FALSE, ![next] = valid]
              /\ local' = local \ OwnedBy(b)
              /\ cloning' = cloning \ OwnedBy(b)
              /\ AccountsChanged(next, valid, {r \in table : r[2] # b}, local', cloning')
      BY <2>0, <2>4 DEF DeleteAccount, WorldTypes
    <3>2. PICK tbl \in SUBSET table, loc \in SUBSET Libraries, clo \in SUBSET Libraries :
              tbl = {r \in table : r[2] # b} /\ loc = local' /\ clo = cloning'
      BY <2>0, <3>1 DEF WorldTypes
    <3>3. AccountsChanged(next, valid, tbl, loc, clo) /\ tbl \subseteq table
      BY <3>1, <3>2
    <3>4. current' = next /\ local' = loc /\ cloning' = clo /\ (~valid => ~login'[next])
      BY <2>0, <3>1, <3>2 DEF WorldTypes
    <3>5. ASSUME NEW l \in Subfolders \cap (loc \cup clo) PROVE <<l, Owner[l]>> \in tbl
      <4>1. l \in Libraries /\ l \notin OwnedBy(b) /\ l \in local \cup cloning
        BY <3>1, <3>2, LibrariesAssumption
      <4>2. PICK r : r = <<l, Owner[l]>>
        OBVIOUS
      <4>3. r[2] # b
        BY <4>1, <4>2 DEF OwnedBy
      <4>4. r \in table
        BY <2>0, <4>1, <4>2 DEF RowsInv
      <4> QED
        BY <3>2, <4>2, <4>3, <4>4
    <3>6. loc \cap clo = {}
      BY <2>0, <3>1, <3>2 DEF RowsInv
    <3> QED
      BY <3>2, <3>3, <3>4, <3>5, <3>6, ChangeKeeps
  <2>5. CASE SyncLibrary \/ CloneEnds
    <3>1. UNCHANGED <<current, login, table, listReq, locals, subs, quiet>>
      BY <2>5 DEF SyncLibrary, CloneEnds, refreshing, requests, lists
    <3>2. SyncLibrary => RowsInv'
      <4> SUFFICES ASSUME SyncLibrary PROVE RowsInv'
        OBVIOUS
      <4>1. PICK l \in Libraries \ (Subfolders \cup local \cup cloning) :
                cloning' = cloning \cup {l} /\ local' = local
        BY DEF SyncLibrary, StartClone, OwnedBy
      <4> QED
        BY <2>0, <3>1, <4>1 DEF RowsInv
    <3>3. CloneEnds => RowsInv'
      <4> SUFFICES ASSUME CloneEnds PROVE RowsInv'
        OBVIOUS
      <4>1. PICK l \in cloning :
                cloning' = cloning \ {l} /\ (local' = local \/ local' = local \cup {l})
        BY DEF CloneEnds
      <4> QED
        BY <2>0, <3>1, <4>1 DEF RowsInv
    <3> QED
      BY <2>5, <3>1, <3>2, <3>3, QuietStepKeeps
  <2>6. CASE SyncFolder
    <3>1. PICK l \in Subfolders \ cloning :
              /\ Owner[l] = current
              /\ IF l \in local THEN UNCHANGED cloning ELSE StartClone(l)
              /\ table' = {r \in table : r[1] # l} \cup {<<l, current>>}
              /\ UNCHANGED <<current, login, local, listReq, locals, subs, quiet>>
      BY <2>6 DEF SyncFolder, requests
    <3>2. /\ cloning' \subseteq cloning \cup {l}
          /\ l \in local => cloning' = cloning
      BY <3>1 DEF StartClone
    <3>3. ASSUME NEW m \in Subfolders \cap (local' \cup cloning') PROVE <<m, Owner[m]>> \in table'
      <4>1. PICK r : r = <<m, Owner[m]>>
        OBVIOUS
      <4>2. CASE m = l
        BY <3>1, <4>2
      <4>3. CASE m # l
        <5>1. r \in table /\ r[1] # l
          BY <2>0, <3>1, <3>2, <4>1, <4>3 DEF RowsInv
        <5> QED
          BY <3>1, <4>1, <5>1
      <4> QED
        BY <4>2, <4>3
    <3>4. local' \cap cloning' = {}
      BY <2>0, <3>1, <3>2 DEF RowsInv
    <3>5. RowsInv'
      BY <3>3, <3>4 DEF RowsInv
    <3> QED
      BY <3>1, <3>5, QuietStepKeeps
  <2>7. CASE UserUnsyncs
    <3>1. PICK l \in local :
              /\ local' = local \ {l}
              /\ \/ quiet' = FALSE \/ UNCHANGED <<locals, subs, quiet>>
              /\ table' = table \/ table' = {r \in table : r[1] # l}
              /\ UNCHANGED <<current, login, cloning, listReq>>
      BY <2>7 DEF UserUnsyncs, requests
    <3>2. ASSUME NEW m \in Subfolders \cap (local' \cup cloning') PROVE <<m, Owner[m]>> \in table'
      <4>1. PICK r : r = <<m, Owner[m]>>
        OBVIOUS
      <4>2. r \in table /\ r[1] # l
        BY <2>0, <3>1, <4>1 DEF RowsInv
      <4> QED
        BY <3>1, <4>1, <4>2
    <3>3. RowsInv'
      BY <2>0, <3>1, <3>2 DEF RowsInv
    <3> QED
      BY <3>1, <3>3, QuietStepKeeps
  <2>8. CASE ChooseFolder
    <3>1. quiet' = FALSE /\ UNCHANGED <<current, login, local, cloning, table, listReq>>
      BY <2>8 DEF ChooseFolder, daemon, requests
    <3>2. RowsInv'
      BY <2>0, <3>1 DEF RowsInv
    <3> QED
      BY <3>1, <3>2, QuietStepKeeps
  <2>9. CASE ServerAnswers \/ RequestFails
    BY <2>9, AnswerTypes, AnswerKeeps
  <2>10. CASE ListDelivered \/ StaleDelivered
    <3>1. PICK req \in Requests : OnRefreshed(req) /\ (listReq' = listReq \/ listReq' = NoRequest)
      BY <2>0, <2>10 DEF ListDelivered, StaleDelivered, RequestsTypes
    <3> QED
      BY <3>1, RefreshedKeeps
  <2>11. CASE Grant \/ Deny \/ Mark \/ GetRequestAnswered \/ WiperDone \/ WipeReported
              \/ UNCHANGED vars
    <3>1. UNCHANGED <<current, local, cloning, table, listReq, locals, subs, quiet>>
      <4>1. Grant \/ Deny \/ Mark \/ WiperDone
              => UNCHANGED <<current, local, cloning, table, listReq, locals, subs, quiet>>
        BY DEF Grant, Deny, Mark, WiperDone, daemon, refreshing, requests, lists
      <4>2. GetRequestAnswered
              => UNCHANGED <<current, local, cloning, table, listReq, locals, subs, quiet>>
        BY DEF GetRequestAnswered, daemon
      <4>3. WipeReported
              => UNCHANGED <<current, local, cloning, table, listReq, locals, subs, quiet>>
        BY DEF WipeReported, daemon, requests, lists
      <4>4. UNCHANGED vars
              => UNCHANGED <<current, local, cloning, table, listReq, locals, subs, quiet>>
        BY DEF vars, daemon, refreshing, requests, lists
      <4> QED
        BY <2>11, <4>1, <4>2, <4>3, <4>4
    <3>2. login' = login \/ login' = [login EXCEPT ![current] = FALSE]
      BY <2>11 DEF Grant, Deny, Mark, GetRequestAnswered, WiperDone, WipeReported,
         InvalidateCurrentLogin, vars
    <3>3. RowsInv'
      BY <2>0, <3>1 DEF RowsInv
    <3> QED
      BY <3>1, <3>2, <3>3, QuietStepKeeps
  <2> QED
    BY <2>1, <2>2, <2>3, <2>4, <2>5, <2>6, <2>7, <2>8, <2>9, <2>10, <2>11 DEF Next
<1> QED
  BY <1>1, <1>2, PTL DEF Spec

\* "you don't have permission to access it": a list unsyncs libraries of its own
\* account alone, only those it does not have, and no folder, although the login
\* may have changed since the request, and the list says nothing of folders.
THEOREM ListsUnsyncOnlyTheForbidden ==
    ASSUME ~OtherWindows, ~RpcFails PROVE Spec => UnsyncedIsForbidden
<1>1. ASSUME IInv, ListDelivered, listReq.answer.kind = "list", quiet
      PROVE  local \ local' \subseteq OwnedBy(listReq.account) \ (listReq.answer.list \cup Subfolders)
  <2>1. local' = local \ Unsyncs(listReq.answer.list)
    BY <1>1 DEF ListDelivered, OnRefreshed, OnRefreshSuccess
  <2>2. listReq.account \in Accounts
    BY <1>1, RequestTypes DEF IInv, ShapeInv
  <2>3. ASSUME NEW l \in local, l \notin local'
        PROVE  l \in OwnedBy(listReq.account) \ (listReq.answer.list \cup Subfolders)
    <3>1. login[current] /\ l \in locals /\ Owner[l] = current /\ l \notin listReq.answer.list \cup subs
      BY <2>1, <2>3 DEF Unsyncs
    <3>2. listReq.account = current
      BY <1>1, <2>2, <3>1, LibrariesAssumption DEF IInv, ReqInv
    <3>3. l \in OwnedBy(listReq.account)
      BY <1>1, <3>1, <3>2 DEF OwnedBy, IInv, TypeOK
    <3>4. l \notin Subfolders
      BY <1>1, <3>1, <3>2 DEF IInv, CacheInv
    <3> QED
      BY <3>1, <3>3, <3>4
  <2> QED
    BY <2>3
<1>2. IInv /\ [Next]_vars =>
        [ListDelivered /\ listReq.answer.kind = "list" /\ quiet =>
           local \ local' \subseteq OwnedBy(listReq.account) \ (listReq.answer.list \cup Subfolders)]_vars
  BY <1>1
<1> QED
  BY <1>2, ListsInvariant, PTL DEF Spec, UnsyncedIsForbidden

=============================================================================
