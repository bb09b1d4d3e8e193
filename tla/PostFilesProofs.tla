---------------------------- MODULE PostFilesProofs ----------------------------
(***************************************************************************)
(* The safety properties of PostFiles hold for any number of files and     *)
(* folders, any number of answers to questions, and any bounds.  Handlers  *)
(* are functions of a record of what they share; so there is a lemma for   *)
(* each handler on what it makes of the record, and one on the step that   *)
(* takes it over.                                                          *)
(***************************************************************************)
EXTENDS PostFiles, FiniteSetTheorems, SequenceTheorems, TLAPS

NoUpload(q) == \A r \in DOMAIN q : q[r].st # "posting"
NoAnswer(q) == \A i \in DOMAIN q : q[i].kind # "posted"

RelRecords == [file : Files, st : RelStates]

\* What handlers pass on, with the types of its parts
Shared == [phase : {"linking", "serving", "finished", "gone"}, cur : 0..n + 1, passed : 0..n,
           names : Seq(Files), rels : Seq(RelRecords), dialogs : Seq(Dialogs),
           folders : 0..MaxFolders, mkdir : BOOLEAN, mainQ : Seq(Events),
           told : Seq(BOOLEAN), crashed : BOOLEAN]

\* What a handler leaves alone that ends or goes on with folders
Same(s, t) ==
    /\ t.cur = s.cur /\ t.passed = s.passed /\ t.names = s.names
    /\ t.rels = s.rels /\ t.dialogs = s.dialogs
    /\ NoAnswer(s.mainQ) => NoAnswer(t.mainQ)

\* What a handler starts from has its types.
LEMMA HereIsShared == TypeOK => Here \in Shared
  BY DEF TypeOK, Here, Shared, RelRecords

\* A handler's result that has its types is a state that has them.
LEMMA BecomeType ==
    ASSUME TypeOK, NEW s \in Shared, Become(s), n' = n, readable' = readable, canceled' \in BOOLEAN,
           fs' \in {"none", "alive", "gone"}, links' \in Nat, retry' \in BOOLEAN,
           stored' \subseteq Files, skipped' \subseteq Files, answers' \in 0..MaxAnswers
    PROVE  TypeOK'
  BY DEF TypeOK, Become, Shared, RelRecords

\* Ways to end an upload, or to go on with its folders, keep the types, and the
\* rest of what is shared.
LEMMA DeleteLaterType ==
    ASSUME NEW s \in Shared, NEW kind \in {"destroyRel", "destroyTask", "destroyFs"}, NEW rel \in Nat
    PROVE  DeleteLater(s, kind, rel) \in Shared /\ Same(s, DeleteLater(s, kind, rel))
<1>1. s.mainQ \in Seq(Events) /\ s.dialogs \in Seq(Dialogs)
  BY DEF Shared
<1>2. PICK e : e = [kind |-> kind, rel |-> rel, level |-> Len(s.dialogs)]
  OBVIOUS
<1>3. e \in Events /\ e.kind # "posted"
  BY <1>1, <1>2, LenProperties DEF Events
<1>4. Append(s.mainQ, e) \in Seq(Events)
  BY <1>1, <1>3
<1>5. DeleteLater(s, kind, rel) = [s EXCEPT !.mainQ = Append(s.mainQ, e)]
  BY <1>2 DEF DeleteLater
<1>6. NoAnswer(s.mainQ) => NoAnswer(Append(s.mainQ, e))
  BY <1>1, <1>3, AppendProperties DEF NoAnswer
<1> QED
  BY <1>4, <1>5, <1>6 DEF Shared, Same

LEMMA FinishType ==
    ASSUME NEW s \in Shared, NEW b \in BOOLEAN 
    PROVE  Finish(s, b) \in Shared /\ Same(s, Finish(s, b))
<1>1. PICK q : q = Append(s.told, b)
  OBVIOUS
<1>2. q \in Seq(BOOLEAN)
  BY <1>1, AppendProperties, Zenon DEF Shared
<1>3. PICK t : t = [s EXCEPT !.phase = "finished", !.told = q]
  OBVIOUS
<1>4. t \in Shared /\ Same(s, t)
  BY <1>2, <1>3 DEF Shared, Same
<1>5. Finish(s, b) = DeleteLater(t, "destroyTask", 0)
  BY <1>1, <1>3 DEF Finish
<1> QED
  <2>1. DeleteLater(t, "destroyTask", 0) \in Shared /\ Same(t, DeleteLater(t, "destroyTask", 0))
    BY <1>4, DeleteLaterType
  <2>2. Same(s, DeleteLater(t, "destroyTask", 0))
    BY <1>4, <2>1 DEF Same
  <2> QED
    BY <1>5, <2>1, <2>2, Zenon

LEMMA NextEmptyFolderType ==
    ASSUME NEW s \in Shared
    PROVE  NextEmptyFolder(s) \in Shared /\ Same(s, NextEmptyFolder(s))
<1>1. CASE s.folders = 0
  <2>1. PICK t : t = [s EXCEPT !.mkdir = FALSE]
    OBVIOUS
  <2>2. t \in Shared /\ Same(s, t)
    BY <2>1 DEF Shared, Same
  <2>3. PICK u : u = Finish(t, TRUE)
    OBVIOUS
  <2>4. NextEmptyFolder(s) = u
    BY <1>1, <2>1, <2>3, Zenon DEF NextEmptyFolder
  <2>5. u \in Shared /\ Same(t, u)
    BY <2>2, <2>3, FinishType, Zenon
  <2>6. Same(s, u)
    BY <2>2, <2>5 DEF Same
  <2> QED
    BY <2>4, <2>5, <2>6, Zenon
<1>2. CASE s.folders # 0
  <2>1. s.folders - 1 \in 0..MaxFolders
    BY <1>2, BoundsAssumption DEF Shared
  <2>2. PICK t : t = [s EXCEPT !.folders = s.folders - 1, !.mkdir = TRUE]
    OBVIOUS
  <2>3. t \in Shared /\ Same(s, t)
    BY <2>1, <2>2 DEF Shared, Same
  <2> QED
    BY <1>2, <2>2, <2>3 DEF NextEmptyFolder
<1> QED
  BY <1>1, <1>2

LEMMA OnFinishedType ==
    ASSUME NEW s \in Shared, NEW b \in BOOLEAN
    PROVE  OnFinished(s, b) \in Shared /\ Same(s, OnFinished(s, b))
  BY FinishType, NextEmptyFolderType DEF OnFinished

LEMMA FileServerTaskFinishedType ==
    ASSUME NEW s \in Shared, NEW b \in BOOLEAN
    PROVE  FileServerTaskFinished(s, b) \in Shared /\ Same(s, FileServerTaskFinished(s, b))
<1>1. Same(s, s)
  BY DEF Same
<1> QED
  BY <1>1, OnFinishedType DEF FileServerTaskFinished

\* A question asked is one more question.
LEMMA AskAboutType ==
    ASSUME NEW s \in Shared, NEW file \in Files, NEW rel \in Nat
    PROVE  AskAbout(s, file, rel) \in Shared
<1>1. [about |-> file, rel |-> rel] \in Dialogs
  BY DEF Dialogs
<1>2. Append(s.dialogs, [about |-> file, rel |-> rel]) \in Seq(Dialogs)
  BY <1>1 DEF Shared
<1>3. [s EXCEPT !.dialogs = Append(s.dialogs, [about |-> file, rel |-> rel])] \in Shared
  BY <1>2 DEF Shared
<1> QED
  BY <1>3 DEF AskAbout

\* The uploads keep their number when one changes its state.
LEMMA SetStateType ==
    ASSUME NEW q \in Seq(RelRecords), NEW k, NEW st \in RelStates
    PROVE  /\ [q EXCEPT ![k].st = st] \in Seq(RelRecords)
           /\ DOMAIN [q EXCEPT ![k].st = st] = DOMAIN q
<1>1. CASE k \in 1..Len(q)
  <2>1. PICK x : x = [q[k] EXCEPT !.st = st]
    OBVIOUS
  <2>2. q[k] \in RelRecords
    BY <1>1, ElementOfSeq
  <2>3. x \in RelRecords
    BY <2>1, <2>2 DEF RelRecords
  <2>4. [q EXCEPT ![k].st = st] = [q EXCEPT ![k] = x]
    BY <2>1, <1>1, LenProperties
  <2> QED
    BY <1>1, <2>3, <2>4, ExceptSeq
<1>2. CASE k \notin 1..Len(q)
  BY <1>2, LenProperties
<1> QED
  BY <1>1, <1>2

\* The upload that startNext makes, before its start
Made(s) ==
    LET last == Len(s.rels)
        cut  == IF last = 0 THEN s ELSE DeleteLater(s, "destroyRel", last)
    IN  [cut EXCEPT !.cur = s.cur + 1,
                    !.rels = Append(s.rels, [file |-> s.cur + 1,
                                 st |-> IF readable[s.cur + 1] THEN "posting" ELSE "opening"])]

\* startNext by cases: the last file is over, there was none to start, the next
\* file can be opened, or it cannot, and the user is asked within the start.
LEMMA StartNextCases ==
    ASSUME TypeOK, NEW s \in Shared
    PROVE  /\ s.cur = n => StartNext(s) = FileServerTaskFinished([s EXCEPT !.cur = n + 1], TRUE)
           /\ s.cur > n => StartNext(s) = Crash(s)
           /\ s.cur < n /\ readable[s.cur + 1] => StartNext(s) = Made(s)
           /\ s.cur < n /\ ~readable[s.cur + 1] =>
                 LET asked == AskAbout(Made(s), s.cur + 1, Len(s.rels) + 1)
                 IN  StartNext(s) = IF asked = Made(s)
                                    THEN [Made(s) EXCEPT !.rels[Len(s.rels) + 1].st = "posting"]
                                    ELSE asked
<1>1. n \in Nat /\ s.cur \in Nat
  BY DEF TypeOK, Shared
<1>2. CASE s.cur = n
  <2>1. s.cur + 1 = n + 1 /\ ~(s.cur + 1 > n + 1) /\ ~(s.cur > n) /\ ~(s.cur < n)
    BY <1>1, <1>2
  <2>2. StartNext(s) = FileServerTaskFinished([s EXCEPT !.cur = s.cur + 1], TRUE)
    BY <2>1, Zenon DEF StartNext
  <2> QED
    BY <2>1, <2>2, Zenon
<1>3. CASE s.cur > n
  <2>1. s.cur + 1 # n + 1 /\ s.cur + 1 > n + 1 /\ s.cur # n /\ ~(s.cur < n)
    BY <1>1, <1>3
  <2>2. StartNext(s) = Crash(s)
    BY <2>1, Zenon DEF StartNext
  <2> QED
    BY <2>1, <2>2, Zenon
<1>4. CASE s.cur < n
  <2>1. s.cur + 1 # n + 1 /\ ~(s.cur + 1 > n + 1) /\ s.cur # n /\ ~(s.cur > n)
    BY <1>1, <1>4
  <2>2. readable[s.cur + 1] => StartNext(s) = Made(s)
    BY <2>1, Zenon DEF StartNext, Made
  <2>3. ~readable[s.cur + 1] =>
            LET asked == AskAbout(Made(s), s.cur + 1, Len(s.rels) + 1)
            IN  StartNext(s) = IF asked = Made(s)
                               THEN [Made(s) EXCEPT !.rels[Len(s.rels) + 1].st = "posting"]
                               ELSE asked
    BY <2>1, Zenon DEF StartNext, Made
  <2> QED
    BY <2>1, <2>2, <2>3, Zenon
<1> QED
  BY <1>1, <1>2, <1>3, <1>4

\* The upload that startNext makes, before it starts it.
LEMMA MadeType ==
    ASSUME TypeOK, NEW s \in Shared, s.cur < n
    PROVE  /\ Made(s) \in Shared
           /\ Made(s).cur = s.cur + 1 /\ Made(s).passed = s.passed
           /\ Made(s).mainQ \in Seq(Events) /\ (NoAnswer(s.mainQ) => NoAnswer(Made(s).mainQ))
<1>1. n \in Nat /\ n <= MaxFiles /\ s.cur \in Nat /\ s.rels \in Seq(RelRecords) /\ MaxFiles \in Nat
  BY BoundsAssumption DEF TypeOK, Shared
<1>2. PICK cut : cut = IF Len(s.rels) = 0 THEN s ELSE DeleteLater(s, "destroyRel", Len(s.rels))
  OBVIOUS
<1>3. cut \in Shared /\ cut.passed = s.passed /\ (NoAnswer(s.mainQ) => NoAnswer(cut.mainQ))
  <2>1. Len(s.rels) \in Nat
    BY <1>1, LenProperties
  <2> QED
    BY <1>2, <2>1, DeleteLaterType DEF Same
<1>4. PICK r : r = [file |-> s.cur + 1, st |-> IF readable[s.cur + 1] THEN "posting" ELSE "opening"]
  OBVIOUS
<1>5. r \in RelRecords
  BY <1>1, <1>4 DEF RelRecords, Files, RelStates
<1>6. Append(s.rels, r) \in Seq(RelRecords)
  BY <1>1, <1>5
<1>7. s.cur + 1 \in 0..n + 1
  BY <1>1
<1>8. Made(s) = [cut EXCEPT !.cur = s.cur + 1, !.rels = Append(s.rels, r)]
  BY <1>2, <1>4 DEF Made
<1> QED
  BY <1>3, <1>6, <1>7, <1>8 DEF Shared

\* startNext never counts a file that is not over.
LEMMA StartNextType ==
    ASSUME TypeOK, NEW s \in Shared, s.passed <= s.cur
    PROVE  /\ StartNext(s) \in Shared
           /\ StartNext(s).cur > 0 /\ StartNext(s).passed < StartNext(s).cur
<1>1. n \in Nat /\ s.cur \in 0..n + 1 /\ s.passed \in 0..n /\ s.rels \in Seq(RelRecords)
  BY DEF TypeOK, Shared
<1>2. CASE s.cur = n
  <2>1. n + 1 \in 0..n + 1
    BY <1>1
  <2>2. PICK t : t = [s EXCEPT !.cur = n + 1]
    OBVIOUS
  <2>3. t \in Shared /\ t.cur = n + 1 /\ t.passed = s.passed
    BY <2>1, <2>2 DEF Shared
  <2>4. StartNext(s) = FileServerTaskFinished(t, TRUE)
    BY <1>2, <2>2, StartNextCases
  <2>5. PICK u : u = StartNext(s)
    OBVIOUS
  <2>6. u \in Shared /\ u.cur = n + 1 /\ u.passed = s.passed
    BY <2>3, <2>4, <2>5, FileServerTaskFinishedType, Zenon DEF Same
  <2>7. u.cur > 0 /\ u.passed < u.cur
    BY <1>1, <2>6
  <2> QED
    BY <2>5, <2>6, <2>7, Zenon
<1>3. CASE s.cur > n
  <2>1. Crash(s) \in Shared /\ Crash(s).cur = s.cur /\ Crash(s).passed = s.passed
    BY DEF Crash, Shared
  <2>2. s.cur > 0 /\ s.passed < s.cur
    BY <1>1, <1>3
  <2> QED
    BY <1>3, <2>1, <2>2, StartNextCases, Zenon
<1>4. CASE s.cur < n
  <2>1. PICK m : m = Made(s)
    OBVIOUS
  <2>2. m \in Shared /\ m.cur = s.cur + 1 /\ m.passed = s.passed
    BY <1>4, <2>1, MadeType
  <2>3. m.cur > 0 /\ m.passed < m.cur
    BY <1>1, <2>2
  <2>4. CASE readable[s.cur + 1]
    BY <1>4, <2>1, <2>2, <2>3, <2>4, StartNextCases
  <2>5. CASE ~readable[s.cur + 1]
    <3>1. PICK a : a = AskAbout(m, s.cur + 1, Len(s.rels) + 1)
      OBVIOUS
    <3>2. s.cur + 1 \in Files /\ Len(s.rels) + 1 \in Nat
      <4>1. Len(s.rels) \in Nat /\ n <= MaxFiles /\ MaxFiles \in Nat
        BY <1>1, LenProperties, BoundsAssumption DEF TypeOK
      <4> QED
        BY <1>1, <1>4, <4>1 DEF Files
    <3>3. a \in Shared /\ a.cur = m.cur /\ a.passed = m.passed
      <4>1. a \in Shared
        BY <2>2, <3>1, <3>2, AskAboutType
      <4> QED
        BY <2>2, <3>1, <4>1 DEF AskAbout, Shared
    <3>4. PICK p : p = [m EXCEPT !.rels[Len(s.rels) + 1].st = "posting"]
      OBVIOUS
    <3>5. p \in Shared /\ p.cur = m.cur /\ p.passed = m.passed
      <4>1. m.rels \in Seq(RelRecords)
        BY <2>2 DEF Shared
      <4>2. PICK q : q = [m.rels EXCEPT ![Len(s.rels) + 1].st = "posting"]
        OBVIOUS
      <4>3. q \in Seq(RelRecords)
        BY <4>1, <4>2, SetStateType DEF RelStates
      <4>4. p = [m EXCEPT !.rels = q]
        BY <3>4, <4>2, <2>2 DEF Shared
      <4> QED
        BY <2>2, <4>3, <4>4 DEF Shared
    <3>6. StartNext(s) = IF a = m THEN p ELSE a
      BY <1>4, <2>1, <2>5, <3>1, <3>4, StartNextCases
    <3> QED
      BY <2>3, <3>3, <3>5, <3>6
  <2> QED
    BY <2>4, <2>5
<1> QED
  BY <1>1, <1>2, <1>3, <1>4

-----------------------------------------------------------------------------
(* Types, and what they rest on: no more bytes are counted than of the     *)
(* files before the current one, and nothing comes before the first.       *)

Counted(s) == s.cur > 0 /\ s.passed < s.cur
Fresh(s) ==
    /\ s.cur = 0 /\ s.passed = 0 /\ s.rels = <<>> /\ s.dialogs = <<>>
    /\ NoAnswer(s.mainQ)

CountInv == Counted(Here) \/ (Fresh(Here) /\ links = 0)

TypeInv == TypeOK /\ CountInv

\* The counts of a handler's result are those of the next state.
LEMMA BecomeCount ==
    ASSUME NEW s \in Shared, Become(s), Counted(s) \/ (Fresh(s) /\ links' = 0)
    PROVE  CountInv'
  BY DEF Become, CountInv, Counted, Fresh, Here, NoAnswer

\* What leaves the counts alone leaves their order alone.
LEMMA SameCount ==
    ASSUME NEW s, NEW t, Same(s, t), Counted(s) \/ Fresh(s)
    PROVE  /\ Counted(s) => Counted(t)
           /\ Fresh(s) => Fresh(t)
  BY DEF Same, Counted, Fresh

\* Neither does continueWithFailedFile.
LEMMA ContinueType ==
    ASSUME TypeOK, NEW s \in Shared, Counted(s)
    PROVE  ContinueWithFailedFile(s) \in Shared /\ Counted(ContinueWithFailedFile(s))
<1>1. n \in Nat /\ s.cur \in 0..n + 1 /\ s.passed \in 0..n
  BY DEF TypeOK, Shared
<1>2. CASE retry
  <2>1. s.cur - 1 \in 0..n + 1 /\ s.passed <= s.cur - 1
    BY <1>1 DEF Counted
  <2>2. PICK t : t = [s EXCEPT !.cur = s.cur - 1]
    OBVIOUS
  <2>3. t \in Shared /\ t.passed <= t.cur
    BY <2>1, <2>2 DEF Shared
  <2>4. ContinueWithFailedFile(s) = StartNext(t)
    BY <1>2, <2>2 DEF ContinueWithFailedFile
  <2> QED
    BY <2>3, <2>4, StartNextType DEF Counted
<1>3. CASE ~retry /\ s.cur > n
  BY <1>3 DEF ContinueWithFailedFile, Crash, Shared, Counted
<1>4. CASE ~retry /\ ~(s.cur > n)
  <2>1. s.passed + 1 \in 0..n /\ s.passed + 1 <= s.cur
    BY <1>1, <1>4 DEF Counted
  <2>2. PICK t : t = [s EXCEPT !.passed = s.passed + 1]
    OBVIOUS
  <2>3. t \in Shared /\ t.passed <= t.cur
    BY <2>1, <2>2 DEF Shared
  <2>4. ContinueWithFailedFile(s) = StartNext(t)
    BY <1>4, <2>2 DEF ContinueWithFailedFile
  <2> QED
    BY <2>3, <2>4, StartNextType DEF Counted
<1> QED
  BY <1>2, <1>3, <1>4

\* onPostTaskFinished by cases.
LEMMA PostedCases ==
    ASSUME TypeOK, NEW s \in Shared, NEW result \in Results
    PROVE  /\ canceled => Posted(s, result) = s
           /\ ~canceled /\ s.cur > n => Posted(s, result) = Crash(s)
           /\ ~canceled /\ ~(s.cur > n) /\ result = "ok" =>
                 Posted(s, result) = StartNext([s EXCEPT !.names = Append(s.names, s.cur),
                                                         !.passed = s.passed + 1])
           /\ ~canceled /\ ~(s.cur > n) /\ result = "failed" =>
                 Posted(s, result) = AskAbout(s, s.cur, 0)
           /\ ~canceled /\ ~(s.cur > n) /\ result = "tooLarge" =>
                 Posted(s, result) = FileServerTaskFinished(s, FALSE)
<1>1. CASE canceled
  BY <1>1, Zenon DEF Posted
<1>2. CASE ~canceled /\ s.cur > n
  BY <1>2, Zenon DEF Posted
<1>3. CASE ~canceled /\ ~(s.cur > n)
  <2>1. CASE result = "ok"
    BY <1>3, <2>1, Zenon DEF Posted
  <2>2. CASE result = "failed"
    BY <1>3, <2>2, Zenon DEF Posted
  <2>3. CASE result = "tooLarge"
    BY <1>3, <2>3, Zenon DEF Posted
  <2> QED
    BY <1>3, <2>1, <2>2, <2>3, Zenon DEF Results
<1> QED
  BY <1>1, <1>2, <1>3, Zenon

\* Nor does onPostTaskFinished, whatever the result.
LEMMA PostedType ==
    ASSUME TypeOK, NEW s \in Shared, Counted(s), NEW result \in Results
    PROVE  Posted(s, result) \in Shared /\ Counted(Posted(s, result))
<1>1. n \in Nat /\ n <= MaxFiles /\ MaxFiles \in Nat /\ s.cur \in 0..n + 1 /\ s.passed \in 0..n
  BY BoundsAssumption DEF TypeOK, Shared
<1>2. CASE canceled
  BY <1>2, PostedCases
<1>3. CASE ~canceled /\ s.cur > n
  <2>1. Crash(s) \in Shared /\ Counted(Crash(s))
    BY DEF Crash, Shared, Counted
  <2> QED
    BY <1>3, <2>1, PostedCases
<1>4. CASE ~canceled /\ ~(s.cur > n) /\ result = "ok"
  <2>1. s.passed + 1 \in 0..n /\ s.passed + 1 <= s.cur /\ s.cur \in Files
    BY <1>1, <1>4 DEF Counted, Files
  <2>2. PICK q : q = Append(s.names, s.cur)
    OBVIOUS
  <2>3. q \in Seq(Files)
    BY <2>1, <2>2 DEF Shared
  <2>4. PICK t : t = [s EXCEPT !.names = q, !.passed = s.passed + 1]
    OBVIOUS
  <2>5. t \in Shared /\ t.passed <= t.cur
    BY <2>1, <2>3, <2>4 DEF Shared
  <2>6. Posted(s, result) = StartNext(t)
    BY <1>4, <2>2, <2>4, PostedCases
  <2> QED
    BY <2>5, <2>6, StartNextType DEF Counted
<1>5. CASE ~canceled /\ ~(s.cur > n) /\ result = "failed"
  <2>1. s.cur \in Files
    BY <1>1, <1>5 DEF Counted, Files
  <2>2. PICK t : t = AskAbout(s, s.cur, 0)
    OBVIOUS
  <2>3. t \in Shared
    BY <2>1, <2>2, AskAboutType
  <2>4. t.cur = s.cur /\ t.passed = s.passed
    BY <2>2 DEF AskAbout, Shared
  <2>5. Counted(t)
    BY <2>4 DEF Counted
  <2> QED
    BY <1>5, <2>2, <2>3, <2>5, PostedCases
<1>6. CASE ~canceled /\ ~(s.cur > n) /\ result = "tooLarge"
  BY <1>6, PostedCases, FileServerTaskFinishedType, SameCount
<1> QED
  BY <1>2, <1>3, <1>4, <1>5, <1>6 DEF Results

\* A handler's result is the next state, if the rest of it has its types too.
LEMMA HandlerType ==
    ASSUME TypeOK, NEW s \in Shared, Counted(s) \/ (Fresh(s) /\ links' = 0),
           Become(s), n' = n, readable' = readable, canceled' \in BOOLEAN,
           fs' \in {"none", "alive", "gone"}, links' \in Nat, retry' \in BOOLEAN,
           stored' \subseteq Files, skipped' \subseteq Files, answers' \in 0..MaxAnswers
    PROVE  TypeInv'
  BY BecomeType, BecomeCount DEF TypeInv

\* The types of what handlers do not share.
LEMMA RestTypes ==
    ASSUME TypeOK
    PROVE  /\ canceled \in BOOLEAN /\ fs \in {"none", "alive", "gone"} /\ links \in Nat
           /\ retry \in BOOLEAN /\ stored \subseteq Files /\ skipped \subseteq Files
           /\ answers \in 0..MaxAnswers /\ n \in Nat /\ n <= MaxFiles
  BY DEF TypeOK

\* The invariant in terms of the record.
LEMMA StateParts ==
    ASSUME TypeInv
    PROVE  Here \in Shared /\ links \in Nat /\ (Counted(Here) \/ (Fresh(Here) /\ links = 0))
<1>1. Here \in Shared /\ links \in Nat
  BY HereIsShared, RestTypes DEF TypeInv
<1> QED
  BY <1>1 DEF TypeInv, CountInv

\* One lemma for each action: it keeps the types and the counts.
LEMMA OnLinkGetType ==
    ASSUME TypeInv, OnLinkGet PROVE TypeInv'
<1>1. PICK s : s = [Here EXCEPT !.phase = "serving"]
  OBVIOUS
<1>2. s \in Shared /\ s.passed <= s.cur
  <2>1. Here \in Shared
    BY HereIsShared DEF TypeInv
  <2>2. s \in Shared /\ s.passed = Here.passed /\ s.cur = Here.cur
    BY <1>1, <2>1 DEF Shared
  <2>3. Here.passed \in Nat /\ Here.cur \in Nat
    BY <2>1 DEF Shared
  <2> QED
    BY <2>2, <2>3 DEF TypeInv, CountInv, Counted, Fresh
<1>3. PICK t : t = StartNext(s)
  OBVIOUS
<1>4. t \in Shared /\ Counted(t)
  BY <1>2, <1>3, StartNextType DEF TypeInv, Counted
<1>5. Become(t) /\ fs' = "alive" /\ UNCHANGED <<unasked, canceled, links, retry>>
  BY <1>1, <1>3 DEF OnLinkGet
<1> QED
  BY <1>4, <1>5, HandlerType, RestTypes DEF TypeInv, unasked

LEMMA LinkAgainType ==
    ASSUME TypeInv, OnLinkGetAgain PROVE TypeInv'
<1>1. Here \in Shared /\ Counted(Here)
  BY HereIsShared, RestTypes DEF TypeInv, CountInv, OnLinkGetAgain
<1>2. PICK t : t = ContinueWithFailedFile(Here)
  OBVIOUS
<1>3. t \in Shared /\ Counted(t)
  BY <1>1, <1>2, ContinueType DEF TypeInv
<1>4. Become(t) /\ links' = links - 1 /\ UNCHANGED <<unasked, canceled, fs, retry>>
  BY <1>2 DEF OnLinkGetAgain
<1>5. links' \in Nat
  BY <1>4, RestTypes DEF OnLinkGetAgain, TypeInv
<1> QED
  BY <1>3, <1>4, <1>5, HandlerType, RestTypes DEF TypeInv, unasked

LEMMA LinkFailedType ==
    ASSUME TypeInv, OnGetLinkFailed PROVE TypeInv'
<1>1. Here \in Shared /\ links \in Nat /\ (Counted(Here) \/ (Fresh(Here) /\ links = 0))
  BY StateParts
<1>2. PICK t : t = OnFinished(Here, FALSE)
  OBVIOUS
<1>3. t \in Shared /\ Same(Here, t)
  BY <1>1, <1>2, OnFinishedType
<1>4. Become(t) /\ UNCHANGED <<unasked, canceled, fs, retry>>
  BY <1>2 DEF OnGetLinkFailed
<1>5. links' \in Nat /\ (links = 0 => links' = 0)
  BY <1>1 DEF OnGetLinkFailed
<1>6. Counted(t) \/ (Fresh(t) /\ links' = 0)
  BY <1>1, <1>3, <1>5, SameCount
<1> QED
  BY <1>3, <1>4, <1>5, <1>6, HandlerType, RestTypes DEF TypeInv, unasked

LEMMA CancelledType ==
    ASSUME TypeInv, NEW s \in Shared, Counted(s) \/ (Fresh(s) /\ links' = 0),
           Cancelled(s), links' \in Nat, UNCHANGED <<unasked, fs, retry>>
    PROVE  TypeInv'
<1>1. PICK t : t = IF fs = "alive" /\ rels = <<>> THEN Crash(s) ELSE OnFinished(s, FALSE)
  OBVIOUS
<1>2. Crash(s) \in Shared /\ Same(s, Crash(s))
  BY DEF Crash, Shared, Same
<1>3. t \in Shared /\ Same(s, t)
  BY <1>1, <1>2, OnFinishedType
<1>4. Become(t) /\ canceled' = TRUE
  BY <1>1 DEF Cancelled
<1>5. Counted(t) \/ (Fresh(t) /\ links' = 0)
  BY <1>3, SameCount, Zenon
<1> QED
  BY <1>3, <1>4, <1>5, HandlerType, RestTypes DEF TypeInv, unasked

LEMMA CancelType ==
    ASSUME TypeInv, Cancel PROVE TypeInv'
<1>1. Here \in Shared /\ links \in Nat /\ (Counted(Here) \/ (Fresh(Here) /\ links = 0))
  BY StateParts
<1>2. links' \in Nat /\ (links = 0 => links' = 0)
  BY <1>1 DEF Cancel
<1> QED
  BY <1>1, <1>2, CancelledType DEF Cancel

\* With a question open there was a file to ask about.
LEMMA ResumeType ==
    ASSUME TypeInv, dialogs # <<>>
    PROVE  /\ Here \in Shared /\ Counted(Here) /\ Asked \in Files
           /\ Resume(Here) \in Shared /\ Counted(Resume(Here))
<1>1. Here \in Shared /\ Counted(Here)
  BY HereIsShared DEF TypeInv, CountInv, Fresh, Here
<1>2. dialogs \in Seq(Dialogs) /\ Len(dialogs) \in Nat /\ Len(dialogs) > 0
  BY EmptySeq, LenProperties DEF TypeInv, TypeOK
<1>3. dialogs[Len(dialogs)] \in Dialogs
  BY <1>2, ElementOfSeq
<1>4. PICK q : q = SubSeq(dialogs, 1, Len(dialogs) - 1)
  OBVIOUS
<1>5. q \in Seq(Dialogs)
  <2>1. \A i \in 1..Len(dialogs) - 1 : dialogs[i] \in Dialogs
    BY <1>2, ElementOfSeq
  <2> QED
    BY <1>2, <1>4, <2>1, SubSeqProperties
<1>6. PICK c : c = [Here EXCEPT !.dialogs = q]
  OBVIOUS
<1>7. c \in Shared /\ c.cur = Here.cur /\ c.passed = Here.passed /\ c.rels = rels
  BY <1>1, <1>5, <1>6 DEF Shared, Here
<1>8. Crash(c) \in Shared /\ Counted(Crash(c)) /\ Counted(c)
  BY <1>1, <1>7 DEF Crash, Shared, Counted
<1>9. PICK p : p = [c EXCEPT !.rels[dialogs[Len(dialogs)].rel].st = "posting"]
  OBVIOUS
<1>10. p \in Shared /\ Counted(p)
  <2>1. rels \in Seq(RelRecords)
    BY DEF TypeInv, TypeOK, RelRecords
  <2>2. PICK r : r = [rels EXCEPT ![dialogs[Len(dialogs)].rel].st = "posting"]
    OBVIOUS
  <2>3. r \in Seq(RelRecords)
    BY <2>1, <2>2, SetStateType DEF RelStates
  <2>4. p = [c EXCEPT !.rels = r]
    BY <1>7, <1>9, <2>2 DEF Shared
  <2>5. p \in Shared /\ p.cur = c.cur /\ p.passed = c.passed
    BY <1>7, <2>3, <2>4 DEF Shared
  <2> QED
    BY <1>8, <2>5 DEF Counted
<1>11. Here.dialogs = dialogs /\ Here.rels = rels
  BY DEF Here
<1>12. Resume(Here) \in {c, Crash(c), p}
  <2>1. CASE dialogs[Len(dialogs)].rel = 0
    BY <1>4, <1>6, <1>11, <2>1, Zenon DEF Resume
  <2>2. CASE dialogs[Len(dialogs)].rel # 0 /\ rels[dialogs[Len(dialogs)].rel].st = "gone"
    BY <1>4, <1>6, <1>11, <2>2, Zenon DEF Resume
  <2>3. CASE dialogs[Len(dialogs)].rel # 0 /\ rels[dialogs[Len(dialogs)].rel].st # "gone"
    BY <1>4, <1>6, <1>9, <1>11, <2>3, Zenon DEF Resume
  <2> QED
    BY <2>1, <2>2, <2>3
<1> QED
  BY <1>1, <1>3, <1>7, <1>8, <1>10, <1>12 DEF Asked, Dialogs

LEMMA RetryOrSkipType ==
    ASSUME TypeInv, NEW again \in BOOLEAN, AnswerRetryOrSkip(again) PROVE TypeInv'
<1>1. dialogs # <<>> /\ answers < MaxAnswers
  BY DEF AnswerRetryOrSkip
<1>2. PICK t : t = IF phase = "gone" THEN Crash(Here) ELSE Resume(Here)
  OBVIOUS
<1>3. t \in Shared /\ Counted(t)
  <2>1. Crash(Here) \in Shared /\ Counted(Crash(Here))
    BY <1>1, ResumeType DEF Crash, Shared, Counted
  <2> QED
    BY <1>1, <1>2, <2>1, ResumeType
<1>4. Become(t) /\ UNCHANGED <<n, readable, stored, canceled, fs>>
  BY <1>2 DEF AnswerRetryOrSkip
<1>5. answers' \in 0..MaxAnswers /\ links' \in Nat
  BY <1>1, RestTypes, BoundsAssumption DEF AnswerRetryOrSkip, TypeInv
<1>6. retry' \in BOOLEAN
  BY DEF AnswerRetryOrSkip
<1>7. skipped' \subseteq Files
  <2>1. CASE again
    BY <2>1, RestTypes DEF AnswerRetryOrSkip, TypeInv
  <2>2. CASE ~again
    BY <1>1, <2>2, RestTypes, ResumeType DEF AnswerRetryOrSkip, TypeInv
  <2> QED
    BY <2>1, <2>2
<1> QED
  BY <1>3, <1>4, <1>5, <1>6, <1>7, HandlerType, RestTypes DEF TypeInv

LEMMA AbortType ==
    ASSUME TypeInv, AnswerAbort PROVE TypeInv'
<1>1. dialogs # <<>> /\ UNCHANGED <<unasked, fs, retry>>
  BY DEF AnswerAbort
<1>2. Crash(Here) \in Shared /\ Counted(Crash(Here)) /\ Resume(Here) \in Shared /\ Counted(Resume(Here))
  BY <1>1, ResumeType DEF Crash, Shared, Counted
<1>3. CASE phase = "gone"
  <2>1. Become(Crash(Here)) /\ UNCHANGED <<canceled, links>>
    BY <1>3 DEF AnswerAbort
  <2> QED
    BY <1>1, <1>2, <2>1, HandlerType, RestTypes DEF TypeInv, unasked
<1>4. CASE phase = "finished"
  <2>1. Become(Resume(Here)) /\ UNCHANGED <<canceled, links>>
    BY <1>4 DEF AnswerAbort
  <2> QED
    BY <1>1, <1>2, <2>1, HandlerType, RestTypes DEF TypeInv, unasked
<1>5. CASE phase # "gone" /\ phase # "finished"
  <2>1. Cancelled(Resume(Here)) /\ links' = IF links = 0 THEN 0 ELSE links - 1
    BY <1>5 DEF AnswerAbort
  <2>2. links' \in Nat
    BY <2>1, RestTypes DEF TypeInv
  <2> QED
    BY <1>1, <1>2, <2>1, <2>2, CancelledType
<1> QED
  BY <1>3, <1>4, <1>5

LEMMA CreateDirType ==
    ASSUME TypeInv, NEW success \in BOOLEAN, OnCreateDir(success) PROVE TypeInv'
<1>1. Here \in Shared /\ (Counted(Here) \/ (Fresh(Here) /\ links = 0))
  BY StateParts
<1>2. PICK w : w = [Here EXCEPT !.mkdir = FALSE]
  OBVIOUS
<1>3. w \in Shared /\ Same(Here, w)
  BY <1>1, <1>2 DEF Shared, Same
<1>4. PICK t : t = IF success THEN NextEmptyFolder(Here) ELSE OnFinished(w, FALSE)
  OBVIOUS
<1>5. t \in Shared /\ Same(Here, t)
  <2>1. CASE success
    BY <1>1, <1>4, <2>1, NextEmptyFolderType
  <2>2. CASE ~success
    <3>1. t \in Shared /\ Same(w, t)
      BY <1>3, <1>4, <2>2, OnFinishedType
    <3> QED
      BY <1>3, <3>1 DEF Same
  <2> QED
    BY <2>1, <2>2
<1>6. Become(t) /\ UNCHANGED <<unasked, canceled, fs, links, retry>>
  BY <1>2, <1>4, Zenon DEF OnCreateDir
<1>7. Counted(t) \/ (Fresh(t) /\ links' = 0)
  BY <1>1, <1>5, <1>6, SameCount, Zenon
<1> QED
  BY <1>5, <1>6, <1>7, HandlerType, RestTypes DEF TypeInv, unasked

\* The event queue without the event at i
Removed(q, i) == SubSeq(q, 1, i - 1) \o SubSeq(q, i + 1, Len(q))

\* Taking away one event keeps the others in their order.
LEMMA RemovedProperties ==
    ASSUME NEW S, NEW q \in Seq(S), NEW i \in DOMAIN q
    PROVE  /\ Removed(q, i) \in Seq(S)
           /\ DOMAIN Removed(q, i) = 1..Len(q) - 1
           /\ \A j \in DOMAIN Removed(q, i) : Removed(q, i)[j] = q[IF j < i THEN j ELSE j + 1]
<1>1. Len(q) \in Nat /\ DOMAIN q = 1..Len(q) /\ i \in 1..Len(q) /\ \A k \in 1..Len(q) : q[k] \in S
  BY LenProperties, ElementOfSeq
<1>2. PICK l, m : l = Len(q) /\ m = i + 1
  OBVIOUS
<1>3. l \in Int /\ m \in Int /\ i - 1 \in Int
  BY <1>1, <1>2
<1>4. PICK a, b : a = SubSeq(q, 1, i - 1) /\ b = SubSeq(q, m, l)
  OBVIOUS
<1>5. a \in Seq(S) /\ Len(a) = i - 1 /\ \A j \in 1..i - 1 : a[j] = q[j]
  <2>1. \A k \in 1..i - 1 : q[k] \in S
    BY <1>1
  <2>2. /\ a \in Seq(S) /\ Len(a) = IF 1 <= i - 1 THEN (i - 1) - 1 + 1 ELSE 0
        /\ \A j \in 1..(i - 1) - 1 + 1 : a[j] = q[1 + j - 1]
    BY <1>3, <1>4, <2>1, SubSeqProperties
  <2>3. \A j \in 1..i - 1 : j \in 1..(i - 1) - 1 + 1 /\ 1 + j - 1 = j
    BY <1>1
  <2>4. Len(a) = i - 1
    BY <1>1, <2>2
  <2> QED
    BY <2>2, <2>3, <2>4
<1>6. b \in Seq(S) /\ Len(b) = Len(q) - i /\ \A j \in 1..Len(q) - i : b[j] = q[j + i]
  <2>1. \A k \in m..l : q[k] \in S
    BY <1>1, <1>2
  <2>2. /\ b \in Seq(S) /\ Len(b) = IF m <= l THEN l - m + 1 ELSE 0
        /\ \A j \in 1..l - m + 1 : b[j] = q[m + j - 1]
    BY <1>3, <1>4, <2>1, SubSeqProperties
  <2>3. \A j \in 1..Len(q) - i : j \in 1..l - m + 1 /\ m + j - 1 = j + i
    BY <1>1, <1>2
  <2>4. Len(b) = Len(q) - i
    BY <1>1, <1>2, <2>2
  <2> QED
    BY <2>2, <2>3, <2>4
<1>7. PICK r : r = a \o b
  OBVIOUS
<1>8. r = Removed(q, i)
  BY <1>2, <1>4, <1>7 DEF Removed
<1>9. /\ r \in Seq(S) /\ Len(r) = Len(a) + Len(b)
      /\ \A j \in 1..Len(a) + Len(b) : r[j] = IF j <= Len(a) THEN a[j] ELSE b[j - Len(a)]
  BY <1>5, <1>6, <1>7, ConcatProperties
<1>10. Len(a) + Len(b) = Len(q) - 1
  BY <1>1, <1>5, <1>6
<1>11. DOMAIN r = 1..Len(q) - 1
  BY <1>9, <1>10, LenProperties
<1>12. ASSUME NEW j \in 1..Len(q) - 1
       PROVE  r[j] = q[IF j < i THEN j ELSE j + 1]
  <2>1. r[j] = IF j <= Len(a) THEN a[j] ELSE b[j - Len(a)]
    BY <1>9, <1>10
  <2>2. CASE j < i
    <3>1. j <= Len(a) /\ j \in 1..i - 1
      BY <1>1, <1>5, <2>2
    <3> QED
      BY <1>5, <2>1, <2>2, <3>1
  <2>3. CASE ~(j < i)
    <3>1. /\ ~(j <= Len(a)) /\ j - Len(a) \in 1..Len(q) - i
          /\ (j - Len(a)) + i = j + 1
      BY <1>1, <1>5, <2>3
    <3>2. b[j - Len(a)] = q[(j - Len(a)) + i]
      BY <1>6, <3>1
    <3> QED
      BY <2>1, <2>3, <3>1, <3>2
  <2> QED
    BY <2>2, <2>3
<1> QED
  BY <1>8, <1>9, <1>11, <1>12

\* What a handler finds when the loop has taken its event
Taken(i) == [Here EXCEPT !.mainQ = Removed(mainQ, i)]

\* Taking its event leaves a handler all that it shares.
LEMMA TakenType ==
    ASSUME TypeInv, NEW i \in DOMAIN mainQ
    PROVE  Taken(i) \in Shared /\ Same(Here, Taken(i)) /\ mainQ[i] \in Events
<1>1. mainQ \in Seq(Events)
  BY DEF TypeInv, TypeOK
<1>2. PICK q : q = Removed(mainQ, i)
  OBVIOUS
<1>3. /\ q \in Seq(Events) /\ DOMAIN q = 1..Len(mainQ) - 1
      /\ \A j \in DOMAIN q : q[j] = mainQ[IF j < i THEN j ELSE j + 1]
  BY <1>1, <1>2, RemovedProperties
<1>4. DOMAIN mainQ = 1..Len(mainQ) /\ Len(mainQ) \in Nat
  BY <1>1, LenProperties
<1>5. NoAnswer(mainQ) => NoAnswer(q)
  BY <1>3, <1>4 DEF NoAnswer
<1>6. Taken(i) = [Here EXCEPT !.mainQ = q]
  BY <1>2 DEF Taken
<1>7. Here \in Shared /\ Here.mainQ = mainQ
  BY HereIsShared DEF TypeInv, Here
<1>8. mainQ[i] \in Events
  BY <1>1, <1>4, ElementOfSeq
<1> QED
  BY <1>3, <1>5, <1>6, <1>7, <1>8 DEF Shared, Same

\* An event is an answer or the deletion of an object.
LEMMA EventKinds ==
    ASSUME NEW e \in Events
    PROVE  \/ e.kind = "posted" /\ e.result \in Results
           \/ e.kind \in {"destroyRel", "destroyTask", "destroyFs"}
  BY DEF Events

\* What the handler of the event at i does
Handles(i) ==
    /\ mainQ[i].kind = "posted" =>
           /\ Become(IF rels[mainQ[i].rel].st = "gone" \/ fs = "gone" THEN Taken(i)
                     ELSE Posted(Taken(i), mainQ[i].result))
           /\ UNCHANGED fs
    /\ mainQ[i].kind = "destroyRel" =>
           Become([Taken(i) EXCEPT !.rels[mainQ[i].rel].st = "gone"]) /\ UNCHANGED fs
    /\ mainQ[i].kind = "destroyTask" =>
           /\ Become(IF fs = "alive" /\ phase # "gone"
                     THEN DeleteLater([Taken(i) EXCEPT !.phase = "gone", !.mkdir = FALSE], "destroyFs", 0)
                     ELSE [Taken(i) EXCEPT !.phase = "gone", !.mkdir = FALSE])
           /\ UNCHANGED fs
    /\ mainQ[i].kind = "destroyFs" =>
           /\ Become(IF rels = <<>> THEN Taken(i) ELSE DeleteLater(Taken(i), "destroyRel", Len(rels)))
           /\ fs' = "gone"

\* The loop takes one event, which it may have at this level.
LEMMA HandleEventCases ==
    ASSUME HandleEvent PROVE \E i \in DOMAIN mainQ : Handles(i)
<1>1. PICK i \in DOMAIN mainQ :
        CASE mainQ[i].kind = "posted" ->
                  /\ Become(IF rels[mainQ[i].rel].st = "gone" \/ fs = "gone" THEN Taken(i)
                            ELSE Posted(Taken(i), mainQ[i].result))
                  /\ UNCHANGED fs
          [] mainQ[i].kind = "destroyRel" ->
                  /\ Become([Taken(i) EXCEPT !.rels[mainQ[i].rel].st = "gone"])
                  /\ UNCHANGED fs
          [] mainQ[i].kind = "destroyTask" ->
                  /\ Become(IF fs = "alive" /\ phase # "gone"
                            THEN DeleteLater([Taken(i) EXCEPT !.phase = "gone", !.mkdir = FALSE], "destroyFs", 0)
                            ELSE [Taken(i) EXCEPT !.phase = "gone", !.mkdir = FALSE])
                  /\ UNCHANGED fs
          [] mainQ[i].kind = "destroyFs" ->
                  /\ Become(IF rels = <<>> THEN Taken(i) ELSE DeleteLater(Taken(i), "destroyRel", Len(rels)))
                  /\ fs' = "gone"
  BY Zenon DEF HandleEvent, Taken, Removed
<1>2. Handles(i)
  BY <1>1, Zenon DEF Handles
<1> QED
  BY <1>2

\* Whatever the event is, its handler keeps the types and the counts.
LEMMA EventType ==
    ASSUME TypeInv, HandleEvent PROVE TypeInv'
<1>1. PICK i \in DOMAIN mainQ : Handles(i)
  BY HandleEventCases
<1>2. UNCHANGED <<unasked, canceled, links, retry>>
  BY DEF HandleEvent
<1>3. Taken(i) \in Shared /\ Same(Here, Taken(i)) /\ mainQ[i] \in Events
  BY TakenType
<1>4. (Counted(Here) \/ (Fresh(Here) /\ links = 0)) /\ Here.mainQ = mainQ /\ Here.rels = rels
  BY StateParts DEF Here
<1>5. PICK s : s = Taken(i)
  OBVIOUS
<1>6. s \in Shared /\ (Counted(s) \/ (Fresh(s) /\ links = 0))
  BY <1>3, <1>4, <1>5, SameCount, Zenon
<1>7. s.rels \in Seq(RelRecords) /\ s.rels = rels
  BY <1>3, <1>4, <1>5 DEF Same, Shared
<1>8. ASSUME NEW t \in Shared, Become(t), fs' \in {"none", "alive", "gone"},
             Counted(t) \/ (Fresh(t) /\ links = 0)
      PROVE  TypeInv'
  BY <1>2, <1>8, HandlerType, RestTypes DEF TypeInv, unasked
<1>9. fs \in {"none", "alive", "gone"}
  BY RestTypes DEF TypeInv
<1>10. CASE mainQ[i].kind = "posted"
  <2>1. PICK t : t = IF rels[mainQ[i].rel].st = "gone" \/ fs = "gone" THEN s ELSE Posted(s, mainQ[i].result)
    OBVIOUS
  <2>2. Become(t) /\ UNCHANGED fs
    BY <1>1, <1>5, <1>10, <2>1, Zenon DEF Handles
  <2>3. Counted(s)
    <3>1. ~NoAnswer(Here.mainQ)
      BY <1>4, <1>10 DEF NoAnswer
    <3>2. Counted(Here)
      BY <1>4, <3>1 DEF Fresh
    <3> QED
      BY <1>3, <1>5, <3>2, SameCount
  <2>4. t \in Shared /\ Counted(t)
    BY <1>3, <1>6, <1>10, <2>1, <2>3, EventKinds, PostedType DEF TypeInv
  <2> QED
    BY <1>8, <1>9, <2>2, <2>4
<1>11. CASE mainQ[i].kind = "destroyRel"
  <2>1. PICK q : q = [s.rels EXCEPT ![mainQ[i].rel].st = "gone"]
    OBVIOUS
  <2>2. q \in Seq(RelRecords) /\ (s.rels = <<>> => q = <<>>)
    <3>1. q \in Seq(RelRecords)
      BY <1>7, <2>1, SetStateType DEF RelStates
    <3>2. DOMAIN q = DOMAIN s.rels
      BY <2>1
    <3> QED
      BY <1>7, <3>1, <3>2, LenProperties, EmptySeq
  <2>3. PICK t : t = [s EXCEPT !.rels = q]
    OBVIOUS
  <2>4. t \in Shared /\ (Counted(t) \/ (Fresh(t) /\ links = 0))
    BY <1>6, <2>2, <2>3 DEF Shared, Counted, Fresh
  <2>5. Become([s EXCEPT !.rels[mainQ[i].rel].st = "gone"]) /\ UNCHANGED fs
    BY <1>1, <1>5, <1>11, Zenon DEF Handles
  <2>6. [s EXCEPT !.rels[mainQ[i].rel].st = "gone"] = t
    BY <1>6, <2>1, <2>3 DEF Shared
  <2> QED
    BY <1>8, <1>9, <2>4, <2>5, <2>6
<1>12. CASE mainQ[i].kind = "destroyTask"
  <2>1. PICK w : w = [s EXCEPT !.phase = "gone", !.mkdir = FALSE]
    OBVIOUS
  <2>2. w \in Shared /\ Same(s, w)
    BY <1>6, <2>1 DEF Shared, Same
  <2>3. PICK t : t = IF fs = "alive" /\ phase # "gone" THEN DeleteLater(w, "destroyFs", 0) ELSE w
    OBVIOUS
  <2>4. t \in Shared /\ Same(s, t)
    BY <2>2, <2>3, DeleteLaterType DEF Same
  <2>5. Become(t) /\ UNCHANGED fs
    BY <1>1, <1>5, <1>12, <2>1, <2>3, Zenon DEF Handles
  <2>6. Counted(t) \/ (Fresh(t) /\ links = 0)
    BY <1>6, <2>4, SameCount, Zenon
  <2> QED
    BY <1>8, <1>9, <2>4, <2>5, <2>6
<1>13. CASE mainQ[i].kind = "destroyFs"
  <2>1. PICK t : t = IF rels = <<>> THEN s ELSE DeleteLater(s, "destroyRel", Len(rels))
    OBVIOUS
  <2>2. Len(rels) \in Nat
    BY <1>7, LenProperties
  <2>3. t \in Shared /\ Same(s, t)
    BY <1>6, <2>1, <2>2, DeleteLaterType DEF Same
  <2>4. Become(t) /\ fs' = "gone"
    BY <1>1, <1>5, <1>13, <2>1, Zenon DEF Handles
  <2>5. Counted(t) \/ (Fresh(t) /\ links = 0)
    BY <1>6, <2>3, SameCount, Zenon
  <2> QED
    BY <1>8, <2>3, <2>4, <2>5
<1> QED
  BY <1>3, <1>10, <1>11, <1>12, <1>13, EventKinds

LEMMA RelFinishesType ==
    ASSUME TypeInv, NEW r \in DOMAIN rels, NEW result \in Results, RelFinishes(r, result)
    PROVE  TypeInv'
<1>1. rels \in Seq(RelRecords) /\ mainQ \in Seq(Events)
  BY DEF TypeInv, TypeOK, RelRecords
<1>2. rels' \in Seq(RelRecords)
  BY <1>1, SetStateType DEF RelFinishes, RelStates
<1>3. r \in 1..Len(rels) /\ r \in Nat /\ rels # <<>>
  BY <1>1, LenProperties, EmptySeq
<1>4. rels[r] \in RelRecords
  BY <1>1, <1>3, ElementOfSeq
<1>5. [kind |-> "posted", rel |-> r, result |-> result] \in Events
  BY <1>3 DEF Events
<1>6. mainQ' \in Seq(Events)
  BY <1>1, <1>5 DEF RelFinishes
<1>7. stored' \subseteq Files
  BY <1>4, RestTypes DEF RelFinishes, TypeInv, RelRecords
<1>8. UNCHANGED <<n, readable, phase, canceled, fs, cur, passed, names, dialogs, links, retry, skipped, answers,
                  folders, mkdir, told, crashed>>
  BY DEF RelFinishes, asking
<1>9. TypeOK'
  BY <1>2, <1>6, <1>7, <1>8 DEF TypeInv, TypeOK, RelRecords
<1>10. Counted(Here)
  BY <1>3, StateParts DEF Fresh, Here
<1>11. CountInv'
  BY <1>8, <1>10 DEF CountInv, Counted, Here
<1> QED
  BY <1>9, <1>11 DEF TypeInv

\* The three facts that make the types and counts an invariant.
LEMMA InitType == Init => TypeInv
<1>1. ASSUME Init PROVE TypeOK
  <2>1. /\ names = <<>> /\ rels = <<>> /\ dialogs = <<>> /\ mainQ = <<>> /\ told = <<>>
        /\ n \in 0..MaxFiles /\ folders \in 0..MaxFolders /\ readable \in [Files -> BOOLEAN]
        /\ cur = 0 /\ passed = 0 /\ links = 0 /\ answers = 0
        /\ stored = {} /\ skipped = {}
    BY <1>1 DEF Init
  <2>2. phase = "linking" /\ fs = "none" /\ canceled = FALSE /\ retry = FALSE /\ mkdir = FALSE /\ crashed = FALSE
    BY <1>1 DEF Init
  <2>3. /\ names \in Seq(Files) /\ rels \in Seq([file : Files, st : RelStates])
        /\ dialogs \in Seq(Dialogs) /\ mainQ \in Seq(Events) /\ told \in Seq(BOOLEAN)
    BY <2>1, EmptySeq
  <2>4. cur \in 0..n + 1 /\ passed \in 0..n /\ links \in Nat /\ answers \in 0..MaxAnswers
    BY <2>1, BoundsAssumption
  <2> QED
    BY <2>1, <2>2, <2>3, <2>4 DEF TypeOK
<1>2. ASSUME Init PROVE CountInv
  BY <1>2 DEF Init, CountInv, Fresh, Here, NoAnswer
<1> QED
  BY <1>1, <1>2 DEF TypeInv

LEMMA NextType == TypeInv /\ [Next]_vars => TypeInv'
<1> SUFFICES ASSUME TypeInv, [Next]_vars PROVE TypeInv'
  OBVIOUS
<1>1. CASE UNCHANGED vars
  BY <1>1 DEF vars, posting, asking, TypeInv, TypeOK, CountInv, Counted, Fresh, Here, NoAnswer
<1>2. CASE OnLinkGet
  BY <1>2, OnLinkGetType
<1>3. CASE OnLinkGetAgain
  BY <1>3, LinkAgainType
<1>4. CASE OnGetLinkFailed
  BY <1>4, LinkFailedType
<1>5. CASE Cancel
  BY <1>5, CancelType
<1>6. ASSUME NEW again \in BOOLEAN, AnswerRetryOrSkip(again) PROVE TypeInv'
  BY <1>6, RetryOrSkipType
<1>7. CASE AnswerAbort
  BY <1>7, AbortType
<1>8. ASSUME NEW success \in BOOLEAN, OnCreateDir(success) PROVE TypeInv'
  BY <1>8, CreateDirType
<1>9. CASE HandleEvent
  BY <1>9, EventType
<1>10. ASSUME NEW r \in DOMAIN rels, NEW result \in Results, RelFinishes(r, result) PROVE TypeInv'
  BY <1>10, RelFinishesType
<1> QED
  BY <1>1, <1>2, <1>3, <1>4, <1>5, <1>6, <1>7, <1>8, <1>9, <1>10 DEF Next

LEMMA TypesInvariant == Spec => []TypeInv
  BY InitType, NextType, PTL DEF Spec

\* Numbers of files, names, uploads, questions and events stay in their ranges,
\* also when files cannot be opened and handlers nest.
THEOREM TypeCorrect == Spec => []TypeOK
<1>1. TypeInv => TypeOK
  BY DEF TypeInv
<1> QED
  BY <1>1, TypesInvariant, PTL

-----------------------------------------------------------------------------
(* What goes on if all files can be opened.  Then no handler asks within   *)
(* the start of an upload, and handlers do not nest.                       *)

OneUpload(q, c) ==
    \E r \in DOMAIN q : /\ q[r].st = "posting" /\ q[r].file = c
                        /\ \A k \in DOMAIN q : q[k].st = "posting" => k = r
OneAnswer(q, c, on) ==
    \E i \in DOMAIN q : /\ q[i].kind = "posted"
                        /\ q[i].result = "ok" => c \in on
                        /\ \A j \in DOMAIN q : q[j].kind = "posted" => j = i
NoTaskEnd(q) == \A i \in DOMAIN q : q[i].kind # "destroyTask"

\* The upload of the current file goes on.
Uploads ==
    /\ OneUpload(rels, cur)
    /\ NoAnswer(mainQ) /\ dialogs = <<>> /\ links = 0 /\ ~mkdir
    /\ cur <= n

\* It is over, and its answer about the current file waits.
Answers ==
    /\ OneAnswer(mainQ, cur, stored)
    /\ NoUpload(rels) /\ dialogs = <<>> /\ links = 0 /\ ~mkdir
    /\ cur <= n

\* The user is asked about the current file.
Asks ==
    /\ dialogs = <<[about |-> cur, rel |-> 0]>>
    /\ NoUpload(rels) /\ NoAnswer(mainQ) /\ links = 0 /\ ~mkdir
    /\ cur <= n

\* A new link is asked for, with which the current file is sent again or skipped.
Links ==
    /\ links = 1
    /\ retry \/ cur \in skipped
    /\ NoUpload(rels) /\ NoAnswer(mainQ) /\ dialogs = <<>> /\ ~mkdir
    /\ cur <= n

\* The files are over and an empty folder is made.
MakesFolder ==
    /\ mkdir /\ cur = n + 1
    /\ NoUpload(rels) /\ NoAnswer(mainQ) /\ dialogs = <<>> /\ links = 0

Rests == NoUpload(rels) /\ NoAnswer(mainQ) /\ dialogs = <<>> /\ links = 0 /\ ~mkdir

ModeInv ==
    IF canceled
    THEN /\ phase \in {"finished", "gone"}
         /\ dialogs = <<>> /\ links = 0
         /\ told # <<>> /\ ~told[1]
    ELSE Rests \/ (phase = "serving" /\ (Uploads \/ Answers \/ Asks \/ Links \/ MakesFolder))

ObjectsInv ==
    /\ phase = "linking" => cur = 0
    /\ phase \in {"linking", "serving"} => told = <<>> /\ NoTaskEnd(mainQ)
    /\ n > 0 /\ fs = "alive" => rels # <<>>

\* The files before the current one are on the server or were skipped.
DoneInv == \A f \in 1..n : f < cur => f \in stored \cup skipped

NamesInv ==
    /\ \A i \in DOMAIN names : names[i] < cur /\ names[i] \in stored
    /\ \A i, j \in DOMAIN names : i < j => names[i] < names[j]

ReadInv ==
    AllReadable =>
        /\ NamesInv /\ SuccessMeansAll
        /\ crashed => n = 0 /\ canceled
        /\ ~crashed => ModeInv /\ ObjectsInv /\ DoneInv

IInv == TypeInv /\ ReadInv

\* The invariant after a handler, in terms of its result
LEMMA ReadNext ==
    ASSUME NEW s \in Shared, Become(s), n' = n, readable' = readable,
           \A i \in DOMAIN s.names : s.names[i] < s.cur /\ s.names[i] \in stored',
           \A i, j \in DOMAIN s.names : i < j => s.names[i] < s.names[j],
           s.told # <<>> /\ s.told[1] => 1..n \subseteq stored' \cup skipped' /\ s.folders = 0,
           ~s.crashed, ModeInv',
           s.phase = "linking" => s.cur = 0,
           s.phase \in {"linking", "serving"} => s.told = <<>> /\ NoTaskEnd(s.mainQ),
           n > 0 /\ fs' = "alive" => s.rels # <<>>,
           \A f \in 1..n : f < s.cur => f \in stored' \cup skipped'
    PROVE  ReadInv'
<1>1. NamesInv'
  BY DEF NamesInv, Become
<1>2. SuccessMeansAll'
  BY DEF SuccessMeansAll, Become
<1>3. ObjectsInv'
  BY DEF ObjectsInv, Become, NoTaskEnd
<1>4. DoneInv'
  BY DEF DoneInv, Become
<1>5. crashed' = FALSE
  <2>1. s.crashed \in BOOLEAN
    BY DEF Shared
  <2> QED
    BY <2>1 DEF Become
<1> QED
  BY <1>1, <1>2, <1>3, <1>4, <1>5 DEF ReadInv

\* To delete another object is not to delete the task.
LEMMA DeleteLaterKeeps ==
    ASSUME NEW s \in Shared, NEW kind \in {"destroyRel", "destroyFs"}, NEW rel \in Nat
    PROVE  NoTaskEnd(s.mainQ) => NoTaskEnd(DeleteLater(s, kind, rel).mainQ)
<1>1. s.mainQ \in Seq(Events)
  BY DEF Shared
<1>2. PICK e : e = [kind |-> kind, rel |-> rel, level |-> Len(s.dialogs)]
  OBVIOUS
<1>3. e.kind # "destroyTask"
  BY <1>2
<1>4. DeleteLater(s, kind, rel).mainQ = Append(s.mainQ, e)
  BY <1>2 DEF DeleteLater, Shared
<1> QED
  BY <1>1, <1>3, <1>4, AppendProperties DEF NoTaskEnd

\* What the end of an upload says and leaves alone.
LEMMA FinishFields ==
    ASSUME NEW s \in Shared, NEW b \in BOOLEAN
    PROVE  /\ Finish(s, b).phase = "finished"
           /\ Finish(s, b).told = Append(s.told, b)
           /\ Finish(s, b).folders = s.folders /\ Finish(s, b).mkdir = s.mkdir
           /\ Finish(s, b).crashed = s.crashed
  BY DEF Finish, DeleteLater, Shared

\* An upload that ends with everything at rest, or that was canceled.
LEMMA FinishKeeps ==
    ASSUME NEW s \in Shared, NEW b \in BOOLEAN, Become(Finish(s, b)),
           n' = n, readable' = readable,
           \A i \in DOMAIN s.names : s.names[i] < s.cur /\ s.names[i] \in stored',
           \A i, j \in DOMAIN s.names : i < j => s.names[i] < s.names[j],
           s.told = <<>> /\ b => 1..n \subseteq stored' \cup skipped' /\ s.folders = 0,
           s.told # <<>> /\ s.told[1] => 1..n \subseteq stored' \cup skipped' /\ s.folders = 0,
           ~s.crashed, s.dialogs = <<>>, links' = 0,
           canceled' => IF s.told = <<>> THEN ~b ELSE ~s.told[1],
           ~canceled' => NoUpload(s.rels) /\ NoAnswer(s.mainQ) /\ ~s.mkdir,
           n > 0 /\ fs' = "alive" => s.rels # <<>>,
           \A f \in 1..n : f < s.cur => f \in stored' \cup skipped'
    PROVE  ReadInv'
<1>1. PICK t : t = Finish(s, b)
  OBVIOUS
<1>2. /\ t \in Shared /\ Same(s, t) /\ t.phase = "finished" /\ t.folders = s.folders
      /\ t.mkdir = s.mkdir /\ t.crashed = s.crashed
  BY <1>1, FinishType, FinishFields
<1>3. /\ t.told # <<>>
      /\ t.told[1] = IF s.told = <<>> THEN b ELSE s.told[1]
  <2>1. s.told \in Seq(BOOLEAN)
    BY DEF Shared
  <2>2. /\ Len(t.told) = Len(s.told) + 1 /\ t.told \in Seq(BOOLEAN)
        /\ \A i \in 1..Len(s.told) : t.told[i] = s.told[i]
        /\ t.told[Len(s.told) + 1] = b
    <3>1. t.told = Append(s.told, b)
      BY <1>1, FinishFields, Zenon
    <3>2. /\ Append(s.told, b) \in Seq(BOOLEAN) /\ Len(Append(s.told, b)) = Len(s.told) + 1
          /\ \A i \in 1..Len(s.told) : Append(s.told, b)[i] = s.told[i]
          /\ Append(s.told, b)[Len(s.told) + 1] = b
      BY <2>1, AppendProperties
    <3> QED
      BY <3>1, <3>2, Zenon
  <2>3. Len(s.told) \in Nat /\ (s.told = <<>> => Len(s.told) = 0) /\ (s.told # <<>> => 1 \in 1..Len(s.told))
    BY <2>1, EmptySeq, LenProperties
  <2>4. t.told # <<>>
    BY <2>2, <2>3, EmptySeq
  <2>5. CASE s.told = <<>>
    <3>1. Len(s.told) + 1 = 1
      BY <2>3, <2>5
    <3> QED
      BY <2>2, <2>4, <2>5, <3>1, Zenon
  <2>6. CASE s.told # <<>>
    BY <2>2, <2>3, <2>4, <2>6, Zenon
  <2> QED
    BY <2>5, <2>6, Zenon
<1>4. ModeInv'
  <2>1. phase' = "finished" /\ dialogs' = <<>> /\ links' = 0 /\ told' = t.told /\ rels' = s.rels
        /\ mainQ' = t.mainQ /\ mkdir' = s.mkdir
    BY <1>1, <1>2 DEF Become, Same
  <2>2. CASE canceled'
    <3>1. ~t.told[1]
      BY <1>3, <2>2, Zenon
    <3> QED
      BY <1>3, <2>1, <2>2, <3>1, Zenon DEF ModeInv
  <2>3. CASE ~canceled'
    <3>1. NoAnswer(t.mainQ)
      BY <1>2, <2>3 DEF Same
    <3>2. Rests'
      BY <2>1, <2>3, <3>1 DEF Rests, NoUpload, NoAnswer
    <3> QED
      BY <2>3, <3>2 DEF ModeInv
  <2> QED
    BY <2>2, <2>3
<1>5. t.names = s.names /\ t.cur = s.cur /\ t.rels = s.rels
  BY <1>2 DEF Same
<1>6. ~t.crashed /\ Become(t)
  BY <1>1, <1>2, Zenon
<1>7. t.told[1] => 1..n \subseteq stored' \cup skipped' /\ t.folders = 0
  BY <1>2, <1>3, Zenon
<1> QED
  BY <1>2, <1>4, <1>5, <1>6, <1>7, ReadNext

\* What making the next upload leaves alone.
LEMMA MadeFields ==
    ASSUME TypeOK, NEW s \in Shared, s.cur < n, readable[s.cur + 1]
    PROVE  /\ Made(s).phase = s.phase /\ Made(s).names = s.names /\ Made(s).dialogs = s.dialogs
           /\ Made(s).folders = s.folders /\ Made(s).mkdir = s.mkdir /\ Made(s).told = s.told
           /\ Made(s).crashed = s.crashed
           /\ Made(s).rels = Append(s.rels, [file |-> s.cur + 1, st |-> "posting"])
           /\ NoTaskEnd(s.mainQ) => NoTaskEnd(Made(s).mainQ)
<1>1. PICK cut : cut = IF Len(s.rels) = 0 THEN s ELSE DeleteLater(s, "destroyRel", Len(s.rels))
  OBVIOUS
<1>2. Len(s.rels) \in Nat
  BY LenProperties DEF Shared
<1>3. cut \in Shared /\ (NoTaskEnd(s.mainQ) => NoTaskEnd(cut.mainQ))
  BY <1>1, <1>2, DeleteLaterType, DeleteLaterKeeps
<1>4. /\ cut.phase = s.phase /\ cut.names = s.names /\ cut.dialogs = s.dialogs
      /\ cut.folders = s.folders /\ cut.mkdir = s.mkdir /\ cut.told = s.told /\ cut.crashed = s.crashed
  BY <1>1 DEF DeleteLater, Shared
<1>5. Made(s) = [cut EXCEPT !.cur = s.cur + 1, !.rels = Append(s.rels, [file |-> s.cur + 1, st |-> "posting"])]
  BY <1>1 DEF Made
<1> QED
  BY <1>3, <1>4, <1>5 DEF Shared

\* An upload of one more file among those that are over
LEMMA OneMoreUpload ==
    ASSUME NEW q \in Seq(RelRecords), NEW e \in RelRecords, e.st = "posting", NoUpload(q)
    PROVE  Append(q, e) # <<>> /\ OneUpload(Append(q, e), e.file)
<1>1. /\ Append(q, e) \in Seq(RelRecords) /\ Append(q, e) # <<>> /\ Len(Append(q, e)) = Len(q) + 1
      /\ \A i \in 1..Len(q) : Append(q, e)[i] = q[i]
      /\ Append(q, e)[Len(q) + 1] = e
  BY AppendProperties
<1>2. /\ DOMAIN q = 1..Len(q) /\ Len(q) \in Nat /\ DOMAIN Append(q, e) = 1..Len(q) + 1
  BY <1>1, LenProperties
<1>3. Len(q) + 1 \in DOMAIN Append(q, e)
  BY <1>2
<1>4. ASSUME NEW k \in DOMAIN Append(q, e), Append(q, e)[k].st = "posting" PROVE k = Len(q) + 1
  BY <1>1, <1>2, <1>4 DEF NoUpload
<1> QED
  BY <1>1, <1>3, <1>4 DEF OneUpload

\* startNext, called when nothing else is under way and all files but the rest
\* are on the server or skipped
LEMMA StartKeeps ==
    ASSUME TypeOK, AllReadable, NEW s \in Shared, Become(StartNext(s)),
           n' = n, readable' = readable, stored' = stored, skipped' = skipped,
           ~canceled, ~canceled', links' = 0,
           s.cur <= n, s.phase = "serving", s.told = <<>>, ~s.crashed, ~s.mkdir, s.dialogs = <<>>,
           NoUpload(s.rels), NoAnswer(s.mainQ), NoTaskEnd(s.mainQ),
           s.cur > 0 /\ fs' = "alive" => s.rels # <<>>,
           \A i \in DOMAIN s.names : s.names[i] <= s.cur /\ s.names[i] \in stored,
           \A i, j \in DOMAIN s.names : i < j => s.names[i] < s.names[j],
           \A f \in 1..n : f <= s.cur => f \in stored \cup skipped
    PROVE  ReadInv'
<1>1. n \in Nat /\ s.cur \in Nat /\ n <= MaxFiles /\ MaxFiles \in Nat
  BY BoundsAssumption DEF TypeOK, Shared
<1>2. s.names \in Seq(Files) /\ DOMAIN s.names = 1..Len(s.names) /\ \A i \in DOMAIN s.names : s.names[i] \in Nat
  <2>1. s.names \in Seq(Files)
    BY DEF Shared
  <2>2. DOMAIN s.names = 1..Len(s.names) /\ \A i \in 1..Len(s.names) : s.names[i] \in Files
    BY <2>1, LenProperties, ElementOfSeq
  <2>3. Files \subseteq Nat
    BY <1>1 DEF Files
  <2> QED
    BY <2>1, <2>2, <2>3
<1>3. \A i \in DOMAIN s.names : s.names[i] < s.cur + 1 /\ s.names[i] \in stored'
  BY <1>1, <1>2
<1>4. \A f \in 1..n : f < s.cur + 1 => f \in stored' \cup skipped'
  BY <1>1
<1>5. CASE s.cur < n
  <2>1. readable[s.cur + 1]
    BY <1>1, <1>5 DEF AllReadable
  <2>2. PICK t : t = Made(s)
    OBVIOUS
  <2>3. StartNext(s) = t
    BY <1>5, <2>1, <2>2, StartNextCases
  <2>4. t \in Shared /\ t.cur = s.cur + 1 /\ NoAnswer(t.mainQ)
    BY <1>5, <2>2, MadeType
  <2>5. /\ t.phase = "serving" /\ t.names = s.names /\ t.dialogs = <<>> /\ ~t.mkdir
        /\ t.told = <<>> /\ ~t.crashed /\ NoTaskEnd(t.mainQ)
    BY <1>5, <2>1, <2>2, MadeFields, Zenon
  <2>6. PICK e : e = [file |-> s.cur + 1, st |-> "posting"]
    OBVIOUS
  <2>7. e \in RelRecords /\ e.st = "posting" /\ e.file = s.cur + 1
    BY <1>1, <1>5, <2>6 DEF RelRecords, Files, RelStates
  <2>8. t.rels = Append(s.rels, e) /\ s.rels \in Seq(RelRecords)
    BY <1>5, <2>1, <2>2, <2>6, MadeFields DEF Shared
  <2>9. t.rels # <<>> /\ OneUpload(t.rels, s.cur + 1)
    BY <2>7, <2>8, OneMoreUpload
  <2>10. Become(t)
    BY <2>3
  <2>11. Uploads'
    <3>1. /\ rels' = t.rels /\ cur' = s.cur + 1 /\ mainQ' = t.mainQ /\ dialogs' = <<>> /\ mkdir' = t.mkdir
      BY <2>4, <2>5, <2>10 DEF Become
    <3>2. cur' <= n'
      BY <1>1, <1>5, <3>1
    <3> QED
      BY <2>4, <2>5, <2>9, <3>1, <3>2 DEF Uploads, OneUpload, NoAnswer
  <2>12. ModeInv'
    BY <2>5, <2>10, <2>11 DEF ModeInv, Become
  <2> QED
    BY <1>3, <1>4, <2>4, <2>5, <2>9, <2>10, <2>12, ReadNext
<1>6. CASE s.cur = n
  <2>1. PICK m : m = [s EXCEPT !.cur = n + 1]
    OBVIOUS
  <2>2. /\ m \in Shared /\ m.cur = n + 1 /\ m.names = s.names /\ m.rels = s.rels /\ m.mainQ = s.mainQ
        /\ m.phase = s.phase /\ m.dialogs = s.dialogs /\ m.told = s.told /\ m.folders = s.folders
        /\ m.mkdir = s.mkdir /\ m.crashed = s.crashed
    <3>1. n + 1 \in 0..n + 1
      BY <1>1
    <3>2. m \in Shared
      BY <2>1, <3>1 DEF Shared
    <3>3. /\ m.cur = n + 1 /\ m.names = s.names /\ m.rels = s.rels /\ m.mainQ = s.mainQ
          /\ m.phase = s.phase /\ m.dialogs = s.dialogs /\ m.told = s.told /\ m.folders = s.folders
      BY <2>1 DEF Shared
    <3>4. m.mkdir = s.mkdir /\ m.crashed = s.crashed
      BY <2>1 DEF Shared
    <3> QED
      BY <3>2, <3>3, <3>4, Zenon
  <2>3. StartNext(s) = OnFinished(m, TRUE)
    <3>1. StartNext(s) = FileServerTaskFinished(m, TRUE)
      BY <1>6, <2>1, StartNextCases
    <3>2. m.phase # "gone"
      BY <2>2
    <3> QED
      BY <3>1, <3>2, Zenon DEF FileServerTaskFinished
  <2>4. \A f \in 1..n : f \in stored' \cup skipped'
    BY <1>1, <1>4, <1>6
  <2>5. n > 0 /\ fs' = "alive" => m.rels # <<>>
    BY <1>6, <2>2
  <2>6. m.folders \in Nat
    BY <2>2, BoundsAssumption DEF Shared
  <2>7. CASE m.folders > 0
    <3>1. PICK t : t = [m EXCEPT !.folders = m.folders - 1, !.mkdir = TRUE]
      OBVIOUS
    <3>2. StartNext(s) = t
      <4>1. m.folders # 0
        BY <2>6, <2>7
      <4> QED
        BY <2>3, <2>7, <3>1, <4>1, Zenon DEF OnFinished, NextEmptyFolder
    <3>3. t \in Shared
      <4>1. m.folders - 1 \in 0..MaxFolders
        BY <2>2, <2>7, BoundsAssumption DEF Shared
      <4> QED
        BY <2>2, <3>1, <4>1 DEF Shared
    <3>4. /\ t.cur = n + 1 /\ t.names = s.names /\ t.rels = m.rels /\ t.mainQ = s.mainQ /\ t.phase = "serving"
          /\ t.dialogs = <<>> /\ t.told = <<>> /\ t.mkdir /\ ~t.crashed
      BY <2>2, <3>1 DEF Shared
    <3>5. MakesFolder'
      <4>1. mkdir' = t.mkdir /\ cur' = n' + 1 /\ rels' = s.rels /\ mainQ' = s.mainQ /\ dialogs' = <<>>
        BY <2>2, <3>2, <3>4 DEF Become
      <4> QED
        BY <3>4, <4>1 DEF MakesFolder, NoUpload, NoAnswer
    <3>6. ModeInv'
      BY <3>2, <3>4, <3>5 DEF ModeInv, Become
    <3>7. \A i \in DOMAIN t.names : t.names[i] < t.cur /\ t.names[i] \in stored'
      BY <1>3, <1>6, <3>4
    <3>8. Become(t)
      BY <3>2
    <3> QED
      BY <2>4, <2>5, <3>3, <3>4, <3>6, <3>7, <3>8, ReadNext
  <2>8. CASE ~(m.folders > 0)
    <3>1. Become(Finish(m, TRUE))
      BY <2>3, <2>8, Zenon DEF OnFinished
    <3>2. m.folders = 0
      BY <2>6, <2>8
    <3>3. \A i \in DOMAIN m.names : m.names[i] < m.cur /\ m.names[i] \in stored'
      BY <1>3, <1>6, <2>2
    <3>4. PICK b \in BOOLEAN : b = TRUE
      OBVIOUS
    <3>5. Become(Finish(m, b))
      BY <3>1, <3>4, Zenon
    <3>6. m.told = <<>> /\ ~m.crashed /\ m.dialogs = <<>> /\ ~m.mkdir
      BY <2>2, Zenon
    <3>7. NoUpload(m.rels) /\ NoAnswer(m.mainQ) /\ \A i, j \in DOMAIN m.names : i < j => m.names[i] < m.names[j]
      BY <2>2
    <3>8. 1..n \subseteq stored' \cup skipped' /\ \A f \in 1..n : f < m.cur => f \in stored' \cup skipped'
      BY <2>4
    <3> QED
      BY <2>2, <2>5, <3>2, <3>3, <3>5, <3>6, <3>7, <3>8, FinishKeeps
  <2> QED
    BY <2>7, <2>8
<1> QED
  BY <1>1, <1>5, <1>6

-----------------------------------------------------------------------------
(* Every handler keeps it.                                                 *)

\* The record is the state.
LEMMA HereFields ==
    /\ Here.phase = phase /\ Here.cur = cur /\ Here.passed = passed /\ Here.names = names
    /\ Here.rels = rels /\ Here.dialogs = dialogs /\ Here.folders = folders
    /\ Here.mkdir = mkdir /\ Here.mainQ = mainQ /\ Here.told = told /\ Here.crashed = crashed
  BY DEF Here

\* The parts of the invariant while nothing has crashed.
LEMMA ReadParts ==
    ASSUME IInv, AllReadable, ~crashed
    PROVE  /\ TypeOK /\ Here \in Shared /\ n \in Nat /\ cur \in Nat /\ links \in Nat /\ fs \in {"none", "alive", "gone"}
           /\ NamesInv /\ SuccessMeansAll /\ ModeInv /\ ObjectsInv /\ DoneInv
           /\ \A i \in DOMAIN names : names[i] \in Nat
<1>1. TypeOK /\ Here \in Shared
  BY HereIsShared DEF IInv, TypeInv
<1>2. n \in Nat /\ cur \in Nat /\ links \in Nat /\ fs \in {"none", "alive", "gone"}
  BY <1>1 DEF TypeOK
<1>3. \A i \in DOMAIN names : names[i] \in Nat
  <2>1. names \in Seq(Files) /\ Files \subseteq Nat
    BY <1>1, BoundsAssumption DEF TypeOK, Files
  <2> QED
    BY <2>1, LenProperties, ElementOfSeq
<1> QED
  BY <1>1, <1>2, <1>3 DEF IInv, ReadInv

\* The first link: the first upload starts.
LEMMA LinkGetKeeps ==
    ASSUME IInv, AllReadable, ~crashed, OnLinkGet PROVE ReadInv'
<1>1. phase = "linking" /\ ~canceled /\ UNCHANGED <<unasked, canceled, links, retry>>
  BY DEF OnLinkGet
<1>2. Rests /\ cur = 0 /\ told = <<>> /\ NoTaskEnd(mainQ)
  BY <1>1, ReadParts DEF ModeInv, ObjectsInv
<1>3. PICK s : s = [Here EXCEPT !.phase = "serving"]
  OBVIOUS
<1>4. s \in Shared /\ s.phase = "serving"
  BY <1>3, ReadParts DEF Shared
<1>5. /\ s.cur = cur /\ s.names = names /\ s.rels = rels /\ s.dialogs = dialogs
      /\ s.mainQ = mainQ /\ s.told = told
  BY <1>3 DEF Here
<1>6. s.mkdir = mkdir /\ s.crashed = crashed
  BY <1>3 DEF Here
<1>7. Become(StartNext(s))
  BY <1>3 DEF OnLinkGet
<1>8. ~s.mkdir /\ ~s.crashed
  BY <1>2, <1>6, Zenon DEF Rests
<1>9. /\ \A i \in DOMAIN s.names : s.names[i] <= s.cur /\ s.names[i] \in stored
      /\ \A i, j \in DOMAIN s.names : i < j => s.names[i] < s.names[j]
  BY <1>5, ReadParts DEF NamesInv
<1>10. \A f \in 1..n : f <= s.cur => f \in stored \cup skipped
  BY <1>2, <1>5
<1>11. s.cur <= n /\ ~(s.cur > 0)
  BY <1>2, <1>5, ReadParts
<1>12. n' = n /\ readable' = readable /\ stored' = stored /\ skipped' = skipped /\ ~canceled' /\ links' = 0
  BY <1>1, <1>2 DEF unasked, Rests
<1> QED
  BY <1>1, <1>2, <1>4, <1>5, <1>7, <1>8, <1>9, <1>10, <1>11, <1>12, StartKeeps, ReadParts DEF Rests

\* A link is asked for only when the current file failed, and the user was asked.
LEMMA WithLinks ==
    ASSUME IInv, AllReadable, ~crashed, links > 0
    PROVE  ~canceled /\ phase = "serving" /\ Links
  BY ReadParts DEF ModeInv, Rests, Uploads, Answers, Asks, MakesFolder

LEMMA LinkAgainKeeps ==
    ASSUME IInv, AllReadable, ~crashed, OnLinkGetAgain PROVE ReadInv'
<1>1. ~canceled /\ phase = "serving" /\ Links /\ told = <<>> /\ NoTaskEnd(mainQ)
  BY WithLinks, ReadParts DEF OnLinkGetAgain, ObjectsInv
<1>2. /\ UNCHANGED <<unasked, canceled, fs, retry>>
      /\ links' = links - 1 /\ Become(ContinueWithFailedFile(Here))
  BY DEF OnLinkGetAgain
<1>3. n' = n /\ readable' = readable /\ stored' = stored /\ skipped' = skipped /\ ~canceled' /\ links' = 0
  BY <1>1, <1>2 DEF unasked, Links
<1>4. cur > 0 /\ cur <= n /\ passed < cur /\ passed \in 0..n /\ cur \in 0..n + 1
  <2>1. Counted(Here)
    BY <1>1, StateParts DEF IInv, Links
  <2> QED
    BY <1>1, <2>1, HereFields, ReadParts DEF Counted, Links, TypeOK
<1>5. /\ \A i \in DOMAIN names : names[i] \in Nat /\ names[i] < cur /\ names[i] \in stored
      /\ \A i, j \in DOMAIN names : i < j => names[i] < names[j]
      /\ fs = "alive" => rels # <<>>
  BY <1>4, ReadParts DEF NamesInv, ObjectsInv
<1>6. \A f \in 1..n : f < cur => f \in stored \cup skipped
  BY ReadParts DEF DoneInv
<1>7. ASSUME NEW s \in Shared, Become(StartNext(s)), s.cur \in {cur - 1, cur}, s.cur = cur => cur \in skipped,
             s.names = names, s.rels = rels, s.dialogs = dialogs, s.mainQ = mainQ, s.told = told,
             s.phase = phase, s.mkdir = mkdir, s.crashed = crashed
      PROVE  ReadInv'
  <2>1. ~s.mkdir /\ ~s.crashed
    BY <1>1, <1>7, Zenon DEF Links
  <2>2. s.cur <= n /\ \A i \in DOMAIN s.names : s.names[i] <= s.cur /\ s.names[i] \in stored
    BY <1>4, <1>5, <1>7, ReadParts
  <2>3. \A f \in 1..n : f <= s.cur => f \in stored \cup skipped
    BY <1>4, <1>6, <1>7, ReadParts
  <2>4. /\ s.phase = "serving" /\ s.told = <<>> /\ s.dialogs = <<>>
        /\ NoUpload(s.rels) /\ NoAnswer(s.mainQ) /\ NoTaskEnd(s.mainQ)
        /\ fs' = "alive" => s.rels # <<>>
        /\ \A i, j \in DOMAIN s.names : i < j => s.names[i] < s.names[j]
    BY <1>1, <1>2, <1>5, <1>7 DEF Links
  <2> QED
    BY <1>1, <1>3, <1>7, <2>1, <2>2, <2>3, <2>4, StartKeeps, ReadParts
<1>8. CASE retry
  <2>1. PICK s : s = [Here EXCEPT !.cur = cur - 1]
    OBVIOUS
  <2>2. cur - 1 \in 0..n + 1
    BY <1>4, ReadParts
  <2>3. s \in Shared
    BY <2>1, <2>2, ReadParts DEF Shared
  <2>4. /\ s.cur = cur - 1 /\ s.names = names /\ s.rels = rels /\ s.dialogs = dialogs /\ s.mainQ = mainQ
        /\ s.told = told /\ s.phase = phase
    BY <2>1 DEF Here
  <2>5. s.mkdir = mkdir /\ s.crashed = crashed
    BY <2>1 DEF Here
  <2>6. Become(StartNext(s))
    BY <1>2, <1>8, <2>1, HereFields, Zenon DEF ContinueWithFailedFile
  <2>7. s.cur \in {cur - 1, cur} /\ s.cur # cur
    BY <1>4, <2>4
  <2> QED
    BY <1>7, <2>3, <2>4, <2>5, <2>6, <2>7
<1>9. CASE ~retry
  <2>1. PICK s : s = [Here EXCEPT !.passed = passed + 1]
    OBVIOUS
  <2>2. passed + 1 \in 0..n /\ ~(cur > n)
    BY <1>4, ReadParts
  <2>3. s \in Shared
    BY <2>1, <2>2, ReadParts DEF Shared
  <2>4. /\ s.cur = cur /\ s.names = names /\ s.rels = rels /\ s.dialogs = dialogs /\ s.mainQ = mainQ
        /\ s.told = told /\ s.phase = phase
    BY <2>1 DEF Here
  <2>5. s.mkdir = mkdir /\ s.crashed = crashed
    BY <2>1 DEF Here
  <2>6. Become(StartNext(s))
    BY <1>2, <1>9, <2>1, <2>2, HereFields, Zenon DEF ContinueWithFailedFile
  <2>7. cur \in skipped
    BY <1>1, <1>9 DEF Links
  <2> QED
    BY <1>7, <2>3, <2>4, <2>5, <2>6, <2>7
<1> QED
  BY <1>8, <1>9

LEMMA LinkFailedKeeps ==
    ASSUME IInv, AllReadable, ~crashed, OnGetLinkFailed PROVE ReadInv'
<1>1. UNCHANGED <<unasked, canceled, fs, retry>> /\ Become(OnFinished(Here, FALSE))
  BY DEF OnGetLinkFailed
<1>2. /\ ~canceled /\ told = <<>> /\ links' = 0
      /\ NoUpload(rels) /\ NoAnswer(mainQ) /\ dialogs = <<>> /\ ~mkdir
  <2>1. CASE phase = "linking" /\ ~canceled
    <3>1. Rests
      BY <2>1, ReadParts DEF ModeInv
    <3>2. links' = links
      BY <2>1 DEF OnGetLinkFailed
    <3> QED
      BY <2>1, <3>1, <3>2, ReadParts DEF Rests, ObjectsInv
  <2>2. CASE links > 0
    <3>1. ~canceled /\ phase = "serving" /\ Links
      BY <2>2, WithLinks
    <3>2. links' = links - 1
      BY <3>1 DEF OnGetLinkFailed
    <3> QED
      BY <3>1, <3>2, ReadParts DEF Links, ObjectsInv
  <2> QED
    BY <2>1, <2>2 DEF OnGetLinkFailed
<1>3. PICK b \in BOOLEAN : b = FALSE
  OBVIOUS
<1>4. Become(Finish(Here, b))
  BY <1>1, <1>3, Zenon DEF OnFinished
<1>5. ~Here.crashed /\ ~Here.mkdir
  BY <1>2, HereFields, Zenon
<1>6. ~b
  BY <1>3
<1>7. /\ n' = n /\ readable' = readable /\ stored' = stored /\ skipped' = skipped /\ ~canceled' /\ fs' = fs
  BY <1>1, <1>2 DEF unasked
<1> QED
  BY <1>2, <1>4, <1>5, <1>6, <1>7, FinishKeeps, ReadParts, HereFields DEF NamesInv, ObjectsInv, DoneInv

LEMMA CancelledKeeps ==
    ASSUME IInv, AllReadable, ~crashed, phase \in {"linking", "serving"},
           NEW s \in Shared, Cancelled(s), links' = 0, UNCHANGED <<unasked, fs, retry>>,
           s.cur = cur, s.names = names, s.rels = rels, s.told = told, s.folders = folders,
           s.crashed = crashed, s.dialogs = <<>>
    PROVE  ReadInv'
<1>1. told = <<>> /\ (n > 0 /\ fs = "alive" => rels # <<>>) /\ NamesInv /\ DoneInv /\ n \in Nat
  BY ReadParts DEF ObjectsInv
<1>2. n' = n /\ readable' = readable /\ stored' = stored /\ skipped' = skipped /\ fs' = fs
  BY DEF unasked
<1>3. canceled' = TRUE
  BY DEF Cancelled
<1>4. CASE fs = "alive" /\ rels = <<>>
  <2>1. Become(Crash(s))
    BY <1>4, Zenon DEF Cancelled
  <2>2. PICK t : t = Crash(s)
    OBVIOUS
  <2>3. t.names = names /\ t.cur = cur /\ t.told = <<>>
    BY <1>1, <2>2 DEF Crash, Shared
  <2>4. names' = names /\ cur' = cur /\ told' = <<>>
    BY <2>1, <2>2, <2>3 DEF Become
  <2>5. crashed' = TRUE
    <3>1. t.crashed = TRUE
      BY <2>2 DEF Crash, Shared
    <3> QED
      BY <2>1, <2>2, <3>1, Zenon DEF Become
  <2>6. n' = 0
    BY <1>1, <1>2, <1>4
  <2>7. NamesInv' /\ SuccessMeansAll'
    BY <1>1, <1>2, <2>4 DEF NamesInv, SuccessMeansAll
  <2> QED
    BY <1>3, <2>5, <2>6, <2>7, Zenon DEF ReadInv
<1>5. CASE ~(fs = "alive" /\ rels = <<>>)
  <2>1. PICK b \in BOOLEAN : b = FALSE
    OBVIOUS
  <2>2. Become(Finish(s, b))
    BY <1>5, <2>1, Zenon DEF Cancelled, OnFinished
  <2>3. ~b /\ ~s.crashed /\ canceled'
    BY <1>3, <2>1, Zenon
  <2> QED
    BY <1>1, <1>2, <1>5, <2>2, <2>3, FinishKeeps DEF NamesInv, DoneInv
<1> QED
  BY <1>4, <1>5

\* At most one link is asked for.
LEMMA FewLinks ==
    ASSUME IInv, AllReadable, ~crashed PROVE links \in {0, 1}
  BY ReadParts DEF ModeInv, Rests, Uploads, Answers, Asks, MakesFolder, Links

LEMMA CancelKeeps ==
    ASSUME IInv, AllReadable, ~crashed, Cancel PROVE ReadInv'
<1>1. phase \in {"linking", "serving"} /\ dialogs = <<>> /\ Cancelled(Here) /\ UNCHANGED <<unasked, fs, retry>>
  BY DEF Cancel
<1>2. links' = 0
  BY FewLinks DEF Cancel
<1> QED
  BY <1>1, <1>2, CancelledKeeps, HereFields, ReadParts

\* A question is about the current file, and nothing is resumed when it is closed.
LEMMA WithQuestion ==
    ASSUME IInv, AllReadable, ~crashed, dialogs # <<>>
    PROVE  /\ ~canceled /\ phase = "serving" /\ Asks /\ Asked = cur
           /\ Resume(Here) = [Here EXCEPT !.dialogs = <<>>]
<1>1. ~canceled /\ phase = "serving" /\ Asks
  BY ReadParts DEF ModeInv, Rests, Uploads, Answers, MakesFolder, Links
<1>2. Len(dialogs) = 1 /\ dialogs[1].about = cur /\ dialogs[1].rel = 0
  BY <1>1 DEF Asks
<1>3. SubSeq(dialogs, 1, Len(dialogs) - 1) = <<>>
  BY <1>2, SubSeqEmpty
<1>4. Resume(Here) = [Here EXCEPT !.dialogs = SubSeq(dialogs, 1, Len(dialogs) - 1)]
  <2>1. dialogs[Len(dialogs)].rel = 0
    BY <1>2
  <2> QED
    BY <2>1, HereFields, Zenon DEF Resume
<1> QED
  BY <1>1, <1>2, <1>3, <1>4 DEF Asked

\* The state without its question
LEMMA ClosedFields ==
    ASSUME Here \in Shared, NEW s, s = [Here EXCEPT !.dialogs = <<>>]
    PROVE  /\ s \in Shared
           /\ s.cur = cur /\ s.names = names /\ s.rels = rels /\ s.told = told /\ s.folders = folders
           /\ s.phase = phase /\ s.mainQ = mainQ /\ s.dialogs = <<>>
           /\ s.crashed = crashed /\ s.mkdir = mkdir
<1>1. s \in Shared
  BY EmptySeq DEF Shared
<1>2. /\ s.cur = cur /\ s.names = names /\ s.rels = rels /\ s.told = told /\ s.folders = folders
      /\ s.phase = phase /\ s.mainQ = mainQ /\ s.dialogs = <<>>
  BY DEF Here
<1>3. s.crashed = crashed /\ s.mkdir = mkdir
  BY DEF Here
<1> QED
  BY <1>1, <1>2, <1>3, Zenon

LEMMA RetryOrSkipKeeps ==
    ASSUME IInv, AllReadable, ~crashed, NEW again \in BOOLEAN, AnswerRetryOrSkip(again) PROVE ReadInv'
<1>1. dialogs # <<>> /\ UNCHANGED <<n, readable, stored, canceled, fs>> /\ retry' = again
  BY DEF AnswerRetryOrSkip
<1>2. ~canceled /\ phase = "serving" /\ Asks /\ Asked = cur /\ told = <<>> /\ NoTaskEnd(mainQ)
  BY <1>1, WithQuestion, ReadParts DEF ObjectsInv
<1>3. links' = 1 /\ skipped \subseteq skipped' /\ (again \/ cur \in skipped')
  BY <1>2 DEF AnswerRetryOrSkip, Asks
<1>4. PICK s : s = [Here EXCEPT !.dialogs = <<>>]
  OBVIOUS
<1>5. Become(s)
  <2>1. Resume(Here) = s
    BY <1>1, <1>4, WithQuestion
  <2>2. phase # "gone"
    BY <1>2
  <2> QED
    BY <2>1, <2>2, Zenon DEF AnswerRetryOrSkip
<1>6. /\ s \in Shared
      /\ s.cur = cur /\ s.names = names /\ s.rels = rels /\ s.told = told /\ s.folders = folders
      /\ s.phase = phase /\ s.mainQ = mainQ /\ s.dialogs = <<>>
      /\ s.crashed = crashed /\ s.mkdir = mkdir
  BY <1>4, ClosedFields, ReadParts
<1>7. ~s.crashed /\ ~s.mkdir
  BY <1>2, <1>6, Zenon DEF Asks
<1>8. Links'
  <2>1. cur' = cur /\ rels' = rels /\ mainQ' = mainQ /\ dialogs' = <<>> /\ mkdir' = s.mkdir
    BY <1>5, <1>6 DEF Become
  <2> QED
    BY <1>1, <1>2, <1>3, <1>7, <2>1 DEF Links, Asks, NoUpload, NoAnswer
<1>9. ModeInv'
  BY <1>1, <1>2, <1>5, <1>6, <1>8 DEF ModeInv, Become
<1> QED
  BY <1>1, <1>2, <1>3, <1>5, <1>6, <1>7, <1>9, ReadNext, ReadParts DEF NamesInv, ObjectsInv, DoneInv

LEMMA AbortKeeps ==
    ASSUME IInv, AllReadable, ~crashed, AnswerAbort PROVE ReadInv'
<1>1. dialogs # <<>> /\ UNCHANGED <<unasked, fs, retry>>
  BY DEF AnswerAbort
<1>2. phase = "serving" /\ links = 0
  BY <1>1, WithQuestion DEF Asks
<1>3. PICK s : s = [Here EXCEPT !.dialogs = <<>>]
  OBVIOUS
<1>4. Resume(Here) = s
  BY <1>1, <1>3, WithQuestion
<1>5. Cancelled(s) /\ links' = 0
  BY <1>2, <1>4 DEF AnswerAbort
<1> QED
  BY <1>1, <1>2, <1>3, <1>5, ClosedFields, CancelledKeeps, ReadParts

LEMMA CreateDirKeeps ==
    ASSUME IInv, AllReadable, ~crashed, NEW success \in BOOLEAN, OnCreateDir(success) PROVE ReadInv'
<1>1. mkdir /\ phase # "gone" /\ UNCHANGED <<unasked, canceled, fs, links, retry>>
  BY DEF OnCreateDir
<1>2. n' = n /\ readable' = readable /\ stored' = stored /\ skipped' = skipped /\ fs' = fs /\ links' = links
      /\ canceled' = canceled
  BY <1>1 DEF unasked
<1>3. /\ dialogs = <<>> /\ links = 0
      /\ canceled => told # <<>> /\ ~told[1] /\ phase = "finished"
      /\ ~canceled => phase = "serving" /\ MakesFolder /\ told = <<>>
  <2>1. CASE canceled
    BY <1>1, <2>1, ReadParts DEF ModeInv
  <2>2. CASE ~canceled
    <3>1. phase = "serving" /\ MakesFolder
      BY <1>1, <2>2, ReadParts DEF ModeInv, Rests, Uploads, Answers, Asks, Links
    <3> QED
      BY <2>2, <3>1, ReadParts DEF ObjectsInv, MakesFolder
  <2> QED
    BY <2>1, <2>2
<1>4. /\ \A i \in DOMAIN names : names[i] < cur /\ names[i] \in stored'
      /\ \A i, j \in DOMAIN names : i < j => names[i] < names[j]
      /\ \A f \in 1..n : f < cur => f \in stored' \cup skipped'
      /\ n > 0 /\ fs' = "alive" => rels # <<>>
  BY <1>2, ReadParts DEF NamesInv, DoneInv, ObjectsInv
<1>5. ~canceled => 1..n \subseteq stored' \cup skipped'
  BY <1>3, <1>4, ReadParts DEF MakesFolder
<1>6. PICK w : w = [Here EXCEPT !.mkdir = FALSE]
  OBVIOUS
<1>7. /\ w \in Shared
      /\ w.cur = cur /\ w.names = names /\ w.rels = rels /\ w.told = told /\ w.folders = folders
      /\ w.mainQ = mainQ /\ w.dialogs = <<>>
  BY <1>3, <1>6, ReadParts DEF Shared, Here
<1>8. w.mkdir = FALSE /\ w.crashed = crashed
  BY <1>6 DEF Here
<1>9. ASSUME NEW b \in BOOLEAN, Become(Finish(w, b)), b => folders = 0
      PROVE  ReadInv'
  <2>1. ~w.crashed /\ ~w.mkdir
    BY <1>8, Zenon
  <2>2. canceled' => w.told # <<>> /\ ~w.told[1]
    BY <1>2, <1>3, <1>7, Zenon
  <2>3. w.told = <<>> /\ b => 1..n \subseteq stored' \cup skipped' /\ w.folders = 0
    BY <1>3, <1>5, <1>7, <1>9
  <2>4. w.told # <<>> /\ w.told[1] => 1..n \subseteq stored' \cup skipped' /\ w.folders = 0
    <3>1. ~(w.told # <<>> /\ w.told[1])
      BY <1>3, <1>7, Zenon
    <3> QED
      BY <3>1, Zenon
  <2>5. ~canceled' => NoUpload(w.rels) /\ NoAnswer(w.mainQ)
    BY <1>2, <1>3, <1>7 DEF MakesFolder
  <2> QED
    BY <1>2, <1>3, <1>4, <1>7, <1>9, <2>1, <2>2, <2>3, <2>4, <2>5, FinishKeeps
<1>10. CASE ~success
  <2>1. PICK b \in BOOLEAN : b = FALSE
    OBVIOUS
  <2>2. Become(Finish(w, b)) /\ ~b
    BY <1>6, <1>10, <2>1, Zenon DEF OnCreateDir, OnFinished
  <2> QED
    BY <1>9, <2>2
<1>11. CASE success /\ folders = 0
  <2>1. PICK b \in BOOLEAN : b = TRUE
    OBVIOUS
  <2>2. Become(Finish(w, b))
    BY <1>6, <1>11, <2>1, HereFields, Zenon DEF OnCreateDir, NextEmptyFolder
  <2> QED
    BY <1>9, <1>11, <2>2
<1>12. CASE success /\ folders # 0
  <2>1. PICK t : t = [Here EXCEPT !.folders = folders - 1, !.mkdir = TRUE]
    OBVIOUS
  <2>2. Become(t)
    BY <1>12, <2>1, HereFields, Zenon DEF OnCreateDir, NextEmptyFolder
  <2>3. t \in Shared
    <3>1. folders \in 0..MaxFolders /\ Here \in Shared
      BY ReadParts DEF TypeOK
    <3>2. folders - 1 \in 0..MaxFolders
      BY <1>12, <3>1, BoundsAssumption
    <3> QED
      BY <2>1, <3>1, <3>2 DEF Shared
  <2>4. /\ t.cur = cur /\ t.names = names /\ t.rels = rels /\ t.told = told
        /\ t.mainQ = mainQ /\ t.dialogs = <<>> /\ t.phase = phase
    BY <1>3, <2>1 DEF Here
  <2>5. t.mkdir = TRUE /\ t.crashed = crashed
    BY <2>1 DEF Here
  <2>6. ~t.crashed /\ t.mkdir
    BY <2>5, Zenon
  <2>7. /\ cur' = cur /\ rels' = rels /\ told' = told /\ mainQ' = mainQ /\ dialogs' = <<>> /\ phase' = phase
        /\ mkdir' = t.mkdir
    BY <2>2, <2>4 DEF Become
  <2>8. ModeInv'
    <3>1. CASE canceled
      <4>1. phase' \in {"finished", "gone"} /\ links' = 0 /\ canceled'
        BY <1>2, <1>3, <2>7, <3>1
      <4>2. told' # <<>> /\ ~told'[1]
        BY <1>3, <2>7, <3>1, Zenon
      <4> QED
        BY <2>7, <4>1, <4>2, Zenon DEF ModeInv
    <3>2. CASE ~canceled
      <4>1. MakesFolder'
        BY <1>2, <1>3, <2>6, <2>7, <3>2 DEF MakesFolder, NoUpload, NoAnswer
      <4> QED
        BY <1>2, <1>3, <2>7, <3>2, <4>1 DEF ModeInv
    <3> QED
      BY <3>1, <3>2
  <2>9. ~(t.told # <<>> /\ t.told[1])
    BY <1>3, <2>4, Zenon
  <2>10. /\ t.phase = "linking" => t.cur = 0
         /\ t.phase \in {"linking", "serving"} => t.told = <<>> /\ NoTaskEnd(t.mainQ)
    BY <2>4, ReadParts DEF ObjectsInv
  <2> QED
    BY <1>2, <1>4, <2>2, <2>3, <2>4, <2>6, <2>8, <2>9, <2>10, ReadNext
<1> QED
  BY <1>10, <1>11, <1>12

\* An event taken leaves no other answer, and the answers that were not it.
LEMMA QueueWithout ==
    ASSUME NEW q \in Seq(Events), NEW i \in DOMAIN q, NEW c, NEW on
    PROVE  /\ NoAnswer(q) => NoAnswer(Removed(q, i))
           /\ NoTaskEnd(q) => NoTaskEnd(Removed(q, i))
           /\ OneAnswer(q, c, on) =>
                 IF q[i].kind = "posted" THEN NoAnswer(Removed(q, i)) /\ (q[i].result = "ok" => c \in on)
                 ELSE OneAnswer(Removed(q, i), c, on)
<1>1. PICK r : r = Removed(q, i)
  OBVIOUS
<1>2. PICK at : at = [j \in DOMAIN r |-> IF j < i THEN j ELSE j + 1]
  OBVIOUS
<1>3. /\ DOMAIN q = 1..Len(q) /\ Len(q) \in Nat /\ i \in 1..Len(q) /\ DOMAIN r = 1..Len(q) - 1
      /\ \A j \in DOMAIN r : r[j] = q[at[j]]
  <2>1. DOMAIN r = 1..Len(q) - 1 /\ \A j \in DOMAIN r : r[j] = q[IF j < i THEN j ELSE j + 1]
    BY <1>1, RemovedProperties
  <2>2. DOMAIN q = 1..Len(q) /\ Len(q) \in Nat
    BY LenProperties
  <2> QED
    BY <1>2, <2>1, <2>2
<1>4. /\ \A j \in DOMAIN r : at[j] \in DOMAIN q /\ at[j] # i
      /\ \A j, k \in DOMAIN r : at[j] = at[k] => j = k
      /\ \A m \in DOMAIN q : m # i => \E j \in DOMAIN r : at[j] = m
  <2>1. \A j \in DOMAIN r : at[j] \in DOMAIN q /\ at[j] # i
    BY <1>2, <1>3
  <2>2. \A j, k \in DOMAIN r : at[j] = at[k] => j = k
    BY <1>2, <1>3
  <2>3. ASSUME NEW m \in DOMAIN q, m # i PROVE \E j \in DOMAIN r : at[j] = m
    <3>1. CASE m < i
      <4>1. m \in DOMAIN r /\ at[m] = m
        BY <1>2, <1>3, <3>1
      <4> QED
        BY <4>1
    <3>2. CASE ~(m < i)
      <4>1. m - 1 \in DOMAIN r /\ at[m - 1] = m
        BY <1>2, <1>3, <2>3, <3>2
      <4> QED
        BY <4>1
    <3> QED
      BY <3>1, <3>2
  <2> QED
    BY <2>1, <2>2, <2>3
<1>5. NoAnswer(q) => NoAnswer(r)
  BY <1>3, <1>4 DEF NoAnswer
<1>6. NoTaskEnd(q) => NoTaskEnd(r)
  BY <1>3, <1>4 DEF NoTaskEnd
<1>7. ASSUME OneAnswer(q, c, on)
      PROVE  IF q[i].kind = "posted" THEN NoAnswer(r) /\ (q[i].result = "ok" => c \in on)
             ELSE OneAnswer(r, c, on)
  <2>1. PICK m \in DOMAIN q : /\ q[m].kind = "posted" /\ (q[m].result = "ok" => c \in on)
                              /\ \A j \in DOMAIN q : q[j].kind = "posted" => j = m
    BY <1>7 DEF OneAnswer
  <2>2. CASE q[i].kind = "posted"
    <3>1. i = m
      BY <2>1, <2>2
    <3>2. NoAnswer(r)
      BY <1>3, <1>4, <2>1, <3>1 DEF NoAnswer
    <3> QED
      BY <2>1, <2>2, <3>1, <3>2
  <2>3. CASE q[i].kind # "posted"
    <3>1. PICK j \in DOMAIN r : at[j] = m
      BY <1>4, <2>1, <2>3
    <3>2. r[j].kind = "posted" /\ (r[j].result = "ok" => c \in on)
      BY <1>3, <2>1, <3>1
    <3>3. \A k \in DOMAIN r : r[k].kind = "posted" => k = j
      BY <1>3, <1>4, <2>1, <3>1
    <3>4. OneAnswer(r, c, on)
      BY <3>2, <3>3 DEF OneAnswer
    <3> QED
      BY <2>3, <3>4
  <2> QED
    BY <2>2, <2>3
<1> QED
  BY <1>1, <1>5, <1>6, <1>7

\* An answer that waits still waits when an object is to be deleted.
LEMMA QueueWith ==
    ASSUME NEW s \in Shared, NEW kind \in {"destroyRel", "destroyFs"}, NEW rel \in Nat, NEW c, NEW on
    PROVE  OneAnswer(s.mainQ, c, on) => OneAnswer(DeleteLater(s, kind, rel).mainQ, c, on)
<1>1. s.mainQ \in Seq(Events) /\ s.dialogs \in Seq(Dialogs)
  BY DEF Shared
<1>2. PICK e : e = [kind |-> kind, rel |-> rel, level |-> Len(s.dialogs)]
  OBVIOUS
<1>3. e.kind # "posted" /\ e \in Events
  BY <1>1, <1>2, LenProperties DEF Events
<1>4. PICK q, r : q = s.mainQ /\ r = Append(q, e)
  OBVIOUS
<1>5. DeleteLater(s, kind, rel).mainQ = r
  BY <1>2, <1>4 DEF DeleteLater, Shared
<1>6. /\ q \in Seq(Events) /\ r \in Seq(Events) /\ Len(r) = Len(q) + 1 /\ r[Len(q) + 1] = e
      /\ \A i \in 1..Len(q) : r[i] = q[i]
  BY <1>1, <1>3, <1>4, AppendProperties
<1>7. DOMAIN q = 1..Len(q) /\ DOMAIN r = 1..Len(q) + 1 /\ Len(q) \in Nat
  BY <1>6, LenProperties
<1>8. ASSUME OneAnswer(q, c, on) PROVE OneAnswer(r, c, on)
  <2>1. PICK m \in DOMAIN q : /\ q[m].kind = "posted" /\ (q[m].result = "ok" => c \in on)
                              /\ \A j \in DOMAIN q : q[j].kind = "posted" => j = m
    BY <1>8 DEF OneAnswer
  <2>2. m \in DOMAIN r /\ r[m] = q[m]
    BY <1>6, <1>7
  <2>3. ASSUME NEW j \in DOMAIN r, r[j].kind = "posted" PROVE j = m
    <3>1. j # Len(q) + 1
      BY <1>3, <1>6, <2>3
    <3>2. j \in DOMAIN q /\ r[j] = q[j]
      BY <1>6, <1>7, <3>1
    <3> QED
      BY <2>1, <2>3, <3>2
  <2> QED
    BY <2>1, <2>2, <2>3 DEF OneAnswer
<1> QED
  BY <1>4, <1>5, <1>8

\* An answer is posted for an upload that was the only thing under way.
LEMMA QueueAnswered ==
    ASSUME NEW q \in Seq(Events), NEW e \in Events, e.kind = "posted", NoAnswer(q), NEW c, NEW on,
           e.result = "ok" => c \in on
    PROVE  OneAnswer(Append(q, e), c, on)
<1>1. PICK r : r = Append(q, e)
  OBVIOUS
<1>2. /\ r \in Seq(Events) /\ Len(r) = Len(q) + 1 /\ r[Len(q) + 1] = e
      /\ \A i \in 1..Len(q) : r[i] = q[i]
  BY <1>1, AppendProperties
<1>3. DOMAIN q = 1..Len(q) /\ DOMAIN r = 1..Len(q) + 1 /\ Len(q) \in Nat
  BY <1>2, LenProperties
<1>4. Len(q) + 1 \in DOMAIN r
  BY <1>3
<1>5. ASSUME NEW j \in DOMAIN r, r[j].kind = "posted" PROVE j = Len(q) + 1
  BY <1>2, <1>3, <1>5 DEF NoAnswer
<1> QED
  BY <1>1, <1>2, <1>4, <1>5 DEF OneAnswer

\* What events leave alone that only change queue and uploads
LEMMA QuietKeeps ==
    ASSUME IInv, AllReadable, ~crashed, NEW s \in Shared, Become(s),
           UNCHANGED <<unasked, canceled, links, retry>>, fs' = fs \/ fs' = "gone",
           s.phase = phase \/ (phase \in {"finished", "gone"} /\ s.phase = "gone"),
           s.cur = cur, s.names = names, s.dialogs = dialogs, s.told = told, s.folders = folders,
           s.crashed = crashed,
           rels # <<>> => s.rels # <<>>,
           NoTaskEnd(mainQ) => NoTaskEnd(s.mainQ),
           ModeInv'
    PROVE  ReadInv'
<1>1. n' = n /\ readable' = readable /\ stored' = stored /\ skipped' = skipped
  BY DEF unasked
<1>2. ~s.crashed
  BY Zenon
<1>3. /\ \A i \in DOMAIN s.names : s.names[i] < s.cur /\ s.names[i] \in stored'
      /\ \A i, j \in DOMAIN s.names : i < j => s.names[i] < s.names[j]
      /\ \A f \in 1..n : f < s.cur => f \in stored' \cup skipped'
  BY <1>1, ReadParts DEF NamesInv, DoneInv
<1>4. s.told # <<>> /\ s.told[1] => 1..n \subseteq stored' \cup skipped' /\ s.folders = 0
  BY <1>1, ReadParts DEF SuccessMeansAll
<1>5. /\ s.phase = "linking" => s.cur = 0
      /\ s.phase \in {"linking", "serving"} => s.told = <<>> /\ NoTaskEnd(s.mainQ)
      /\ n > 0 /\ fs' = "alive" => s.rels # <<>>
  BY ReadParts DEF ObjectsInv
<1> QED
  BY <1>1, <1>2, <1>3, <1>4, <1>5, ReadNext

\* A step that changes no more than queue and uploads, and begins nothing
LEMMA ModeKept ==
    ASSUME ModeInv,
           UNCHANGED <<n, stored, skipped, canceled, links, retry, phase, cur, dialogs, told, mkdir>>,
           NoAnswer(mainQ) => NoAnswer(mainQ'),
           OneAnswer(mainQ, cur, stored) => OneAnswer(mainQ', cur, stored) \/ NoAnswer(mainQ'),
           NoUpload(rels) => NoUpload(rels'),
           OneUpload(rels, cur) => OneUpload(rels', cur) \/ NoUpload(rels')
    PROVE  ModeInv'
<1>1. CASE canceled
  BY <1>1, Zenon DEF ModeInv
<1>2. CASE ~canceled
  <2>1. CASE Rests
    <3>1. Rests'
      BY <2>1 DEF Rests, NoUpload, NoAnswer
    <3> QED
      BY <1>2, <3>1 DEF ModeInv
  <2>2. CASE phase = "serving" /\ Uploads
    <3>1. Uploads' \/ Rests'
      BY <2>2 DEF Uploads, Rests, OneUpload, NoUpload, NoAnswer
    <3> QED
      BY <1>2, <2>2, <3>1 DEF ModeInv
  <2>3. CASE phase = "serving" /\ Answers
    <3>1. Answers' \/ Rests'
      BY <2>3 DEF Answers, Rests, OneAnswer, NoUpload, NoAnswer
    <3> QED
      BY <1>2, <2>3, <3>1 DEF ModeInv
  <2>4. CASE phase = "serving" /\ Asks
    <3>1. Asks'
      BY <2>4 DEF Asks, NoUpload, NoAnswer
    <3> QED
      BY <1>2, <2>4, <3>1 DEF ModeInv
  <2>5. CASE phase = "serving" /\ Links
    <3>1. Links'
      BY <2>5 DEF Links, NoUpload, NoAnswer
    <3> QED
      BY <1>2, <2>5, <3>1 DEF ModeInv
  <2>6. CASE phase = "serving" /\ MakesFolder
    <3>1. MakesFolder'
      BY <2>6 DEF MakesFolder, NoUpload, NoAnswer
    <3> QED
      BY <1>2, <2>6, <3>1 DEF ModeInv
  <2> QED
    BY <1>2, <2>1, <2>2, <2>3, <2>4, <2>5, <2>6 DEF ModeInv
<1> QED
  BY <1>1, <1>2

\* Taking its event changes nothing but the queue.
LEMMA TakenFields ==
    ASSUME IInv, NEW i \in DOMAIN mainQ
    PROVE  /\ Taken(i) \in Shared /\ mainQ[i] \in Events /\ mainQ \in Seq(Events)
           /\ Taken(i).phase = phase /\ Taken(i).cur = cur /\ Taken(i).passed = passed /\ Taken(i).names = names
           /\ Taken(i).rels = rels /\ Taken(i).dialogs = dialogs /\ Taken(i).folders = folders
           /\ Taken(i).mkdir = mkdir /\ Taken(i).told = told /\ Taken(i).crashed = crashed
           /\ Taken(i).mainQ = Removed(mainQ, i)
<1>1. Taken(i) \in Shared /\ mainQ[i] \in Events /\ mainQ \in Seq(Events)
  BY TakenType DEF IInv, TypeInv, TypeOK
<1>2. /\ Taken(i).phase = phase /\ Taken(i).cur = cur /\ Taken(i).passed = passed /\ Taken(i).names = names
      /\ Taken(i).rels = rels /\ Taken(i).dialogs = dialogs /\ Taken(i).folders = folders
      /\ Taken(i).told = told /\ Taken(i).mainQ = Removed(mainQ, i)
  BY DEF Taken, Here
<1>3. Taken(i).mkdir = mkdir /\ Taken(i).crashed = crashed
  BY DEF Taken, Here
<1> QED
  BY <1>1, <1>2, <1>3, Zenon

\* The answer about the current file
LEMMA PostedKeeps ==
    ASSUME IInv, AllReadable, ~crashed, ~canceled, NEW i \in DOMAIN mainQ, mainQ[i].kind = "posted",
           Become(Posted(Taken(i), mainQ[i].result)), UNCHANGED <<unasked, canceled, links, retry, fs>>
    PROVE  ReadInv'
<1>1. phase = "serving" /\ Answers /\ told = <<>> /\ NoTaskEnd(mainQ)
  <2>1. ~NoAnswer(mainQ)
    BY DEF NoAnswer
  <2> QED
    BY <2>1, ReadParts DEF ModeInv, ObjectsInv, Rests, Uploads, Asks, Links, MakesFolder
<1>2. PICK s : s = Taken(i)
  OBVIOUS
<1>3. /\ s \in Shared /\ mainQ[i] \in Events /\ mainQ \in Seq(Events)
      /\ s.phase = phase /\ s.cur = cur /\ s.passed = passed /\ s.names = names
      /\ s.rels = rels /\ s.dialogs = dialogs /\ s.folders = folders
      /\ s.mkdir = mkdir /\ s.told = told /\ s.crashed = crashed /\ s.mainQ = Removed(mainQ, i)
  BY <1>2, TakenFields, Zenon
<1>4. NoAnswer(s.mainQ) /\ NoTaskEnd(s.mainQ) /\ (mainQ[i].result = "ok" => cur \in stored)
  BY <1>1, <1>3, QueueWithout DEF Answers
<1>5. n' = n /\ readable' = readable /\ stored' = stored /\ skipped' = skipped /\ ~canceled' /\ links' = 0
      /\ fs' = fs
  BY <1>1 DEF unasked, Answers
<1>6. ~s.crashed /\ ~s.mkdir
  BY <1>1, <1>3, Zenon DEF Answers
<1>7. cur > 0 /\ cur <= n /\ passed < cur /\ passed \in 0..n /\ cur \in Files
  <2>1. ~NoAnswer(mainQ)
    BY DEF NoAnswer
  <2>2. Counted(Here)
    BY <2>1, StateParts, HereFields DEF IInv, Fresh
  <2> QED
    BY <1>1, <2>2, HereFields, ReadParts, BoundsAssumption DEF Counted, Answers, TypeOK, Files
<1>8. /\ \A k \in DOMAIN names : names[k] \in Nat /\ names[k] < cur /\ names[k] \in stored
      /\ \A k, l \in DOMAIN names : k < l => names[k] < names[l]
      /\ \A f \in 1..n : f < cur => f \in stored \cup skipped
      /\ fs = "alive" => rels # <<>>
  BY <1>7, ReadParts DEF NamesInv, DoneInv, ObjectsInv
<1>9. ~(s.cur > n) /\ s.phase # "gone" /\ TypeOK
  BY <1>1, <1>3, <1>7, ReadParts
<1>10. CASE mainQ[i].result = "ok"
  <2>1. PICK q : q = Append(names, cur)
    OBVIOUS
  <2>2. /\ names \in Seq(Files) /\ q \in Seq(Files) /\ Len(q) = Len(names) + 1 /\ q[Len(names) + 1] = cur
        /\ \A k \in 1..Len(names) : q[k] = names[k]
    <3>1. names \in Seq(Files)
      BY ReadParts DEF TypeOK
    <3> QED
      BY <1>7, <2>1, <3>1, AppendProperties
  <2>3. DOMAIN names = 1..Len(names) /\ DOMAIN q = 1..Len(names) + 1 /\ Len(names) \in Nat
    BY <2>2, LenProperties
  <2>4. \A k \in DOMAIN q : q[k] <= cur /\ q[k] \in stored
    BY <1>4, <1>7, <1>8, <1>10, <2>2, <2>3, ReadParts
  <2>5. \A k, l \in DOMAIN q : k < l => q[k] < q[l]
    <3>1. ASSUME NEW k \in DOMAIN q, NEW l \in DOMAIN q, k < l PROVE q[k] < q[l]
      <4>1. k \in DOMAIN names /\ q[k] = names[k]
        BY <2>2, <2>3, <3>1
      <4>2. CASE l \in DOMAIN names
        BY <1>8, <2>2, <2>3, <3>1, <4>1, <4>2
      <4>3. CASE l \notin DOMAIN names
        <5>1. q[l] = cur
          BY <2>2, <2>3, <4>3
        <5> QED
          BY <1>8, <4>1, <5>1
      <4> QED
        BY <4>2, <4>3
    <3> QED
      BY <3>1
  <2>6. PICK t : t = [s EXCEPT !.names = q, !.passed = passed + 1]
    OBVIOUS
  <2>7. t \in Shared
    <3>1. passed + 1 \in 0..n
      BY <1>7, ReadParts
    <3> QED
      BY <1>3, <2>2, <2>6, <3>1 DEF Shared
  <2>8. /\ t.names = q /\ t.cur = cur /\ t.phase = phase /\ t.told = told /\ t.dialogs = dialogs /\ t.rels = rels
        /\ t.mainQ = s.mainQ
    BY <1>3, <2>6 DEF Shared
  <2>9. t.crashed = s.crashed /\ t.mkdir = s.mkdir
    BY <1>3, <2>6 DEF Shared
  <2>10. ~t.crashed /\ ~t.mkdir
    BY <1>6, <2>9, Zenon
  <2>11. Become(StartNext(t))
    <3>1. Posted(s, mainQ[i].result) = StartNext([s EXCEPT !.names = Append(s.names, s.cur), !.passed = s.passed + 1])
      BY <1>3, <1>9, <1>10, PostedCases DEF Results
    <3> QED
      BY <1>2, <1>3, <2>1, <2>6, <3>1, Zenon
  <2>12. \A f \in 1..n : f <= t.cur => f \in stored \cup skipped
    BY <1>4, <1>7, <1>8, <1>10, <2>8, ReadParts
  <2> QED
    BY <1>1, <1>4, <1>5, <1>7, <1>8, <1>9, <2>4, <2>5, <2>7, <2>8, <2>10, <2>11, <2>12, StartKeeps DEF Answers
<1>11. CASE mainQ[i].result = "failed"
  <2>1. PICK t : t = AskAbout(s, cur, 0)
    OBVIOUS
  <2>2. Become(t)
    <3>1. Posted(s, mainQ[i].result) = AskAbout(s, s.cur, 0)
      BY <1>3, <1>9, <1>11, PostedCases DEF Results
    <3> QED
      BY <1>2, <1>3, <2>1, <3>1, Zenon
  <2>3. t \in Shared
    BY <1>3, <1>7, <2>1, AskAboutType
  <2>4. /\ t.phase = phase /\ t.cur = cur /\ t.names = names /\ t.rels = rels /\ t.folders = folders
        /\ t.told = told /\ t.mainQ = s.mainQ
        /\ t.dialogs \in {<<>>, <<[about |-> cur, rel |-> 0]>>}
    <3>1. s.dialogs = <<>>
      BY <1>1, <1>3 DEF Answers
    <3>2. Append(s.dialogs, [about |-> cur, rel |-> 0]) = <<[about |-> cur, rel |-> 0]>>
      BY <3>1
    <3> QED
      BY <1>3, <2>1, <3>1, <3>2 DEF AskAbout, Shared
  <2>5. t.mkdir = mkdir /\ t.crashed = crashed
    BY <1>3, <2>1 DEF AskAbout, Shared
  <2>6. Rests' \/ Asks'
    <3>1. /\ cur' = cur /\ rels' = rels /\ mainQ' = s.mainQ /\ mkdir' = t.mkdir /\ dialogs' = t.dialogs
      BY <2>2, <2>4 DEF Become
    <3>2. ~mkdir'
      BY <1>1, <2>5, <3>1, Zenon DEF Answers
    <3> QED
      BY <1>1, <1>4, <1>5, <2>4, <3>1, <3>2 DEF Rests, Asks, Answers, NoUpload, NoAnswer
  <2>7. ModeInv'
    BY <1>1, <1>5, <2>2, <2>4, <2>6 DEF ModeInv, Become
  <2>8. ~t.crashed
    BY <2>5, Zenon
  <2>9. ~(t.told # <<>> /\ t.told[1])
    BY <1>1, <2>4
  <2> QED
    BY <1>1, <1>4, <1>5, <1>8, <2>2, <2>3, <2>4, <2>7, <2>8, <2>9, ReadNext
<1>12. CASE mainQ[i].result = "tooLarge"
  <2>1. PICK b \in BOOLEAN : b = FALSE
    OBVIOUS
  <2>2. Become(Finish(s, b)) /\ ~b
    <3>1. Posted(s, mainQ[i].result) = FileServerTaskFinished(s, FALSE)
      BY <1>3, <1>9, <1>12, PostedCases DEF Results
    <3> QED
      BY <1>2, <1>9, <2>1, <3>1, Zenon DEF FileServerTaskFinished, OnFinished
  <2>3. s.dialogs = <<>> /\ s.told = <<>> /\ NoUpload(s.rels)
    BY <1>1, <1>3 DEF Answers
  <2> QED
    BY <1>3, <1>4, <1>5, <1>6, <1>8, <2>2, <2>3, FinishKeeps
<1> QED
  BY <1>3, <1>10, <1>11, <1>12, EventKinds DEF Results

LEMMA EventKeeps ==
    ASSUME IInv, AllReadable, ~crashed, HandleEvent PROVE ReadInv'
<1>1. PICK i \in DOMAIN mainQ : Handles(i)
  BY HandleEventCases
<1>2. UNCHANGED <<unasked, canceled, links, retry>>
  BY DEF HandleEvent
<1>3. PICK s : s = Taken(i)
  OBVIOUS
<1>4. /\ s \in Shared /\ mainQ[i] \in Events /\ mainQ \in Seq(Events)
      /\ s.phase = phase /\ s.cur = cur /\ s.passed = passed /\ s.names = names
      /\ s.rels = rels /\ s.dialogs = dialogs /\ s.folders = folders
      /\ s.mkdir = mkdir /\ s.told = told /\ s.crashed = crashed /\ s.mainQ = Removed(mainQ, i)
  BY <1>3, TakenFields, Zenon
<1>5. /\ NoAnswer(mainQ) => NoAnswer(s.mainQ)
      /\ NoTaskEnd(mainQ) => NoTaskEnd(s.mainQ)
      /\ OneAnswer(mainQ, cur, stored) => OneAnswer(s.mainQ, cur, stored) \/ NoAnswer(s.mainQ)
  BY <1>4, QueueWithout
<1>6. ModeInv /\ ObjectsInv
  BY ReadParts
<1>7. UNCHANGED <<n, stored, skipped>>
  BY <1>2 DEF unasked
<1>8. ASSUME NEW t \in Shared, Become(t), fs' = fs \/ fs' = "gone",
             t.phase = phase, t.cur = cur, t.names = names, t.dialogs = dialogs, t.folders = folders,
             t.told = told, t.crashed = crashed, t.mkdir = mkdir, rels # <<>> => t.rels # <<>>,
             NoAnswer(mainQ) => NoAnswer(t.mainQ),
             NoTaskEnd(mainQ) => NoTaskEnd(t.mainQ),
             OneAnswer(mainQ, cur, stored) => OneAnswer(t.mainQ, cur, stored) \/ NoAnswer(t.mainQ),
             NoUpload(rels) => NoUpload(t.rels),
             OneUpload(rels, cur) => OneUpload(t.rels, cur) \/ NoUpload(t.rels)
      PROVE  ReadInv'
  <2>1. UNCHANGED <<phase, cur, dialogs, told>> /\ mainQ' = t.mainQ /\ rels' = t.rels
    BY <1>8 DEF Become
  <2>2. mkdir' = mkdir
    BY <1>8, Zenon DEF Become
  <2>3. ModeInv'
    BY <1>2, <1>6, <1>7, <1>8, <2>1, <2>2, ModeKept
  <2> QED
    BY <1>2, <1>8, <2>3, QuietKeeps
<1>9. CASE mainQ[i].kind = "posted"
  <2>1. CASE rels[mainQ[i].rel].st = "gone" \/ fs = "gone"
    <3>1. Become(s) /\ fs' = fs
      BY <1>1, <1>3, <1>9, <2>1, Zenon DEF Handles
    <3> QED
      BY <1>4, <1>5, <1>8, <3>1
  <2>2. CASE ~(rels[mainQ[i].rel].st = "gone" \/ fs = "gone")
    <3>1. Become(Posted(s, mainQ[i].result)) /\ fs' = fs
      BY <1>1, <1>3, <1>9, <2>2, Zenon DEF Handles
    <3>2. CASE canceled
      <4>1. mainQ[i].result \in Results
        BY <1>4, <1>9, EventKinds
      <4>2. Become(s)
        BY <1>4, <3>1, <3>2, <4>1, PostedCases, ReadParts
      <4> QED
        BY <1>4, <1>5, <1>8, <3>1, <4>2
    <3>3. CASE ~canceled
      BY <1>2, <1>3, <1>9, <3>1, <3>3, PostedKeeps
    <3> QED
      BY <3>2, <3>3
  <2> QED
    BY <2>1, <2>2
<1>10. CASE mainQ[i].kind = "destroyRel"
  <2>1. PICK q : q = [rels EXCEPT ![mainQ[i].rel].st = "gone"]
    OBVIOUS
  <2>2. rels \in Seq(RelRecords) /\ q \in Seq(RelRecords) /\ DOMAIN q = DOMAIN rels
    <3>1. rels \in Seq(RelRecords)
      BY ReadParts DEF TypeOK, RelRecords
    <3> QED
      BY <2>1, <3>1, SetStateType DEF RelStates
  <2>3. \A k \in DOMAIN rels : q[k].file = rels[k].file /\ (q[k].st = rels[k].st \/ q[k].st = "gone")
    <3>1. ASSUME NEW k \in DOMAIN rels
          PROVE  q[k].file = rels[k].file /\ (q[k].st = rels[k].st \/ q[k].st = "gone")
      <4>1. rels[k] \in RelRecords
        BY <2>2, LenProperties, ElementOfSeq
      <4>2. CASE k = mainQ[i].rel
        <5>1. q[k] = [rels[k] EXCEPT !.st = "gone"]
          BY <2>1, <4>2
        <5> QED
          BY <4>1, <5>1 DEF RelRecords
      <4>3. CASE k # mainQ[i].rel
        BY <2>1, <4>3
      <4> QED
        BY <4>2, <4>3
    <3> QED
      BY <3>1
  <2>4. NoUpload(rels) => NoUpload(q)
    BY <2>2, <2>3 DEF NoUpload
  <2>5. OneUpload(rels, cur) => OneUpload(q, cur) \/ NoUpload(q)
    BY <2>2, <2>3 DEF OneUpload, NoUpload
  <2>6. rels # <<>> => q # <<>>
    BY <2>2, EmptySeq, LenProperties
  <2>7. PICK t : t = [s EXCEPT !.rels = q]
    OBVIOUS
  <2>8. /\ t \in Shared /\ t.phase = phase /\ t.cur = cur /\ t.names = names /\ t.dialogs = dialogs
        /\ t.folders = folders /\ t.told = told /\ t.rels = q /\ t.mainQ = s.mainQ
    BY <1>4, <2>2, <2>7 DEF Shared
  <2>9. t.crashed = crashed /\ t.mkdir = mkdir
    BY <1>4, <2>7 DEF Shared
  <2>10. Become(t) /\ fs' = fs
    <3>1. [s EXCEPT !.rels[mainQ[i].rel].st = "gone"] = t
      BY <1>4, <2>1, <2>7 DEF Shared
    <3> QED
      BY <1>1, <1>3, <1>10, <3>1, Zenon DEF Handles
  <2> QED
    BY <1>5, <1>8, <2>4, <2>5, <2>6, <2>8, <2>9, <2>10
<1>11. CASE mainQ[i].kind = "destroyTask"
  <2>1. ~NoTaskEnd(mainQ)
    BY <1>11 DEF NoTaskEnd
  <2>2. phase \in {"finished", "gone"}
    BY <1>6, <2>1, ReadParts DEF ObjectsInv, TypeOK
  <2>3. PICK w : w = [s EXCEPT !.phase = "gone", !.mkdir = FALSE]
    OBVIOUS
  <2>4. /\ w \in Shared /\ w.phase = "gone" /\ w.cur = cur /\ w.names = names /\ w.dialogs = dialogs
        /\ w.folders = folders /\ w.told = told /\ w.rels = rels /\ w.mainQ = s.mainQ
    BY <1>4, <2>3 DEF Shared
  <2>5. w.crashed = crashed /\ w.mkdir = FALSE
    BY <1>4, <2>3 DEF Shared
  <2>6. PICK t : t = IF fs = "alive" /\ phase # "gone" THEN DeleteLater(w, "destroyFs", 0) ELSE w
    OBVIOUS
  <2>7. Become(t) /\ fs' = fs
    BY <1>1, <1>3, <1>11, <2>3, <2>6, Zenon DEF Handles
  <2>8. /\ t \in Shared /\ Same(w, t) /\ t.phase = "gone" /\ t.folders = folders /\ t.told = told
    BY <2>4, <2>6, DeleteLaterType DEF DeleteLater, Same, Shared
  <2>9. t.crashed = crashed /\ t.mkdir = FALSE
    BY <2>4, <2>5, <2>6 DEF DeleteLater, Shared
  <2>10. t.cur = cur /\ t.names = names /\ t.rels = rels /\ t.dialogs = dialogs
    BY <2>4, <2>8 DEF Same
  <2>11. ModeInv'
    <3>1. /\ phase' = "gone" /\ dialogs' = dialogs /\ told' = told /\ rels' = rels /\ mainQ' = t.mainQ
      BY <2>7, <2>8, <2>10 DEF Become
    <3>2. mkdir' = FALSE
      BY <2>7, <2>9, Zenon DEF Become
    <3>3. CASE canceled
      <4>1. dialogs = <<>> /\ links = 0 /\ told # <<>> /\ ~told[1]
        BY <1>6, <3>3, Zenon DEF ModeInv
      <4>2. canceled' /\ links' = 0 /\ phase' \in {"finished", "gone"}
        BY <1>2, <3>1, <3>3, <4>1
      <4> QED
        BY <3>1, <4>1, <4>2, Zenon DEF ModeInv
    <3>4. CASE ~canceled
      <4>1. Rests
        BY <1>6, <2>2, <3>4 DEF ModeInv
      <4>2. NoAnswer(t.mainQ)
        BY <1>5, <2>4, <2>8, <4>1 DEF Rests, Same
      <4>3. Rests'
        BY <1>2, <3>1, <3>2, <4>1, <4>2 DEF Rests, NoUpload, NoAnswer
      <4> QED
        BY <1>2, <3>4, <4>3 DEF ModeInv
    <3> QED
      BY <3>3, <3>4
  <2> QED
    BY <1>2, <2>1, <2>2, <2>7, <2>8, <2>9, <2>10, <2>11, QuietKeeps
<1>12. CASE mainQ[i].kind = "destroyFs"
  <2>1. PICK t : t = IF rels = <<>> THEN s ELSE DeleteLater(s, "destroyRel", Len(rels))
    OBVIOUS
  <2>2. Len(rels) \in Nat
    BY LenProperties, ReadParts DEF TypeOK
  <2>3. t \in Shared /\ Same(s, t) /\ t.phase = phase /\ t.folders = folders /\ t.told = told
    BY <1>4, <2>1, <2>2, DeleteLaterType DEF DeleteLater, Same, Shared
  <2>4. t.crashed = crashed /\ t.mkdir = mkdir
    BY <1>4, <2>1 DEF DeleteLater, Shared
  <2>5. t.cur = cur /\ t.names = names /\ t.rels = rels /\ t.dialogs = dialogs
    BY <1>4, <2>3 DEF Same
  <2>6. /\ NoAnswer(s.mainQ) => NoAnswer(t.mainQ)
        /\ NoTaskEnd(s.mainQ) => NoTaskEnd(t.mainQ)
        /\ OneAnswer(s.mainQ, cur, stored) => OneAnswer(t.mainQ, cur, stored)
    <3>1. CASE rels = <<>>
      BY <2>1, <3>1
    <3>2. CASE rels # <<>>
      <4>1. NoTaskEnd(s.mainQ) => NoTaskEnd(t.mainQ)
        BY <1>4, <2>1, <2>2, <3>2, DeleteLaterKeeps
      <4>2. OneAnswer(s.mainQ, cur, stored) => OneAnswer(t.mainQ, cur, stored)
        BY <1>4, <2>1, <2>2, <3>2, QueueWith
      <4> QED
        BY <2>3, <4>1, <4>2 DEF Same
    <3> QED
      BY <3>1, <3>2
  <2>7. Become(t) /\ fs' = "gone"
    BY <1>1, <1>3, <1>12, <2>1, Zenon DEF Handles
  <2> QED
    BY <1>5, <1>8, <2>3, <2>4, <2>5, <2>6, <2>7
<1> QED
  BY <1>4, <1>9, <1>10, <1>11, <1>12, EventKinds

LEMMA RelFinishesKeeps ==
    ASSUME IInv, AllReadable, ~crashed, NEW r \in DOMAIN rels, NEW result \in Results, RelFinishes(r, result)
    PROVE  ReadInv'
<1>1. /\ rels[r].st = "posting" /\ stored \subseteq stored'
      /\ result = "ok" => stored' = stored \cup {rels[r].file}
      /\ rels' = [rels EXCEPT ![r].st = "over"]
      /\ mainQ' = Append(mainQ, [kind |-> "posted", rel |-> r, result |-> result])
      /\ UNCHANGED <<n, readable, phase, canceled, fs, cur, names, dialogs, links, retry, skipped,
                     folders, mkdir, told, crashed>>
  BY DEF RelFinishes, asking
<1>2. rels \in Seq(RelRecords) /\ mainQ \in Seq(Events)
  BY ReadParts DEF TypeOK, RelRecords
<1>3. PICK e : e = [kind |-> "posted", rel |-> r, result |-> result]
  OBVIOUS
<1>4. e \in Events /\ e.kind = "posted" /\ e.result = result
  <2>1. r \in Nat
    BY <1>2, LenProperties
  <2> QED
    BY <1>3, <2>1 DEF Events
<1>5. rels' # <<>> /\ DOMAIN rels' = DOMAIN rels
  <2>1. DOMAIN rels' = DOMAIN rels
    BY <1>1
  <2>2. 1..Len(rels) # {}
    BY <1>2, LenProperties
  <2> QED
    BY <1>2, <2>1, <2>2, LenProperties, EmptySeq
<1>6. NamesInv' /\ SuccessMeansAll' /\ DoneInv'
  <2>1. NamesInv'
    BY <1>1, ReadParts DEF NamesInv
  <2>2. SuccessMeansAll'
    BY <1>1, ReadParts DEF SuccessMeansAll
  <2>3. DoneInv'
    BY <1>1, ReadParts DEF DoneInv
  <2> QED
    BY <2>1, <2>2, <2>3
<1>7. ObjectsInv'
  <2>1. Len(mainQ) \in Nat /\ DOMAIN mainQ = 1..Len(mainQ)
    BY <1>2, LenProperties
  <2>2. NoTaskEnd(mainQ) => NoTaskEnd(mainQ')
    BY <1>1, <1>2, <1>3, <1>4, AppendProperties DEF NoTaskEnd
  <2> QED
    BY <1>1, <1>5, <2>2, ReadParts DEF ObjectsInv, NoTaskEnd
<1>8. ModeInv'
  <2>1. CASE canceled
    BY <1>1, <2>1, ReadParts, Zenon DEF ModeInv
  <2>2. CASE ~canceled
    <3>1. ~NoUpload(rels)
      BY <1>1 DEF NoUpload
    <3>2. phase = "serving" /\ Uploads
      BY <2>2, <3>1, ReadParts DEF ModeInv, Rests, Answers, Asks, Links, MakesFolder
    <3>3. rels[r].file = cur /\ \A k \in DOMAIN rels : rels[k].st = "posting" => k = r
      BY <1>1, <3>2 DEF Uploads, OneUpload
    <3>4. NoUpload(rels')
      <4>1. rels[r] \in RelRecords
        BY <1>2, LenProperties, ElementOfSeq
      <4>2. \A k \in DOMAIN rels : rels'[k].st # "posting"
        BY <1>1, <3>3, <4>1 DEF RelRecords
      <4> QED
        BY <1>5, <4>2 DEF NoUpload
    <3>5. OneAnswer(mainQ', cur, stored')
      <4>1. e.result = "ok" => cur \in stored'
        BY <1>1, <1>4, <3>3
      <4>2. PICK on : on = stored'
        OBVIOUS
      <4>3. OneAnswer(Append(mainQ, e), cur, on)
        BY <1>2, <1>4, <3>2, <4>1, <4>2, QueueAnswered DEF Uploads
      <4> QED
        BY <1>1, <1>3, <4>2, <4>3
    <3>6. Answers'
      BY <1>1, <3>2, <3>4, <3>5 DEF Answers, Uploads, NoUpload, OneAnswer
    <3> QED
      BY <1>1, <2>2, <3>2, <3>6 DEF ModeInv
  <2> QED
    BY <2>1, <2>2
<1> QED
  BY <1>1, <1>6, <1>7, <1>8 DEF ReadInv

LEMMA InitInv == Init => IInv
<1> SUFFICES ASSUME Init PROVE IInv
  OBVIOUS
<1>1. /\ cur = 0 /\ names = <<>> /\ told = <<>> /\ rels = <<>> /\ dialogs = <<>> /\ links = 0 /\ mainQ = <<>>
      /\ phase = "linking" /\ fs = "none" /\ ~crashed /\ ~canceled /\ ~mkdir
  BY DEF Init
<1>2. NamesInv /\ SuccessMeansAll /\ ObjectsInv /\ DoneInv
  BY <1>1 DEF NamesInv, SuccessMeansAll, ObjectsInv, DoneInv, NoTaskEnd
<1>3. ModeInv
  BY <1>1 DEF ModeInv, Rests, NoUpload, NoAnswer
<1> QED
  BY <1>1, <1>2, <1>3, InitType DEF IInv, ReadInv

LEMMA NextInv == IInv /\ [Next]_vars => IInv'
<1> SUFFICES ASSUME IInv, [Next]_vars PROVE ReadInv'
  BY NextType DEF IInv
<1>1. CASE UNCHANGED vars
  <2>1. UNCHANGED <<n, readable, phase, canceled, fs, cur, names, rels, dialogs, links, retry, skipped,
                    folders, mkdir, mainQ, stored, told, crashed>>
    BY <1>1 DEF vars, posting, asking
  <2>2. /\ ModeInv' = ModeInv /\ ObjectsInv' = ObjectsInv /\ DoneInv' = DoneInv /\ NamesInv' = NamesInv
        /\ SuccessMeansAll' = SuccessMeansAll /\ AllReadable' = AllReadable
    BY <2>1 DEF ModeInv, Rests, Uploads, Answers, Asks, Links, MakesFolder, ObjectsInv, DoneInv, NamesInv,
                SuccessMeansAll, AllReadable, NoUpload, NoAnswer, OneUpload, OneAnswer, NoTaskEnd
  <2> QED
    BY <2>1, <2>2, Zenon DEF IInv, ReadInv
<1>2. CASE Next
  <2>1. ~crashed /\ UNCHANGED <<n, readable>>
    BY <1>2 DEF Next, OnLinkGet, OnLinkGetAgain, OnGetLinkFailed, Cancel, AnswerRetryOrSkip, AnswerAbort,
                OnCreateDir, HandleEvent, RelFinishes, unasked
  <2>2. AllReadable' => AllReadable
    BY <2>1 DEF AllReadable
  <2>3. SUFFICES ASSUME AllReadable PROVE ReadInv'
    BY <2>2 DEF ReadInv
  <2>4. CASE OnLinkGet
    BY <2>1, <2>3, <2>4, LinkGetKeeps
  <2>5. CASE OnLinkGetAgain
    BY <2>1, <2>3, <2>5, LinkAgainKeeps
  <2>6. CASE OnGetLinkFailed
    BY <2>1, <2>3, <2>6, LinkFailedKeeps
  <2>7. CASE Cancel
    BY <2>1, <2>3, <2>7, CancelKeeps
  <2>8. ASSUME NEW again \in BOOLEAN, AnswerRetryOrSkip(again) PROVE ReadInv'
    BY <2>1, <2>3, <2>8, RetryOrSkipKeeps
  <2>9. CASE AnswerAbort
    BY <2>1, <2>3, <2>9, AbortKeeps
  <2>10. ASSUME NEW success \in BOOLEAN, OnCreateDir(success) PROVE ReadInv'
    BY <2>1, <2>3, <2>10, CreateDirKeeps
  <2>11. CASE HandleEvent
    BY <2>1, <2>3, <2>11, EventKeeps
  <2>12. ASSUME NEW r \in DOMAIN rels, NEW result \in Results, RelFinishes(r, result) PROVE ReadInv'
    BY <2>1, <2>3, <2>12, RelFinishesKeeps
  <2> QED
    BY <1>2, <2>4, <2>5, <2>6, <2>7, <2>8, <2>9, <2>10, <2>11, <2>12 DEF Next
<1> QED
  BY <1>1, <1>2

-----------------------------------------------------------------------------
(* The theorems.                                                           *)

\* What is under way, what is over, and whom the user was asked about: the
\* invariant on which the theorems below rest.
THEOREM UploadsInvariant == Spec => []IInv
  BY InitInv, NextInv, PTL DEF Spec

\* A success that is reported leaves out no file that the user did not skip, and
\* no empty folder, whatever failed, was retried or canceled before.
THEOREM SuccessLeavesNothingOut == Spec => []ReadableMeansAll
<1>1. IInv => ReadableMeansAll
  BY DEF IInv, ReadInv, ReadableMeansAll
<1> QED
  BY <1>1, UploadsInvariant, PTL

\* Each name that is listed is of a file that the server has, in the order of the
\* files: no answer was taken for that of another file.
THEOREM NamesAreTrue == Spec => []NamesAreUploaded
<1>1. IInv => NamesAreUploaded
  BY DEF IInv, ReadInv, NamesInv, NamesAreUploaded
<1> QED
  BY <1>1, UploadsInvariant, PTL

\* An upload, its answer, a question, a new link, a folder: never two of them,
\* so that startNext is never run twice for one file.
THEOREM OneThingOnly == Spec => []OneThingAtATime
<1>1. ASSUME IInv PROVE OneThingAtATime
  <2> SUFFICES ASSUME AllReadable, ~canceled, phase = "serving"
               PROVE  Cardinality({r \in DOMAIN rels : rels[r].st = "posting"})
                        + Cardinality({i \in DOMAIN mainQ : mainQ[i].kind = "posted"})
                        + Len(dialogs) + links + (IF mkdir THEN 1 ELSE 0) <= 1
    BY DEF OneThingAtATime
  <2> DEFINE U == {r \in DOMAIN rels : rels[r].st = "posting"}
             A == {i \in DOMAIN mainQ : mainQ[i].kind = "posted"}
  <2>1. ~crashed
    BY <1>1 DEF IInv, ReadInv
  <2>2. NoUpload(rels) => U = {}
    BY DEF NoUpload
  <2>3. NoAnswer(mainQ) => A = {}
    BY DEF NoAnswer
  <2>4. OneUpload(rels, cur) => \E r : U = {r}
    <3>1. ASSUME OneUpload(rels, cur) PROVE \E r : U = {r}
      <4>1. PICK r \in DOMAIN rels : rels[r].st = "posting" /\ \A k \in DOMAIN rels : rels[k].st = "posting" => k = r
        BY <3>1 DEF OneUpload
      <4>2. U = {r}
        BY <4>1
      <4> QED
        BY <4>2
    <3> QED
      BY <3>1
  <2>5. OneAnswer(mainQ, cur, stored) => \E i : A = {i}
    <3>1. ASSUME OneAnswer(mainQ, cur, stored) PROVE \E i : A = {i}
      <4>1. PICK i \in DOMAIN mainQ : mainQ[i].kind = "posted" /\ \A j \in DOMAIN mainQ : mainQ[j].kind = "posted" => j = i
        BY <3>1 DEF OneAnswer
      <4>2. A = {i}
        BY <4>1
      <4> QED
        BY <4>2
    <3> QED
      BY <3>1
  <2>6. Cardinality({}) = 0 /\ \A x : Cardinality({x}) = 1
    BY FS_EmptySet, FS_Singleton
  <2>7. /\ U = {} => Cardinality(U) = 0
        /\ A = {} => Cardinality(A) = 0
        /\ (\E r : U = {r}) => Cardinality(U) = 1
        /\ (\E i : A = {i}) => Cardinality(A) = 1
    BY <2>6
  <2>8. ModeInv
    BY <1>1, <2>1, ReadParts
  <2> HIDE DEF U, A
  <2>9. dialogs = <<>> => Len(dialogs) = 0
    OBVIOUS
  <2>10. Asks => Len(dialogs) = 1
    BY DEF Asks
  <2>11. CASE Rests
    BY <2>2, <2>3, <2>7, <2>9, <2>11 DEF Rests, U, A
  <2>12. CASE Uploads
    <3>1. OneUpload(rels, cur) /\ NoAnswer(mainQ) /\ dialogs = <<>> /\ links = 0 /\ ~mkdir
      BY <2>12 DEF Uploads
    <3>2. Cardinality(U) = 1
      <4>1. \E r : U = {r}
        BY <2>4, <3>1
      <4> QED
        BY <2>7, <4>1
    <3>3. Cardinality(A) = 0
      BY <2>3, <2>7, <3>1
    <3>4. Len(dialogs) = 0 /\ (IF mkdir THEN 1 ELSE 0) = 0
      BY <2>9, <3>1
    <3>5. Cardinality(U) + Cardinality(A) + Len(dialogs) + links + (IF mkdir THEN 1 ELSE 0) <= 1
      BY <3>1, <3>2, <3>3, <3>4
    <3> QED
      BY <3>5 DEF U, A
  <2>13. CASE Answers
    BY <2>2, <2>5, <2>7, <2>9, <2>13 DEF Answers, U, A
  <2>14. CASE Asks
    BY <2>2, <2>3, <2>7, <2>10, <2>14 DEF Asks, U, A
  <2>15. CASE Links
    BY <2>2, <2>3, <2>7, <2>9, <2>15 DEF Links, U, A
  <2>16. CASE MakesFolder
    BY <2>2, <2>3, <2>7, <2>9, <2>16 DEF MakesFolder, U, A
  <2> QED
    BY <2>8, <2>11, <2>12, <2>13, <2>14, <2>15, <2>16 DEF ModeInv
<1> QED
  BY <1>1, UploadsInvariant, PTL

\* However dialogs, deletions, answers and cancels meet, no handler uses an
\* upload, a task or a file that is not there; but for the upload of folders only.
THEOREM NothingGoneIsTouched == Spec => []NothingGoneIsUsed
<1>1. IInv => NothingGoneIsUsed
  BY DEF IInv, ReadInv, NothingGoneIsUsed
<1> QED
  BY <1>1, UploadsInvariant, PTL
=============================================================================
