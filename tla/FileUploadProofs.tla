-------------------------- MODULE FileUploadProofs --------------------------
(***************************************************************************)
(* The safety properties of FileUpload hold for any sizes of the file and  *)
(* of its chunks, and any number of retries and edits.                     *)
(***************************************************************************)
EXTENDS FileUpload, SequenceTheorems, TLAPS

-----------------------------------------------------------------------------
(* The event queue of the main thread holds at most one answer for the     *)
(* ReliablePostFileTask and at most one event that deletes an object.      *)

Answers == [kind : {"posted"}, result : Results]
             \cup [kind : {"uploadedBytes"}, ok : BOOLEAN, bytes : Bytes]
Ends == [kind : {"destroy", "destroyRel"}]
Events == Answers \cup Ends

IsAnswer(e) == e.kind \in {"posted", "uploadedBytes"}

AnswerOf(q) == {q[i] : i \in {j \in DOMAIN q : IsAnswer(q[j])}}
EndOf(q) == {q[i] : i \in {j \in DOMAIN q : ~IsAnswer(q[j])}}
AnswerFirst(q) == q # <<>> /\ IsAnswer(Head(q))

Short(q) ==
    \E a \in Answers, d \in Ends : q \in {<<>>, <<a>>, <<d>>, <<a, d>>, <<d, a>>}

LEMMA ShortQueues ==
    ASSUME NEW a \in Answers, NEW d \in Ends
    PROVE  /\ IsAnswer(a) /\ ~IsAnswer(d)
           /\ Short(<<>>) /\ Short(<<a>>) /\ Short(<<d>>) /\ Short(<<a, d>>) /\ Short(<<d, a>>)
           /\ AnswerOf(<<>>) = {} /\ EndOf(<<>>) = {} /\ ~AnswerFirst(<<>>)
           /\ AnswerOf(<<a>>) = {a} /\ EndOf(<<a>>) = {} /\ AnswerFirst(<<a>>)
           /\ AnswerOf(<<d>>) = {} /\ EndOf(<<d>>) = {d} /\ ~AnswerFirst(<<d>>)
           /\ AnswerOf(<<a, d>>) = {a} /\ EndOf(<<a, d>>) = {d} /\ AnswerFirst(<<a, d>>)
           /\ AnswerOf(<<d, a>>) = {a} /\ EndOf(<<d, a>>) = {d} /\ ~AnswerFirst(<<d, a>>)
<1>1. IsAnswer(a) /\ ~IsAnswer(d)
  BY DEF Answers, Ends, IsAnswer
<1>2. AnswerOf(<<>>) = {} /\ EndOf(<<>>) = {} /\ ~AnswerFirst(<<>>)
  BY DEF AnswerOf, EndOf, AnswerFirst
<1>3. AnswerOf(<<a>>) = {a} /\ EndOf(<<a>>) = {} /\ AnswerFirst(<<a>>)
  BY <1>1 DEF AnswerOf, EndOf, AnswerFirst
<1>4. AnswerOf(<<d>>) = {} /\ EndOf(<<d>>) = {d} /\ ~AnswerFirst(<<d>>)
  BY <1>1 DEF AnswerOf, EndOf, AnswerFirst
<1>5. AnswerOf(<<a, d>>) = {a} /\ EndOf(<<a, d>>) = {d} /\ AnswerFirst(<<a, d>>)
  BY <1>1 DEF AnswerOf, EndOf, AnswerFirst
<1>6. AnswerOf(<<d, a>>) = {a} /\ EndOf(<<d, a>>) = {d} /\ ~AnswerFirst(<<d, a>>)
  BY <1>1 DEF AnswerOf, EndOf, AnswerFirst
<1>7. \A q \in {<<>>, <<a>>, <<d>>, <<a, d>>, <<d, a>>} : Short(q)
  BY DEF Short
<1>8. Short(<<>>) /\ Short(<<a>>) /\ Short(<<d>>) /\ Short(<<a, d>>) /\ Short(<<d, a>>)
  BY <1>7
<1> QED
  BY <1>1, <1>2, <1>3, <1>4, <1>5, <1>6, <1>8

LEMMA AppendToOne ==
    ASSUME NEW e, NEW f
    PROVE  Append(<<e>>, f) = <<e, f>>
<1> DEFINE S == {e, f}
<1>1. <<e>> \in Seq(S) /\ <<e, f>> \in Seq(S) /\ f \in S
  OBVIOUS
<1>2. Append(<<e>>, f) \in Seq(S) /\ Len(Append(<<e>>, f)) = 2
  BY <1>1, AppendProperties
<1>3. Append(<<e>>, f)[1] = e /\ Append(<<e>>, f)[2] = f
  BY <1>1
<1>4. \A i \in 1..Len(Append(<<e>>, f)) : Append(<<e>>, f)[i] = <<e, f>>[i]
  BY <1>2, <1>3
<1> QED
  BY <1>1, <1>2, <1>4, SeqEqual

LEMMA HeadTaken ==
    ASSUME NEW q, Short(q), q # <<>>
    PROVE  /\ Short(Tail(q))
           /\ AnswerFirst(q) <=> IsAnswer(Head(q))
           /\ IsAnswer(Head(q)) =>
                  /\ Head(q) \in Answers /\ AnswerOf(q) = {Head(q)} /\ AnswerOf(Tail(q)) = {}
                  /\ EndOf(Tail(q)) = EndOf(q) /\ ~AnswerFirst(Tail(q))
           /\ ~IsAnswer(Head(q)) =>
                  /\ Head(q) \in Ends /\ EndOf(q) = {Head(q)} /\ EndOf(Tail(q)) = {}
                  /\ AnswerOf(Tail(q)) = AnswerOf(q)
                  /\ (AnswerFirst(Tail(q)) <=> AnswerOf(q) # {})
<1>1. PICK a \in Answers, d \in Ends : q \in {<<>>, <<a>>, <<d>>, <<a, d>>, <<d, a>>}
  BY DEF Short
<1>2. CASE q = <<a>>
  <2>1. Head(q) = a /\ Tail(q) = <<>>
    BY <1>2
  <2> QED
    BY <1>2, <2>1, ShortQueues
<1>3. CASE q = <<d>>
  <2>1. Head(q) = d /\ Tail(q) = <<>>
    BY <1>3
  <2> QED
    BY <1>3, <2>1, ShortQueues
<1>4. CASE q = <<a, d>>
  <2>1. Head(q) = a /\ Tail(q) = <<d>>
    BY <1>4
  <2>2. /\ IsAnswer(a) /\ Short(<<d>>) /\ AnswerFirst(<<a, d>>) /\ ~AnswerFirst(<<d>>)
        /\ AnswerOf(<<a, d>>) = {a} /\ AnswerOf(<<d>>) = {}
        /\ EndOf(<<a, d>>) = {d} /\ EndOf(<<d>>) = {d}
    BY ShortQueues
  <2> QED
    BY <1>4, <2>1, <2>2
<1>5. CASE q = <<d, a>>
  <2>1. Head(q) = d /\ Tail(q) = <<a>>
    BY <1>5
  <2>2. {a} # {}
    OBVIOUS
  <2>3. /\ ~IsAnswer(d) /\ Short(<<a>>) /\ ~AnswerFirst(<<d, a>>) /\ AnswerFirst(<<a>>)
        /\ AnswerOf(<<d, a>>) = {a} /\ AnswerOf(<<a>>) = {a}
        /\ EndOf(<<d, a>>) = {d} /\ EndOf(<<a>>) = {}
    BY ShortQueues
  <2> QED
    BY <1>5, <2>1, <2>2, <2>3
<1> QED
  BY <1>1, <1>2, <1>3, <1>4, <1>5

LEMMA AnswerAppended ==
    ASSUME NEW q, Short(q), AnswerOf(q) = {}, NEW a \in Answers
    PROVE  /\ Short(Append(q, a))
           /\ AnswerOf(Append(q, a)) = {a}
           /\ EndOf(Append(q, a)) = EndOf(q)
           /\ ~AnswerFirst(q)
           /\ AnswerFirst(Append(q, a)) <=> EndOf(q) = {}
<1>1. PICK b \in Answers, d \in Ends : q \in {<<>>, <<b>>, <<d>>, <<b, d>>, <<d, b>>}
  BY DEF Short
<1>2. q \notin {<<b>>, <<b, d>>, <<d, b>>}
  <2>1. /\ AnswerOf(<<b>>) # {}
        /\ AnswerOf(<<b, d>>) # {}
        /\ AnswerOf(<<d, b>>) # {}
    <3>1. AnswerOf(<<b>>) = {b} /\ AnswerOf(<<b, d>>) = {b} /\ AnswerOf(<<d, b>>) = {b}
      BY ShortQueues
    <3> QED
      BY <3>1
  <2> QED
    BY <2>1
<1>3. CASE q = <<>>
  <2>1. Append(q, a) = <<a>>
    BY <1>3
  <2>2. /\ Short(<<a>>) /\ AnswerOf(<<a>>) = {a} /\ EndOf(<<a>>) = {} /\ AnswerFirst(<<a>>)
        /\ EndOf(<<>>) = {} /\ ~AnswerFirst(<<>>)
    BY <1>1, ShortQueues
  <2> QED
    BY <1>3, <2>1, <2>2
<1>4. CASE q = <<d>>
  <2>1. Append(q, a) = <<d, a>>
    BY <1>4, AppendToOne
  <2>2. {d} # {}
    OBVIOUS
  <2>3. /\ Short(<<d, a>>) /\ AnswerOf(<<d, a>>) = {a} /\ EndOf(<<d, a>>) = {d}
        /\ EndOf(<<d>>) = {d} /\ ~AnswerFirst(<<d>>) /\ ~AnswerFirst(<<d, a>>)
    BY ShortQueues
  <2> QED
    BY <1>4, <2>1, <2>2, <2>3
<1> QED
  BY <1>1, <1>2, <1>3, <1>4

LEMMA EndAppended ==
    ASSUME NEW q, Short(q), EndOf(q) = {}, NEW d \in Ends
    PROVE  /\ Short(Append(q, d))
           /\ EndOf(Append(q, d)) = {d}
           /\ AnswerOf(Append(q, d)) = AnswerOf(q)
           /\ AnswerFirst(q) <=> AnswerOf(q) # {}
           /\ AnswerFirst(Append(q, d)) <=> AnswerFirst(q)
<1>1. PICK a \in Answers, b \in Ends : q \in {<<>>, <<a>>, <<b>>, <<a, b>>, <<b, a>>}
  BY DEF Short
<1>2. q \notin {<<b>>, <<a, b>>, <<b, a>>}
  <2>1. {b} # {}
    OBVIOUS
  <2>2. EndOf(<<b>>) = {b} /\ EndOf(<<a, b>>) = {b} /\ EndOf(<<b, a>>) = {b}
    BY ShortQueues
  <2> QED
    BY <2>1, <2>2
<1>3. CASE q = <<>>
  <2>1. Append(q, d) = <<d>>
    BY <1>3
  <2>2. /\ Short(<<d>>) /\ AnswerOf(<<d>>) = {} /\ EndOf(<<d>>) = {d} /\ ~AnswerFirst(<<d>>)
        /\ AnswerOf(<<>>) = {} /\ ~AnswerFirst(<<>>)
    BY <1>1, ShortQueues
  <2> QED
    BY <1>3, <2>1, <2>2
<1>4. CASE q = <<a>>
  <2>1. Append(q, d) = <<a, d>>
    BY <1>4, AppendToOne
  <2>2. {a} # {}
    OBVIOUS
  <2>3. /\ Short(<<a, d>>) /\ AnswerOf(<<a, d>>) = {a} /\ EndOf(<<a, d>>) = {d}
        /\ AnswerOf(<<a>>) = {a} /\ AnswerFirst(<<a>>) /\ AnswerFirst(<<a, d>>)
    BY ShortQueues
  <2> QED
    BY <1>4, <2>1, <2>2, <2>3
<1> QED
  BY <1>1, <1>2, <1>3, <1>4

-----------------------------------------------------------------------------
(* The inductive invariant.                                                *)

UnderWay == post.st \in {"posted", "running"}

\* What the life of the two objects has to do with the events that end it.  A
\* task that has finished by itself is deleted before any other answer is seen.
LifeInv ==
    /\ EndOf(mainQ) = IF phase = "finished" THEN {[kind |-> "destroy"]}
                      ELSE IF phase = "gone" /\ rel.st \notin {"none", "gone"}
                      THEN {[kind |-> "destroyRel"]} ELSE {}
    /\ rel.st = "gone" => phase = "gone"
    /\ phase = "linking" => rel.st = "none"
    /\ phase \in {"asking", "relinking"} => rel.st = "idle" /\ post.st \in {"over", "gone"}
    /\ canceled => phase \in {"finished", "gone"}
    /\ phase = "finished" /\ ~canceled => ~AnswerFirst(mainQ) /\ rel.st # "waiting"

\* A piece is under way, or an answer is waiting, or neither; the
\* ReliablePostFileTask waits for it unless it is gone.
ActivityInv ==
    /\ rel.st \in {"none", "querying", "waiting", "idle"} => AnswerOf(mainQ) = {} /\ ~UnderWay
    /\ UnderWay => AnswerOf(mainQ) = {}
    /\ \A a \in AnswerOf(mainQ) :
           /\ a.kind = "posted" => post.st \in {"over", "gone"}
           /\ a.kind = "posted" /\ a.result = "ok" => post.taken
           /\ a.kind = "uploadedBytes" => UseResumableUpload(rel)
    /\ rel.st = "querying" => UseResumableUpload(rel)

\* The piece that the ReliablePostFileTask waits for.
PieceInv ==
    /\ rel.st = "posting" /\ (UnderWay \/ \E a \in AnswerOf(mainQ) : a.kind = "posted")
           => /\ post.start = rel.offset /\ post.size = rel.chunk
              /\ rel.chunk = NextChunk(rel)
              /\ hist.fellBack \/ UseResumableUpload(rel) \/ rel.chunk = 0
    /\ post.st \in {"none", "posted"} => ~post.taken

\* Of a file that does not change, the server has what it was sent.
ServerInv ==
    hist.edits = 0 =>
        /\ rel.total \in {0, fsize}
        /\ ~UseResumableUpload(rel) => rel.offset = 0
        /\ post.st = "running" \/ post.taken => post.of = fsize
        /\ stored # "partial"
        /\ UnderWay /\ ~post.taken /\ post.size > 0 => post.start <= received
        /\ \A a \in AnswerOf(mainQ) : a.kind = "uploadedBytes" /\ a.ok => a.bytes = received
        /\ post.taken => \/ post.size = 0 /\ stored = "whole"
                         \/ post.start + post.size = post.of /\ stored = "whole"
                         \/ /\ post.size > 0
                            /\ post.start + post.size < post.of /\ post.start + post.size <= received

\* How many pieces may still be sent: the answer that is first in the queue can
\* start one, and so can the one that comes after `destroy'.
Possible ==
    IF phase = "finished" THEN IF AnswerFirst(mainQ) THEN 2 ELSE 1
    ELSE IF EndOf(mainQ) # {} /\ AnswerFirst(mainQ) THEN 1 ELSE 0

LateInv ==
    /\ ~canceled => hist.late = 0
    /\ hist.late + Possible <= 2

IInv ==
    /\ TypeOK /\ Short(mainQ) /\ LifeInv /\ ActivityInv /\ PieceInv /\ ServerInv /\ LateInv
    /\ SuccessIsCommitted

-----------------------------------------------------------------------------
(* What the parts of the handlers do.                                      *)

RelType ==
    [st : {"none", "querying", "posting", "waiting", "idle", "gone"},
     resumable : BOOLEAN, total : Bytes, offset : Bytes,
     chunk : 0..ChunkSize, retries : 0..MaxRetry]
PostType ==
    [st : {"none", "posted", "running", "over", "gone"},
     start : Bytes, size : 0..ChunkSize, of : Bytes,
     readable : BOOLEAN, taken : BOOLEAN, cancel : BOOLEAN, destroy : BOOLEAN]
HistType ==
    [userRetries : 0..MaxUserRetries, edits : 0..MaxEdits, fellBack : BOOLEAN, late : Nat]

LEMMA BytesType == Bytes \subseteq Nat /\ 0 \in Bytes /\ ChunkSize \in Bytes /\ Sizes \subseteq Bytes
<1>1. MaxOf(Sizes) \in Sizes /\ \A n \in Sizes : n <= MaxOf(Sizes)
  BY SizesAssumption DEF MaxOf
<1>2. PICK m \in Sizes : m = MaxOf(Sizes) /\ \A n \in Sizes : n <= m
  BY <1>1
<1>3. Bytes = 0..(m + ChunkSize)
  BY <1>2 DEF Bytes
<1>4. m \in Nat /\ ChunkSize \in Nat /\ Sizes \subseteq Nat
  BY SizesAssumption
<1> QED
  BY <1>2, <1>3, <1>4

LEMMA BytesBelow ==
    ASSUME NEW b \in Bytes, NEW n \in Nat, n <= b
    PROVE  n \in Bytes
<1>1. MaxOf(Sizes) \in Nat
  BY SizesAssumption DEF MaxOf
<1> QED
  BY <1>1, SizesAssumption DEF Bytes

Types ==
    /\ opts \in [upload : BOOLEAN, confirm : BOOLEAN, chunking : BOOLEAN]
    /\ phase \in Phases
    /\ canceled \in BOOLEAN
    /\ rel \in RelType /\ post \in PostType
    /\ mainQ \in Seq(Events)
    /\ fsize \in Sizes
    /\ received \in Bytes
    /\ stored \in {"nothing", "whole", "partial"}
    /\ told \in {"nothing", "success", "failure"}
    /\ hist \in HistType

LEMMA TypesUnfolded ==
    /\ TypeOK <=> Types
    /\ TypeOK' <=> Types'
BY DEF TypeOK, Types, RelType, PostType, HistType, Events, Answers, Ends

LEMMA NextChunkType ==
    ASSUME NEW r \in RelType
    PROVE  NextChunk(r) \in 0..ChunkSize
<1>1. ChunkSize \in Nat /\ r.offset \in Nat /\ r.total \in Nat /\ r.chunk \in 0..ChunkSize
  BY SizesAssumption, BytesType DEF RelType
<1> QED
  BY <1>1 DEF NextChunk

\* A new PostFileTask takes its range from the ReliablePostFileTask.
LEMMA PieceStarts ==
    ASSUME hist \in HistType, NEW r, r \in RelType, NEW readable \in BOOLEAN,
           StartPostFileTask(r, readable)
    PROVE  /\ rel' \in RelType /\ rel'.st = "posting"
           /\ rel'.resumable = r.resumable /\ rel'.total = r.total /\ rel'.offset = r.offset
           /\ rel'.chunk = NextChunk(r) /\ rel'.chunk = NextChunk(rel')
           /\ UseResumableUpload(rel') <=> UseResumableUpload(r)
           /\ post' \in PostType /\ post'.st = "posted" /\ ~post'.taken
           /\ post'.start = r.offset /\ post'.size = NextChunk(r)
           /\ hist' \in HistType /\ hist'.edits = hist.edits
           /\ hist'.late = IF canceled THEN hist.late + 1 ELSE hist.late
           /\ hist.fellBack => hist'.fellBack
           /\ hist'.fellBack \/ UseResumableUpload(rel') \/ rel'.chunk = 0
<1> DEFINE chunk == NextChunk(r)
<1>1. chunk \in 0..ChunkSize
  BY NextChunkType
<1>2. rel' = [r EXCEPT !.st = "posting", !.chunk = chunk]
  BY DEF StartPostFileTask
<1>3. post' = [NoPost EXCEPT !.st = "posted", !.start = r.offset, !.size = chunk, !.readable = readable]
  BY DEF StartPostFileTask
<1>4. \E late, fellBack :
          /\ hist' = [hist EXCEPT !.late = late, !.fellBack = fellBack]
          /\ late = IF canceled THEN hist.late + 1 ELSE hist.late
          /\ fellBack = \/ hist.fellBack
                        \/ ~UseResumableUpload(r) /\ r.chunk > 0
  BY DEF StartPostFileTask
<1>5. ~UseResumableUpload(r) => chunk = r.chunk
  BY DEF NextChunk
<1>6. UseResumableUpload(r) => chunk = IF r.offset <= r.total /\ r.total - r.offset < ChunkSize
                                       THEN r.total - r.offset ELSE ChunkSize
  BY DEF NextChunk
<1> HIDE DEF chunk
<1>7. /\ rel' \in RelType /\ rel'.st = "posting"
      /\ rel'.resumable = r.resumable /\ rel'.total = r.total /\ rel'.offset = r.offset
      /\ rel'.chunk = chunk
  BY <1>1, <1>2 DEF RelType
<1>8. UseResumableUpload(rel') <=> UseResumableUpload(r)
  BY <1>7 DEF UseResumableUpload
<1>9. rel'.chunk = NextChunk(rel')
  BY <1>5, <1>6, <1>7, <1>8 DEF NextChunk
<1>10. /\ post' \in PostType /\ post'.st = "posted" /\ ~post'.taken
       /\ post'.start = r.offset /\ post'.size = chunk
  BY <1>1, <1>3, BytesType DEF PostType, NoPost, RelType
<1>11. /\ hist' \in HistType /\ hist'.edits = hist.edits
       /\ hist'.late = IF canceled THEN hist.late + 1 ELSE hist.late
  <2>1. PICK late, fellBack :
            /\ hist' = [hist EXCEPT !.late = late, !.fellBack = fellBack]
            /\ late = IF canceled THEN hist.late + 1 ELSE hist.late
            /\ fellBack \in BOOLEAN
    BY <1>4
  <2>2. late \in Nat
    BY <2>1 DEF HistType
  <2>3. hist'.late = late /\ hist'.edits = hist.edits /\ hist' \in HistType
    BY <2>1, <2>2 DEF HistType
  <2> QED
    BY <2>1, <2>3
<1>12. hist'.fellBack <=> hist.fellBack \/ (~UseResumableUpload(r) /\ r.chunk > 0)
  BY <1>4 DEF HistType
<1>13. r.chunk \in Nat
  BY DEF RelType
<1>14. /\ hist.fellBack => hist'.fellBack
       /\ hist'.fellBack \/ UseResumableUpload(rel') \/ rel'.chunk = 0
  BY <1>5, <1>7, <1>8, <1>12, <1>13
<1> QED
  BY <1>7, <1>8, <1>9, <1>10, <1>11, <1>14 DEF chunk

\* A task that has not ended yet is reported to have ended, once.
LEMMA FinishedEmitted ==
    ASSUME NEW q, Short(q), q \in Seq(Events), NEW success \in BOOLEAN, EmitFinished(success, q),
           phase \in Phases, told \in {"nothing", "success", "failure"},
           phase = "finished" => canceled, canceled => phase \in {"finished", "gone"},
           phase \notin {"finished", "gone"} => EndOf(q) = {}
    PROVE  /\ Short(mainQ') /\ mainQ' \in Seq(Events)
           /\ AnswerOf(mainQ') = AnswerOf(q)
           /\ AnswerFirst(mainQ') <=> AnswerFirst(q)
           /\ phase' \in Phases /\ told' \in {"nothing", "success", "failure"}
           /\ told' = "success" => told = "success" \/ success
           /\ IF phase \in {"finished", "gone"} THEN mainQ' = q /\ phase' = phase
              ELSE phase' = "finished" /\ EndOf(mainQ') = {[kind |-> "destroy"]}
<1>1. CASE phase \in {"finished", "gone"}
  BY <1>1 DEF EmitFinished
<1>2. CASE phase \notin {"finished", "gone"}
  <2> DEFINE d == [kind |-> "destroy"]
  <2>1. d \in Ends /\ d \in Events
    BY DEF Ends, Events
  <2> HIDE DEF d
  <2>2. /\ mainQ' = Append(q, d) /\ phase' = "finished"
        /\ told' = IF told # "nothing" THEN told ELSE IF success THEN "success" ELSE "failure"
    BY <1>2 DEF EmitFinished, d
  <2>3. /\ Short(mainQ') /\ AnswerOf(mainQ') = AnswerOf(q) /\ EndOf(mainQ') = {d}
        /\ AnswerFirst(mainQ') <=> AnswerFirst(q)
    BY <1>2, <2>1, <2>2, EndAppended
  <2>4. mainQ' \in Seq(Events)
    BY <2>1, <2>2
  <2>5. phase' \in Phases /\ told' \in {"nothing", "success", "failure"}
        /\ (told' = "success" => told = "success" \/ success)
    BY <2>2 DEF Phases
  <2> QED
    BY <1>2, <2>2, <2>3, <2>4, <2>5 DEF d
<1> QED
  BY <1>1, <1>2

LEMMA InitIInv == Init => IInv
<1> SUFFICES ASSUME Init PROVE IInv
  OBVIOUS
<1> USE DEF Init
<1>1. AnswerOf(mainQ) = {} /\ EndOf(mainQ) = {} /\ ~AnswerFirst(mainQ)
  BY DEF AnswerOf, EndOf, AnswerFirst
<1>2. Short(mainQ)
  <2>1. [kind |-> "posted", result |-> "ok"] \in Answers /\ [kind |-> "destroy"] \in Ends
    BY DEF Answers, Ends, Results
  <2> QED
    BY <2>1 DEF Short
<1>3. rel \in RelType /\ rel.st = "none" /\ rel.total = 0 /\ rel.offset = 0 /\ rel.chunk = 0
  BY BytesType, SizesAssumption DEF RelType
<1>4. post \in PostType /\ post.st = "none" /\ ~post.taken
  BY BytesType, SizesAssumption DEF PostType, NoPost
<1>5. hist \in HistType /\ hist.late = 0
  BY SizesAssumption DEF HistType
<1>6. received \in Bytes /\ fsize \in Sizes
  BY BytesType, SizesAssumption
<1>7. TypeOK
  <2>1. /\ opts \in [upload : BOOLEAN, confirm : BOOLEAN, chunking : BOOLEAN]
        /\ phase \in Phases /\ canceled \in BOOLEAN
        /\ stored \in {"nothing", "whole", "partial"}
        /\ told \in {"nothing", "success", "failure"}
    BY DEF Phases
  <2>2. mainQ \in Seq(Events)
    OBVIOUS
  <2> QED
    BY <1>3, <1>4, <1>5, <1>6, <2>1, <2>2, TypesUnfolded DEF Types
<1>8. LifeInv
  BY <1>1, <1>3 DEF LifeInv
<1>9. ActivityInv
  BY <1>1, <1>3, <1>4 DEF ActivityInv, UnderWay
<1>10. PieceInv
  BY <1>3, <1>4 DEF PieceInv
<1>11. ServerInv
  BY <1>1, <1>3, <1>4 DEF ServerInv, UnderWay
<1>12. LateInv
  BY <1>1, <1>5 DEF LateInv, Possible
<1>13. SuccessIsCommitted
  BY DEF SuccessIsCommitted
<1> QED
  BY <1>2, <1>7, <1>8, <1>9, <1>10, <1>11, <1>12, <1>13 DEF IInv

-----------------------------------------------------------------------------
(* The steps of the main thread.                                           *)

LEMMA NoAnswerFirst ==
    ASSUME NEW q, Short(q), AnswerOf(q) = {}
    PROVE  ~AnswerFirst(q)
<1>1. PICK a : a = Head(q)
  OBVIOUS
<1>2. {a} # {}
  OBVIOUS
<1> QED
  BY <1>1, <1>2, HeadTaken DEF AnswerFirst

\* FileServerTask::start, of a task that waits for nothing.
LEMMA StartKeeps ==
    ASSUME IInv, NEW opened \in BOOLEAN, Start(opened), ~canceled,
           rel.st \in {"none", "waiting", "idle"}, phase \in {"linking", "serving", "relinking", "gone"},
           phase = "gone" => rel.st = "waiting",
           UNCHANGED <<opts, canceled, fsize, server>>
    PROVE  IInv'
<1> DEFINE started == IF opened THEN [rel EXCEPT !.total = fsize] ELSE rel
<1>1. /\ phase \in Phases /\ rel \in RelType /\ post \in PostType /\ mainQ \in Seq(Events)
      /\ fsize \in Sizes /\ told \in {"nothing", "success", "failure"} /\ hist \in HistType
  BY TypesUnfolded DEF Types, IInv
<1>2. fsize \in Bytes
  BY <1>1, BytesType
<1>3. PICK r : r = started
  OBVIOUS
<1>4. /\ r \in RelType /\ r.st = rel.st /\ r.resumable = rel.resumable /\ r.offset = rel.offset
      /\ r.chunk = rel.chunk /\ r.total = IF opened THEN fsize ELSE rel.total
  BY <1>1, <1>2, <1>3 DEF RelType
<1>5. /\ AnswerOf(mainQ) = {} /\ ~UnderWay /\ Short(mainQ)
      /\ EndOf(mainQ) = IF phase = "gone" THEN {[kind |-> "destroyRel"]} ELSE {}
  BY DEF IInv, ActivityInv, LifeInv
<1>6. /\ Short(mainQ') /\ mainQ' \in Seq(Events)
      /\ AnswerOf(mainQ') = {} /\ ~AnswerFirst(mainQ')
      /\ phase' \in {"serving", "finished", "gone"}
      /\ EndOf(mainQ') = IF phase' = "finished" THEN {[kind |-> "destroy"]}
                         ELSE IF phase' = "gone" THEN {[kind |-> "destroyRel"]} ELSE {}
      /\ told' \in {"nothing", "success", "failure"}
      /\ told' = "success" => told = "success"
  <2>1. CASE opened
    BY <1>1, <1>5, <2>1, NoAnswerFirst DEF Start
  <2>2. CASE ~opened
    <3>1. EmitFinished(FALSE, mainQ)
      BY <2>2 DEF Start
    <3>2. PICK q : q = mainQ
      OBVIOUS
    <3>3. /\ Short(mainQ') /\ mainQ' \in Seq(Events) /\ AnswerOf(mainQ') = {}
          /\ told' \in {"nothing", "success", "failure"}
          /\ told' = "success" => told = "success"
          /\ IF phase = "gone" THEN mainQ' = q /\ phase' = phase
             ELSE phase' = "finished" /\ EndOf(mainQ') = {[kind |-> "destroy"]}
      BY <1>1, <1>5, <3>1, <3>2, FinishedEmitted
    <3> QED
      BY <1>5, <3>2, <3>3, NoAnswerFirst
  <2> QED
    BY <2>1, <2>2
<1>7. CASE UseResumableUpload(r)
  <2>1. rel' = [r EXCEPT !.st = "querying"] /\ UNCHANGED <<post, hist>>
    BY <1>3, <1>7 DEF Start
  <2>2. /\ rel' \in RelType /\ rel'.st = "querying" /\ rel'.resumable = r.resumable
        /\ rel'.offset = r.offset /\ rel'.total = r.total
    BY <1>4, <2>1 DEF RelType
  <2>3. UseResumableUpload(rel')
    BY <1>7, <2>2 DEF UseResumableUpload
  <2>4. TypeOK'
    BY <1>1, <1>6, <2>1, <2>2, TypesUnfolded DEF Types, IInv, Phases, server
  <2>5. LifeInv'
    BY <1>6, <2>2 DEF LifeInv
  <2>6. ActivityInv'
    BY <1>5, <1>6, <2>1, <2>2, <2>3 DEF ActivityInv, UnderWay
  <2>7. PieceInv'
    BY <2>1, <2>2 DEF PieceInv, IInv
  <2>8. ServerInv'
    BY <1>4, <1>5, <1>6, <2>1, <2>2, <2>3 DEF ServerInv, IInv, UnderWay, server
  <2>9. LateInv'
    BY <1>6, <2>1 DEF LateInv, IInv, Possible
  <2>10. SuccessIsCommitted'
    BY <1>6, <2>1 DEF SuccessIsCommitted, IInv, server
  <2> QED
    BY <1>6, <2>4, <2>5, <2>6, <2>7, <2>8, <2>9, <2>10 DEF IInv
<1>8. CASE ~UseResumableUpload(r)
  <2>1. StartPostFileTask(r, opened)
    BY <1>3, <1>8 DEF Start
  <2>2. /\ rel' \in RelType /\ rel'.st = "posting" /\ rel'.total = r.total /\ rel'.offset = r.offset
        /\ rel'.chunk = NextChunk(r) /\ rel'.chunk = NextChunk(rel') /\ ~UseResumableUpload(rel')
    BY <1>1, <1>4, <1>8, <2>1, PieceStarts
  <2>3. /\ post' \in PostType /\ post'.st = "posted" /\ ~post'.taken
        /\ post'.start = r.offset /\ post'.size = NextChunk(r)
    BY <1>1, <1>4, <2>1, PieceStarts
  <2>4. /\ hist' \in HistType /\ hist'.edits = hist.edits /\ hist'.late = hist.late
        /\ hist.fellBack => hist'.fellBack
        /\ hist'.fellBack \/ rel'.chunk = 0
    BY <1>1, <1>4, <2>1, <2>2, PieceStarts
  <2>5. TypeOK'
    BY <1>1, <1>6, <2>2, <2>3, <2>4, TypesUnfolded DEF Types, IInv, Phases, server
  <2>6. LifeInv'
    BY <1>6, <2>2 DEF LifeInv
  <2>7. ActivityInv'
    BY <1>6, <2>2 DEF ActivityInv
  <2>8. PieceInv'
    BY <2>2, <2>3, <2>4 DEF PieceInv
  <2>9. ServerInv'
    <3>1. SUFFICES ASSUME hist.edits = 0
                   PROVE  /\ rel'.total \in {0, fsize} /\ rel'.offset = 0 /\ stored # "partial"
      BY <1>6, <2>2, <2>3, <2>4, BytesType DEF ServerInv, UnderWay, server, IInv, TypeOK
    <3>2. rel.total \in {0, fsize} /\ (~UseResumableUpload(rel) => rel.offset = 0) /\ stored # "partial"
      BY <3>1 DEF IInv, ServerInv
    <3>3. UseResumableUpload(rel) => UseResumableUpload(r)
      BY <1>4, <3>2, SizesAssumption DEF UseResumableUpload
    <3> QED
      BY <1>4, <1>8, <2>2, <3>2, <3>3
  <2>10. LateInv'
    BY <1>6, <2>4 DEF LateInv, IInv, Possible
  <2>11. SuccessIsCommitted'
    BY <1>6, <2>4 DEF SuccessIsCommitted, IInv, server
  <2> QED
    BY <1>6, <2>5, <2>6, <2>7, <2>8, <2>9, <2>10, <2>11 DEF IInv
<1> QED
  BY <1>7, <1>8

LEMMA OnLinkGetKeeps ==
    ASSUME IInv, NEW opened \in BOOLEAN, OnLinkGet(opened)
    PROVE  IInv'
<1>1. /\ phase \in {"linking", "relinking"} /\ ~canceled
      /\ rel.st \in {"none", "idle"} /\ Start(opened)
      /\ UNCHANGED <<opts, canceled, fsize, server>>
  BY DEF OnLinkGet, IInv, LifeInv
<1> QED
  BY <1>1, StartKeeps

LEMMA RetryKeeps ==
    ASSUME IInv, NEW opened \in BOOLEAN, Retry(opened)
    PROVE  IInv'
<1>1. rel.st = "waiting" /\ UNCHANGED <<opts, canceled, fsize, server>>
  BY DEF Retry
<1>2. CASE ~canceled
  <2>1. phase \in {"linking", "serving", "relinking", "gone"} /\ Start(opened)
    BY <1>1, <1>2 DEF Retry, IInv, LifeInv, TypeOK, Phases
  <2> QED
    BY <1>1, <1>2, <2>1, StartKeeps
<1>3. CASE canceled
  <2>1. rel' = [rel EXCEPT !.st = "idle"] /\ UNCHANGED <<phase, told, mainQ, post, hist>>
    BY <1>3 DEF Retry
  <2>2. rel \in RelType
    BY TypesUnfolded DEF Types, IInv
  <2>3. /\ rel' \in RelType /\ rel'.st = "idle" /\ rel'.resumable = rel.resumable
        /\ rel'.total = rel.total /\ rel'.offset = rel.offset
    BY <2>1, <2>2 DEF RelType
  <2>4. UseResumableUpload(rel') <=> UseResumableUpload(rel)
    BY <2>3 DEF UseResumableUpload
  <2>5. TypeOK'
    BY <1>1, <2>1, <2>3, TypesUnfolded DEF Types, IInv, server
  <2>6. LifeInv'
    BY <1>1, <1>3, <2>1, <2>3 DEF IInv, LifeInv
  <2>7. ActivityInv'
    BY <1>1, <2>1, <2>3 DEF IInv, ActivityInv, UnderWay
  <2>8. PieceInv'
    BY <2>1, <2>3 DEF IInv, PieceInv
  <2>9. ServerInv'
    BY <1>1, <2>1, <2>3, <2>4 DEF IInv, ServerInv, UnderWay, server
  <2>10. LateInv'
    BY <1>1, <2>1 DEF IInv, LateInv, Possible
  <2>11. SuccessIsCommitted'
    BY <1>1, <2>1 DEF IInv, SuccessIsCommitted, server
  <2> QED
    BY <2>1, <2>5, <2>6, <2>7, <2>8, <2>9, <2>10, <2>11 DEF IInv
<1> QED
  BY <1>2, <1>3

\* A step that starts no piece and takes nothing to the server.
LEMMA NothingSent ==
    ASSUME IInv,
           rel'.st \in {rel.st, "waiting", "idle", "gone"},
           rel'.st \in {"waiting", "idle"} => AnswerOf(mainQ') = {} /\ ~UnderWay',
           rel'.resumable = rel.resumable, rel'.total = rel.total, rel'.offset = rel.offset,
           rel'.chunk = rel.chunk,
           post'.st \in {post.st, "gone"}, post'.start = post.start, post'.size = post.size,
           post'.of = post.of, post'.taken = post.taken,
           hist'.edits = hist.edits, hist'.fellBack = hist.fellBack,
           AnswerOf(mainQ') \subseteq AnswerOf(mainQ), UNCHANGED <<fsize, server>>
    PROVE  ActivityInv' /\ PieceInv' /\ ServerInv'
<1> USE DEF IInv
<1>1. /\ UseResumableUpload(rel') <=> UseResumableUpload(rel)
      /\ NextChunk(rel') = NextChunk(rel)
  BY DEF UseResumableUpload, NextChunk
<1>2. UnderWay' => UnderWay
  BY DEF UnderWay
<1>3. ActivityInv'
  BY <1>1, <1>2 DEF ActivityInv
<1>4. PieceInv'
  BY <1>1, <1>2 DEF PieceInv
<1>5. ServerInv'
  BY <1>1, <1>2 DEF ServerInv, server
<1> QED
  BY <1>3, <1>4, <1>5

LEMMA OnGetLinkFailedKeeps ==
    ASSUME IInv, OnGetLinkFailed
    PROVE  IInv'
<1>1. /\ phase \in {"linking", "relinking"} /\ ~canceled
      /\ rel.st \in {"none", "idle"} /\ EmitFinished(FALSE, mainQ)
      /\ UNCHANGED <<opts, canceled, rel, post, fsize, server, hist>>
  BY DEF OnGetLinkFailed, IInv, LifeInv
<1>2. EndOf(mainQ) = {} /\ AnswerOf(mainQ) = {} /\ Types
  BY <1>1, TypesUnfolded DEF IInv, LifeInv, ActivityInv
<1>3. /\ Short(mainQ') /\ mainQ' \in Seq(Events) /\ AnswerOf(mainQ') = {}
      /\ told' \in {"nothing", "success", "failure"} /\ (told' = "success" => told = "success")
      /\ phase' = "finished" /\ EndOf(mainQ') = {[kind |-> "destroy"]}
  <2>1. PICK q : q = mainQ
    OBVIOUS
  <2> QED
    BY <1>1, <1>2, <2>1, FinishedEmitted DEF IInv, Types
<1>4. TypeOK'
  BY <1>1, <1>2, <1>3, TypesUnfolded DEF Types, Phases, server
<1>5. LifeInv'
  BY <1>1, <1>3, NoAnswerFirst DEF LifeInv
<1>6. ActivityInv' /\ PieceInv' /\ ServerInv'
  BY <1>1, <1>2, <1>3, NothingSent DEF IInv, ActivityInv, UnderWay
<1>7. LateInv'
  BY <1>1, <1>3 DEF IInv, LateInv, Possible
<1>8. SuccessIsCommitted'
  BY <1>1, <1>3 DEF IInv, SuccessIsCommitted, server
<1> QED
  BY <1>3, <1>4, <1>5, <1>6, <1>7, <1>8 DEF IInv

LEMMA ContinueWithFailedFileKeeps ==
    ASSUME IInv, ContinueWithFailedFile
    PROVE  IInv'
<1>1. /\ phase = "asking" /\ phase' = "relinking" /\ hist.userRetries < MaxUserRetries
      /\ hist' = [hist EXCEPT !.userRetries = @ + 1]
      /\ UNCHANGED <<opts, canceled, rel, post, mainQ, fsize, server, told>>
  BY DEF ContinueWithFailedFile
<1>2. Types
  BY TypesUnfolded DEF IInv
<1>3. /\ hist' \in HistType /\ hist'.edits = hist.edits /\ hist'.late = hist.late
      /\ hist'.fellBack = hist.fellBack
  <2>1. hist \in HistType
    BY <1>2 DEF Types
  <2>2. hist.userRetries + 1 \in 0..MaxUserRetries
    BY <1>1, <2>1, SizesAssumption DEF HistType
  <2> QED
    BY <1>1, <2>1, <2>2 DEF HistType
<1>4. TypeOK'
  BY <1>1, <1>2, <1>3, TypesUnfolded DEF Types, Phases, server
<1>5. LifeInv'
  BY <1>1 DEF IInv, LifeInv
<1>6. ActivityInv' /\ PieceInv' /\ ServerInv'
  BY <1>1, <1>3, NothingSent DEF IInv, ActivityInv, UnderWay
<1>7. LateInv'
  BY <1>1, <1>3 DEF IInv, LateInv, Possible
<1>8. SuccessIsCommitted'
  BY <1>1, <1>3 DEF IInv, SuccessIsCommitted, server
<1> QED
  BY <1>1, <1>4, <1>5, <1>6, <1>7, <1>8 DEF IInv

LEMMA CancelKeeps ==
    ASSUME IInv, Cancel
    PROVE  IInv'
<1> DEFINE d == [kind |-> "destroy"]
<1>1. /\ phase \notin {"finished", "gone"} /\ phase' = "finished" /\ canceled' = TRUE
      /\ told' = "failure" /\ mainQ' = Append(mainQ, d)
      /\ post' = IF post.st = "none" THEN post ELSE [post EXCEPT !.cancel = TRUE]
      /\ UNCHANGED <<opts, rel, fsize, server, hist>>
  BY DEF Cancel
<1>2. Types
  BY TypesUnfolded DEF IInv
<1>3. d \in Ends /\ d \in Events
  BY DEF Ends, Events
<1> HIDE DEF d
<1>4. PICK q : q = mainQ
  OBVIOUS
<1>5. /\ Short(mainQ') /\ EndOf(mainQ') = {d} /\ AnswerOf(mainQ') = AnswerOf(mainQ)
  BY <1>1, <1>3, <1>4, EndAppended DEF IInv, LifeInv
<1>6. mainQ' \in Seq(Events)
  BY <1>1, <1>2, <1>3 DEF Types
<1>7. /\ post' \in PostType /\ post'.st = post.st /\ post'.start = post.start
      /\ post'.size = post.size /\ post'.of = post.of /\ post'.taken = post.taken
  BY <1>1, <1>2 DEF Types, PostType
<1>8. TypeOK'
  BY <1>1, <1>2, <1>6, <1>7, TypesUnfolded DEF Types, Phases, server
<1>9. LifeInv'
  BY <1>1, <1>5 DEF IInv, LifeInv, d
<1>10. ActivityInv' /\ PieceInv' /\ ServerInv'
  BY <1>1, <1>5, <1>7, NothingSent DEF IInv, ActivityInv, UnderWay
<1>11. LateInv'
  BY <1>1, <1>2 DEF IInv, LateInv, LifeInv, Possible
<1>12. SuccessIsCommitted'
  BY <1>1 DEF SuccessIsCommitted
<1> QED
  BY <1>5, <1>8, <1>9, <1>10, <1>11, <1>12 DEF IInv

\* Facts about the event that is handled, if it is an answer.
LEMMA AnswerHandled ==
    ASSUME IInv, mainQ # <<>>, IsAnswer(Head(mainQ))
    PROVE  /\ Head(mainQ) \in Answers /\ AnswerOf(mainQ) = {Head(mainQ)}
           /\ Short(Tail(mainQ)) /\ Tail(mainQ) \in Seq(Events) /\ AnswerOf(Tail(mainQ)) = {}
           /\ EndOf(Tail(mainQ)) = EndOf(mainQ)
           /\ AnswerFirst(mainQ) /\ ~AnswerFirst(Tail(mainQ))
           /\ ~UnderWay /\ rel.st \in {"posting", "gone"}
           /\ phase = "finished" => canceled
           /\ phase = "finished" => hist.late = 0
           /\ phase = "gone" /\ rel.st # "gone" => hist.late <= 1
           /\ phase \notin {"finished", "gone"} => EndOf(mainQ) = {}
<1>1. Types
  BY TypesUnfolded DEF IInv
<1>2. PICK q : q = mainQ
  OBVIOUS
<1>3. /\ Head(q) \in Answers /\ AnswerOf(q) = {Head(q)} /\ AnswerOf(Tail(q)) = {}
      /\ EndOf(Tail(q)) = EndOf(q) /\ Short(Tail(q)) /\ ~AnswerFirst(Tail(q)) /\ AnswerFirst(q)
  BY <1>2, HeadTaken DEF IInv
<1>4. Tail(mainQ) \in Seq(Events)
  BY <1>1 DEF Types
<1>5. ~UnderWay /\ rel.st \in {"posting", "gone"}
  <2>1. AnswerOf(mainQ) # {}
    BY <1>2, <1>3
  <2> QED
    BY <1>1, <2>1 DEF IInv, ActivityInv, Types, RelType
<1>6. phase = "finished" => canceled
  BY <1>2, <1>3 DEF IInv, LifeInv
<1>7. hist.late \in Nat
  BY <1>1 DEF Types, HistType
<1>8. phase = "finished" => hist.late = 0
  BY <1>2, <1>3, <1>7 DEF IInv, LateInv, Possible
<1>9. phase = "gone" /\ rel.st # "gone" => hist.late <= 1
  <2>1. ASSUME phase = "gone", rel.st # "gone"
        PROVE  EndOf(mainQ) # {}
    BY <1>5, <2>1 DEF IInv, LifeInv
  <2> QED
    BY <1>2, <1>3, <1>7, <2>1 DEF IInv, LateInv, Possible
<1>10. phase \notin {"finished", "gone"} => EndOf(mainQ) = {}
  BY DEF IInv, LifeInv
<1> QED
  BY <1>2, <1>3, <1>4, <1>5, <1>6, <1>8, <1>9, <1>10

LEMMA DropEventKeeps ==
    ASSUME IInv, DropEvent
    PROVE  IInv'
<1>1. /\ mainQ # <<>> /\ IsAnswer(Head(mainQ)) /\ rel.st = "gone" /\ mainQ' = Tail(mainQ)
      /\ UNCHANGED <<opts, phase, canceled, rel, post, fsize, server, told, hist>>
  BY DEF DropEvent, IsAnswer
<1>2. /\ Short(mainQ') /\ mainQ' \in Seq(Events) /\ AnswerOf(mainQ') = {}
      /\ EndOf(mainQ') = EndOf(mainQ) /\ ~AnswerFirst(mainQ')
  BY <1>1, AnswerHandled
<1>3. TypeOK'
  BY <1>1, <1>2, TypesUnfolded DEF IInv, Types, server
<1>4. LifeInv'
  BY <1>1, <1>2 DEF IInv, LifeInv
<1>5. ActivityInv' /\ PieceInv' /\ ServerInv'
  BY <1>1, <1>2, NothingSent DEF IInv, ActivityInv
<1>6. LateInv'
  <2>1. hist.late \in Nat
    BY TypesUnfolded DEF IInv, Types, HistType
  <2> QED
    BY <1>1, <1>2, <2>1 DEF IInv, LateInv, LifeInv, Possible
<1>7. SuccessIsCommitted'
  BY <1>1 DEF IInv, SuccessIsCommitted, server
<1> QED
  BY <1>2, <1>3, <1>4, <1>5, <1>6, <1>7 DEF IInv

\* The answer that is handled starts another piece.
LEMMA PieceFollows ==
    ASSUME IInv, mainQ # <<>>, IsAnswer(Head(mainQ)), rel.st # "gone",
           NEW r \in RelType, StartPostFileTask(r, TRUE), mainQ' = Tail(mainQ),
           UNCHANGED <<opts, phase, canceled, fsize, server, told>>,
           hist.edits = 0 =>
               /\ r.total \in {0, fsize}
               /\ ~UseResumableUpload(r) => r.offset = 0
               /\ r.offset <= received
    PROVE  IInv'
<1>1. /\ Short(mainQ') /\ mainQ' \in Seq(Events) /\ AnswerOf(mainQ') = {}
      /\ EndOf(mainQ') = EndOf(mainQ) /\ ~AnswerFirst(mainQ')
      /\ ~UnderWay /\ rel.st = "posting"
      /\ phase = "finished" => canceled /\ hist.late = 0
      /\ phase = "gone" => hist.late <= 1
  BY AnswerHandled
<1>2. Types
  BY TypesUnfolded DEF IInv
<1>3. /\ rel' \in RelType /\ rel'.st = "posting" /\ rel'.total = r.total /\ rel'.offset = r.offset
      /\ rel'.chunk = NextChunk(r) /\ rel'.chunk = NextChunk(rel')
      /\ UseResumableUpload(rel') <=> UseResumableUpload(r)
  BY <1>2, PieceStarts DEF Types
<1>4. /\ post' \in PostType /\ post'.st = "posted" /\ ~post'.taken
      /\ post'.start = r.offset /\ post'.size = NextChunk(r)
  BY <1>2, PieceStarts DEF Types
<1>5. /\ hist' \in HistType /\ hist'.edits = hist.edits
      /\ hist'.late = IF canceled THEN hist.late + 1 ELSE hist.late
      /\ hist.fellBack => hist'.fellBack
      /\ hist'.fellBack \/ UseResumableUpload(rel') \/ rel'.chunk = 0
  BY <1>2, PieceStarts DEF Types
<1>6. TypeOK'
  BY <1>1, <1>2, <1>3, <1>4, <1>5, TypesUnfolded DEF Types, server
<1>7. LifeInv'
  BY <1>1, <1>3 DEF IInv, LifeInv
<1>8. ActivityInv'
  BY <1>1, <1>3 DEF ActivityInv
<1>9. PieceInv'
  BY <1>3, <1>4, <1>5 DEF PieceInv
<1>10. ServerInv'
  BY <1>1, <1>3, <1>4, <1>5 DEF IInv, ServerInv, UnderWay, server
<1>11. LateInv'
  <2>1. hist.late \in Nat
    BY <1>2 DEF Types, HistType
  <2>2. canceled => phase \in {"finished", "gone"}
    BY DEF IInv, LifeInv
  <2>3. ~canceled => hist.late = 0
    BY DEF IInv, LateInv
  <2>4. Possible' = IF phase = "finished" THEN 1 ELSE 0
    BY <1>1 DEF Possible
  <2> QED
    BY <1>1, <1>5, <2>1, <2>2, <2>3, <2>4 DEF LateInv
<1>12. SuccessIsCommitted'
  BY <1>5 DEF IInv, SuccessIsCommitted, server
<1> QED
  BY <1>1, <1>6, <1>7, <1>8, <1>9, <1>10, <1>11, <1>12 DEF IInv

LEMMA OnGetFileUploadedBytesKeeps ==
    ASSUME IInv, OnGetFileUploadedBytes
    PROVE  IInv'
<1> DEFINE e == Head(mainQ)
<1>1. /\ mainQ # <<>> /\ e.kind = "uploadedBytes" /\ rel.st # "gone"
      /\ StartPostFileTask(WithUploadedBytes(e.ok, e.bytes), TRUE)
      /\ mainQ' = Tail(mainQ) /\ UNCHANGED <<opts, phase, canceled, fsize, server, told>>
  BY DEF OnGetFileUploadedBytes
<1>2. IsAnswer(e)
  BY <1>1 DEF IsAnswer
<1>3. e \in Answers /\ AnswerOf(mainQ) = {e} /\ Types
  BY <1>1, <1>2, AnswerHandled, TypesUnfolded DEF IInv
<1> HIDE DEF e
<1>4. PICK r : r = WithUploadedBytes(e.ok, e.bytes)
  OBVIOUS
<1>5. e.ok \in BOOLEAN /\ e.bytes \in Bytes /\ UseResumableUpload(rel)
  BY <1>1, <1>3 DEF Answers, IInv, ActivityInv
<1>6. r = IF e.ok /\ opts.chunking THEN [rel EXCEPT !.offset = e.bytes]
          ELSE [rel EXCEPT !.resumable = FALSE, !.offset = 0]
  BY <1>4 DEF WithUploadedBytes
<1>7. /\ r \in RelType /\ r.total = rel.total
      /\ IF e.ok /\ opts.chunking THEN r.offset = e.bytes /\ r.resumable = rel.resumable
         ELSE r.offset = 0 /\ ~r.resumable
  BY <1>3, <1>5, <1>6, BytesType DEF Types, RelType
<1>8. ASSUME hist.edits = 0
      PROVE  /\ r.total \in {0, fsize}
             /\ ~UseResumableUpload(r) => r.offset = 0
             /\ r.offset <= received
  <2>1. rel.total \in {0, fsize} /\ (e.ok => e.bytes = received)
    BY <1>1, <1>3, <1>8 DEF IInv, ServerInv
  <2>2. received \in Nat
    BY <1>3, BytesType DEF Types
  <2>3. CASE e.ok /\ opts.chunking
    <3>1. UseResumableUpload(r)
      BY <1>5, <1>7, <2>3 DEF UseResumableUpload
    <3>2. r.offset = e.bytes
      BY <1>7, <2>3
    <3> QED
      BY <1>7, <2>1, <2>2, <2>3, <3>1, <3>2
  <2>4. CASE ~(e.ok /\ opts.chunking)
    BY <1>7, <2>1, <2>2, <2>4
  <2> QED
    BY <2>3, <2>4
<1>9. StartPostFileTask(r, TRUE)
  BY <1>1, <1>4
<1> QED
  BY <1>1, <1>2, <1>7, <1>8, <1>9, PieceFollows DEF e

\* The answer that is handled is the last one the ReliablePostFileTask waits for;
\* it emits finished() now, or rests.
LEMMA AnswerEndsPiece ==
    ASSUME IInv, mainQ # <<>>, IsAnswer(Head(mainQ)), rel.st # "gone",
           NEW st \in {"waiting", "idle"}, rel' \in RelType,
           rel'.st = st, rel'.resumable = rel.resumable, rel'.total = rel.total,
           rel'.offset = rel.offset, rel'.chunk = rel.chunk,
           UNCHANGED <<opts, canceled, post, hist, fsize, server>>,
           phase' \in {phase, "asking", "finished"},
           phase' = "asking" => ~canceled /\ st = "idle" /\ Head(mainQ).kind = "posted",
           phase = "gone" => phase' = "gone",
           phase' = "finished" => phase = "finished" \/ st = "idle",
           Short(mainQ'), mainQ' \in Seq(Events), AnswerOf(mainQ') = {},
           IF phase' = "finished" /\ phase # "finished"
             THEN EndOf(mainQ') = {[kind |-> "destroy"]} ELSE mainQ' = Tail(mainQ),
           told' \in {"nothing", "success", "failure"},
           told' = "success" /\ ~hist.fellBack /\ hist.edits = 0 => stored = "whole"
    PROVE  IInv'
<1>1. /\ EndOf(Tail(mainQ)) = EndOf(mainQ) /\ ~UnderWay /\ rel.st = "posting"
      /\ AnswerOf(mainQ) = {Head(mainQ)}
      /\ phase = "finished" => canceled /\ hist.late = 0
      /\ phase = "gone" => hist.late <= 1
      /\ phase \notin {"finished", "gone"} => EndOf(mainQ) = {}
  BY AnswerHandled
<1>2. Types
  BY TypesUnfolded DEF IInv
<1>3. ~AnswerFirst(mainQ')
  <2>1. PICK q : q = mainQ'
    OBVIOUS
  <2> QED
    BY <2>1, NoAnswerFirst
<1>4. phase' \in Phases
  BY <1>2 DEF Types, Phases
<1>5. TypeOK'
  BY <1>2, <1>4, TypesUnfolded DEF Types, server
<1>6. phase' = "asking" => phase # "finished" /\ post.st \in {"over", "gone"}
  BY <1>1 DEF IInv, ActivityInv
<1>7. phase \notin {"linking", "asking", "relinking"}
  BY <1>1 DEF IInv, LifeInv
<1>8. LifeInv'
  BY <1>1, <1>3, <1>6, <1>7 DEF IInv, LifeInv
<1>9. ActivityInv' /\ PieceInv' /\ ServerInv'
  BY <1>1, NothingSent DEF UnderWay
<1>10. LateInv'
  <2>1. hist.late \in Nat /\ (~canceled => hist.late = 0) /\ (canceled => phase \in {"finished", "gone"})
    BY <1>2 DEF Types, HistType, IInv, LateInv, LifeInv
  <2>2. Possible' = IF phase' = "finished" THEN 1 ELSE 0
    BY <1>3 DEF Possible
  <2> QED
    BY <1>1, <2>1, <2>2 DEF LateInv
<1>11. SuccessIsCommitted'
  BY DEF SuccessIsCommitted, server
<1> QED
  BY <1>5, <1>8, <1>9, <1>10, <1>11 DEF IInv

LEMMA OnPostFileTaskFinishedKeeps ==
    ASSUME IInv, OnPostFileTaskFinished
    PROVE  IInv'
<1> DEFINE e == Head(mainQ)
<1>1. /\ mainQ # <<>> /\ e.kind = "posted" /\ rel.st # "gone"
      /\ UNCHANGED <<opts, canceled, fsize, server>>
  BY DEF OnPostFileTaskFinished
<1>2. IsAnswer(e)
  BY <1>1 DEF IsAnswer
<1>3. /\ e \in Answers /\ AnswerOf(mainQ) = {e} /\ Types
      /\ Short(Tail(mainQ)) /\ Tail(mainQ) \in Seq(Events) /\ AnswerOf(Tail(mainQ)) = {}
      /\ EndOf(Tail(mainQ)) = EndOf(mainQ) /\ rel.st = "posting"
      /\ phase = "finished" => canceled
      /\ canceled => phase \in {"finished", "gone"}
      /\ phase \notin {"finished", "gone"} => EndOf(mainQ) = {}
  BY <1>1, <1>2, AnswerHandled, TypesUnfolded DEF IInv, LifeInv
<1>4. told = "success" /\ ~hist.fellBack /\ hist.edits = 0 => stored = "whole"
  BY DEF IInv, SuccessIsCommitted
\* The end of the upload, which the user is told unless it has ended before.
<1>5. ASSUME NEW success \in BOOLEAN, EmitFinished(success, Tail(mainQ)),
             rel' = [rel EXCEPT !.st = "idle"], UNCHANGED <<post, hist>>,
             success /\ ~hist.fellBack /\ hist.edits = 0 => stored = "whole"
      PROVE  IInv'
  <2>1. PICK q : q = Tail(mainQ)
    OBVIOUS
  <2>2. EmitFinished(success, q) /\ Short(q) /\ q \in Seq(Events)
    BY <1>3, <1>5, <2>1
  <2>3. /\ phase \in Phases /\ told \in {"nothing", "success", "failure"}
        /\ phase \notin {"finished", "gone"} => EndOf(q) = {}
    BY <1>3, <2>1 DEF Types
  <2>4. /\ Short(mainQ') /\ mainQ' \in Seq(Events) /\ AnswerOf(mainQ') = {}
        /\ told' \in {"nothing", "success", "failure"}
        /\ told' = "success" => told = "success" \/ success
        /\ IF phase \in {"finished", "gone"} THEN mainQ' = q /\ phase' = phase
           ELSE phase' = "finished" /\ EndOf(mainQ') = {[kind |-> "destroy"]}
    BY <1>3, <2>1, <2>2, <2>3, FinishedEmitted
  <2>5. PICK st \in {"waiting", "idle"} : st = "idle"
    OBVIOUS
  <2>6. /\ rel' \in RelType /\ rel'.st = st /\ rel'.resumable = rel.resumable
        /\ rel'.total = rel.total /\ rel'.offset = rel.offset /\ rel'.chunk = rel.chunk
    BY <1>3, <1>5, <2>5 DEF Types, RelType
  <2>7. told' = "success" /\ ~hist.fellBack /\ hist.edits = 0 => stored = "whole"
    BY <1>4, <1>5, <2>4
  <2>8. IF phase' = "finished" /\ phase # "finished"
          THEN EndOf(mainQ') = {[kind |-> "destroy"]} ELSE mainQ' = Tail(mainQ)
    BY <2>1, <2>4
  <2>9. /\ phase' \in {phase, "asking", "finished"}
        /\ phase' = "asking" => ~canceled /\ st = "idle" /\ Head(mainQ).kind = "posted"
        /\ phase = "gone" => phase' = "gone"
        /\ phase' = "finished" => phase = "finished" \/ st = "idle"
    BY <1>1, <1>3, <2>4, <2>5 DEF IInv, LifeInv
  <2>10. UNCHANGED <<opts, canceled, post, hist, fsize, server>>
    BY <1>1, <1>5
  <2> QED
    BY <1>1, <1>2, <2>4, <2>6, <2>7, <2>8, <2>9, <2>10, AnswerEndsPiece
<1>6. CASE e.result = "quota"
  BY <1>6, <1>5 DEF OnPostFileTaskFinished
<1>7. CASE e.result # "quota" /\ MaybeRetry(e.result)
  <2>1. /\ rel' = [rel EXCEPT !.st = "waiting", !.retries = @ + 1]
        /\ mainQ' = Tail(mainQ)
        /\ UNCHANGED <<phase, told, post, hist>>
    BY <1>7 DEF OnPostFileTaskFinished
  <2>2. rel.retries < MaxRetry
    BY <1>7 DEF MaybeRetry
  <2>3. PICK st \in {"waiting", "idle"} : st = "waiting"
    OBVIOUS
  <2>4. /\ rel' \in RelType /\ rel'.st = st /\ rel'.resumable = rel.resumable
        /\ rel'.total = rel.total /\ rel'.offset = rel.offset /\ rel'.chunk = rel.chunk
    <3>1. rel \in RelType /\ rel.retries + 1 \in 0..MaxRetry
      BY <1>3, <2>2, SizesAssumption DEF Types, RelType
    <3> QED
      BY <2>1, <2>3, <3>1 DEF RelType
  <2>5. UNCHANGED <<opts, canceled, post, hist, fsize, server>> /\ phase' = phase /\ told' = told
    BY <1>1, <2>1
  <2>6. phase # "asking"
    BY <1>3 DEF IInv, LifeInv
  <2>7. told \in {"nothing", "success", "failure"}
    BY <1>3 DEF Types
  <2> QED
    BY <1>1, <1>2, <1>3, <1>4, <2>1, <2>4, <2>5, <2>6, <2>7, AnswerEndsPiece
<1>8. CASE /\ e.result # "quota" /\ ~MaybeRetry(e.result) /\ e.result # "ok"
  <2>1. rel' = [rel EXCEPT !.st = "idle"] /\ AskOrFinish(~canceled /\ opts.confirm)
    BY <1>8 DEF OnPostFileTaskFinished, HandlePostFileTaskFailure
  <2>2. CASE ~(~canceled /\ opts.confirm)
    <3>1. EmitFinished(FALSE, Tail(mainQ)) /\ UNCHANGED <<post, hist>>
      BY <2>1, <2>2 DEF AskOrFinish
    <3> QED
      BY <1>5, <2>1, <3>1
  <2>3. CASE ~canceled /\ opts.confirm
    <3>1. /\ phase' = IF phase = "gone" THEN phase ELSE "asking"
          /\ mainQ' = Tail(mainQ) /\ UNCHANGED <<told, post, hist>>
      BY <2>1, <2>3 DEF AskOrFinish
    <3>2. PICK st \in {"waiting", "idle"} : st = "idle"
      OBVIOUS
    <3>3. /\ rel' \in RelType /\ rel'.st = st /\ rel'.resumable = rel.resumable
          /\ rel'.total = rel.total /\ rel'.offset = rel.offset /\ rel'.chunk = rel.chunk
      BY <1>3, <2>1, <3>2 DEF Types, RelType
    <3>4. UNCHANGED <<opts, canceled, post, hist, fsize, server>> /\ told' = told
      BY <1>1, <3>1
    <3>5. told \in {"nothing", "success", "failure"} /\ phase' # "finished"
      BY <1>3, <3>1 DEF Types
    <3> QED
      BY <1>1, <1>2, <1>3, <1>4, <2>3, <3>1, <3>2, <3>3, <3>4, <3>5, AnswerEndsPiece
  <2> QED
    BY <2>2, <2>3
<1>9. CASE e.result = "ok"
  <2> HIDE DEF e
  <2>1. ~MaybeRetry(e.result) /\ e.result # "quota"
    BY <1>9 DEF MaybeRetry
  <2>2. /\ post.taken /\ post.start = rel.offset /\ post.size = rel.chunk /\ rel.chunk = NextChunk(rel)
        /\ hist.fellBack \/ UseResumableUpload(rel) \/ rel.chunk = 0
    BY <1>1, <1>3, <1>9 DEF IInv, ActivityInv, PieceInv
  <2>3. hist.edits = 0 =>
            /\ rel.total \in {0, fsize} /\ post.of = fsize
            /\ \/ post.size = 0 /\ stored = "whole"
               \/ post.start + post.size = post.of /\ stored = "whole"
               \/ /\ post.size > 0
                  /\ post.start + post.size < post.of /\ post.start + post.size <= received
    BY <2>2 DEF IInv, ServerInv
  <2>4. /\ rel.offset \in Nat /\ rel.chunk \in Nat /\ rel.total \in Bytes /\ rel.total \in Nat
        /\ MinChunked \in Nat /\ ChunkSize \in Nat \ {0}
    <3>1. rel.offset \in Bytes /\ rel.chunk \in 0..ChunkSize /\ rel.total \in Bytes
      BY <1>3 DEF Types, RelType
    <3>2. rel.offset \in Nat /\ rel.total \in Nat
      BY <3>1, BytesType
    <3>3. ChunkSize \in Nat \ {0} /\ MinChunked \in Nat
      BY SizesAssumption
    <3> QED
      BY <3>1, <3>2, <3>3
  <2>5. CASE IsLast
    <3>1. EmitFinished(TRUE, Tail(mainQ)) /\ rel' = [rel EXCEPT !.st = "idle"] /\ UNCHANGED <<post, hist>>
      BY <1>9, <2>1, <2>5 DEF OnPostFileTaskFinished, e
    <3>2. ~hist.fellBack /\ hist.edits = 0 => stored = "whole"
      <4>1. CASE UseResumableUpload(rel)
        <5>1. rel.total > MinChunked /\ rel.offset + rel.chunk >= rel.total
          BY <2>5, <4>1 DEF IsLast, UseResumableUpload
        <5> QED
          BY <2>2, <2>3, <2>4, <5>1
      <4>2. CASE ~UseResumableUpload(rel)
        BY <2>2, <2>3, <4>2
      <4> QED
        BY <4>1, <4>2
    <3> QED
      BY <1>5, <3>1, <3>2
  <2>6. CASE ~IsLast
    <3>1. /\ StartPostFileTask([rel EXCEPT !.offset = @ + rel.chunk], TRUE)
          /\ mainQ' = Tail(mainQ) /\ UNCHANGED <<phase, told>>
      BY <1>9, <2>1, <2>6 DEF OnPostFileTaskFinished, e
    <3>2. UseResumableUpload(rel) /\ rel.offset + rel.chunk < rel.total
      BY <2>4, <2>6 DEF IsLast
    <3>3. PICK r : r = [rel EXCEPT !.offset = rel.offset + rel.chunk]
      OBVIOUS
    <3>4. rel.offset + rel.chunk \in Bytes
      BY <2>4, <3>2, BytesBelow
    <3>5. /\ r \in RelType /\ r.total = rel.total /\ r.offset = rel.offset + rel.chunk
          /\ r.resumable = rel.resumable
      BY <1>3, <3>3, <3>4 DEF Types, RelType
    <3>6. UseResumableUpload(r)
      BY <3>2, <3>5 DEF UseResumableUpload
    <3>7. rel.chunk # 0
      BY <2>2, <2>4, <3>2 DEF NextChunk
    <3>8. hist.edits = 0 => r.total \in {0, fsize} /\ r.offset <= received
      BY <2>2, <2>3, <2>4, <3>2, <3>5, <3>7
    <3>9. StartPostFileTask(r, TRUE)
      BY <3>1, <3>3
    <3> QED
      BY <1>1, <1>2, <3>1, <3>5, <3>6, <3>8, <3>9, PieceFollows DEF e
  <2> QED
    BY <2>5, <2>6
<1> QED
  BY <1>6, <1>7, <1>8, <1>9

LEMMA HandleDestroyKeeps ==
    ASSUME IInv, HandleDestroy
    PROVE  IInv'
<1> DEFINE d == [kind |-> "destroyRel"]
<1>1. /\ mainQ # <<>> /\ Head(mainQ).kind = "destroy" /\ phase' = "gone"
      /\ mainQ' = IF rel.st = "none" THEN Tail(mainQ) ELSE Append(Tail(mainQ), d)
      /\ UNCHANGED <<opts, canceled, rel, post, fsize, server, told, hist>>
  BY DEF HandleDestroy
<1>2. Types
  BY TypesUnfolded DEF IInv
<1>3. d \in Ends /\ d \in Events
  BY DEF Ends, Events
<1> HIDE DEF d
<1>4. PICK q : q = Tail(mainQ)
  OBVIOUS
<1>5. /\ Short(q) /\ EndOf(q) = {} /\ EndOf(mainQ) = {Head(mainQ)}
      /\ AnswerOf(q) = AnswerOf(mainQ) /\ ~AnswerFirst(mainQ)
      /\ AnswerFirst(q) <=> AnswerOf(mainQ) # {}
  <2>1. PICK whole : whole = mainQ
    OBVIOUS
  <2>2. Short(whole) /\ whole # <<>> /\ ~IsAnswer(Head(whole)) /\ q = Tail(whole)
    BY <1>1, <1>4, <2>1 DEF IInv, IsAnswer
  <2> QED
    BY <2>1, <2>2, HeadTaken
<1>6. phase = "finished"
  <2>1. EndOf(mainQ) # {} /\ \A e \in EndOf(mainQ) : e.kind = "destroy"
    BY <1>1, <1>5
  <2> QED
    BY <2>1 DEF IInv, LifeInv
<1>7. /\ Short(mainQ') /\ mainQ' \in Seq(Events) /\ AnswerOf(mainQ') = AnswerOf(mainQ)
      /\ EndOf(mainQ') = IF rel.st = "none" THEN {} ELSE {d}
  <2>1. q \in Seq(Events)
    BY <1>1, <1>2, <1>4 DEF Types
  <2>2. CASE rel.st = "none"
    BY <1>1, <1>4, <1>5, <2>1, <2>2
  <2>3. CASE rel.st # "none"
    <3>1. mainQ' = Append(q, d)
      BY <1>1, <1>4, <2>3
    <3>2. mainQ' \in Seq(Events)
      BY <1>3, <2>1, <3>1
    <3> QED
      BY <1>3, <1>5, <2>3, <3>1, <3>2, EndAppended
  <2> QED
    BY <2>2, <2>3
<1>8. TypeOK'
  BY <1>1, <1>2, <1>7, TypesUnfolded DEF Types, Phases, server
<1>9. LifeInv'
  BY <1>1, <1>6, <1>7 DEF IInv, LifeInv, d
<1>10. ActivityInv' /\ PieceInv' /\ ServerInv'
  BY <1>1, <1>7, NothingSent DEF IInv, ActivityInv, UnderWay
<1>11. LateInv'
  <2>1. hist.late \in Nat
    BY <1>2 DEF Types, HistType
  <2> QED
    BY <1>1, <1>5, <1>6, <2>1 DEF IInv, LateInv, Possible
<1>12. SuccessIsCommitted'
  BY <1>1 DEF IInv, SuccessIsCommitted, server
<1> QED
  BY <1>7, <1>8, <1>9, <1>10, <1>11, <1>12 DEF IInv

LEMMA HandleDestroyRelKeeps ==
    ASSUME IInv, HandleDestroyRel
    PROVE  IInv'
<1>1. /\ mainQ # <<>> /\ Head(mainQ).kind = "destroyRel" /\ mainQ' = Tail(mainQ)
      /\ rel' = [rel EXCEPT !.st = "gone"]
      /\ post' = IF post.st = "none" THEN post ELSE [post EXCEPT !.destroy = TRUE]
      /\ UNCHANGED <<opts, phase, canceled, fsize, server, told, hist>>
  BY DEF HandleDestroyRel
<1>2. Types
  BY TypesUnfolded DEF IInv
<1>3. /\ Short(mainQ') /\ EndOf(mainQ') = {} /\ EndOf(mainQ) = {Head(mainQ)}
      /\ AnswerOf(mainQ') = AnswerOf(mainQ)
  <2>1. PICK q : q = mainQ
    OBVIOUS
  <2>2. Short(q) /\ q # <<>> /\ ~IsAnswer(Head(q)) /\ mainQ' = Tail(q)
    BY <1>1, <2>1 DEF IInv, IsAnswer
  <2> QED
    BY <2>1, <2>2, HeadTaken
<1>4. phase = "gone"
  <2>1. EndOf(mainQ) # {} /\ \A e \in EndOf(mainQ) : e.kind = "destroyRel"
    BY <1>1, <1>3
  <2> QED
    BY <2>1 DEF IInv, LifeInv
<1>5. mainQ' \in Seq(Events)
  BY <1>1, <1>2 DEF Types
<1>6. /\ rel' \in RelType /\ rel'.st = "gone" /\ rel'.resumable = rel.resumable
      /\ rel'.total = rel.total /\ rel'.offset = rel.offset /\ rel'.chunk = rel.chunk
  BY <1>1, <1>2 DEF Types, RelType
<1>7. /\ post' \in PostType /\ post'.st = post.st /\ post'.start = post.start
      /\ post'.size = post.size /\ post'.of = post.of /\ post'.taken = post.taken
  BY <1>1, <1>2 DEF Types, PostType
<1>8. TypeOK'
  BY <1>1, <1>2, <1>5, <1>6, <1>7, TypesUnfolded DEF Types, server
<1>9. LifeInv'
  BY <1>1, <1>3, <1>4, <1>6 DEF IInv, LifeInv
<1>10. ActivityInv' /\ PieceInv' /\ ServerInv'
  BY <1>1, <1>3, <1>6, <1>7, NothingSent
<1>11. LateInv'
  <2>1. hist.late \in Nat
    BY <1>2 DEF Types, HistType
  <2> QED
    BY <1>1, <1>3, <1>4, <2>1 DEF IInv, LateInv, Possible
<1>12. SuccessIsCommitted'
  BY <1>1 DEF IInv, SuccessIsCommitted, server
<1> QED
  BY <1>3, <1>8, <1>9, <1>10, <1>11, <1>12 DEF IInv

-----------------------------------------------------------------------------
(* The steps of the worker thread, of the server and of other programs.    *)

\* The PostFileTask that runs ends, and reports how.
LEMMA PieceReported ==
    ASSUME IInv, UnderWay, NEW result \in Results, Report(result),
           post' \in PostType, post'.st = "over", post'.start = post.start,
           post'.size = post.size, post'.of = post.of, post'.taken = post.taken,
           result = "ok" => post.taken, UNCHANGED <<reliable, fsize, server>>
    PROVE  IInv'
<1> DEFINE a == [kind |-> "posted", result |-> result]
<1>1. mainQ' = Append(mainQ, a) /\ a \in Answers /\ a \in Events
  BY DEF Report, Answers, Events
<1>2. a.kind = "posted" /\ a.result = result
  OBVIOUS
<1> HIDE DEF a
<1>3. Types
  BY TypesUnfolded DEF IInv
<1>4. AnswerOf(mainQ) = {} /\ rel.st \in {"posting", "gone"}
  BY <1>3 DEF IInv, ActivityInv, Types, RelType
<1>5. /\ Short(mainQ') /\ AnswerOf(mainQ') = {a} /\ EndOf(mainQ') = EndOf(mainQ)
      /\ ~AnswerFirst(mainQ)
      /\ AnswerFirst(mainQ') <=> EndOf(mainQ) = {}
  <2>1. PICK q : q = mainQ
    OBVIOUS
  <2> QED
    BY <1>1, <1>4, <2>1, AnswerAppended DEF IInv
<1>6. mainQ' \in Seq(Events)
  BY <1>1, <1>3 DEF Types
<1>7. TypeOK'
  BY <1>3, <1>6, TypesUnfolded DEF Types, reliable, server
<1>8. LifeInv'
  BY <1>4, <1>5 DEF IInv, LifeInv, reliable
<1>9. ActivityInv'
  BY <1>2, <1>4, <1>5 DEF ActivityInv, UnderWay, reliable
<1>10. PieceInv'
  BY <1>4 DEF IInv, PieceInv, UnderWay, reliable
<1>11. ServerInv'
  BY <1>2, <1>5 DEF IInv, ServerInv, UnderWay, reliable, server
<1>12. LateInv'
  <2>1. hist.late \in Nat
    BY <1>3 DEF Types, HistType
  <2> QED
    BY <1>5, <2>1 DEF IInv, LateInv, LifeInv, Possible, reliable
<1>13. SuccessIsCommitted'
  BY DEF IInv, SuccessIsCommitted, reliable, server
<1> QED
  BY <1>5, <1>7, <1>8, <1>9, <1>10, <1>11, <1>12, <1>13 DEF IInv

LEMMA ReportsKeep ==
    ASSUME IInv, \/ MapFails \/ RequestSucceeds
                 \/ \E result \in {"api", "quota"} : RequestFails(result)
    PROVE  IInv'
<1>1. PICK result \in Results :
          /\ UnderWay /\ Report(result) /\ post' = [post EXCEPT !.st = "over"]
          /\ result = "ok" => post.taken
          /\ UNCHANGED <<reliable, fsize, server>>
  BY DEF MapFails, RequestSucceeds, RequestFails, UnderWay, Results
<1>2. post \in PostType
  BY TypesUnfolded DEF IInv, Types
<1>3. /\ post' \in PostType /\ post'.st = "over" /\ post'.start = post.start
      /\ post'.size = post.size /\ post'.of = post.of /\ post'.taken = post.taken
  BY <1>1, <1>2 DEF PostType
<1> QED
  BY <1>1, <1>3, PieceReported

LEMMA CancelPostKeeps ==
    ASSUME IInv, CancelPost
    PROVE  IInv'
<1>1. /\ post.cancel /\ post.st \in {"running", "over"}
      /\ post' = [post EXCEPT !.st = "over", !.cancel = FALSE]
      /\ UNCHANGED <<reliable, fsize, server>>
      /\ IF post.st = "running" THEN Report("canceled") ELSE UNCHANGED mainQ
  BY DEF CancelPost
<1>2. Types
  BY TypesUnfolded DEF IInv
<1>3. /\ post' \in PostType /\ post'.st = "over" /\ post'.start = post.start
      /\ post'.size = post.size /\ post'.of = post.of /\ post'.taken = post.taken
  BY <1>1, <1>2 DEF Types, PostType
<1>4. CASE post.st = "running"
  <2>1. PICK result \in Results : result = "canceled"
    BY DEF Results
  <2>2. UnderWay /\ Report(result) /\ result # "ok"
    BY <1>1, <1>4, <2>1 DEF UnderWay
  <2> QED
    BY <1>1, <1>3, <2>2, PieceReported
<1>5. CASE post.st = "over"
  <2>1. mainQ' = mainQ
    BY <1>1, <1>5
  <2>2. TypeOK'
    BY <1>1, <1>2, <1>3, <2>1, TypesUnfolded DEF Types, reliable, server
  <2>3. LifeInv'
    BY <1>1, <1>3, <2>1 DEF IInv, LifeInv, reliable
  <2>4. ActivityInv' /\ PieceInv' /\ ServerInv'
    BY <1>1, <1>3, <1>5, <2>1, NothingSent DEF IInv, ActivityInv, UnderWay, reliable
  <2>5. LateInv' /\ SuccessIsCommitted'
    BY <1>1, <2>1 DEF IInv, LateInv, Possible, SuccessIsCommitted, reliable, server
  <2> QED
    BY <2>1, <2>2, <2>3, <2>4, <2>5 DEF IInv
<1> QED
  BY <1>1, <1>4, <1>5

LEMMA DestroyPostKeeps ==
    ASSUME IInv, DestroyPost
    PROVE  IInv'
<1>1. /\ post' = [post EXCEPT !.st = "gone", !.destroy = FALSE]
      /\ UNCHANGED <<opts, phase, canceled, rel, told, hist, mainQ, fsize, received, stored>>
  BY DEF DestroyPost, reliable, server
<1>2. Types
  BY TypesUnfolded DEF IInv
<1>3. /\ post' \in PostType /\ post'.st = "gone" /\ post'.start = post.start
      /\ post'.size = post.size /\ post'.of = post.of /\ post'.taken = post.taken
  BY <1>1, <1>2 DEF Types, PostType
<1>4. TypeOK'
  BY <1>1, <1>2, <1>3, TypesUnfolded DEF Types
<1>5. LifeInv'
  BY <1>1, <1>3 DEF IInv, LifeInv
<1>6. ActivityInv' /\ PieceInv' /\ ServerInv'
  BY <1>1, <1>3, NothingSent DEF IInv, ActivityInv, UnderWay, server
<1>7. LateInv' /\ SuccessIsCommitted'
  BY <1>1 DEF IInv, LateInv, Possible, SuccessIsCommitted
<1> QED
  BY <1>1, <1>4, <1>5, <1>6, <1>7 DEF IInv

LEMMA SendRequestKeeps ==
    ASSUME IInv, SendRequest
    PROVE  IInv'
<1>1. /\ post.st = "posted" /\ post' = [post EXCEPT !.st = "running", !.of = fsize]
      /\ UNCHANGED <<opts, phase, canceled, rel, told, hist, mainQ, fsize, received, stored>>
  BY DEF SendRequest, reliable, server
<1>2. Types
  BY TypesUnfolded DEF IInv
<1>3. /\ post' \in PostType /\ post'.st = "running" /\ post'.start = post.start
      /\ post'.size = post.size /\ post'.of = fsize /\ post'.taken = post.taken
  BY <1>1, <1>2, BytesType DEF Types, PostType
<1>4. AnswerOf(mainQ) = {} /\ ~post.taken
  BY <1>1 DEF IInv, ActivityInv, PieceInv, UnderWay
<1>5. TypeOK'
  BY <1>1, <1>2, <1>3, TypesUnfolded DEF Types
<1>6. LifeInv'
  BY <1>1, <1>3 DEF IInv, LifeInv
<1>7. ActivityInv'
  BY <1>1, <1>3, <1>4 DEF IInv, ActivityInv, UnderWay
<1>8. PieceInv'
  BY <1>1, <1>3 DEF IInv, PieceInv, UnderWay
<1>9. ServerInv'
  BY <1>1, <1>3, <1>4 DEF IInv, ServerInv, UnderWay
<1>10. LateInv' /\ SuccessIsCommitted'
  BY <1>1 DEF IInv, LateInv, Possible, SuccessIsCommitted
<1> QED
  BY <1>1, <1>5, <1>6, <1>7, <1>8, <1>9, <1>10 DEF IInv

LEMMA ServerTakesKeeps ==
    ASSUME IInv, ServerTakes
    PROVE  IInv'
<1> DEFINE end == post.start + post.size
<1>1. /\ post.st = "running" /\ ~post.taken
      /\ post.size > 0 => end <= post.of
      /\ post' = [post EXCEPT !.taken = TRUE]
      /\ UNCHANGED <<opts, phase, canceled, rel, told, hist, mainQ, fsize>>
      /\ IF post.size = 0
         THEN stored' = "whole" /\ received' = received
         ELSE IF end # post.of
         THEN received' = (IF end > received THEN end ELSE received) /\ stored' = stored
         ELSE /\ stored' = IF post.start <= received THEN "whole" ELSE "partial"
              /\ received' = 0
  BY DEF ServerTakes, reliable
<1>2. Types
  BY TypesUnfolded DEF IInv
<1>3. /\ post.start \in Nat /\ post.size \in Nat /\ post.of \in Bytes /\ post.of \in Nat
      /\ received \in Bytes /\ received \in Nat /\ end \in Nat
  <2>1. post.start \in Bytes /\ post.of \in Bytes /\ post.size \in 0..ChunkSize /\ received \in Bytes
    BY <1>2 DEF Types, PostType
  <2>2. post.start \in Nat /\ post.of \in Nat /\ received \in Nat
    BY <2>1, BytesType
  <2> QED
    BY <2>1, <2>2, SizesAssumption
<1>4. /\ post' \in PostType /\ post'.st = post.st /\ post'.start = post.start
      /\ post'.size = post.size /\ post'.of = post.of /\ post'.taken
  BY <1>1, <1>2 DEF Types, PostType
<1>5. AnswerOf(mainQ) = {}
  BY <1>1 DEF IInv, ActivityInv, UnderWay
<1>6. received' \in Bytes /\ stored' \in {"nothing", "whole", "partial"}
  <2>1. end <= post.of => end \in Bytes
    BY <1>3, BytesBelow
  <2> QED
    BY <1>1, <1>2, <1>3, <2>1, BytesType DEF Types
<1>7. TypeOK'
  BY <1>1, <1>2, <1>4, <1>6, TypesUnfolded DEF Types
<1>8. LifeInv'
  BY <1>1, <1>4 DEF IInv, LifeInv
<1>9. ActivityInv'
  BY <1>1, <1>4, <1>5 DEF IInv, ActivityInv, UnderWay
<1>10. PieceInv'
  BY <1>1, <1>4 DEF IInv, PieceInv, UnderWay
<1>11. hist.edits = 0 =>
           /\ stored' # "partial" /\ (stored = "whole" => stored' = "whole")
           /\ \/ post.size = 0 /\ stored' = "whole"
              \/ end = post.of /\ stored' = "whole"
              \/ post.size > 0 /\ end < post.of /\ end <= received'
  <2>1. hist.edits = 0 => stored # "partial" /\ (post.size > 0 => post.start <= received)
    BY <1>1 DEF IInv, ServerInv, UnderWay
  <2> QED
    BY <1>1, <1>3, <2>1
<1>12. ServerInv'
  BY <1>1, <1>4, <1>5, <1>11 DEF IInv, ServerInv, UnderWay
<1>13. LateInv'
  BY <1>1 DEF IInv, LateInv, Possible
<1>14. SuccessIsCommitted'
  BY <1>1, <1>11 DEF IInv, SuccessIsCommitted
<1> QED
  BY <1>1, <1>7, <1>8, <1>9, <1>10, <1>12, <1>13, <1>14 DEF IInv

LEMMA AnswerUploadedBytesKeeps ==
    ASSUME IInv, NEW ok \in BOOLEAN, AnswerUploadedBytes(ok)
    PROVE  IInv'
<1>1. PICK bytes : bytes = IF ok THEN received ELSE 0
  OBVIOUS
<1> DEFINE a == [kind |-> "uploadedBytes", ok |-> ok, bytes |-> bytes]
<1>2. /\ rel.st = "querying" /\ rel' = [rel EXCEPT !.st = "posting"]
      /\ mainQ' = Append(mainQ, a)
      /\ UNCHANGED <<opts, phase, canceled, post, fsize, received, stored, told, hist>>
  BY <1>1 DEF AnswerUploadedBytes, server
<1>3. Types
  BY TypesUnfolded DEF IInv
<1>4. bytes \in Bytes
  BY <1>1, <1>3, BytesType DEF Types
<1>5. /\ a \in Answers /\ a \in Events
      /\ a.kind = "uploadedBytes" /\ (a.ok => a.bytes = received)
  BY <1>1, <1>4 DEF Answers, Events
<1> HIDE DEF a
<1>6. AnswerOf(mainQ) = {} /\ ~UnderWay /\ UseResumableUpload(rel)
  BY <1>2 DEF IInv, ActivityInv
<1>7. /\ Short(mainQ') /\ AnswerOf(mainQ') = {a} /\ EndOf(mainQ') = EndOf(mainQ)
      /\ ~AnswerFirst(mainQ)
      /\ AnswerFirst(mainQ') <=> EndOf(mainQ) = {}
  <2>1. PICK q : q = mainQ
    OBVIOUS
  <2> QED
    BY <1>2, <1>5, <1>6, <2>1, AnswerAppended DEF IInv
<1>8. mainQ' \in Seq(Events)
  BY <1>2, <1>3, <1>5 DEF Types
<1>9. /\ rel' \in RelType /\ rel'.st = "posting" /\ rel'.resumable = rel.resumable
      /\ rel'.total = rel.total /\ rel'.offset = rel.offset
  BY <1>2, <1>3 DEF Types, RelType
<1>10. UseResumableUpload(rel')
  BY <1>6, <1>9 DEF UseResumableUpload
<1>11. TypeOK'
  BY <1>2, <1>3, <1>8, <1>9, TypesUnfolded DEF Types
<1>12. LifeInv'
  BY <1>2, <1>7, <1>9 DEF IInv, LifeInv
<1>13. ActivityInv'
  BY <1>2, <1>5, <1>6, <1>7, <1>9, <1>10 DEF ActivityInv, UnderWay
<1>14. PieceInv'
  BY <1>2, <1>5, <1>6, <1>7 DEF IInv, PieceInv, UnderWay
<1>15. ServerInv'
  BY <1>2, <1>5, <1>6, <1>7, <1>9, <1>10 DEF IInv, ServerInv, UnderWay
<1>16. LateInv'
  <2>1. hist.late \in Nat
    BY <1>3 DEF Types, HistType
  <2> QED
    BY <1>2, <1>7, <2>1 DEF IInv, LateInv, LifeInv, Possible
<1>17. SuccessIsCommitted'
  BY <1>2 DEF IInv, SuccessIsCommitted
<1> QED
  BY <1>7, <1>11, <1>12, <1>13, <1>14, <1>15, <1>16, <1>17 DEF IInv

LEMMA EditKeeps ==
    ASSUME IInv, NEW size \in Sizes, Edit(size)
    PROVE  IInv'
<1>1. /\ hist.edits < MaxEdits /\ fsize' = size /\ hist' = [hist EXCEPT !.edits = @ + 1]
      /\ UNCHANGED <<opts, phase, canceled, rel, post, mainQ, received, stored, told>>
  BY DEF Edit, server
<1>2. Types
  BY TypesUnfolded DEF IInv
<1>3. /\ hist' \in HistType /\ hist'.edits # 0 /\ hist'.late = hist.late
      /\ hist'.fellBack = hist.fellBack
  <2>1. hist \in HistType /\ hist.edits + 1 \in 0..MaxEdits /\ hist.edits + 1 # 0
    BY <1>1, <1>2, SizesAssumption DEF Types, HistType
  <2> QED
    BY <1>1, <2>1 DEF HistType
<1>4. TypeOK'
  BY <1>1, <1>2, <1>3, TypesUnfolded DEF Types
<1>5. LifeInv' /\ ActivityInv' /\ PieceInv'
  BY <1>1, <1>3 DEF IInv, LifeInv, ActivityInv, PieceInv, UnderWay
<1>6. ServerInv' /\ SuccessIsCommitted'
  BY <1>3 DEF ServerInv, SuccessIsCommitted
<1>7. LateInv'
  BY <1>1, <1>3 DEF IInv, LateInv, Possible
<1> QED
  BY <1>1, <1>4, <1>5, <1>6, <1>7 DEF IInv

-----------------------------------------------------------------------------
LEMMA NextIInv ==
    ASSUME IInv, [Next]_vars
    PROVE  IInv'
<1>1. CASE MainStep
  BY <1>1, OnLinkGetKeeps, OnGetLinkFailedKeeps, ContinueWithFailedFileKeeps, CancelKeeps,
     RetryKeeps, OnGetFileUploadedBytesKeeps, OnPostFileTaskFinishedKeeps,
     HandleDestroyKeeps, HandleDestroyRelKeeps, DropEventKeeps DEF MainStep
<1>2. CASE WorkerStep
  BY <1>2, ReportsKeep, SendRequestKeeps, CancelPostKeeps, DestroyPostKeeps DEF WorkerStep
<1>3. CASE ServerStep
  BY <1>3, ServerTakesKeeps, AnswerUploadedBytesKeeps DEF ServerStep
<1>4. CASE \E size \in Sizes : Edit(size)
  BY <1>4, EditKeeps
<1>5. CASE UNCHANGED vars
  <2>1. Types
    BY TypesUnfolded DEF IInv
  <2>2. TypeOK'
    BY <1>5, <2>1, TypesUnfolded DEF vars, Types
  <2> QED
    BY <1>5, <2>2 DEF vars, IInv, LifeInv, ActivityInv, PieceInv, ServerInv, UnderWay, LateInv,
                      Possible, SuccessIsCommitted
<1> QED
  BY <1>1, <1>2, <1>3, <1>4, <1>5 DEF Next

LEMMA Invariance == Spec => []IInv
<1>1. IInv /\ [Next]_vars => IInv'
  BY NextIInv
<1> QED
  BY <1>1, InitIInv, PTL DEF Spec

\* In every reachable state of FileUpload the variables have their types; offsets
\* stay within the largest size and retries within their limit.
THEOREM TypeCorrect == Spec => []TypeOK
<1>1. IInv => TypeOK
  BY DEF IInv
<1> QED
  BY <1>1, Invariance, PTL

\* A success that is reported means that the server has committed the whole file,
\* for any sizes of file and chunks and any number of retries.
THEOREM SuccessIsTrue == Spec => []SuccessIsCommitted
<1>1. IInv => SuccessIsCommitted
  BY DEF IInv
<1> QED
  BY <1>1, Invariance, PTL

\* No chunk is sent that lies beyond what the server has.
THEOREM NoGapIsSent == Spec => []NoGap
<1>1. IInv => NoGap
  BY DEF IInv, ServerInv, UnderWay, NoGap
<1> QED
  BY <1>1, Invariance, PTL

\* The user is asked about a failed file only when nothing is in flight.
THEOREM AskedOnlyAtRest == Spec => []AskedAtRest
<1>1. IInv => AskedAtRest
  BY DEF IInv, LifeInv, AskedAtRest
<1> QED
  BY <1>1, Invariance, PTL

\* At most two more pieces are sent after a cancel.
THEOREM CancelStops == Spec => []CancelStopsSoon
<1>1. IInv => CancelStopsSoon
  <2>1. TypeOK => hist.late \in Nat
    BY TypesUnfolded DEF Types, HistType
  <2> QED
    BY <2>1 DEF IInv, LateInv, Possible, CancelStopsSoon
<1> QED
  BY <1>1, Invariance, PTL

=============================================================================
